------------------------------ MODULE MC_Config ------------------------------
(* A small instance of BotConfig: every tool, with a complete argument list,  *)
(* an empty one, and the ones in between that its checks tell apart.          *)
EXTENDS BotConfig, TLC

Complete ==
    [t \in {"create_identity", "create_intent"} |-> {{"name", "bot"}, {}}]
    @@ ("create_identity" :> {{"name", "bot"}, {"name", "bot", "is_active"}})
    @@ ("update_identity" :> {{"persona"}, {"label", "is_active"}, {}})
    @@ [t \in {"activate_identity", "publish_painter", "test_action_schema"} |-> {{"id"}, {}}]
    @@ ("update_intent" :> {{"name", "bot"}, {"examples"}, {"bot"}})
    @@ ("update_decision_rule" :> {{"pattern"}, {"id", "label", "threshold"}})
    @@ ("update_action_schema" :> {{"label"}, {}})
    @@ ("create_decision_rule" :> {{"name", "pattern"}, {"name"}})
    @@ ("create_action_schema" :> {{"name", "connector", "operation"}})
    @@ ("create_painter" :> {{"name"}, {"name", "custom"}})
    @@ [t \in {"set_bot_prompt", "set_bot_memory_policy"} |-> {{"bot", "value"}, {"bot"}}]
    @@ [t \in {"deploy_bot", "create_demo", "get_bot_config"} |-> {{"bot"}}]
    @@ ("set_bot_variables" :> {{"bot", "value"}, {"bot", "value", "empty"}})
    @@ ("set_bot_knowledge_groups" :> {{"bot", "with_id"}, {"bot", "without_id"}})
    @@ ("set_bot_signals" :> {{"bot"}, {"bot", "with_id", "without_id"}, {"bot", "without_id"}})
    @@ ("chat_with_bot" :> {{"bot", "message"}, {"bot", "message", "conversation"}})
    @@ [t \in {"create_bot", "create_knowledge_base"} |-> {{"name"}, {}}]
    @@ ("ingest_url" :> {{"id", "url"}})
    @@ [t \in {"create_tms_epic", "create_tms_sprint", "create_tms_ticket"} |-> {{}, {"parent"}}]
    @@ ("meeting_context_query" :> {{"id"}, {}})
    @@ [t \in {"create_tms_goal", "get_delegation_rules", "lists"} |-> {{}}]

Symmetry == Permutations(Callers)
=============================================================================
