------------------------------- MODULE MC_Bots -------------------------------
(* A small instance of BotRegistry: an owner o, two workspaces that own       *)
(* nothing, and o's rows in the middle of a migration or before any.          *)
EXTENDS BotRegistry

CONSTANTS o, w, w2, k1, k2, kbGroup, otherAgent

Bot(kbs, gids) == [kbs |-> kbs, kb_group_ids |-> gids]
Group(ids) == [x \in {kbGroup} |-> ids]
Doc(bot, groups, bgs) == [bot |-> bot, kb_groups |-> groups, bot_groups |-> bgs]

Empty == Doc(NoBot, <<>>, <<>>)
Rich == Doc(Bot(<<k1>>, <<kbGroup>>), Group(<<k1, k2>>), <<[bot_ids |-> {Agent}, kbs |-> <<k1>>, kb_group_ids |-> <<kbGroup>>]>>)
GroupOnly == Doc(NoBot, Group(<<k1>>), <<[bot_ids |-> {otherAgent}, kbs |-> <<k2>>, kb_group_ids |-> <<kbGroup>>]>>)

Kbs == {k1, k2}
Groups == {kbGroup}
Bots == {Agent, otherAgent}
Docs == {Empty, Rich, GroupOnly}

Layout(ws, member) ==
    [t \in {o, w, w2} |-> [s \in Scopes |-> IF s = "member" THEN (IF t = o THEN member ELSE NoRow)
                                         ELSE IF t = o THEN ws ELSE Empty]]
Start == {Layout(GroupOnly, Rich), Layout(NoRow, Empty)}

Symmetry == {p @@ q : p \in Permutations(Calls), q \in Permutations({w, w2})}
=============================================================================
