---------------------------- MODULE HierarchyMC ----------------------------
EXTENDS Hierarchy

\* Rank 3 is on the socket of rank 2 because it may run on either: a chain of three
\* levels below rank 0.
Chain ==
  [three |-> TRUE, algs |-> <<"Offset", "LM", "Offset">>,
   node    |-> [r \in Rank |-> IF r = 0 THEN 0 ELSE 1],
   binding |-> [r \in Rank |-> CASE r = 1 -> {1} [] r = 3 -> {0, 1} [] OTHER -> {0}],
   skew    |-> [r \in Rank |-> 10 * r]]

\* Ranks dealt out to two nodes; each node has a time source, which its ranks copy.
DealtNode == [r \in Rank |-> r % 2]
Dealt(three, algs) ==
  [three |-> three, algs |-> algs,
   node    |-> DealtNode,
   binding |-> [r \in Rank |-> IF r = 3 THEN {1} ELSE {0}],
   skew    |-> [r \in Rank |-> 10 * DealtNode[r]]]

\* With HCA3O above, HCA3 above, and the propagation between sockets as well.
MCSettings ==
  {Chain, Dealt(TRUE, <<"Offset", "LM", "prop">>), Dealt(FALSE, <<"Offset", "prop">>),
   Dealt(TRUE, <<"LM", "prop", "LM">>), Dealt(FALSE, <<"LM", "prop">>)}
=============================================================================
