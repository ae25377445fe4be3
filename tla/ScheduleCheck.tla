--------------------------- MODULE ScheduleCheck ---------------------------
(***************************************************************************)
(* Who measures with whom, for every number of processes up to MaxProcs:   *)
(* the rounds that HCA3 and its relatives work out on one communicator.    *)
(* And for every placement of up to MaxPlaced of them on nodes and         *)
(* sockets: the communicators of the levels of Topo1 and Topo2.  Ranks are *)
(* added one after another.                                                *)
(***************************************************************************)
EXTENDS HCATree, Topology

CONSTANTS
  MaxProcs, MaxPlaced,  \* bounds on the number of processes
  Nodes,
  Bindings              \* the sets of sockets a rank may be bound to

ASSUME ScheduleCheckAssumption ==
  /\ MaxProcs \in Nat \ {0} /\ MaxPlaced \in 0..MaxProcs
  /\ IsFiniteSet(Nodes)
  /\ \A sockets \in Bindings : sockets \subseteq Nat /\ IsFiniteSet(sockets)

VARIABLES
  size,
  node, binding  \* of the ranks that are placed

cases == <<size, node, binding>>

Member == 0..(size - 1)
Round == 0..NRounds(size)

\* Where there are too many ranks to place them, rank 0 stands for all.
AllOnOne == [r \in {0} |-> 0]

With(f, r, value) == [s \in DOMAIN f \cup {r} |-> IF s = r THEN value ELSE f[s]]

FirstCase ==
  /\ size = 1
  /\ node \in [{0} -> Nodes]
  /\ binding \in [{0} -> Bindings]

NextCase ==
  /\ size < MaxProcs
  /\ size' = size + 1
  /\ IF size < MaxPlaced
     THEN /\ \E n \in Nodes : node' = With(node, size, n)
          /\ \E b \in Bindings : binding' = With(binding, size, b)
     ELSE node' = AllOnOne /\ binding' = [r \in {0} |-> {}]

AllCases == FirstCase /\ [][NextCase]_cases

-----------------------------------------------------------------------------
(* Rounds                                                                  *)

\* The two ranks of a call exist, are different and make the same call in the same
\* round, so that no receive of a synchronisation waits for a rank that is
\* measuring with somebody else.
CallsMatch ==
  \A r \in Member, i \in Round : \A call \in Call(size, i, r) :
    /\ call[1] \in Member /\ call[2] \in Member /\ call[1] # call[2]
    /\ Call(size, i, call[1]) = {call} /\ Call(size, i, call[2]) = {call}

\* Every rank but the root learns a clock exactly once, and from a rank that has
\* learned its own in an earlier round (rounds count down in HCA3 and HCA3O).
LearnsOnceFromSettled ==
  \A r \in Member :
    IF r = 0 THEN ClientRounds(size, r) = {}
    ELSE /\ Cardinality(ClientRounds(size, r)) = 1
         /\ ParentOf(size, r) = 0
            \/ LearnRound(size, ParentOf(size, r)) > LearnRound(size, r)

\* The errors of measurements add up along a path no longer than the number of
\* rounds: one level for each round, the last one included when it is used.
LogarithmicDepth ==
  \A r \in Member : DepthOf(size, r) <=
    NRounds(size) + (IF size > MaxPowerTwo(size) THEN 1 ELSE 0)

-----------------------------------------------------------------------------
(* Levels                                                                  *)

LevelsOf(three, r) ==
  IF three THEN Levels3(node, binding, r) ELSE Levels2(node, r)

\* Wherever the ranks run, also where no socket is known: rank 0 keeps its clock,
\* every other rank takes its clock from another one at exactly one level, and from
\* one that has its own from a level before.
SettledLevelByLevel ==
  \A three \in BOOLEAN : \A r \in DOMAIN node :
    LET levels == LevelsOf(three, r)
    IN  IF r = 0 THEN Attached(levels, r) = {}
        ELSE \E l \in DOMAIN levels :
               /\ Attached(levels, r) = {l}
               /\ LET leader == Leader(levels[l])
                  IN  \A k \in Attached(LevelsOf(three, leader), leader) : k < l

\* Only ranks of one node measure with each other below the first level, and only
\* ranks that all run on the same socket at the last level of three, wherever it is
\* not socket 0, which stands for those that are bound to none or to several.
StaysLocal ==
  \A r \in DOMAIN node :
    /\ \A l \in {2, 3} : \A s \in Levels3(node, binding, r)[l] : node[s] = node[r]
    /\ \A s \in Levels3(node, binding, r)[3] :
         Cardinality(binding[r]) = 1 /\ 0 \notin binding[r] => binding[s] = binding[r]
=============================================================================
