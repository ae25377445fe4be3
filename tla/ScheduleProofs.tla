--------------------------- MODULE ScheduleProofs ---------------------------
(***************************************************************************)
(* The rounds of HCA3 and its relatives for any number of processes, and   *)
(* the communicators of the levels for any number of ranks, wherever each  *)
(* of them is placed.  The lemmas on Call, the rounds, powers of two and   *)
(* leaders are what the proofs about the algorithms rest on.               *)
(***************************************************************************)
EXTENDS ScheduleCheck, FiniteSetTheorems, WellFoundedInduction, TLAPS

\* The levels of Topo1 (three) and Topo2.
LevelsIn(three, nodes, sockets, r) ==
  IF three THEN Levels3(nodes, sockets, r) ELSE Levels2(nodes, r)
NLevelsOf(three) == IF three THEN 3 ELSE 2

\* The ranks are numbers, one of them is 0.
Ranked(nodes) == DOMAIN nodes \subseteq Nat /\ 0 \in DOMAIN nodes

-----------------------------------------------------------------------------
(* Least numbers and leaders                                               *)

\* A set of numbers that is not empty has a least one: induction below is by the least
\* counterexample.
LEMMA LeastNumber ==
  ASSUME NEW T \in SUBSET Nat, T # {}
  PROVE  \E x \in T : \A y \in T : x <= y
<1>1. PICK x \in T : \A y \in T : ~(<<y, x>> \in OpToRel(<, Nat))
  BY NatLessThanWellFounded, WFMin
<1>2. ASSUME NEW y \in T PROVE x <= y
  <2>1. x \in Nat /\ y \in Nat /\ <<y, x>> \in Nat \X Nat
    OBVIOUS
  <2>2. ~(<<y, x>> \in {ss \in Nat \X Nat : ss[1] < ss[2]})
    BY <1>1 DEF OpToRel
  <2>3. ~(y < x)
    BY <2>1, <2>2
  <2> QED BY <2>1, <2>3
<1> QED BY <1>2

LEMMA LeaderIsLeast ==
  ASSUME NEW comm \in SUBSET Nat, comm # {}
  PROVE  Leader(comm) \in comm /\ \A s \in comm : Leader(comm) <= s
<1>1. \E x \in comm : \A y \in comm : x <= y
  BY LeastNumber
<1> QED BY <1>1 DEF Leader, Min

LEMMA LeaderIs ==
  ASSUME NEW comm \in SUBSET Nat, NEW x \in comm, \A y \in comm : x <= y
  PROVE  Leader(comm) = x
<1>1. Leader(comm) \in comm /\ Leader(comm) <= x
  BY LeaderIsLeast
<1>2. x <= Leader(comm) /\ x \in Nat /\ Leader(comm) \in Nat
  BY <1>1
<1> QED BY <1>1, <1>2

LEMMA Sharing ==
  ASSUME NEW nodes, NEW sockets, NEW r \in DOMAIN nodes
  PROVE  /\ r \in Intrasocket(nodes, sockets, r)
         /\ Intrasocket(nodes, sockets, r) \subseteq Intranode(nodes, r)
         /\ Intranode(nodes, r) \subseteq DOMAIN nodes
         /\ \A s \in Intranode(nodes, r) : Intranode(nodes, s) = Intranode(nodes, r)
         /\ \A s \in Intrasocket(nodes, sockets, r) :
              Intrasocket(nodes, sockets, s) = Intrasocket(nodes, sockets, r)
<1>1. r \in Intranode(nodes, r) /\ Intranode(nodes, r) \subseteq DOMAIN nodes
  BY DEF Intranode
<1>2. \A s \in Intranode(nodes, r) : Intranode(nodes, s) = Intranode(nodes, r)
  BY DEF Intranode
<1>3. r \in Intrasocket(nodes, sockets, r)
      /\ Intrasocket(nodes, sockets, r) \subseteq Intranode(nodes, r)
  BY <1>1 DEF Intrasocket
<1>4. \A s \in Intrasocket(nodes, sockets, r) :
        Intrasocket(nodes, sockets, s) = Intrasocket(nodes, sockets, r)
  BY <1>2 DEF Intrasocket
<1> QED BY <1>1, <1>2, <1>3, <1>4

\* The leaders of nodes, and of a node's sockets.
LEMMA LeadersOfNodes ==
  ASSUME NEW nodes, Ranked(nodes), NEW r \in DOMAIN nodes
  PROVE  r \in Internode(nodes) <=> r = Leader(Intranode(nodes, r))
<1>1. ASSUME r \in Internode(nodes) PROVE r = Leader(Intranode(nodes, r))
  <2>1. PICK s \in DOMAIN nodes : r = Leader(Intranode(nodes, s))
    BY <1>1 DEF Internode, Interlevel
  <2>2. r \in Intranode(nodes, s)
    BY <2>1, LeaderIsLeast, Sharing DEF Ranked, Intranode
  <2> QED BY <2>1, <2>2, Sharing
<1>2. ASSUME r = Leader(Intranode(nodes, r)) PROVE r \in Internode(nodes)
  BY <1>2 DEF Internode, Interlevel
<1> QED BY <1>1, <1>2

LEMMA LeadersOfSockets ==
  ASSUME NEW nodes, Ranked(nodes), NEW sockets, NEW r \in DOMAIN nodes, NEW s
  PROVE  s \in Intersocket(nodes, sockets, r)
           <=> s \in Intranode(nodes, r) /\ s = Leader(Intrasocket(nodes, sockets, s))
<1>1. ASSUME s \in Intersocket(nodes, sockets, r)
      PROVE  s \in Intranode(nodes, r) /\ s = Leader(Intrasocket(nodes, sockets, s))
  <2>1. PICK t \in Intranode(nodes, r) : s = Leader(Intrasocket(nodes, sockets, t))
    BY <1>1 DEF Intersocket, Interlevel
  <2>2. t \in DOMAIN nodes /\ Intranode(nodes, t) = Intranode(nodes, r)
    BY Sharing
  <2>3. s \in Intrasocket(nodes, sockets, t)
    BY <2>1, <2>2, LeaderIsLeast, Sharing DEF Ranked
  <2> QED BY <2>1, <2>2, <2>3, Sharing
<1>2. ASSUME s \in Intranode(nodes, r), s = Leader(Intrasocket(nodes, sockets, s))
      PROVE  s \in Intersocket(nodes, sockets, r)
  BY <1>2 DEF Intersocket, Interlevel
<1> QED BY <1>1, <1>2

\* The leader of a node leads its own socket, and the leaders of sockets; rank 0 leads
\* the leaders of nodes.
LEMMA WhoLeads ==
  ASSUME NEW nodes, Ranked(nodes), NEW sockets, NEW r \in DOMAIN nodes
  PROVE  LET leader == Leader(Intranode(nodes, r)) IN
         /\ leader \in Intranode(nodes, r)
         /\ leader = Leader(Intrasocket(nodes, sockets, leader))
         /\ leader = Leader(Intersocket(nodes, sockets, r))
         /\ Leader(Internode(nodes)) = 0
         /\ 0 = Leader(Intranode(nodes, 0))
<1> DEFINE leader == Leader(Intranode(nodes, r))
<1>1. leader \in Intranode(nodes, r) /\ \A s \in Intranode(nodes, r) : leader <= s
  BY LeaderIsLeast, Sharing DEF Ranked
<1> HIDE DEF leader
<1>2. leader \in DOMAIN nodes /\ Intranode(nodes, leader) = Intranode(nodes, r)
  BY <1>1, Sharing
<1>3. leader = Leader(Intrasocket(nodes, sockets, leader))
  <2>1. leader \in Intrasocket(nodes, sockets, leader)
        /\ Intrasocket(nodes, sockets, leader) \subseteq Intranode(nodes, r)
        /\ Intranode(nodes, r) \subseteq Nat
    BY <1>2, Sharing DEF Ranked
  <2> QED BY <1>1, <2>1, LeaderIs
<1>4. leader = Leader(Intersocket(nodes, sockets, r))
  <2>1. leader \in Intersocket(nodes, sockets, r)
    BY <1>1, <1>3, LeadersOfSockets
  <2>2. Intersocket(nodes, sockets, r) \subseteq Intranode(nodes, r)
        /\ Intranode(nodes, r) \subseteq Nat
    BY LeadersOfSockets, Sharing DEF Ranked
  <2> QED BY <1>1, <2>1, <2>2, LeaderIs
<1>5. 0 = Leader(Intranode(nodes, 0))
  BY LeaderIs, Sharing DEF Ranked
<1>6. Leader(Internode(nodes)) = 0
  <2>1. 0 \in Internode(nodes)
    BY <1>5, LeadersOfNodes DEF Ranked
  <2>2. \A s \in DOMAIN nodes : Leader(Intranode(nodes, s)) \in DOMAIN nodes
    BY LeaderIsLeast, Sharing DEF Ranked
  <2>3. Internode(nodes) \subseteq Nat
    BY <2>2 DEF Internode, Interlevel, Ranked
  <2> QED BY <2>1, <2>3, LeaderIs
<1> QED BY <1>1, <1>3, <1>4, <1>5, <1>6 DEF leader

-----------------------------------------------------------------------------
(* Levels                                                                  *)

LEMMA LevelDomain ==
  ASSUME NEW nodes, NEW sockets, NEW r, NEW three \in BOOLEAN
  PROVE  DOMAIN LevelsIn(three, nodes, sockets, r) = 1..NLevelsOf(three)
<1>1. CASE three
  BY <1>1 DEF LevelsIn, NLevelsOf, Levels3
<1>2. CASE ~three
  BY <1>2 DEF LevelsIn, NLevelsOf, Levels2
<1> QED BY <1>1, <1>2

\* r is in its communicator of a level, if it has one, and so is who it is with.
LEMMA LevelMembers ==
  ASSUME NEW nodes, Ranked(nodes), NEW sockets, NEW three \in BOOLEAN,
         NEW r \in DOMAIN nodes, NEW l \in 1..NLevelsOf(three),
         NEW s \in LevelsIn(three, nodes, sockets, r)[l]
  PROVE  /\ r \in LevelsIn(three, nodes, sockets, r)[l]
         /\ s \in DOMAIN nodes
         /\ LevelsIn(three, nodes, sockets, s)[l] = LevelsIn(three, nodes, sockets, r)[l]
<1>1. \A t \in DOMAIN nodes : Leader(Intranode(nodes, t)) \in DOMAIN nodes
  BY LeaderIsLeast, Sharing DEF Ranked
<1>2. Internode(nodes) \subseteq DOMAIN nodes
  BY <1>1 DEF Internode, Interlevel
<1>3. Intersocket(nodes, sockets, r) \subseteq Intranode(nodes, r)
      /\ Intranode(nodes, r) \subseteq DOMAIN nodes
      /\ Intrasocket(nodes, sockets, r) \subseteq Intranode(nodes, r)
      /\ r \in Intrasocket(nodes, sockets, r)
  BY LeadersOfSockets, Sharing
<1>4. \A t \in Intranode(nodes, r) :
        Intersocket(nodes, sockets, t) = Intersocket(nodes, sockets, r)
  BY Sharing DEF Intersocket
<1>5. CASE three /\ l = 1
  BY <1>2, <1>5 DEF LevelsIn, Levels3, IfMember
<1>6. CASE three /\ l = 2
  BY <1>3, <1>4, <1>6 DEF LevelsIn, Levels3, IfMember
<1>7. CASE three /\ l = 3
  BY <1>3, <1>7, Sharing DEF LevelsIn, Levels3
<1>8. CASE ~three /\ l = 1
  BY <1>2, <1>8 DEF LevelsIn, Levels2, IfMember
<1>9. CASE ~three /\ l = 2
  BY <1>3, <1>9, Sharing DEF LevelsIn, Levels2
<1> QED BY <1>5, <1>6, <1>7, <1>8, <1>9 DEF NLevelsOf

\* Which ranks have a communicator at a level, and which take their clock there.
LEMMA ThreeLevels ==
  ASSUME NEW nodes, Ranked(nodes), NEW sockets, NEW r \in DOMAIN nodes
  PROVE  LET levels == Levels3(nodes, sockets, r)
             leadsSocket == r = Leader(Intrasocket(nodes, sockets, r))
             leadsNode == r = Leader(Intranode(nodes, r))
         IN  /\ leadsNode => leadsSocket
             /\ r = 0 => leadsNode
             /\ levels[1] # {} => leadsNode /\ Leader(levels[1]) = 0
             /\ levels[2] # {} => leadsSocket /\ Leader(levels[2]) = Leader(Intranode(nodes, r))
             /\ levels[3] = Intrasocket(nodes, sockets, r) /\ levels[3] # {}
             /\ 1 \in Attached(levels, r) <=> leadsNode /\ r # 0
             /\ 2 \in Attached(levels, r) <=> leadsSocket /\ ~leadsNode
             /\ 3 \in Attached(levels, r) <=> ~leadsSocket
             /\ Attached(levels, r) \subseteq 1..3
<1> DEFINE levels == Levels3(nodes, sockets, r)
           leadsSocket == r = Leader(Intrasocket(nodes, sockets, r))
           leadsNode == r = Leader(Intranode(nodes, r))
<1>1. /\ levels[1] = IfMember(Internode(nodes), r)
      /\ levels[2] = IfMember(Intersocket(nodes, sockets, r), r)
      /\ levels[3] = Intrasocket(nodes, sockets, r) /\ DOMAIN levels = 1..3
  BY DEF Levels3
<1>2. r \in Internode(nodes) <=> leadsNode
  BY LeadersOfNodes
<1>3. r \in Intersocket(nodes, sockets, r) <=> leadsSocket
  BY LeadersOfSockets, Sharing
<1>4. /\ Leader(Internode(nodes)) = 0 /\ 0 = Leader(Intranode(nodes, 0))
      /\ Leader(Intersocket(nodes, sockets, r)) = Leader(Intranode(nodes, r))
      /\ leadsNode => leadsSocket
  BY WhoLeads
<1>5. levels[3] # {}
  BY <1>1, Sharing
<1> HIDE DEF levels
<1> HIDE DEF leadsSocket, leadsNode
<1>6. \/ levels[1] = {} /\ ~leadsNode
      \/ levels[1] = Internode(nodes) /\ levels[1] # {} /\ leadsNode
  BY <1>1, <1>2 DEF IfMember
<1>7. \/ levels[2] = {} /\ ~leadsSocket
      \/ levels[2] = Intersocket(nodes, sockets, r) /\ levels[2] # {} /\ leadsSocket
  BY <1>1, <1>3 DEF IfMember
<1>8. \A l \in 1..3 : l \in Attached(levels, r) <=> levels[l] # {} /\ r # Leader(levels[l])
  BY <1>1 DEF Attached
<1>9. Attached(levels, r) \subseteq 1..3
  BY <1>1 DEF Attached
<1>10. 1 \in Attached(levels, r) <=> leadsNode /\ r # 0
  BY <1>4, <1>6, <1>8
<1>11. 2 \in Attached(levels, r) <=> leadsSocket /\ ~leadsNode
  BY <1>4, <1>7, <1>8 DEF leadsNode
<1>12. 3 \in Attached(levels, r) <=> ~leadsSocket
  BY <1>1, <1>5, <1>8 DEF leadsSocket
<1>13. r = 0 => leadsNode
  BY <1>4 DEF leadsNode
<1> QED BY <1>1, <1>4, <1>5, <1>6, <1>7, <1>9, <1>10, <1>11, <1>12, <1>13
        DEF levels, leadsSocket, leadsNode

LEMMA TwoLevels ==
  ASSUME NEW nodes, Ranked(nodes), NEW r \in DOMAIN nodes
  PROVE  LET levels == Levels2(nodes, r)
             leadsNode == r = Leader(Intranode(nodes, r))
         IN  /\ r = 0 => leadsNode
             /\ levels[1] # {} => leadsNode /\ Leader(levels[1]) = 0
             /\ levels[2] = Intranode(nodes, r) /\ levels[2] # {}
             /\ 1 \in Attached(levels, r) <=> leadsNode /\ r # 0
             /\ 2 \in Attached(levels, r) <=> ~leadsNode
             /\ Attached(levels, r) \subseteq 1..2
<1> DEFINE levels == Levels2(nodes, r)
           leadsNode == r = Leader(Intranode(nodes, r))
<1>1. /\ levels[1] = IfMember(Internode(nodes), r)
      /\ levels[2] = Intranode(nodes, r) /\ DOMAIN levels = 1..2
  BY DEF Levels2
<1>2. r \in Internode(nodes) <=> leadsNode
  BY LeadersOfNodes
<1>3. Leader(Internode(nodes)) = 0 /\ 0 = Leader(Intranode(nodes, 0))
  BY WhoLeads
<1>4. levels[2] # {}
  BY <1>1 DEF Intranode
<1> HIDE DEF levels, leadsNode
<1>5. \/ levels[1] = {} /\ ~leadsNode
      \/ levels[1] = Internode(nodes) /\ levels[1] # {} /\ leadsNode
  BY <1>1, <1>2 DEF IfMember
<1>6. \A l \in 1..2 : l \in Attached(levels, r) <=> levels[l] # {} /\ r # Leader(levels[l])
  BY <1>1 DEF Attached
<1>7. Attached(levels, r) \subseteq 1..2
  BY <1>1 DEF Attached
<1>8. 1 \in Attached(levels, r) <=> leadsNode /\ r # 0
  BY <1>3, <1>5, <1>6
<1>9. 2 \in Attached(levels, r) <=> ~leadsNode
  BY <1>1, <1>4, <1>6 DEF leadsNode
<1>10. r = 0 => leadsNode
  BY <1>3 DEF leadsNode
<1> QED BY <1>1, <1>3, <1>4, <1>5, <1>7, <1>8, <1>9, <1>10 DEF levels, leadsNode

\* Rank 0 takes its clock from nobody, every other rank at one level.
LEMMA AttachedOnce ==
  ASSUME NEW nodes, Ranked(nodes), NEW sockets, NEW three \in BOOLEAN, NEW r \in DOMAIN nodes
  PROVE  /\ r = 0 => Attached(LevelsIn(three, nodes, sockets, r), r) = {}
         /\ r # 0 => \E l \in 1..NLevelsOf(three) :
                       Attached(LevelsIn(three, nodes, sockets, r), r) = {l}
<1>1. CASE three
  <2> DEFINE levels == Levels3(nodes, sockets, r)
             leadsSocket == r = Leader(Intrasocket(nodes, sockets, r))
             leadsNode == r = Leader(Intranode(nodes, r))
  <2>1. /\ leadsNode => leadsSocket
        /\ r = 0 => leadsNode
        /\ 1 \in Attached(levels, r) <=> leadsNode /\ r # 0
        /\ 2 \in Attached(levels, r) <=> leadsSocket /\ ~leadsNode
        /\ 3 \in Attached(levels, r) <=> ~leadsSocket
        /\ Attached(levels, r) \subseteq 1..3
    BY ThreeLevels
  <2> HIDE DEF levels, leadsSocket, leadsNode
  <2>2. IF r = 0 THEN Attached(levels, r) = {} ELSE \E l \in 1..3 : Attached(levels, r) = {l}
    BY <2>1
  <2> QED BY <1>1, <2>2 DEF LevelsIn, NLevelsOf, levels
<1>2. CASE ~three
  <2> DEFINE levels == Levels2(nodes, r)
             leadsNode == r = Leader(Intranode(nodes, r))
  <2>1. /\ r = 0 => leadsNode
        /\ 1 \in Attached(levels, r) <=> leadsNode /\ r # 0
        /\ 2 \in Attached(levels, r) <=> ~leadsNode
        /\ Attached(levels, r) \subseteq 1..2
    BY TwoLevels
  <2> HIDE DEF levels, leadsNode
  <2>2. IF r = 0 THEN Attached(levels, r) = {} ELSE \E l \in 1..2 : Attached(levels, r) = {l}
    BY <2>1
  <2> QED BY <1>2, <2>2 DEF LevelsIn, NLevelsOf, levels
<1> QED BY <1>1, <1>2

\* Who leads a level has its own clock from a level before.
LEMMA LeadersAreSettled ==
  ASSUME NEW nodes, Ranked(nodes), NEW sockets, NEW three \in BOOLEAN, NEW r \in DOMAIN nodes,
         NEW l \in 1..NLevelsOf(three),
         LevelsIn(three, nodes, sockets, r)[l] # {},
         r = Leader(LevelsIn(three, nodes, sockets, r)[l])
  PROVE  \A k \in Attached(LevelsIn(three, nodes, sockets, r), r) : k < l
<1>1. CASE three
  <2> DEFINE levels == Levels3(nodes, sockets, r)
             leadsSocket == r = Leader(Intrasocket(nodes, sockets, r))
             leadsNode == r = Leader(Intranode(nodes, r))
  <2>1. /\ leadsNode => leadsSocket
        /\ levels[1] # {} => leadsNode /\ Leader(levels[1]) = 0
        /\ levels[2] # {} => leadsSocket /\ Leader(levels[2]) = Leader(Intranode(nodes, r))
        /\ levels[3] = Intrasocket(nodes, sockets, r)
        /\ 1 \in Attached(levels, r) <=> leadsNode /\ r # 0
        /\ 2 \in Attached(levels, r) <=> leadsSocket /\ ~leadsNode
        /\ 3 \in Attached(levels, r) <=> ~leadsSocket
        /\ Attached(levels, r) \subseteq 1..3
    BY ThreeLevels
  <2>2. levels[l] # {} /\ r = Leader(levels[l]) /\ l \in 1..3
    BY <1>1 DEF LevelsIn, NLevelsOf
  <2>3. (l = 2 => leadsNode) /\ (l = 3 => leadsSocket)
    BY <2>1, <2>2
  <2> HIDE DEF levels, leadsSocket, leadsNode
  <2>4. \A k \in Attached(levels, r) : k < l
    BY <2>1, <2>2, <2>3
  <2> QED BY <1>1, <2>4 DEF LevelsIn, levels
<1>2. CASE ~three
  <2> DEFINE levels == Levels2(nodes, r)
             leadsNode == r = Leader(Intranode(nodes, r))
  <2>1. /\ levels[1] # {} => leadsNode /\ Leader(levels[1]) = 0
        /\ levels[2] = Intranode(nodes, r)
        /\ 1 \in Attached(levels, r) <=> leadsNode /\ r # 0
        /\ 2 \in Attached(levels, r) <=> ~leadsNode
        /\ Attached(levels, r) \subseteq 1..2
    BY TwoLevels
  <2>2. levels[l] # {} /\ r = Leader(levels[l]) /\ l \in 1..2
    BY <1>2 DEF LevelsIn, NLevelsOf
  <2>3. l = 2 => leadsNode
    BY <2>1, <2>2
  <2> HIDE DEF levels, leadsNode
  <2>4. \A k \in Attached(levels, r) : k < l
    BY <2>1, <2>2, <2>3
  <2> QED BY <1>2, <2>4 DEF LevelsIn, levels
<1> QED BY <1>1, <1>2

\* The leader of r at a level r takes its clock at, as that leader sees it.
LEMMA LeaderOfLevel ==
  ASSUME NEW nodes, Ranked(nodes), NEW sockets, NEW three \in BOOLEAN, NEW r \in DOMAIN nodes,
         NEW l \in Attached(LevelsIn(three, nodes, sockets, r), r)
  PROVE  LET comm == LevelsIn(three, nodes, sockets, r)[l]
             leader == Leader(comm)
         IN  /\ l \in 1..NLevelsOf(three)
             /\ leader \in DOMAIN nodes /\ leader \in comm /\ r \in comm /\ leader # r
             /\ LevelsIn(three, nodes, sockets, leader)[l] = comm
             /\ \A k \in Attached(LevelsIn(three, nodes, sockets, leader), leader) : k < l
<1> DEFINE comm == LevelsIn(three, nodes, sockets, r)[l]
           leader == Leader(comm)
<1>1. l \in 1..NLevelsOf(three) /\ comm # {} /\ leader # r
  BY LevelDomain DEF Attached
<1>2. comm \subseteq DOMAIN nodes /\ r \in comm
  BY <1>1, LevelMembers
<1>3. leader \in comm
  <2> HIDE DEF comm
  <2> QED BY <1>1, <1>2, LeaderIsLeast DEF Ranked
<1>4. leader \in DOMAIN nodes
  BY <1>2, <1>3
<1>5. LevelsIn(three, nodes, sockets, leader)[l] = comm
  BY <1>1, <1>3, LevelMembers
<1>6. \A k \in Attached(LevelsIn(three, nodes, sockets, leader), leader) : k < l
  BY <1>1, <1>4, <1>5, LeadersAreSettled
<1> QED BY <1>1, <1>2, <1>3, <1>4, <1>5, <1>6

-----------------------------------------------------------------------------
(* Recursion                                                               *)

\* The values of f from 0 to m follow from those at smaller numbers.
Computes(f, m, first, below, next) ==
  /\ f \in [0..m -> Nat]
  /\ \A s \in 0..m : f[s] = IF s = 0 THEN first ELSE next[f[below[s]]]

LEMMA ComputedOnce ==
  ASSUME NEW S \in SUBSET Nat, NEW below \in [S -> Nat],
         \A s \in S : s # 0 => below[s] < s,
         NEW first \in Nat, NEW next \in [Nat -> Nat]
  PROVE  \A m, k \in Nat : \A f, g :
           0..m \subseteq S /\ Computes(f, m, first, below, next)
             /\ Computes(g, k, first, below, next)
           => \A s \in 0..m : s <= k => f[s] = g[s]
<1> SUFFICES ASSUME NEW m \in Nat, NEW k \in Nat, NEW f, NEW g, 0..m \subseteq S,
                    Computes(f, m, first, below, next), Computes(g, k, first, below, next)
             PROVE  \A s \in 0..m : s <= k => f[s] = g[s]
  OBVIOUS
<1> DEFINE T == {x \in 0..m : x <= k /\ f[x] # g[x]}
<1>1. SUFFICES ASSUME T # {} PROVE FALSE
  OBVIOUS
<1>2. PICK x \in T : \A y \in T : x <= y
  BY <1>1, LeastNumber
<1>3. x \in 0..m /\ x <= k /\ f[x] # g[x] /\ x \in S
  OBVIOUS
<1>4. CASE x = 0
  BY <1>3, <1>4 DEF Computes
<1>5. CASE x # 0
  <2>1. below[x] < x /\ below[x] \in Nat
    BY <1>3, <1>5
  <2>2. below[x] \in 0..m /\ below[x] <= k /\ below[x] \notin T
    BY <1>2, <1>3, <2>1
  <2>3. f[below[x]] = g[below[x]]
    BY <2>2
  <2>4. f[x] = next[f[below[x]]]
    BY <1>3, <1>5 DEF Computes
  <2>5. x \in 0..k
    BY <1>3
  <2>6. g[x] = next[g[below[x]]]
    BY <1>5, <2>5 DEF Computes
  <2> QED BY <1>3, <2>3, <2>4, <2>6
<1> QED BY <1>4, <1>5

LEMMA ComputedSoFar ==
  ASSUME NEW S \in SUBSET Nat, NEW below \in [S -> Nat],
         \A s \in S : s # 0 => below[s] < s,
         NEW first \in Nat, NEW next \in [Nat -> Nat],
         NEW m \in Nat, 0..m \subseteq S
  PROVE  \E f : Computes(f, m, first, below, next)
<1> DEFINE T == {x \in 0..m : ~\E f : Computes(f, x, first, below, next)}
<1>1. SUFFICES ASSUME T # {} PROVE FALSE
  OBVIOUS
<1>2. PICK x \in T : \A y \in T : x <= y
  BY <1>1, LeastNumber
<1>3. x \in 0..m /\ x \in S
  OBVIOUS
<1>4. CASE x = 0
  <2>1. Computes([s \in 0..0 |-> first], 0, first, below, next)
    BY DEF Computes
  <2> QED BY <1>2, <1>4, <2>1
<1>5. CASE x # 0
  <2>1. x - 1 \in 0..m /\ x - 1 \notin T
    <3>1. x - 1 \in 0..m /\ ~(x <= x - 1)
      BY <1>3, <1>5
    <3> HIDE DEF T
    <3> QED BY <1>2, <3>1
  <2>2. PICK f : Computes(f, x - 1, first, below, next)
    BY <2>1
  <2> DEFINE g == [s \in 0..x |-> IF s = x THEN next[f[below[x]]] ELSE f[s]]
  <2>3. below[x] \in 0..(x - 1) /\ f[below[x]] \in Nat
    BY <1>3, <1>5, <2>2 DEF Computes
  <2>4. g \in [0..x -> Nat]
    <3>1. ASSUME NEW s \in 0..x PROVE g[s] \in Nat
      <4>1. CASE s = x
        BY <2>3, <4>1
      <4>2. CASE s # x
        <5>1. s \in 0..(x - 1) /\ g[s] = f[s] /\ f \in [0..(x - 1) -> Nat]
          BY <1>3, <2>2, <4>2 DEF Computes
        <5> QED BY <5>1
      <4> QED BY <4>1, <4>2
    <3> QED BY <3>1
  <2>5. ASSUME NEW s \in 0..x
        PROVE  g[s] = IF s = 0 THEN first ELSE next[g[below[s]]]
    <3>1. CASE s = x
      <4>1. below[x] \in 0..x /\ below[x] # x /\ x \in 0..x
        BY <1>3, <2>3
      <4>2. g[x] = next[f[below[x]]] /\ g[below[x]] = f[below[x]]
        BY <4>1
      <4> QED BY <1>5, <3>1, <4>2
    <3>2. CASE s # x
      <4>1. s \in 0..(x - 1) /\ s \in S /\ g[s] = f[s]
        BY <1>3, <3>2
      <4>2. f[s] = IF s = 0 THEN first ELSE next[f[below[s]]]
        BY <2>2, <4>1 DEF Computes
      <4>3. s # 0 => below[s] \in 0..x /\ below[s] # x
        BY <1>3, <4>1
      <4> QED BY <4>1, <4>2, <4>3
    <3> QED BY <3>1, <3>2
  <2>6. Computes(g, x, first, below, next)
    BY <2>4, <2>5 DEF Computes
  <2> QED BY <1>2, <2>6
<1> QED BY <1>4, <1>5

\* From every number of S, below leads down to 0 inside S.
Descends(S, below) ==
  /\ S \in SUBSET Nat /\ \A m \in S : 0..m \subseteq S
  /\ below \in [S -> Nat] /\ \A s \in S : s # 0 => below[s] < s

\* f is what the recursion along below defines.
Recurs(f, S, first, below, next) ==
  f \in [S -> Nat] /\ \A s \in S : f[s] = IF s = 0 THEN first ELSE next[f[below[s]]]

\* The function is there.
LEMMA Recursion ==
  ASSUME NEW S, NEW below, NEW first \in Nat, NEW next \in [Nat -> Nat], Descends(S, below)
  PROVE  \E f : Recurs(f, S, first, below, next)
<1> USE DEF Descends
<1> DEFINE upto(m) == CHOOSE f : Computes(f, m, first, below, next)
           F == [s \in S |-> upto(s)[s]]
<1>1. ASSUME NEW m \in S PROVE Computes(upto(m), m, first, below, next)
  BY ComputedSoFar
<1>0. \A m, k \in Nat : \A f, g :
        0..m \subseteq S /\ Computes(f, m, first, below, next)
          /\ Computes(g, k, first, below, next)
        => \A s \in 0..m : s <= k => f[s] = g[s]
  BY ComputedOnce
<1> HIDE DEF upto
<1>2. F \in [S -> Nat]
  <2>1. ASSUME NEW s \in S PROVE upto(s)[s] \in Nat
    BY <1>1 DEF Computes
  <2> QED BY <2>1
<1>3. ASSUME NEW s \in S
      PROVE  F[s] = IF s = 0 THEN first ELSE next[F[below[s]]]
  <2>1. Computes(upto(s), s, first, below, next) /\ s \in 0..s
    BY <1>1
  <2>2. CASE s = 0
    BY <2>1, <2>2 DEF Computes
  <2>3. CASE s # 0
    <3>1. below[s] \in 0..s /\ below[s] \in S /\ below[s] <= s
      BY <2>3
    <3>2. Computes(upto(below[s]), below[s], first, below, next) /\ below[s] \in 0..below[s]
      BY <1>1, <3>1
    <3>3. upto(below[s])[below[s]] = upto(s)[below[s]]
      <4> DEFINE b == below[s]
      <4>1. b \in Nat /\ s \in Nat /\ 0..b \subseteq S /\ b \in 0..b /\ b <= s
        BY <3>1
      <4>2. Computes(upto(b), b, first, below, next)
        BY <3>2
      <4> HIDE DEF b
      <4>3. upto(b)[b] = upto(s)[b]
        BY <1>0, <2>1, <4>1, <4>2
      <4> QED BY <4>3 DEF b
    <3>4. upto(s)[s] = next[upto(s)[below[s]]]
      BY <2>1, <2>3 DEF Computes
    <3> QED BY <2>3, <3>1, <3>3, <3>4
  <2> QED BY <2>2, <2>3
<1> QED BY <1>2, <1>3 DEF Recurs

-----------------------------------------------------------------------------
(* Powers of two and remainders                                            *)

LEMMA Powers ==
  /\ my_pow_2 \in [Nat -> Nat] /\ my_pow_2[0] = 1
  /\ \A i \in Nat : my_pow_2[i + 1] = 2 * my_pow_2[i]
<1> DEFINE below == [i \in Nat |-> IF i = 0 THEN 0 ELSE i - 1]
           next == [x \in Nat |-> 2 * x]
           Is(f) == f = [exp \in Nat |-> IF exp = 0 THEN 1 ELSE 2 * f[exp - 1]]
<1>1. below \in [Nat -> Nat] /\ \A i \in Nat : i # 0 => below[i] = i - 1 /\ below[i] < i
  OBVIOUS
<1>2. next \in [Nat -> Nat] /\ \A x \in Nat : next[x] = 2 * x
  OBVIOUS
<1>3. \A m \in Nat : 0..m \subseteq Nat
  OBVIOUS
<1> HIDE DEF below, next
<1>4. PICK f : Recurs(f, Nat, 1, below, next)
  <2>1. Descends(Nat, below)
    BY <1>1, <1>3 DEF Descends
  <2> QED BY <1>2, <2>1, Recursion
<1> USE DEF Recurs
<1>5. ASSUME NEW i \in Nat PROVE f[i] = IF i = 0 THEN 1 ELSE 2 * f[i - 1]
  <2>1. CASE i = 0
    BY <1>4, <2>1
  <2>2. CASE i # 0
    <3>1. i - 1 \in Nat /\ f[i - 1] \in Nat /\ f[i] = next[f[i - 1]]
      BY <1>1, <1>4, <2>2
    <3> QED BY <1>2, <2>2, <3>1
  <2> QED BY <2>1, <2>2
<1>6. Is(f)
  BY <1>4, <1>5
<1>7. Is(my_pow_2)
  BY <1>6 DEF my_pow_2
<1>8. ASSUME NEW i \in Nat PROVE my_pow_2[i] = IF i = 0 THEN 1 ELSE 2 * my_pow_2[i - 1]
  BY <1>7
<1>9. \A i \in Nat : my_pow_2[i] = f[i]
  <2> DEFINE T == {i \in Nat : my_pow_2[i] # f[i]}
  <2>1. SUFFICES ASSUME T # {} PROVE FALSE
    OBVIOUS
  <2>2. PICK x \in T : \A y \in T : x <= y
    BY <2>1, LeastNumber
  <2>3. CASE x = 0
    BY <1>5, <1>8, <2>3
  <2>4. CASE x # 0
    <3>1. x \in Nat /\ x - 1 \in Nat /\ ~(x <= x - 1)
      BY <2>4
    <3>2. x - 1 \notin T
      BY <2>2, <3>1
    <3> QED BY <1>5, <1>8, <2>4, <3>1, <3>2
  <2> QED BY <2>3, <2>4
<1>10. my_pow_2 \in [Nat -> Nat]
  <2>1. my_pow_2 = [exp \in Nat |-> my_pow_2[exp]]
    BY <1>7
  <2>2. \A i \in Nat : my_pow_2[i] \in Nat
    BY <1>4, <1>9
  <2> HIDE DEF Is
  <2> QED BY <2>1, <2>2
<1>11. my_pow_2[0] = 1
  BY <1>8
<1>12. ASSUME NEW i \in Nat PROVE my_pow_2[i + 1] = 2 * my_pow_2[i]
  <2>1. i + 1 \in Nat /\ i + 1 # 0 /\ (i + 1) - 1 = i
    OBVIOUS
  <2> QED BY <1>8, <2>1
<1> QED BY <1>10, <1>11, <1>12

LEMMA PowerExceeds == \A i \in Nat : my_pow_2[i] > i
<1> DEFINE T == {i \in Nat : ~(my_pow_2[i] > i)}
<1>1. SUFFICES ASSUME T # {} PROVE FALSE
  OBVIOUS
<1>2. PICK x \in T : \A y \in T : x <= y
  BY <1>1, LeastNumber
<1>3. CASE x = 0
  BY <1>3, Powers
<1>4. CASE x # 0
  <2>1. x - 1 \in Nat /\ ~(x <= x - 1) /\ (x - 1) + 1 = x
    BY <1>4
  <2>2. my_pow_2[x - 1] > x - 1
    BY <1>2, <2>1
  <2>3. my_pow_2[x] = 2 * my_pow_2[x - 1] /\ my_pow_2[x - 1] \in Nat
    BY <2>1, Powers
  <2> QED BY <2>1, <2>2, <2>3
<1> QED BY <1>3, <1>4

Divides(d, a) == \E q \in Nat : a = d * q

\* Every power divides the later ones.
LEMMA PowersDivide ==
  ASSUME NEW i \in Nat
  PROVE  \A j \in Nat : i <= j => Divides(my_pow_2[i], my_pow_2[j])
<1> DEFINE T == {j \in Nat : i <= j /\ ~Divides(my_pow_2[i], my_pow_2[j])}
<1>1. SUFFICES ASSUME T # {} PROVE FALSE
  OBVIOUS
<1>2. PICK x \in T : \A y \in T : x <= y
  BY <1>1, LeastNumber
<1>3. my_pow_2[i] \in Nat /\ my_pow_2[x] \in Nat
  BY Powers
<1>4. CASE x = i
  <2>1. my_pow_2[x] = my_pow_2[i] * 1
    BY <1>3, <1>4
  <2> QED BY <1>2, <2>1 DEF Divides
<1>5. CASE x # i
  <2>1. x - 1 \in Nat /\ i <= x - 1 /\ ~(x <= x - 1) /\ (x - 1) + 1 = x
    BY <1>5
  <2>2. Divides(my_pow_2[i], my_pow_2[x - 1])
    BY <1>2, <2>1
  <2>3. PICK q \in Nat : my_pow_2[x - 1] = my_pow_2[i] * q
    BY <2>2 DEF Divides
  <2>4. my_pow_2[x] = 2 * (my_pow_2[i] * q)
    BY <2>1, <2>3, Powers
  <2>5. 2 * (my_pow_2[i] * q) = my_pow_2[i] * (2 * q) /\ 2 * q \in Nat
    BY <1>3
  <2> QED BY <2>4, <2>5 DEF Divides
<1> QED BY <1>4, <1>5

LEMMA Division ==
  ASSUME NEW a \in Nat, NEW d \in Nat, d > 0
  PROVE  /\ a % d \in 0..(d - 1)
         /\ \E q \in Nat : a = d * q + (a % d)
<1>1. a % d \in 0..(d - 1)
  OBVIOUS
<1>2. a = d * (a \div d) + (a % d)
  OBVIOUS
<1>3. a \div d \in Nat
  OBVIOUS
<1> QED BY <1>1, <1>2, <1>3

LEMMA Remainder ==
  ASSUME NEW d \in Nat, d > 0, NEW q \in Nat, NEW m \in 0..(d - 1)
  PROVE  (d * q + m) % d = m
OBVIOUS

LEMMA NoRemainder ==
  ASSUME NEW a \in Nat, NEW d \in Nat, d > 0
  PROVE  a % d = 0 <=> Divides(d, a)
<1>1. ASSUME a % d = 0 PROVE Divides(d, a)
  <2>1. PICK q \in Nat : a = d * q + (a % d)
    BY Division
  <2>2. a = d * q
    BY <1>1, <2>1
  <2> QED BY <2>2 DEF Divides
<1>2. ASSUME NEW q \in Nat, a = d * q PROVE a % d = 0
  <2>1. (d * q + 0) % d = 0
    BY Remainder
  <2> QED BY <1>2, <2>1
<1> QED BY <1>1, <1>2 DEF Divides

LEMMA DividesOn ==
  ASSUME NEW a \in Nat, NEW b \in Nat, NEW c \in Nat, Divides(a, b), Divides(b, c)
  PROVE  Divides(a, c)
<1>1. PICK q \in Nat : b = a * q
  BY DEF Divides
<1>2. PICK k \in Nat : c = b * k
  BY DEF Divides
<1>3. c = a * (q * k) /\ q * k \in Nat
  BY <1>1, <1>2
<1> QED BY <1>3 DEF Divides

LEMMA PowerHalves ==
  ASSUME NEW i \in Nat, i > 0
  PROVE  /\ i - 1 \in Nat /\ my_pow_2[i] \in Nat /\ my_pow_2[i - 1] \in Nat
         /\ my_pow_2[i] = 2 * my_pow_2[i - 1] /\ my_pow_2[i - 1] > 0
         /\ my_pow_2[i] > my_pow_2[i - 1]
<1>1. i - 1 \in Nat /\ (i - 1) + 1 = i
  OBVIOUS
<1>2. my_pow_2[i] = 2 * my_pow_2[i - 1] /\ my_pow_2[i - 1] \in Nat
  BY <1>1, Powers
<1>3. my_pow_2[i - 1] > i - 1
  BY <1>1, PowerExceeds
<1> QED BY <1>1, <1>2, <1>3

\* A rank that is in the upper half of its group of round i heads its group in all
\* rounds of smaller groups, and none in rounds of larger ones.
LEMMA OneRound ==
  ASSUME NEW r \in Nat, NEW i \in Nat, i > 0, r % my_pow_2[i] = my_pow_2[i - 1]
  PROVE  /\ \A j \in Nat : j < i => r % my_pow_2[j] = 0
         /\ \A j \in Nat : j >= i => r % my_pow_2[j] # 0
<1> DEFINE half == my_pow_2[i - 1]
           whole == my_pow_2[i]
<1>1. /\ i - 1 \in Nat /\ half \in Nat /\ whole \in Nat
      /\ whole = 2 * half /\ half > 0 /\ whole > half
  BY PowerHalves
<1>2. PICK q \in Nat : r = whole * q + half
  <2>0. whole \in Nat /\ whole > 0
    BY <1>1
  <2> HIDE DEF whole
  <2>1. PICK q \in Nat : r = whole * q + (r % whole)
    BY <2>0, Division, Zenon
  <2> QED BY <2>1 DEF whole
<1>3. Divides(half, r)
  <2>1. r = half * (2 * q + 1) /\ 2 * q + 1 \in Nat
    BY <1>1, <1>2
  <2> QED BY <2>1 DEF Divides
<1>4. ASSUME NEW j \in Nat, j < i PROVE r % my_pow_2[j] = 0
  <2>1. my_pow_2[j] \in Nat /\ my_pow_2[j] > 0
    BY Powers, PowerExceeds
  <2>2. j <= i - 1
    BY <1>4
  <2>3. Divides(my_pow_2[j], half)
    BY <1>1, <2>2, PowersDivide
  <2>4. Divides(my_pow_2[j], r)
    BY <1>1, <1>3, <2>1, <2>3, DividesOn
  <2> QED BY <2>1, <2>4, NoRemainder
<1>5. ASSUME NEW j \in Nat, j >= i, r % my_pow_2[j] = 0 PROVE FALSE
  <2>1. my_pow_2[j] \in Nat /\ my_pow_2[j] > 0
    BY Powers, PowerExceeds
  <2>2. Divides(my_pow_2[j], r) /\ Divides(whole, my_pow_2[j])
    BY <1>5, <2>1, NoRemainder, PowersDivide
  <2>3. Divides(whole, r)
    BY <1>1, <2>1, <2>2, DividesOn
  <2>4. r % whole = 0
    BY <1>1, <2>3, NoRemainder
  <2> QED BY <1>1, <2>4
<1> QED BY <1>4, <1>5

\* Every rank that does not head all groups is in the upper half of one.
LEMMA SomeRound ==
  ASSUME NEW r \in Nat, NEW n \in Nat, r % my_pow_2[n] # 0
  PROVE  \E i \in 1..n : r % my_pow_2[i] = my_pow_2[i - 1]
<1> DEFINE T == {i \in 0..n : r % my_pow_2[i] # 0}
<1>1. PICK i \in T : \A y \in T : i <= y
  <2>1. n \in T /\ T \in SUBSET Nat
    OBVIOUS
  <2> QED BY <2>1, LeastNumber
<1>2. i \in 0..n /\ r % my_pow_2[i] # 0 /\ i \in Nat
  OBVIOUS
<1>3. i # 0
  <2>1. r = 1 * r /\ my_pow_2[0] = 1
    BY Powers
  <2>2. Divides(my_pow_2[0], r)
    BY <2>1 DEF Divides
  <2>3. r % my_pow_2[0] = 0
    BY <2>1, <2>2, NoRemainder
  <2> QED BY <1>2, <2>3
<1> DEFINE half == my_pow_2[i - 1]
           whole == my_pow_2[i]
<1>4. /\ i - 1 \in Nat /\ half \in Nat /\ whole \in Nat
      /\ whole = 2 * half /\ half > 0 /\ whole > half
  BY <1>2, <1>3, PowerHalves
<1>5. r % half = 0
  <2>1. i - 1 \in 0..n /\ ~(i <= i - 1)
    BY <1>2, <1>3
  <2> QED BY <1>1, <2>1
<1>6. PICK q \in Nat : r = half * q
  BY <1>4, <1>5, NoRemainder DEF Divides
<1>7. PICK k \in Nat : q = 2 * k \/ q = 2 * k + 1
  <2>1. PICK k \in Nat : q = 2 * k + (q % 2)
    BY Division
  <2>2. q % 2 \in 0..1
    BY Division
  <2> QED BY <2>1, <2>2
<1>11. Divides(whole, whole * k) /\ whole * k \in Nat
  BY <1>4 DEF Divides
<1>12. whole * k = half * (2 * k)
  BY <1>4
<1> HIDE DEF half, whole
<1>8. q # 2 * k
  <2>1. SUFFICES ASSUME q = 2 * k PROVE FALSE
    OBVIOUS
  <2>2. Divides(whole, r)
    BY <1>6, <1>11, <1>12, <2>1
  <2>3. r % whole = 0
    BY <1>4, <2>2, NoRemainder
  <2> QED BY <1>2, <2>3 DEF whole
<1>9. r = whole * k + half
  <2>1. half * (2 * k + 1) = half * (2 * k) + half
    BY <1>4
  <2> QED BY <1>6, <1>7, <1>8, <1>12, <2>1
<1>10. r % whole = half
  <2>1. half \in 0..(whole - 1) /\ whole > 0
    BY <1>4
  <2>2. (whole * k + half) % whole = half
    BY <1>4, <2>1, Remainder, Zenon
  <2> QED BY <1>9, <2>2
<1> QED BY <1>2, <1>3, <1>10 DEF half, whole

\* The largest power of two.
LEMMA RoundsOf ==
  ASSUME NEW n \in Nat, n > 0
  PROVE  /\ NRounds(n) \in 0..n /\ MaxPowerTwo(n) = my_pow_2[NRounds(n)]
         /\ MaxPowerTwo(n) \in Nat /\ MaxPowerTwo(n) > 0
         /\ MaxPowerTwo(n) <= n /\ n < 2 * MaxPowerTwo(n)
<1> DEFINE T == {i \in Nat : n < my_pow_2[i + 1]}
<1>1. n \in T
  BY Powers, PowerExceeds
<1>2. PICK i \in T : \A y \in T : i <= y
  BY <1>1, LeastNumber
<1>3. i \in 0..n /\ n < my_pow_2[i + 1]
  BY <1>1, <1>2
<1>4. my_pow_2[i] <= n
  <2>1. CASE i = 0
    BY <2>1, Powers
  <2>2. CASE i # 0
    <3>1. i - 1 \in Nat /\ ~(i <= i - 1) /\ (i - 1) + 1 = i
      BY <1>3, <2>2
    <3>2. ~(n < my_pow_2[i])
      BY <1>2, <3>1
    <3> QED BY <1>3, <3>2, Powers
  <2> QED BY <2>1, <2>2
<1>5. NRounds(n) \in 0..n /\ my_pow_2[NRounds(n)] <= n /\ n < my_pow_2[NRounds(n) + 1]
  BY <1>3, <1>4 DEF NRounds
<1> QED BY <1>5, Powers, PowerExceeds DEF MaxPowerTwo

-----------------------------------------------------------------------------
(* Who measures with whom                                                  *)

LEMMA GroupFits ==
  ASSUME NEW d \in Nat, NEW q \in Nat, NEW k \in Nat, d * q < d * k
  PROVE  d * q + d <= d * k
<1>1. q < k
  <2>1. SUFFICES ASSUME k <= q PROVE FALSE
    OBVIOUS
  <2>2. PICK e \in Nat : q = k + e
    BY <2>1
  <2>3. d * q = d * k + d * e /\ d * e \in Nat
    BY <2>2
  <2> QED BY <2>3
<1>2. PICK e \in Nat : k = q + 1 + e
  BY <1>1
<1>3. d * k = d * q + d + d * e /\ d * e \in Nat
  BY <1>2
<1> QED BY <1>3

\* In a round before the last.
LEMMA RoundCallMatches ==
  ASSUME NEW n \in Nat, n > 0, NEW i \in 1..NRounds(n), NEW r \in 0..(n - 1),
         NEW call \in RoundCall(n, i, r)
  PROVE  /\ call[1] \in 0..(n - 1) /\ call[2] \in 0..(n - 1) /\ call[1] # call[2]
         /\ RoundCall(n, i, call[1]) = {call} /\ RoundCall(n, i, call[2]) = {call}
<1> DEFINE whole == my_pow_2[i]
           half == my_pow_2[i - 1]
           max == MaxPowerTwo(n)
<1>1. /\ NRounds(n) \in Nat /\ i \in Nat /\ i > 0 /\ i <= NRounds(n)
      /\ max = my_pow_2[NRounds(n)] /\ max \in Nat /\ max > 0 /\ max <= n
  BY RoundsOf
<1>2. /\ half \in Nat /\ whole \in Nat /\ whole = 2 * half /\ half > 0 /\ whole > half
      /\ whole > 0
  BY <1>1, PowerHalves
<1>3. Divides(whole, max)
  BY <1>1, PowersDivide
<1>4. \A s \in 0..(n - 1) :
        RoundCall(n, i, s) = IF s >= max THEN {}
                             ELSE IF s % whole = 0    THEN {<<s, s + half>>}
                             ELSE IF s % whole = half THEN {<<s - half, s>>}
                             ELSE {}
  BY DEF RoundCall
<1> HIDE DEF whole, half, max
\* The two ranks of a group.
<1>5. ASSUME NEW q \in Nat, whole * q < max
      PROVE  LET s == whole * q
             IN  /\ s \in 0..(n - 1) /\ s + half \in 0..(n - 1) /\ s # s + half
                 /\ RoundCall(n, i, s) = {<<s, s + half>>}
                 /\ RoundCall(n, i, s + half) = {<<s, s + half>>}
  <2> DEFINE s == whole * q
  <2>1. s \in Nat
    BY <1>2
  <2>2. PICK k \in Nat : max = whole * k
    BY <1>3 DEF Divides
  <2>3. s + whole <= max
    BY <1>2, <1>5, <2>2, GroupFits
  <2>4. (whole * q + half) % whole = half /\ (whole * q + 0) % whole = 0
    <3>1. half \in 0..(whole - 1) /\ 0 \in 0..(whole - 1)
      BY <1>2
    <3> QED BY <1>2, <3>1, Remainder, Zenon
  <2>5. (s + half) % whole = half /\ s % whole = 0
    BY <2>1, <2>4
  <2> HIDE DEF s
  <2>6. /\ s \in 0..(n - 1) /\ s + half \in 0..(n - 1) /\ s # s + half
        /\ ~(s >= max) /\ ~(s + half >= max) /\ (s + half) - half = s
    BY <1>1, <1>2, <2>1, <2>3
  <2>7. RoundCall(n, i, s) = {<<s, s + half>>}
    BY <1>4, <2>5, <2>6
  <2>8. RoundCall(n, i, s + half) = {<<s, s + half>>}
    <3>1. (s + half) % whole # 0
      BY <1>2, <2>5
    <3> QED BY <1>4, <2>5, <2>6, <3>1
  <2> QED BY <2>6, <2>7, <2>8 DEF s
<1>6. r < max /\ r \in Nat /\ max \in Nat
  BY <1>1, <1>4
<1>7. CASE r % whole = 0
  <2>1. PICK q \in Nat : r = whole * q
    <3>1. Divides(whole, r)
      BY <1>2, <1>6, <1>7, NoRemainder
    <3> QED BY <3>1 DEF Divides
  <2>2. call = <<r, r + half>>
    BY <1>4, <1>6, <1>7
  <2>3. call[1] = r /\ call[2] = r + half
    BY <2>2
  <2> QED BY <1>5, <1>6, <2>1, <2>2, <2>3
<1>8. CASE r % whole # 0
  <2>1. r % whole = half /\ call = <<r - half, r>>
    BY <1>4, <1>6, <1>8
  <2>2. PICK q \in Nat : r = whole * q + (r % whole)
    BY <1>2, <1>6, Division, Zenon
  <2>3. r - half = whole * q /\ whole * q < max /\ whole * q + half = r
    BY <1>2, <1>6, <2>1, <2>2
  <2>4. call[1] = whole * q /\ call[2] = whole * q + half /\ call = <<whole * q, whole * q + half>>
    BY <2>1, <2>3
  <2> QED BY <1>5, <2>3, <2>4
<1> QED BY <1>7, <1>8

\* In the last round.
LEMMA LastCallMatches ==
  ASSUME NEW n \in Nat, n > 0, NEW r \in 0..(n - 1), NEW call \in LastCall(n, r)
  PROVE  /\ call[1] \in 0..(n - 1) /\ call[2] \in 0..(n - 1) /\ call[1] # call[2]
         /\ LastCall(n, call[1]) = {call} /\ LastCall(n, call[2]) = {call}
<1> DEFINE max == MaxPowerTwo(n)
<1>1. max \in Nat /\ max > 0 /\ max <= n /\ n < 2 * max
  BY RoundsOf
<1>2. \A s \in Int : LastCall(n, s) = IF s >= max         THEN {<<s - max, s>>}
                                       ELSE IF s < n - max THEN {<<s, s + max>>}
                                       ELSE {}
  BY DEF LastCall
<1> HIDE DEF max
<1>3. CASE r >= max
  <2>1. call = <<r - max, r>>
    BY <1>2, <1>3
  <2>2. call[1] = r - max /\ call[2] = r
    BY <2>1
  <2>3. /\ r - max \in 0..(n - 1) /\ r - max # r /\ ~(r - max >= max)
        /\ r - max < n - max /\ (r - max) + max = r
    BY <1>1, <1>3
  <2> QED BY <1>2, <1>3, <2>1, <2>2, <2>3
<1>4. CASE ~(r >= max)
  <2>1. r < n - max /\ call = <<r, r + max>>
    BY <1>2, <1>4
  <2>2. call[1] = r /\ call[2] = r + max
    BY <2>1
  <2>3. /\ r + max \in 0..(n - 1) /\ r # r + max /\ r + max >= max
        /\ (r + max) - max = r
    BY <1>1, <2>1
  <2> QED BY <1>2, <1>4, <2>1, <2>2, <2>3
<1> QED BY <1>3, <1>4

\* The two ends of a call make the same call in the round.
Meet(n, i, call) ==
  /\ call[1] \in 0..(n - 1) /\ call[2] \in 0..(n - 1) /\ call[1] # call[2]
  /\ Call(n, i, call[1]) = {call} /\ Call(n, i, call[2]) = {call}

LEMMA CallMatches ==
  ASSUME NEW n \in Nat, n > 0, NEW i \in 0..NRounds(n), NEW r \in 0..(n - 1),
         NEW call \in Call(n, i, r)
  PROVE  Meet(n, i, call)
<1>1. NRounds(n) \in Nat
  BY RoundsOf
<1>2. CASE i > 0
  <2>1. i \in 1..NRounds(n) /\ \A s : Call(n, i, s) = RoundCall(n, i, s)
    BY <1>1, <1>2 DEF Call
  <2> QED BY <2>1, RoundCallMatches DEF Meet
<1>3. CASE ~(i > 0)
  <2>1. \A s : Call(n, i, s) = LastCall(n, s)
    BY <1>3 DEF Call
  <2>2. call \in LastCall(n, r)
    BY <2>1
  <2>3. /\ call[1] \in 0..(n - 1) /\ call[2] \in 0..(n - 1) /\ call[1] # call[2]
        /\ LastCall(n, call[1]) = {call} /\ LastCall(n, call[2]) = {call}
    BY <2>2, LastCallMatches
  <2> QED BY <2>1, <2>3 DEF Meet
<1> QED BY <1>2, <1>3

-----------------------------------------------------------------------------
(* Who learns when                                                         *)

LEMMA Heads ==
  ASSUME NEW n \in Nat, n > 0, NEW i \in 1..NRounds(n), NEW r \in 0..(n - 1)
  PROVE  (\E call \in Call(n, i, r) : call[2] = r)
           <=> r < MaxPowerTwo(n) /\ r % my_pow_2[i] = my_pow_2[i - 1]
<1> DEFINE whole == my_pow_2[i]
           half == my_pow_2[i - 1]
           max == MaxPowerTwo(n)
<1>1. NRounds(n) \in Nat /\ i \in Nat /\ i > 0 /\ max \in Nat
  BY RoundsOf
<1>2. half \in Nat /\ half > 0
  BY <1>1, PowerHalves
<1>3. Call(n, i, r) = IF r >= max THEN {}
                      ELSE IF r % whole = 0    THEN {<<r, r + half>>}
                      ELSE IF r % whole = half THEN {<<r - half, r>>}
                      ELSE {}
  BY <1>1 DEF Call, RoundCall
<1> HIDE DEF whole, half, max
<1>4. r + half # r /\ r \in Int /\ 0 # half
  BY <1>2
<1>5. CASE r >= max
  <2>1. Call(n, i, r) = {} /\ ~(r < max)
    BY <1>1, <1>3, <1>4, <1>5
  <2> QED BY <2>1 DEF max
<1>6. CASE ~(r >= max) /\ r % whole = 0
  <2>1. \A call \in Call(n, i, r) : call[2] = r + half
    BY <1>3, <1>6
  <2> QED BY <1>4, <1>6, <2>1 DEF whole, half
<1>7. CASE ~(r >= max) /\ r % whole # 0 /\ r % whole = half
  <2>1. Call(n, i, r) = {<<r - half, r>>} /\ <<r - half, r>>[2] = r
    BY <1>3, <1>7
  <2>2. r < max
    BY <1>1, <1>4, <1>7
  <2> QED BY <1>7, <2>1, <2>2 DEF whole, half, max
<1>8. CASE ~(r >= max) /\ r % whole # 0 /\ r % whole # half
  BY <1>3, <1>8 DEF whole, half
<1> QED BY <1>5, <1>6, <1>7, <1>8 DEF max

LEMMA HeadsLast ==
  ASSUME NEW n \in Nat, n > 0, NEW r \in 0..(n - 1)
  PROVE  (\E call \in Call(n, 0, r) : call[2] = r) <=> r >= MaxPowerTwo(n)
<1> DEFINE max == MaxPowerTwo(n)
<1>1. max \in Nat /\ max > 0
  BY RoundsOf
<1>2. Call(n, 0, r) = IF r >= max         THEN {<<r - max, r>>}
                      ELSE IF r < n - max THEN {<<r, r + max>>}
                      ELSE {}
  BY DEF Call, LastCall
<1> HIDE DEF max
<1>3. CASE r >= max
  <2>1. Call(n, 0, r) = {<<r - max, r>>} /\ <<r - max, r>>[2] = r
    BY <1>2, <1>3
  <2> QED BY <1>3, <2>1 DEF max
<1>4. CASE ~(r >= max)
  <2>1. \A call \in Call(n, 0, r) : call[2] = r + max
    BY <1>2, <1>4
  <2>2. r + max # r
    BY <1>1
  <2> QED BY <1>4, <2>1, <2>2 DEF max
<1> QED BY <1>3, <1>4

LEMMA RootLearnsNothing ==
  ASSUME NEW n \in Nat, n > 0
  PROVE  ClientRounds(n, 0) = {}
<1>1. 0 \in 0..(n - 1) /\ NRounds(n) \in Nat /\ ~(0 >= MaxPowerTwo(n))
  BY RoundsOf
<1>2. ASSUME NEW i \in 1..NRounds(n) PROVE 0 % my_pow_2[i] # my_pow_2[i - 1]
  <2>1. i \in Nat /\ i > 0
    BY <1>1
  <2>2. my_pow_2[i] \in Nat /\ my_pow_2[i] > 0 /\ my_pow_2[i - 1] > 0 /\ my_pow_2[i - 1] \in Nat
    BY <2>1, PowerHalves
  <2>3. my_pow_2[i] * 0 = 0
    BY <2>2
  <2>4. 0 % my_pow_2[i] = 0
    BY <2>2, <2>3, NoRemainder DEF Divides
  <2> QED BY <2>2, <2>4
<1>3. \A i \in 0..NRounds(n) : i = 0 \/ i \in 1..NRounds(n)
  BY <1>1
<1>4. \A i \in 0..NRounds(n) : ~\E call \in Call(n, i, 0) : call[2] = 0
  BY <1>1, <1>2, <1>3, Heads, HeadsLast
<1> QED BY <1>4 DEF ClientRounds

\* The one round in which r is a client.
LEMMA LearnsIn ==
  ASSUME NEW n \in Nat, n > 0, NEW r \in 1..(n - 1)
  PROVE  /\ ClientRounds(n, r) = {LearnRound(n, r)} /\ LearnRound(n, r) \in 0..NRounds(n)
         /\ LearnRound(n, r) = 0 <=> r >= MaxPowerTwo(n)
         /\ LearnRound(n, r) > 0 =>
              r % my_pow_2[LearnRound(n, r)] = my_pow_2[LearnRound(n, r) - 1]
<1> DEFINE max == MaxPowerTwo(n)
           N == NRounds(n)
<1>1. /\ N \in Nat /\ max = my_pow_2[N] /\ max \in Nat /\ max > 0
      /\ r \in 0..(n - 1) /\ r \in Nat /\ r > 0
  BY RoundsOf
<1>2. \A i \in 0..N : i = 0 \/ i \in 1..N
  BY <1>1
<1>3. ASSUME NEW j, ClientRounds(n, r) = {j} PROVE LearnRound(n, r) = j
  BY <1>3 DEF LearnRound
<1>4. CASE r >= max
  <2>1. ~(r < max)
    BY <1>1, <1>4
  <2>2. 0 \in 0..N
    BY <1>1
  <2>3. ClientRounds(n, r) = {0}
    BY <1>1, <1>2, <1>4, <2>1, <2>2, Heads, HeadsLast DEF ClientRounds
  <2> QED BY <1>3, <1>4, <2>2, <2>3
<1>5. CASE ~(r >= max)
  <2>1. r < max
    BY <1>1, <1>5
  <2>2. r % my_pow_2[N] # 0
    <3>1. (max * 0 + r) % max = r
      <4>1. r \in 0..(max - 1) /\ 0 \in Nat
        BY <1>1, <2>1
      <4> HIDE DEF max
      <4> QED BY <1>1, <4>1, Remainder, Zenon
    <3>2. max * 0 + r = r
      BY <1>1
    <3> QED BY <1>1, <3>1, <3>2
  <2>3. PICK j \in 1..N : r % my_pow_2[j] = my_pow_2[j - 1]
    BY <1>1, <2>2, SomeRound
  <2>4. j \in Nat /\ j > 0 /\ j \in 0..N
    BY <1>1
  <2>5. ASSUME NEW i \in 1..N, r % my_pow_2[i] = my_pow_2[i - 1] PROVE i = j
    <3>1. i \in Nat /\ i > 0 /\ my_pow_2[i - 1] > 0 /\ my_pow_2[j - 1] > 0
      BY <1>1, <2>4, PowerHalves
    <3>2. ~(i < j)
      BY <1>1, <2>3, <2>4, <2>5, <3>1, OneRound
    <3>3. ~(j < i)
      BY <1>1, <2>3, <2>4, <2>5, <3>1, OneRound
    <3> QED BY <2>4, <3>1, <3>2, <3>3
  <2>6. ClientRounds(n, r) = {j}
    BY <1>1, <1>2, <1>5, <2>1, <2>3, <2>4, <2>5, Heads, HeadsLast DEF ClientRounds
  <2>7. LearnRound(n, r) = j
    BY <1>3, <2>6
  <2> QED BY <1>5, <2>3, <2>4, <2>6, <2>7
<1> QED BY <1>4, <1>5

\* The rank it learns from has a smaller number and has learned in an earlier round;
\* rounds are counted down.
LEMMA LearnsFrom ==
  ASSUME NEW n \in Nat, n > 0, NEW r \in 1..(n - 1)
  PROVE  /\ ParentOf(n, r) \in 0..(r - 1)
         /\ ParentOf(n, r) # 0 => LearnRound(n, ParentOf(n, r)) > LearnRound(n, r)
<1> DEFINE max == MaxPowerTwo(n)
           N == NRounds(n)
           i == LearnRound(n, r)
           p == ParentOf(n, r)
<1>1. /\ N \in Nat /\ max \in Nat /\ max > 0 /\ n < 2 * max /\ i \in 0..N
      /\ r \in Nat /\ r > 0 /\ r < n
  BY RoundsOf, LearnsIn
<1>2. ASSUME NEW call, Call(n, i, r) = {call} PROVE p = call[1]
  BY <1>2 DEF ParentOf
<1>3. CASE r >= max
  <2>1. i = 0
    BY <1>3, LearnsIn
  <2>2. Call(n, i, r) = {<<r - max, r>>}
    BY <1>3, <2>1 DEF Call, LastCall
  <2>3. p = r - max
    <3>1. p = <<r - max, r>>[1]
      BY <1>2, <2>2
    <3> QED BY <3>1
  <2> HIDE DEF max, p, i
  <2>4. p \in 0..(r - 1) /\ ~(p >= max) /\ (p # 0 => p \in 1..(n - 1))
    BY <1>1, <1>3, <2>3
  <2>5. ASSUME p # 0 PROVE LearnRound(n, p) > i
    <3>1. LearnRound(n, p) # 0 /\ LearnRound(n, p) \in 0..N
      BY <2>4, <2>5, LearnsIn DEF max
    <3> QED BY <1>1, <2>1, <3>1
  <2> QED BY <2>4, <2>5 DEF p, i
<1>4. CASE ~(r >= max)
  <2> DEFINE whole == my_pow_2[i]
             half == my_pow_2[i - 1]
  <2>1. i # 0
    BY <1>4, LearnsIn
  <2>2. i \in Nat /\ i > 0
    BY <1>1, <2>1
  <2>3. r % whole = half
    BY <2>2, LearnsIn
  <2>4. /\ half \in Nat /\ whole \in Nat /\ whole = 2 * half /\ half > 0 /\ whole > half
        /\ whole > 0
    BY <2>2, PowerHalves
  <2>5. Call(n, i, r) = {<<r - half, r>>}
    <3>1. r % whole # 0
      BY <2>3, <2>4
    <3> QED BY <1>4, <2>2, <2>3, <3>1 DEF Call, RoundCall
  <2>6. p = r - half
    <3>1. p = <<r - half, r>>[1]
      BY <1>2, <2>5
    <3> QED BY <3>1
  <2> HIDE DEF whole, half, p, max
  <2>7. PICK q \in Nat : r = whole * q + (r % whole)
    BY <1>1, <2>4, Division, Zenon
  <2>8. p = whole * q
    BY <1>1, <2>3, <2>4, <2>6, <2>7
  <2>9. p \in 0..(r - 1) /\ p < max /\ (p # 0 => p \in 1..(n - 1)) /\ p \in Nat
    <3>1. whole * q \in Nat
      BY <2>4
    <3> QED BY <1>1, <1>4, <2>4, <2>6, <2>8, <3>1
  <2>10. p % whole = 0
    BY <2>4, <2>8, <2>9, NoRemainder DEF Divides
  <2>11. ASSUME p # 0 PROVE LearnRound(n, p) > i
    <3> DEFINE j == LearnRound(n, p)
    <3>1. j \in 0..N /\ (j = 0 <=> p >= max) /\ (j > 0 => p % my_pow_2[j] = my_pow_2[j - 1])
      BY <2>9, <2>11, LearnsIn DEF max
    <3> HIDE DEF j
    <3>2. j \in Nat /\ j > 0 /\ p % my_pow_2[j] = my_pow_2[j - 1]
      BY <1>1, <2>9, <3>1
    <3>3. ~(i >= j)
      BY <2>2, <2>9, <2>10, <3>2, OneRound DEF whole
    <3> QED BY <2>2, <3>2, <3>3 DEF j
  <2> QED BY <2>9, <2>11 DEF p
<1> QED BY <1>3, <1>4

-----------------------------------------------------------------------------
(* How deep the tree is                                                    *)

\* DepthOf exists: parents have smaller numbers.
LEMMA DepthStep ==
  ASSUME NEW n \in Nat, n > 0
  PROVE  /\ DepthOf(n, 0) = 0
         /\ \A r \in 1..(n - 1) : DepthOf(n, r) = DepthOf(n, ParentOf(n, r)) + 1
         /\ \A r \in 0..(n - 1) : DepthOf(n, r) \in Nat
<1> DEFINE S == 0..(n - 1)
           below == [s \in S |-> IF s = 0 THEN 0 ELSE ParentOf(n, s)]
           next == [x \in Nat |-> x + 1]
           Is(f) == f = [s \in 0..(n - 1) |-> IF s = 0 THEN 0 ELSE f[ParentOf(n, s)] + 1]
           d == CHOOSE f : Is(f)
<1>1. \A s \in S : s # 0 => s \in 1..(n - 1)
  OBVIOUS
<1>2. \A s \in S : s # 0 => ParentOf(n, s) \in 0..(s - 1) /\ ParentOf(n, s) \in S
  <2>1. ASSUME NEW s \in S, s # 0 PROVE ParentOf(n, s) \in 0..(s - 1) /\ ParentOf(n, s) \in S
    <3>1. ParentOf(n, s) \in 0..(s - 1)
      BY <1>1, <2>1, LearnsFrom
    <3> QED BY <3>1
  <2> QED BY <2>1
<1>3. Descends(S, below)
  <2>1. S \in SUBSET Nat /\ \A m \in S : 0..m \subseteq S
    OBVIOUS
  <2>2. ASSUME NEW s \in S PROVE below[s] \in Nat /\ (s # 0 => below[s] < s)
    BY <1>2
  <2>3. below \in [S -> Nat]
    BY <2>2
  <2> QED BY <2>1, <2>2, <2>3 DEF Descends
<1>4. next \in [Nat -> Nat] /\ 0 \in Nat
  OBVIOUS
<1>5. PICK f : Recurs(f, S, 0, below, next)
  <2> HIDE DEF S, below, next
  <2> QED BY <1>3, <1>4, Recursion
<1>6. f \in [S -> Nat]
  BY <1>5 DEF Recurs
<1>7. ASSUME NEW s \in S PROVE f[s] = IF s = 0 THEN 0 ELSE f[ParentOf(n, s)] + 1
  <2>1. CASE s = 0
    BY <1>5, <2>1 DEF Recurs
  <2>2. CASE s # 0
    <3>1. below[s] = ParentOf(n, s) /\ ParentOf(n, s) \in S
      BY <1>2, <2>2
    <3>2. f[s] = next[f[below[s]]]
      <4> HIDE DEF next, below
      <4> QED BY <1>5, <2>2 DEF Recurs
    <3>3. f[ParentOf(n, s)] \in Nat
      BY <1>6, <3>1
    <3> QED BY <2>2, <3>1, <3>2, <3>3
  <2> QED BY <2>1, <2>2
<1>8. Is(f)
  BY <1>6, <1>7
<1>9. Is(d)
  BY <1>8
<1>10. \A r : DepthOf(n, r) = d[r]
  BY DEF DepthOf
<1> HIDE DEF d
<1>11. ASSUME NEW s \in S PROVE d[s] = IF s = 0 THEN 0 ELSE d[ParentOf(n, s)] + 1
  BY <1>9
<1>12. \A s \in S : d[s] \in Nat
  <2> DEFINE T == {s \in S : d[s] \notin Nat}
  <2>1. SUFFICES ASSUME T # {} PROVE FALSE
    OBVIOUS
  <2>0. T \in SUBSET Nat
    OBVIOUS
  <2>2. PICK x \in T : \A y \in T : x <= y
    BY <2>0, <2>1, LeastNumber, Zenon
  <2>3. x \in S /\ d[x] \notin Nat
    OBVIOUS
  <2>4. x # 0
    BY <1>11, <2>3
  <2>5. ParentOf(n, x) \in S /\ ~(x <= ParentOf(n, x))
    BY <1>2, <2>3, <2>4
  <2>6. d[ParentOf(n, x)] \in Nat
    BY <2>2, <2>5
  <2> QED BY <1>11, <2>3, <2>4, <2>6
<1>13. 0 \in S /\ \A r \in 1..(n - 1) : r \in S /\ r # 0
  OBVIOUS
<1> QED BY <1>10, <1>11, <1>12, <1>13

\* Each level of the tree takes a round, rounds being counted down.
LEMMA DepthByRound ==
  ASSUME NEW n \in Nat, n > 0
  PROVE  \A r \in 1..(n - 1) : DepthOf(n, r) <= NRounds(n) - LearnRound(n, r) + 1
<1> DEFINE T == {r \in 1..(n - 1) : ~(DepthOf(n, r) <= NRounds(n) - LearnRound(n, r) + 1)}
<1>1. SUFFICES ASSUME T # {} PROVE FALSE
  OBVIOUS
<1>0. T \in SUBSET Nat
  OBVIOUS
<1>2. PICK r \in T : \A y \in T : r <= y
  BY <1>0, <1>1, LeastNumber, Zenon
<1>3. r \in 1..(n - 1) /\ ~(DepthOf(n, r) <= NRounds(n) - LearnRound(n, r) + 1)
  OBVIOUS
<1> DEFINE p == ParentOf(n, r)
<1>4. /\ NRounds(n) \in Nat /\ LearnRound(n, r) \in 0..NRounds(n)
      /\ p \in 0..(r - 1) /\ (p # 0 => LearnRound(n, p) > LearnRound(n, r))
  BY <1>3, RoundsOf, LearnsIn, LearnsFrom
<1>5. DepthOf(n, r) = DepthOf(n, p) + 1
  BY <1>3, DepthStep
<1>6. CASE p = 0
  <2>1. DepthOf(n, r) = 1
    BY <1>5, <1>6, DepthStep
  <2> QED BY <1>3, <1>4, <2>1
<1>7. CASE p # 0
  <2>1. p \in 1..(n - 1) /\ ~(r <= p) /\ p \in 0..(n - 1)
    BY <1>3, <1>4, <1>7
  <2>2. DepthOf(n, p) <= NRounds(n) - LearnRound(n, p) + 1
    BY <1>2, <2>1
  <2>3. LearnRound(n, p) \in 0..NRounds(n) /\ DepthOf(n, p) \in Nat
    BY <2>1, LearnsIn, DepthStep
  <2> QED BY <1>3, <1>4, <1>5, <1>7, <2>2, <2>3
<1> QED BY <1>6, <1>7

LEMMA DepthBound ==
  ASSUME NEW n \in Nat, n > 0, NEW r \in 0..(n - 1)
  PROVE  DepthOf(n, r) <= NRounds(n) + (IF n > MaxPowerTwo(n) THEN 1 ELSE 0)
<1>1. NRounds(n) \in Nat /\ MaxPowerTwo(n) \in Nat
  BY RoundsOf
<1>2. CASE r = 0
  BY <1>1, <1>2, DepthStep
<1>3. CASE r # 0
  <2>1. r \in 1..(n - 1)
    BY <1>3
  <2>2. /\ LearnRound(n, r) \in 0..NRounds(n) /\ (LearnRound(n, r) = 0 <=> r >= MaxPowerTwo(n))
        /\ DepthOf(n, r) <= NRounds(n) - LearnRound(n, r) + 1
        /\ DepthOf(n, r) \in Nat
    BY <2>1, LearnsIn, DepthByRound, DepthStep
  <2> QED BY <1>1, <2>1, <2>2
<1> QED BY <1>2, <1>3

-----------------------------------------------------------------------------
(* Theorems                                                                *)

\* The placed ranks, rank 0 among them, each bound to finitely many sockets.
Placed ==
  /\ size \in Nat /\ size > 0
  /\ DOMAIN binding = DOMAIN node /\ Ranked(node)
  /\ \A r \in DOMAIN node : binding[r] \subseteq Nat /\ IsFiniteSet(binding[r])

LEMMA PlacedInvariance == AllCases => []Placed
<1>1. FirstCase => Placed
  <2> SUFFICES ASSUME FirstCase PROVE Placed
    OBVIOUS
  <2>1. DOMAIN node = {0} /\ DOMAIN binding = {0} /\ binding[0] \in Bindings /\ size = 1
    BY DEF FirstCase
  <2> QED BY <2>1, ScheduleCheckAssumption DEF Placed, Ranked
<1>2. Placed /\ [NextCase]_cases => Placed'
  <2> SUFFICES ASSUME Placed, [NextCase]_cases PROVE Placed'
    OBVIOUS
  <2>1. CASE UNCHANGED cases
    BY <2>1 DEF cases, Placed, Ranked
  <2>2. CASE NextCase
    <3>1. size' = size + 1 /\ size \in Nat /\ size' > 0
      BY <2>2 DEF NextCase, Placed
    <3>2. CASE size < MaxPlaced
      <4>1. PICK b \in Bindings : binding' = With(binding, size, b)
        BY <2>2, <3>2 DEF NextCase
      <4>2. PICK m \in Nodes : node' = With(node, size, m)
        BY <2>2, <3>2 DEF NextCase
      <4>3. DOMAIN node' = DOMAIN node \cup {size} /\ DOMAIN binding' = DOMAIN node \cup {size}
        BY <4>1, <4>2 DEF With, Placed
      <4>4. \A r \in DOMAIN node' : binding'[r] = IF r = size THEN b ELSE binding[r]
        BY <4>1, <4>3 DEF With, Placed
      <4>5. \A r \in DOMAIN node' : binding'[r] \subseteq Nat /\ IsFiniteSet(binding'[r])
        BY <4>3, <4>4, ScheduleCheckAssumption DEF Placed
      <4>6. DOMAIN node' \subseteq Nat /\ 0 \in DOMAIN node'
        BY <3>1, <4>3 DEF Placed, Ranked
      <4> QED BY <3>1, <4>3, <4>5, <4>6 DEF Placed, Ranked
    <3>3. CASE ~(size < MaxPlaced)
      <4>1. node' = AllOnOne /\ binding' = [r \in {0} |-> {}]
        BY <2>2, <3>3 DEF NextCase
      <4>2. DOMAIN node' = {0} /\ DOMAIN binding' = {0} /\ binding'[0] = {}
        BY <4>1 DEF AllOnOne
      <4> QED BY <3>1, <4>2, FS_EmptySet DEF Placed, Ranked
    <3> QED BY <3>2, <3>3
  <2> QED BY <2>1, <2>2
<1> QED BY <1>1, <1>2, PTL DEF AllCases

\* CallsMatch for any number of processes, powers of two or not: whoever calls
\* measure_offset finds its partner calling it in the same round.
THEOREM CallsAlwaysMatch == AllCases => []CallsMatch
<1>1. Placed => CallsMatch
  BY CallMatches DEF Meet, Placed, CallsMatch, Member, Round
<1> QED BY <1>1, PlacedInvariance, PTL

\* LearnsOnceFromSettled for any number of processes: the calls make a tree of all
\* ranks with rank 0 on top, whose edges are used from the top down.
THEOREM RoundsMakeATree == AllCases => []LearnsOnceFromSettled
<1>1. Placed => LearnsOnceFromSettled
  <2> SUFFICES ASSUME Placed, NEW r \in Member
               PROVE  IF r = 0 THEN ClientRounds(size, r) = {}
                      ELSE /\ Cardinality(ClientRounds(size, r)) = 1
                           /\ ParentOf(size, r) = 0
                              \/ LearnRound(size, ParentOf(size, r))
                                   > LearnRound(size, r)
    BY DEF LearnsOnceFromSettled
  <2>1. size \in Nat /\ size > 0
    BY DEF Placed
  <2>2. CASE r = 0
    BY <2>1, <2>2, RootLearnsNothing
  <2>3. CASE r # 0
    <3>1. r \in 1..(size - 1)
      BY <2>1, <2>3 DEF Member
    <3>2. Cardinality(ClientRounds(size, r)) = 1
      BY <2>1, <3>1, LearnsIn, FS_Singleton
    <3> QED BY <2>1, <2>3, <3>1, <3>2, LearnsFrom
  <2> QED BY <2>2, <2>3
<1> QED BY <1>1, PlacedInvariance, PTL

\* LogarithmicDepth for any number of processes: a path of the tree uses a round at
\* most once.
THEOREM DepthIsLogarithmic == AllCases => []LogarithmicDepth
<1>1. Placed => LogarithmicDepth
  BY DepthBound DEF Placed, LogarithmicDepth, Member
<1> QED BY <1>1, PlacedInvariance, PTL

\* SettledLevelByLevel wherever any number of ranks run: the levels of Topo1 and of
\* Topo2 make one tree of all ranks, settled level by level from rank 0.
THEOREM LevelsMakeATree == AllCases => []SettledLevelByLevel
<1>1. Placed => SettledLevelByLevel
  <2> SUFFICES ASSUME Placed, NEW three \in BOOLEAN, NEW r \in DOMAIN node
               PROVE  LET levels == LevelsOf(three, r)
                      IN  IF r = 0 THEN Attached(levels, r) = {}
                          ELSE \E l \in DOMAIN levels :
                                 /\ Attached(levels, r) = {l}
                                 /\ LET leader == Leader(levels[l])
                                    IN  \A k \in Attached(LevelsOf(three, leader), leader) : k < l
    BY DEF SettledLevelByLevel
  <2>1. \A s : LevelsOf(three, s) = LevelsIn(three, node, binding, s)
    BY DEF LevelsOf, LevelsIn
  <2>2. CASE r = 0
    BY <2>1, <2>2, AttachedOnce DEF Placed
  <2>3. CASE r # 0
    <3>1. PICK l \in 1..NLevelsOf(three) :
                 Attached(LevelsIn(three, node, binding, r), r) = {l}
      BY <2>3, AttachedOnce DEF Placed
    <3>2. LET leader == Leader(LevelsIn(three, node, binding, r)[l])
          IN  /\ l \in 1..NLevelsOf(three)
              /\ \A k \in Attached(LevelsIn(three, node, binding, leader), leader) : k < l
      BY <3>1, LeaderOfLevel DEF Placed
    <3>3. l \in DOMAIN LevelsIn(three, node, binding, r)
      BY <3>2, LevelDomain
    <3>4. /\ l \in DOMAIN LevelsOf(three, r) /\ Attached(LevelsOf(three, r), r) = {l}
          /\ LET leader == Leader(LevelsOf(three, r)[l])
             IN  \A k \in Attached(LevelsOf(three, leader), leader) : k < l
      BY <3>1, <3>2, <3>3 DEF LevelsOf, LevelsIn
    <3> QED BY <2>3, <3>4, Zenon
  <2> QED BY <2>2, <2>3
<1> QED BY <1>1, PlacedInvariance, PTL

LEMMA MaxWithZero ==
  ASSUME NEW x \in Int
  PROVE  Max({0, x}) = IF x > 0 THEN x ELSE 0
BY DEF Max

\* A socket that is not 0 is that of a rank that is bound to it alone.
LEMMA OneSocket ==
  ASSUME NEW r, binding[r] \subseteq Nat, IsFiniteSet(binding[r])
  PROVE  /\ SocketId(binding, r) \in Nat
         /\ SocketId(binding, r) # 0 => binding[r] = {SocketId(binding, r)}
         /\ Cardinality(binding[r]) = 1 => binding[r] = {SocketId(binding, r)}
<1>1. CASE Cardinality(binding[r]) = 1
  <2>1. PICK x : binding[r] = {x}
    BY <1>1, FS_Singleton
  <2>2. GetSocketId(binding[r]) = x /\ x \in Nat
    BY <1>1, <2>1 DEF GetSocketId
  <2>3. SocketId(binding, r) = x
    BY <2>2, MaxWithZero DEF SocketId
  <2> QED BY <2>1, <2>2, <2>3
<1>2. CASE Cardinality(binding[r]) # 1
  <2>1. GetSocketId(binding[r]) = -1
    BY <1>2 DEF GetSocketId
  <2>2. SocketId(binding, r) = 0
    BY <2>1, MaxWithZero DEF SocketId
  <2> QED BY <1>2, <2>2
<1> QED BY <1>1, <1>2

\* StaysLocal wherever any number of ranks run, with whatever bindings.
THEOREM LevelsStayLocal == AllCases => []StaysLocal
<1>1. Placed => StaysLocal
  <2> SUFFICES ASSUME Placed, NEW r \in DOMAIN node
               PROVE  /\ \A l \in {2, 3} : \A s \in Levels3(node, binding, r)[l] :
                           node[s] = node[r]
                      /\ \A s \in Levels3(node, binding, r)[3] :
                           Cardinality(binding[r]) = 1 /\ 0 \notin binding[r]
                             => binding[s] = binding[r]
    BY DEF StaysLocal
  <2>1. /\ Levels3(node, binding, r)[2] = IfMember(Intersocket(node, binding, r), r)
        /\ Levels3(node, binding, r)[3] = Intrasocket(node, binding, r)
    BY DEF Levels3
  <2>2. ASSUME NEW s \in Intranode(node, r) PROVE node[s] = node[r]
    BY <2>2 DEF Intranode
  <2>3. ASSUME NEW s \in Levels3(node, binding, r)[2] PROVE node[s] = node[r]
    <3>1. s \in Intersocket(node, binding, r)
      BY <2>1, <2>3 DEF IfMember
    <3>2. s \in Intranode(node, r)
      BY <3>1, LeadersOfSockets DEF Placed
    <3> QED BY <2>2, <3>2
  <2>4. ASSUME NEW s \in Intrasocket(node, binding, r) PROVE node[s] = node[r]
    BY <2>2, <2>4, Sharing
  <2>5. ASSUME NEW s \in Intrasocket(node, binding, r),
               Cardinality(binding[r]) = 1, 0 \notin binding[r]
        PROVE  binding[s] = binding[r]
    <3>1. s \in DOMAIN node /\ SocketId(binding, s) = SocketId(binding, r)
      BY <2>5, Sharing DEF Intrasocket
    <3>2. binding[r] = {SocketId(binding, r)} /\ SocketId(binding, r) # 0
      BY <2>5, OneSocket DEF Placed
    <3>3. binding[s] = {SocketId(binding, s)}
      BY <3>1, <3>2, OneSocket DEF Placed
    <3> QED BY <3>1, <3>2, <3>3
  <2> QED BY <2>1, <2>3, <2>4, <2>5
<1> QED BY <1>1, PlacedInvariance, PTL
=============================================================================
