----------------------------- MODULE Hierarchy -----------------------------
(***************************************************************************)
(* HierarchicalClockSync (Topo1) and TwoLevelClockSync (Topo2):            *)
(* communicators are split off once, then every synchronisation runs one   *)
(* algorithm per level, each rank with the clock the level before gave it. *)
(*                                                                         *)
(* The algorithm of a level is represented by its promise, as SyncTree and *)
(* ClockPropagation state it: all members put a model of the algorithm's   *)
(* kind over the clock they came with, one of offset 0 on the leader, the  *)
(* others' off by at most MaxError; or they all get the leader's nest of   *)
(* models.  The leader is not held up: what it gives in one                *)
(* synchronisation is taken in order, as messages on a communicator are.   *)
(* Clocks do not drift here, so a model is an offset.                      *)
(***************************************************************************)
EXTENDS Topology, LinearModel

CONSTANTS
  nprocs,
  Settings,   \* where the ranks run, and what they run
  MaxError,   \* bound on the error of one level
  MaxSyncs    \* bound on the synchronisations in a row

Rank == 0..(nprocs - 1)

Levels(set, r) ==
  IF set.three THEN Levels3(set.node, set.binding, r) ELSE Levels2(set.node, r)
NLevels(set) == IF set.three THEN 3 ELSE 2

\* A setting: Topo1 (three levels) or Topo2; for each level the kind of clock its
\* algorithm makes, or that it propagates the leader's; where the ranks run; what r's
\* base clock shows at true time 0.
Kind == {"LM", "Offset", "prop"}
Setting ==
  [three : BOOLEAN, algs : Seq(Kind), node : [Rank -> Nat],
   binding : [Rank -> SUBSET Nat], skew : [Rank -> Int]]

\* Clocks are copied only among ranks that share a time source.  The propagation needs
\* a clock from a level above, and cannot copy a GlobalClockOffset over another clock
\* (see ClockPropagation).
Sound(set) ==
  /\ Len(set.algs) = NLevels(set)
  /\ \A l \in 1..NLevels(set) : set.algs[l] = "prop" =>
       /\ l > 1 /\ \A k \in 2..(l - 1) : set.algs[k] # "Offset"
       /\ \A r \in Rank : \A s \in Levels(set, r)[l] : set.skew[s] = set.skew[r]

ASSUME nprocsAssumption == nprocs \in Nat \ {0}
ASSUME SettingsAssumption == \A set \in Settings : set \in Setting /\ Sound(set)
ASSUME BoundsAssumption == MaxError \in Nat /\ MaxSyncs \in Nat

VARIABLES
  setting,  \* the setting, never changed
  pc,       \* pc[r]: "idle", in a "split" or in the levels
  syncs,    \* syncs[r]: the synchronisations r has begun
  splits,   \* splits[r]: the splits r has entered
  level,    \* level[r]: the level r is at
  clock,    \* clock[r]: the clock r has built in this synchronisation, a nest of
            \* models over its base clock
  given,    \* given[r][l]: the clocks r has led level l with
  global    \* global[r]: the clock r has been returned last

vars == <<setting, pc, syncs, splits, level, clock, given, global>>

Table == [set \in Settings |-> [r \in Rank |-> Levels(set, r)]]
MyLevels(r) == Table[setting][r]
Last == NLevels(setting)

\* The communicator each split is made of, in the order of the calls: node and
\* leaders of nodes from all ranks, sockets and leaders of sockets from a node.
NSplits == IF setting.three THEN 4 ELSE 2
OldComm(r) == IF splits[r] <= 2 THEN Rank ELSE Intranode(setting.node, r)

Init ==
  /\ setting \in Settings
  /\ pc = [r \in Rank |-> "idle"]
  /\ syncs = [r \in Rank |-> 0]
  /\ splits = [r \in Rank |-> 0]
  /\ level = [r \in Rank |-> 0]
  /\ clock = [r \in Rank |-> <<>>]
  /\ given = [r \in Rank |-> [l \in 1..Last |-> <<>>]]
  /\ global = [r \in Rank |-> <<>>]

\* The next split, or the first level when all communicators are there.
SplitOrSync(r) ==
  IF splits[r] < NSplits
  THEN /\ splits' = [splits EXCEPT ![r] = @ + 1]
       /\ pc' = [pc EXCEPT ![r] = "split"]
       /\ UNCHANGED level
  ELSE /\ pc' = [pc EXCEPT ![r] = "level"]
       /\ level' = [level EXCEPT ![r] = 1]
       /\ UNCHANGED splits

\* Mutant: over the clock of the synchronisation before.
StartOver(r) ==
  /\ pc[r] = "idle" /\ syncs[r] < MaxSyncs
  /\ syncs' = [syncs EXCEPT ![r] = @ + 1]
  /\ SplitOrSync(r)
  /\ UNCHANGED <<clock, given, global>>

\* A synchronisation starts from the base clock; only the first one makes
\* communicators.
Start(r) ==
  /\ pc[r] = "idle" /\ syncs[r] < MaxSyncs
  /\ syncs' = [syncs EXCEPT ![r] = @ + 1]
  /\ clock' = [clock EXCEPT ![r] = <<>>]
  /\ SplitOrSync(r)
  /\ UNCHANGED <<given, global>>

\* Mutant: who leads no node leaves out the splits among leaders.
SplitMembers(r) ==
  /\ pc[r] = "split"
  /\ \A s \in OldComm(r) : splits[s] >= splits[r]
  /\ IF MyLevels(r)[1] = {}
     THEN pc' = [pc EXCEPT ![r] = "level"] /\ level' = [level EXCEPT ![r] = 1]
          /\ UNCHANGED splits
     ELSE SplitOrSync(r)
  /\ UNCHANGED <<syncs, clock, given, global>>

\* A split is done when all ranks of the old communicator are in it.
Split(r) ==
  /\ pc[r] = "split"
  /\ \A s \in OldComm(r) : splits[s] >= splits[r]
  /\ SplitOrSync(r)
  /\ UNCHANGED <<syncs, clock, given, global>>

-----------------------------------------------------------------------------
(* One level.                                                              *)

Comm(r) == IF pc[r] = "level" THEN MyLevels(r)[level[r]] ELSE {}

Alg(r) == setting.algs[level[r]]

Model(kind, offset) == [kind |-> kind, slope |-> 0, intercept |-> offset]

\* get_time of a clock that s has built.
Reading(s, nest) == Shown(nest, setting.skew[s])

\* On to the next level with the given clock, or return it.
Advance(r, nest) ==
  /\ clock' = [clock EXCEPT ![r] = nest]
  /\ IF level[r] < Last
     THEN level' = [level EXCEPT ![r] = @ + 1] /\ UNCHANGED <<pc, global>>
     ELSE /\ level' = [level EXCEPT ![r] = 0]
          /\ pc' = [pc EXCEPT ![r] = "idle"]
          /\ global' = [global EXCEPT ![r] = nest]

\* create_global_dummy_clock of the level's algorithm; Topo1 always takes a linear
\* model.
DummyKind(r) == IF setting.three THEN "LM" ELSE Alg(r)

\* No communicator at this level, or alone in it: a dummy clock on the first level, on
\* the others the clock of the level before.
Pass(r) ==
  /\ pc[r] = "level" /\ Cardinality(Comm(r)) <= 1
  /\ Advance(r, IF level[r] = 1 THEN <<Model(DummyKind(r), 0)>> ELSE clock[r])
  /\ UNCHANGED <<syncs, splits, given>>

\* Rank 0 of a communicator keeps its clock when it is propagated.
Leading(r) == IF Alg(r) = "prop" THEN clock[r] ELSE <<Model(Alg(r), 0)>> \o clock[r]

\* Mutant: every level is given the clock the synchronisation has started with.
LeadBase(r) ==
  /\ Cardinality(Comm(r)) > 1 /\ r = Leader(Comm(r))
  /\ given' = [given EXCEPT ![r][level[r]] = Append(@, <<>>)]
  /\ Advance(r, Leading(r))
  /\ UNCHANGED <<syncs, splits>>

\* Rank 0 of the communicator: its clock is the reference of the level.
Lead(r) ==
  /\ Cardinality(Comm(r)) > 1 /\ r = Leader(Comm(r))
  /\ given' = [given EXCEPT ![r][level[r]] = Append(@, clock[r])]
  /\ Advance(r, Leading(r))
  /\ UNCHANGED <<syncs, splits>>

\* The others, from the clock their leader has: it is put on a base clock of their own,
\* or measured against.
Take(r, theirs) ==
  IF Alg(r) = "prop" THEN Advance(r, theirs)
  ELSE \E e \in -MaxError..MaxError :
         LET difference == Reading(r, clock[r]) - Reading(Leader(Comm(r)), theirs) + e
         IN  Advance(r, <<Model(Alg(r), difference)>> \o clock[r])

\* Mutant: the clock the leader has given last, if any.
AdoptLast(r) ==
  /\ Cardinality(Comm(r)) > 1 /\ r # Leader(Comm(r))
  /\ LET theirs == given[Leader(Comm(r))][level[r]]
     IN  theirs # <<>> /\ Take(r, theirs[Len(theirs)])
  /\ UNCHANGED <<syncs, splits, given>>

Adopt(r) ==
  /\ Cardinality(Comm(r)) > 1 /\ r # Leader(Comm(r))
  /\ LET theirs == given[Leader(Comm(r))][level[r]]
     IN  Len(theirs) >= syncs[r] /\ Take(r, theirs[syncs[r]])
  /\ UNCHANGED <<syncs, splits, given>>

Step(r) ==
  /\ Start(r) \/ Split(r) \/ Pass(r) \/ Lead(r) \/ Adopt(r)
  /\ UNCHANGED setting

AllDone == \A r \in Rank : pc[r] = "idle" /\ syncs[r] = MaxSyncs
Stop == AllDone /\ UNCHANGED vars

Next == Stop \/ \E r \in Rank : Step(r)

\* A rank whose call can return goes on: the algorithm of a level ends.
Spec == Init /\ [][Next]_vars /\ \A r \in Rank : WF_vars(Step(r))

-----------------------------------------------------------------------------
(* Properties                                                              *)

\* How many levels of measurement are between r's clock and rank 0's.
Attachments(r) == Attached(MyLevels(r), r)
Hops(r) ==
  LET hops[s \in Rank] ==
        IF Attachments(s) = {} THEN 0
        ELSE LET l == Min(Attachments(s))
             IN  hops[Leader(MyLevels(s)[l])]
                 + (IF setting.algs[l] = "prop" THEN 0 ELSE 1)
  IN  hops[r]

\* Every clock that is returned is off by at most one error for each level it has
\* been measured at, wherever the ranks run; propagating costs nothing.
GlobalAccurate ==
  \A r \in Rank : pc[r] = "idle" /\ syncs[r] > 0 =>
    LET error == Reading(r, global[r]) - setting.skew[0]
    IN  error \in -(Hops(r) * MaxError)..(Hops(r) * MaxError)

\* A rank returns from a synchronisation only with a clock that its leaders, up to
\* rank 0, have settled in the same synchronisation.
SettledFromAbove ==
  \A r \in Rank : pc[r] = "idle" =>
    \A l \in Attachments(r) : Len(given[Leader(MyLevels(r)[l])][l]) >= syncs[r]

\* r takes part in a measurement at level l.
MeasuresAt(r, l) == setting.algs[l] # "prop" /\ Cardinality(MyLevels(r)[l]) > 1

\* A clock that a leader hands to the propagation, in whatever synchronisation, has one
\* model from the first level, measured or a dummy, and one more for each later level
\* its rank has measured at, none from the synchronisation before; so it is one the
\* propagation can flatten: get_flattened_clock_size_in_bytes counts one or two models,
\* and only a linear one may be over another (BufferFits of ClockPropagation).
NestFits ==
  \A r \in Rank : \A l \in 1..Last : setting.algs[l] = "prop" =>
    \A nest \in {given[r][l][k] : k \in DOMAIN given[r][l]} :
      /\ Len(nest) = 1 + Cardinality({j \in 2..(l - 1) : MeasuresAt(r, j)})
      /\ Len(nest) = 1 \/ (Len(nest) = 2 /\ nest[1].kind = "LM")

\* Splits and levels of all ranks fit together: every synchronisation ends.
Termination == <>AllDone
=============================================================================
