----------------------------- MODULE SkampiSync -----------------------------
(***************************************************************************)
(* SKaMPIClockSync::synchronize_all_clocks: rank 0 measures its offset to  *)
(* one rank after another, a barrier before each measurement, broadcasts   *)
(* what it has measured, and a last barrier ends the synchronisation.  A   *)
(* measurement is what SkampiOffset shows of it: client minus reference on *)
(* both sides, each with an error of its own.                              *)
(***************************************************************************)
EXTENDS Integers

CONSTANTS
  nprocs,
  Skew,       \* Skew[r]: what r's clock shows at true time 0
  MaxError,   \* bound on the error of one measurement
  MaxSyncs    \* bound on the synchronisations in a row

Rank == 0..(nprocs - 1)

ASSUME nprocsAssumption == nprocs \in Nat \ {0}
ASSUME SkewAssumption == Skew \in [Rank -> Int]
ASSUME BoundsAssumption == MaxError \in Nat /\ MaxSyncs \in Nat

VARIABLES
  pc,        \* pc[r]: where r is in synchronize_all_clocks
  syncs,     \* syncs[r]: the synchronisations r has begun
  i,         \* i[r]: the loop counter
  entered,   \* entered[r]: how many barriers r has entered
  answer,    \* answer[r]: the offset r's reference has left for it, {} if none
  tds,       \* tds[r]: r's array of time differences
  bcast,     \* rank 0's last broadcast of its tds, with its synchronisation
  global     \* global[r]: the offset of the clock r has been returned last

vars == <<pc, syncs, i, entered, answer, tds, bcast, global>>

Zeros == [s \in Rank |-> 0]

Init ==
  /\ pc = [r \in Rank |-> "idle"]
  /\ syncs = [r \in Rank |-> 0]
  /\ i = [r \in Rank |-> 0]
  /\ entered = [r \in Rank |-> 0]
  /\ answer = [r \in Rank |-> {}]
  /\ tds = [r \in Rank |-> Zeros]
  /\ bcast = [sync |-> 0, tds |-> Zeros]
  /\ global = [r \in Rank |-> 0]

AllEntered(r) == \A s \in Rank : entered[s] >= entered[r]
EnterBarrier(r) == entered' = [entered EXCEPT ![r] = @ + 1]

\* Mutant: no barrier before a measurement.
NextTurnFree(r, turn) ==
  /\ i' = [i EXCEPT ![r] = turn]
  /\ pc' = [pc EXCEPT ![r] = IF turn < nprocs THEN "measure" ELSE "bcast"]
  /\ UNCHANGED entered

\* The loop goes on with the given turn, which starts with a barrier.
NextTurn(r, turn) ==
  /\ i' = [i EXCEPT ![r] = turn]
  /\ IF turn < nprocs
     THEN pc' = [pc EXCEPT ![r] = "barrier"] /\ EnterBarrier(r)
     ELSE pc' = [pc EXCEPT ![r] = "bcast"] /\ UNCHANGED entered

Start(r) ==
  /\ pc[r] = "idle" /\ syncs[r] < MaxSyncs
  /\ syncs' = [syncs EXCEPT ![r] = @ + 1]
  /\ tds' = [tds EXCEPT ![r] = Zeros]
  /\ NextTurn(r, 1)
  /\ UNCHANGED <<answer, bcast, global>>

LeaveBarrier(r) ==
  /\ pc[r] = "barrier" /\ AllEntered(r)
  /\ pc' = [pc EXCEPT ![r] = "measure"]
  /\ UNCHANGED <<syncs, i, entered, answer, tds, bcast, global>>

\* Mutant: only the two ranks that measure enter the barrier of a turn.
SkipBarrier(r) ==
  /\ pc[r] = "measure" /\ r \notin {0, i[r]}
  /\ NextTurnFree(r, i[r] + 1)
  /\ UNCHANGED <<syncs, answer, tds, bcast, global>>

\* It is another rank's turn.
Skip(r) ==
  /\ pc[r] = "measure" /\ r \notin {0, i[r]}
  /\ NextTurn(r, i[r] + 1)
  /\ UNCHANGED <<syncs, answer, tds, bcast, global>>

Measured(client) == {Skew[client] - Skew[0] + e : e \in -MaxError..MaxError}

\* Rank 0's side of the measurement; it keeps its own offset.
Serve ==
  /\ pc[0] = "measure"
  /\ LET client == i[0] IN
     /\ pc[client] = "measure" /\ i[client] = client /\ answer[client] = {}
     /\ \E mine \in Measured(client), yours \in Measured(client) :
          /\ tds' = [tds EXCEPT ![0][client] = mine]
          /\ answer' = [answer EXCEPT ![client] = {yours}]
  /\ NextTurn(0, i[0] + 1)
  /\ UNCHANGED <<syncs, bcast, global>>

\* Mutant: the offset is kept under the rank's own number.
LearnOwnEntry(r) ==
  /\ \E offset \in answer[r] : tds' = [tds EXCEPT ![r][r] = offset]
  /\ answer' = [answer EXCEPT ![r] = {}]
  /\ NextTurn(r, i[r] + 1)
  /\ UNCHANGED <<syncs, bcast, global>>

Learn(r) ==
  /\ \E offset \in answer[r] : tds' = [tds EXCEPT ![r][0] = offset]
  /\ answer' = [answer EXCEPT ![r] = {}]
  /\ NextTurn(r, i[r] + 1)
  /\ UNCHANGED <<syncs, bcast, global>>

ToLastBarrier(r) == pc' = [pc EXCEPT ![r] = "final"] /\ EnterBarrier(r)

Broadcast ==
  /\ pc[0] = "bcast"
  /\ bcast' = [sync |-> syncs[0], tds |-> tds[0]]
  /\ ToLastBarrier(0)
  /\ UNCHANGED <<syncs, i, answer, tds, global>>

TakeBroadcast(r) ==
  /\ pc[r] = "bcast" /\ r # 0 /\ bcast.sync = syncs[r]
  /\ tds' = [tds EXCEPT ![r] =
               [s \in Rank |-> IF s = 0 THEN @[0] ELSE bcast.tds[s] + @[0]]]
  /\ ToLastBarrier(r)
  /\ UNCHANGED <<syncs, i, answer, bcast, global>>

\* Mutant: no barrier at the end.
ReturnAtOnce(r) ==
  /\ pc[r] = "final"
  /\ pc' = [pc EXCEPT ![r] = "idle"]
  /\ global' = [global EXCEPT ![r] = tds[r][0]]
  /\ UNCHANGED <<syncs, i, entered, answer, tds, bcast>>

Return(r) ==
  /\ pc[r] = "final" /\ AllEntered(r)
  /\ pc' = [pc EXCEPT ![r] = "idle"]
  /\ global' = [global EXCEPT ![r] = tds[r][0]]
  /\ UNCHANGED <<syncs, i, entered, answer, tds, bcast>>

Step(r) == \/ Start(r) \/ LeaveBarrier(r) \/ Skip(r) \/ Learn(r)
           \/ TakeBroadcast(r) \/ Return(r)
RootStep == Serve \/ Broadcast

AllDone == \A r \in Rank : pc[r] = "idle" /\ syncs[r] = MaxSyncs
Stop == AllDone /\ UNCHANGED vars

Next == Stop \/ RootStep \/ \E r \in Rank : Step(r)

\* A rank whose call can return goes on.
Spec == Init /\ [][Next]_vars
          /\ WF_vars(RootStep) /\ \A r \in Rank : WF_vars(Step(r))

-----------------------------------------------------------------------------
(* Properties                                                              *)

\* The barriers keep measurements apart: two ranks that are measuring take the same
\* turn of the same synchronisation, so no ping-pong runs while another one does.
OnePairAtATime ==
  LET Measuring == {r \in Rank : pc[r] = "measure" /\ r \in {0, i[r]}}
  IN  \A r, s \in Measuring : i[r] = i[s] /\ syncs[r] = syncs[s]

\* How far r's clock with the given offset is from rank 0's.
ErrorOf(r, offset) == (Skew[r] - offset) - Skew[0]

\* Who returns from a synchronisation knows that every other rank has measured in
\* it, the last one as well.
ReturnedTogether ==
  \A r, s \in Rank : pc[r] = "idle" =>
    /\ syncs[s] >= syncs[r]
    /\ syncs[s] = syncs[r] => pc[s] \in {"idle", "final"}

\* Every synchronisation ends on every rank.
Termination == <>AllDone

-----------------------------------------------------------------------------
(* The promise of SyncTree, all ranks below rank 0.                        *)

HasLearned(r) == r = 0 \/ answer[r] # {} \/ pc[r] \in {"idle", "final", "bcast"} \/ i[r] > r
Generation(r) == IF HasLearned(r) THEN syncs[r] ELSE syncs[r] - 1

\* The offset of r's latest clock: on its way, in the array, or returned.
OffsetLeft(r) == CHOOSE offset \in answer[r] : TRUE
Offset(r) ==
  IF answer[r] # {} THEN OffsetLeft(r)
  ELSE IF HasLearned(r) /\ pc[r] # "idle" THEN tds[r][0]
  ELSE global[r]

ErrorNow(r) == IF Generation(r) = 0 THEN 0 ELSE ErrorOf(r, Offset(r))

Tree == INSTANCE SyncTree
  WITH TreeRank <- Rank, Root <- 0, Parent <- [r \in Rank \ {0} |-> 0],
       Depth <- [r \in Rank |-> IF r = 0 THEN 0 ELSE 1],
       gen <- [r \in Rank |-> Generation(r)],
       err <- [r \in Rank |-> ErrorNow(r)]

\* The turns keep the promise: every rank takes its clock from rank 0's in every
\* synchronisation, and rank 0 has served all before the next one.
TreePromise == Tree!TreeSpec
=============================================================================
