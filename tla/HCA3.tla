-------------------------------- MODULE HCA3 --------------------------------
(***************************************************************************)
(* synchronize_all_clocks of HCA3ClockSync (HCA3) and HCA3OffsetClockSync  *)
(* (HCA3O, the default algorithm): every rank runs through its rounds on   *)
(* its own, without barriers, over MaxSyncs synchronisations in a row.     *)
(* HCA3O takes one offset for its clock, HCA3 fits a linear model to       *)
(* several, and may measure the intercept once more.  A measurement is     *)
(* what SkampiOffset shows of it: the reference may leave before the       *)
(* client does, and the client's offset is off by at most MaxError.        *)
(*                                                                         *)
(* Base clocks run at rates of their own.  The rates are such that slopes  *)
(* are integers, and the offsets HCA3 fits its slope to are exact; the one *)
(* that gives the intercept last is not.                                   *)
(***************************************************************************)
EXTENDS HCATree, LinearModel

CONSTANTS
  nprocs,
  Settings,
  MaxError,   \* bound on the error of one measurement
  MaxSyncs    \* bound on the synchronisations in a row

Rank == 0..(nprocs - 1)

Calls == [i \in 0..NRounds(nprocs) |-> [r \in Rank |-> Call(nprocs, i, r)]]
Learns == [r \in Rank \ {0} |-> LearnRound(nprocs, r)]
Parents == [r \in Rank \ {0} |-> ParentOf(nprocs, r)]
Depths == [r \in Rank |-> DepthOf(nprocs, r)]

\* A setting: HCA3 (linear) or HCA3O, the constructor's parameters, what base clock r
\* shows at true time 0 and how fast it is, and the errors that occur.  An offset
\* alone cannot make up for a drift.
Setting ==
  [linear : BOOLEAN, n_fitpoints : Nat \ {0}, recompute_intercept : BOOLEAN,
   skew : [Rank -> Int], rate : [Rank -> Nat \ {0}], errors : SUBSET Int]
Sound(set) ==
  /\ set.errors \subseteq -MaxError..MaxError /\ set.errors # {}
  /\ IF set.linear
     THEN /\ set.n_fitpoints > 1
          /\ set.recompute_intercept \/ set.errors = {0}
          /\ \A r \in Rank : set.rate[0] % set.rate[r] = 0
     ELSE \A r \in Rank : set.rate[r] = set.rate[0]

ASSUME nprocsAssumption == nprocs \in Nat \ {0}
ASSUME SettingsAssumption == \A set \in Settings : set \in Setting /\ Sound(set)
ASSUME BoundsAssumption == MaxError \in Nat /\ MaxSyncs \in Nat

VARIABLES
  setting,    \* the setting, never changed
  now,        \* true time
  round,      \* round[r]: the round r is in; -1 outside synchronize_all_clocks
  syncs,      \* syncs[r]: the synchronisations r has begun
  done,       \* done[r]: the measurements r has done in this round
  fit,        \* fit[r]: what r has measured as a client, time stamps and offsets
  answer,     \* answer[r]: the measurement r's reference has left, {} if none
  my_clock,   \* my_clock[r]: the model of the global clock r is building
  global      \* global[r]: the model of the clock r has been returned last

vars == <<setting, now, round, syncs, done, fit, answer, my_clock, global>>

Dummy == OffsetModel(0)

Init ==
  /\ setting \in Settings
  /\ now = 0
  /\ round = [r \in Rank |-> -1]
  /\ syncs = [r \in Rank |-> 0]
  /\ done = [r \in Rank |-> 0]
  /\ fit = [r \in Rank |-> <<>>]
  /\ answer = [r \in Rank |-> {}]
  /\ my_clock = [r \in Rank |-> Dummy]
  /\ global = [r \in Rank |-> Dummy]

BaseAt(r, t) == setting.skew[r] + setting.rate[r] * t

\* Mutant: the clock of the synchronisation before.
ReadingStale(r) == Normalized(global[r], BaseAt(r, now))

\* GlobalClock::get_time of the clock r is building.
Reading(r) == Normalized(my_clock[r], BaseAt(r, now))

-----------------------------------------------------------------------------
(* Learning.                                                               *)

\* How often a pair measures in its round.
Measurements ==
  IF ~setting.linear THEN 1
  ELSE setting.n_fitpoints + (IF setting.recompute_intercept THEN 1 ELSE 0)

\* Mutant: the reference does not measure the intercept again.
LastOneAlone(r) ==
  IF fit[r] = <<>> /\ setting.linear THEN done[r] + 1 = setting.n_fitpoints
  ELSE done[r] + 1 = Measurements

\* Each side counts for itself.
LastOne(r) == done[r] + 1 = Measurements

\* The regression over points on a line.
Fitted(points) ==
  LET first == points[1]
      last == points[Len(points)]
      slope == (last.offset - first.offset) \div (last.timestamp - first.timestamp)
  IN  [slope |-> slope, intercept |-> first.offset - slope * first.timestamp]

\* Mutant: the sign of the slope is lost.
RemeasuredSign(lm, point) ==
  [lm EXCEPT !.intercept = lm.slope * point.timestamp + point.offset]

\* remeasure_intercept keeps the slope.
Remeasured(lm, point) ==
  [lm EXCEPT !.intercept = lm.slope * (-point.timestamp) + point.offset]

\* The model of the new clock, from all that has been measured in the round.
Learned(points) ==
  IF ~setting.linear THEN OffsetModel(points[1].offset)
  ELSE LET lm == Fitted(SubSeq(points, 1, setting.n_fitpoints))
       IN  IF setting.recompute_intercept THEN Remeasured(lm, points[Len(points)])
           ELSE lm

-----------------------------------------------------------------------------
(* Rounds.                                                                 *)

\* A new synchronisation starts from a clock that shows what the base clock does.
Start(r) ==
  /\ round[r] = -1 /\ syncs[r] < MaxSyncs
  /\ syncs' = [syncs EXCEPT ![r] = @ + 1]
  /\ round' = [round EXCEPT ![r] = NRounds(nprocs)]
  /\ my_clock' = [my_clock EXCEPT ![r] = Dummy]
  /\ UNCHANGED <<done, fit, answer, global>>

MyCall(r) == IF round[r] >= 0 THEN Calls[round[r]][r] ELSE {}

\* The round after; the clock is returned after round 0.
Advance(r, clock) ==
  /\ round' = [round EXCEPT ![r] = @ - 1]
  /\ done' = [done EXCEPT ![r] = 0]
  /\ global' = IF round[r] = 0 THEN [global EXCEPT ![r] = clock] ELSE global

Again(r) == done' = [done EXCEPT ![r] = @ + 1] /\ UNCHANGED <<round, global>>

\* Mutant: in the last round a reference does not wait for its client.
SkipLast(r) ==
  /\ round[r] >= 0 /\ (MyCall(r) = {} \/ round[r] = 0)
  /\ Advance(r, my_clock[r])
  /\ UNCHANGED <<syncs, fit, answer, my_clock>>

\* Nothing to do for r in this round.
Skip(r) ==
  /\ round[r] >= 0 /\ MyCall(r) = {}
  /\ Advance(r, my_clock[r])
  /\ UNCHANGED <<syncs, fit, answer, my_clock>>

\* The two sides of a call are ready; the client's clock has moved on since it took
\* its last fit point.
Ready(r, client) ==
  /\ MyCall(client) = MyCall(r) /\ answer[client] = {}
  /\ \A k \in DOMAIN fit[client] : fit[client][k].timestamp # Reading(client)

Errors(r) ==
  IF setting.linear /\ done[r] < setting.n_fitpoints THEN {0} ELSE setting.errors

\* The reference's side of measure_offset: it needs a client that makes the same
\* call.  When the reference leaves, the client has all the readings it needs for
\* its offset; the reference deletes its own.
Serve(r) ==
  /\ \E call \in MyCall(r), e \in Errors(r) :
       LET client == call[2] IN
       /\ call[1] = r /\ Ready(r, client)
       /\ answer' = [answer EXCEPT ![client] =
            {[timestamp |-> Reading(client),
              offset    |-> Reading(client) - Reading(r) + e]}]
       /\ IF LastOne(r) THEN Advance(r, my_clock[r]) ELSE Again(r)
  /\ UNCHANGED <<syncs, fit, my_clock>>

\* The client's side; its new clock puts the learned model over its base clock.
Learn(r) ==
  /\ \E point \in answer[r] :
       LET points == Append(fit[r], point) IN
       IF LastOne(r)
       THEN /\ fit' = [fit EXCEPT ![r] = <<>>]
            /\ my_clock' = [my_clock EXCEPT ![r] = Learned(points)]
            /\ Advance(r, Learned(points))
       ELSE /\ fit' = [fit EXCEPT ![r] = points]
            /\ Again(r)
            /\ UNCHANGED my_clock
  /\ answer' = [answer EXCEPT ![r] = {}]
  /\ UNCHANGED syncs

Step(r) ==
  /\ Start(r) \/ Skip(r) \/ Serve(r) \/ Learn(r)
  /\ UNCHANGED <<setting, now>>

\* Time passes while a pair waits for it, which bounds it.
Tick ==
  /\ \E r \in Rank : /\ answer[r] = {}
                     /\ \E k \in DOMAIN fit[r] : fit[r][k].timestamp = Reading(r)
  /\ now' = now + 1
  /\ UNCHANGED <<setting, round, syncs, done, fit, answer, my_clock, global>>

AllDone == \A r \in Rank : round[r] = -1 /\ syncs[r] = MaxSyncs
Stop == AllDone /\ UNCHANGED vars

Next == Stop \/ Tick \/ \E r \in Rank : Step(r)

\* A rank whose call can go on does: a measurement of a pair ends (Termination of
\* SkampiOffset), and nothing else blocks.  Time passes.
Spec == Init /\ [][Next]_vars /\ WF_vars(Tick) /\ \A r \in Rank : WF_vars(Step(r))

-----------------------------------------------------------------------------
(* Properties                                                              *)

\* Two ranks that are ready for each other are in the same synchronisation and the
\* same round and have measured equally often in it: without barriers a rank can be
\* far ahead of others, but not of the ranks it still has to measure with.
MeetInSameRound ==
  \A r \in Rank : \A call \in MyCall(r) :
    LET other == IF call[1] = r THEN call[2] ELSE call[1] IN
    MyCall(other) = {call} /\ answer[call[2]] = {} =>
      /\ syncs[other] = syncs[r] /\ round[other] = round[r]
      /\ done[other] = done[r] /\ done[r] = Len(fit[call[2]])

\* How far a clock with the given model is from rank 0's base clock at time t.
ErrorAt(r, clock, t) == Normalized(clock, BaseAt(r, t)) - BaseAt(0, t)

\* A clock that has been returned is off by at most one measurement's error for
\* each level of the tree, although the parents' clocks were taken without waiting
\* for anybody else, and for HCA3 it stays so while the base clocks drift apart:
\* errors are linear in time, so two times stand for all.
GlobalAccurate ==
  \A r \in Rank : round[r] = -1 /\ syncs[r] > 0 =>
    LET bound == Depths[r] * MaxError
    IN  \A t \in {0, now + 1000} : ErrorAt(r, global[r], t) \in -bound..bound

\* Every synchronisation ends on every rank.
Termination == <>AllDone

-----------------------------------------------------------------------------
(* The promise of SyncTree.  The root has its clock of a synchronisation   *)
(* when it starts, every other rank when its reference is done with it.    *)

LastAnswer(r) == answer[r] # {} /\ Len(fit[r]) + 1 = Measurements
HasLearned(r) == r = 0 \/ round[r] < Learns[r] \/ LastAnswer(r)
Generation(r) == IF HasLearned(r) THEN syncs[r] ELSE syncs[r] - 1

\* The clock r has of that synchronisation: on its way, taken or returned.
Current(r) ==
  IF LastAnswer(r) THEN Learned(Append(fit[r], CHOOSE point \in answer[r] : TRUE))
  ELSE IF HasLearned(r) /\ round[r] >= 0 THEN my_clock[r] ELSE global[r]
ErrorNow(r) == IF Generation(r) = 0 THEN 0 ELSE ErrorAt(r, Current(r), now)

Tree == INSTANCE SyncTree
  WITH TreeRank <- Rank, Root <- 0, Parent <- Parents, Depth <- Depths,
       gen <- [r \in Rank |-> Generation(r)],
       err <- [r \in Rank |-> ErrorNow(r)]

\* The rounds keep the promise: every rank takes its clock from its parent's clock
\* of the same synchronisation, and serves its children before the next one; time
\* passing changes nobody's error.
TreePromise == Tree!TreeSpec
=============================================================================
