--------------------------------- MODULE HCA ---------------------------------
(***************************************************************************)
(* HCAClockSync::synchronize_all_clocks, for HCA and HCA2: neighbours      *)
(* learn linear models of each other, the models travel up the tree and    *)
(* are merged on the way, rank 0 ends up with a model of every rank and    *)
(* scatters them.                                                          *)
(*                                                                         *)
(* A coefficient of a model is represented by what it relates: the pair    *)
(* <<from, to>> of ranks, from's clock against to's.  That merging         *)
(* coefficients composes the clocks they relate is in LinearModel.         *)
(***************************************************************************)
EXTENDS HCATree

CONSTANT nprocs

Rank == 0..(nprocs - 1)
Master == 0
MaxPower == MaxPowerTwo(nprocs)
LastRound == NRounds(nprocs)

ASSUME nprocsAssumption == nprocs \in Nat \ {0}

VARIABLES
  remeasureAll, \* HCA measures all intercepts again at the end, HCA2 does not
  pc,           \* pc[r]: where r is in synchronize_all_clocks
  round,        \* round[r]: the loop counter i
  models,       \* models[r][s]: r's array linear_models
  left,         \* the clients whose reference is done with the measurement
  mail,         \* mail[r]: the array of models on its way to r, {} if none
  gathered,     \* gathered[r]: r's contribution to MPI_Gather, {} if none yet
  scattered,    \* scattered[r]: r's part of MPI_Scatter, {} if none yet
  lm,           \* lm[r]: the model r's global clock is made of
  next,         \* the client the master measures next in remeasure_all_intercepts
  entered       \* entered[r]: how many barriers r has entered

vars ==
  <<remeasureAll, pc, round, models, left, mail, gathered, scattered, lm, next, entered>>

-----------------------------------------------------------------------------
(* Models.                                                                 *)

Garbage == <<-1, -1>>   \* an uninitialised coefficient, or one that makes no sense
Unset == [slope |-> Garbage, intercept |-> Garbage]
Model(from, to) == [slope |-> <<from, to>>, intercept |-> <<from, to>>]

Compose(outer, inner) ==
  IF outer[1] = inner[2] THEN <<inner[1], outer[2]>> ELSE Garbage

\* Mutant: the arguments the other way round.
MergeSwapped(lm1, lm2) ==
  [slope     |-> Compose(lm2.slope, lm1.slope),
   intercept |-> Compose(lm2.intercept, lm1.intercept)]

\* merge_linear_models; the slope of lm1 goes into the intercept.
Merge(lm1, lm2) ==
  [slope     |-> Compose(lm1.slope, lm2.slope),
   intercept |-> IF lm1.slope = lm1.intercept
                 THEN Compose(lm1.intercept, lm2.intercept) ELSE Garbage]

-----------------------------------------------------------------------------
Init ==
  /\ remeasureAll \in BOOLEAN
  /\ pc = [r \in Rank |-> IF LastRound > 0 THEN "round" ELSE "step2"]
  /\ round = [r \in Rank |-> 0]
  /\ models = [r \in Rank |-> [s \in Rank |-> Unset]]
  /\ left = {}
  /\ mail = [r \in Rank |-> {}]
  /\ gathered = [r \in Rank |-> {}]
  /\ scattered = [r \in Rank |-> {}]
  /\ lm = [r \in Rank |-> Unset]
  /\ next = 1
  /\ entered = [r \in Rank |-> 0]

Goto(r, place) == pc' = [pc EXCEPT ![r] = place]
EnterBarrier(r, place) ==
  /\ Goto(r, place)
  /\ entered' = [entered EXCEPT ![r] = @ + 1]
AllEntered(r) == \A s \in Rank : entered[s] >= entered[r]

\* The measurement r is in: the rounds count up here.
MyCall(r) ==
  CASE pc[r] = "round" -> RoundCall(nprocs, round[r] + 1, r)
    [] pc[r] = "step2" /\ nprocs > MaxPower -> LastCall(nprocs, r)
    [] pc[r] = "remeasure" -> IF r # Master THEN {<<Master, r>>}
                              ELSE IF next < nprocs THEN {<<Master, next>>} ELSE {}
    [] OTHER -> {}

\* The reference of a call is done with it; its client holds all the readings.
Leave(r) ==
  \E call \in MyCall(r) :
    /\ call[1] = r /\ MyCall(call[2]) = {call} /\ call[2] \notin left
    /\ left' = left \cup {call[2]}

-----------------------------------------------------------------------------
(* Step 1: rounds over the ranks below the largest power of two.           *)

\* Mutant: the ranks that take no part in the rounds leave out the barriers too.
SkipRounds(r) ==
  /\ pc[r] = "round" /\ MyCall(r) = {}
  /\ IF r >= MaxPower
     THEN Goto(r, "step2") /\ UNCHANGED entered
     ELSE EnterBarrier(r, "barrier")
  /\ UNCHANGED <<round, models, left, mail, gathered, scattered, lm, next>>

SkipRound(r) ==
  /\ pc[r] = "round" /\ MyCall(r) = {}
  /\ EnterBarrier(r, "barrier")
  /\ UNCHANGED <<round, models, left, mail, gathered, scattered, lm, next>>

MasterLearn(r) ==
  /\ pc[r] = "round" /\ Leave(r)
  /\ Goto(r, "receive")
  /\ UNCHANGED <<round, models, mail, gathered, scattered, lm, next, entered>>

\* Mutant: one model too many is sent.
ClientLearnOneMore(r) ==
  /\ pc[r] = "round" /\ r \in left
  /\ left' = left \ {r}
  /\ \E call \in MyCall(r) :
       LET parent == call[1] IN
       /\ models' = [models EXCEPT ![r][r] = Model(r, parent)]
       /\ mail' = [mail EXCEPT ![parent] =
                     {[j \in 0..(my_pow_2[round[r]]) |-> models'[r][r + j]]}]
  /\ EnterBarrier(r, "barrier")
  /\ UNCHANGED <<round, gathered, scattered, lm, next>>

\* The client keeps the model of its own clock, and sends it with the models it
\* has collected of the 2^i - 1 ranks after it.
ClientLearn(r) ==
  /\ pc[r] = "round" /\ r \in left
  /\ left' = left \ {r}
  /\ \E call \in MyCall(r) :
       LET parent == call[1] IN
       /\ models' = [models EXCEPT ![r][r] = Model(r, parent)]
       /\ mail' = [mail EXCEPT ![parent] =
                     {[j \in 0..(my_pow_2[round[r]] - 1) |-> models'[r][r + j]]}]
  /\ EnterBarrier(r, "barrier")
  /\ UNCHANGED <<round, gathered, scattered, lm, next>>

MasterReceive(r) ==
  /\ pc[r] = "receive"
  /\ \E tmp \in mail[r] :
       LET other == r + my_pow_2[round[r]] IN
       models' = [models EXCEPT ![r] =
                    [s \in Rank |-> IF s - other \notin DOMAIN tmp THEN @[s]
                                    ELSE IF s = other THEN tmp[0]
                                    ELSE Merge(tmp[0], tmp[s - other])]]
  /\ mail' = [mail EXCEPT ![r] = {}]
  /\ EnterBarrier(r, "barrier")
  /\ UNCHANGED <<round, left, gathered, scattered, lm, next>>

LeaveBarrier(r) ==
  /\ pc[r] = "barrier" /\ AllEntered(r)
  /\ round' = [round EXCEPT ![r] = @ + 1]
  /\ Goto(r, IF round[r] + 1 < LastRound THEN "round" ELSE "step2")
  /\ UNCHANGED <<models, left, mail, gathered, scattered, lm, next, entered>>

-----------------------------------------------------------------------------
(* Step 2: the ranks from the largest power of two on.                     *)

\* Every rank below the largest power of two, after it has served its client if it
\* has one.  learn_model returns a zero model to the reference, which stores it.
ReferenceStep2(r) ==
  /\ pc[r] = "step2" /\ r < MaxPower
  /\ IF MyCall(r) = {} THEN UNCHANGED <<left, models>>
     ELSE /\ Leave(r)
          /\ models' = [models EXCEPT ![r][r + MaxPower] = Model(r, r)]
  /\ Goto(r, IF r = Master /\ nprocs > MaxPower THEN "gather" ELSE "scatter")
  /\ UNCHANGED <<round, mail, gathered, scattered, lm, next, entered>>

\* The client learns its model and contributes it to the gather.
ClientStep2(r) ==
  /\ pc[r] = "step2" /\ r \in left
  /\ left' = left \ {r}
  /\ \E call \in MyCall(r) :
       models' = [models EXCEPT ![r][r] = Model(r, call[1])]
  /\ gathered' = [gathered EXCEPT ![r] = {models'[r][r]}]
  /\ Goto(r, "scatter")
  /\ UNCHANGED <<round, mail, scattered, lm, next, entered>>

\* Mutant: the first gathered model is merged like the others.
MasterGatherAll(r) ==
  /\ pc[r] = "gather" /\ \A s \in MaxPower..(nprocs - 1) : gathered[s] # {}
  /\ models' = [models EXCEPT ![r] =
       [p \in Rank |->
          IF p < MaxPower THEN @[p]
          ELSE Merge(@[p - MaxPower], CHOOSE m \in gathered[p] : TRUE)]]
  /\ Goto(r, "scatter")
  /\ UNCHANGED <<round, left, mail, gathered, scattered, lm, next, entered>>

\* The j-th gathered model is that of rank MaxPower - 1 + j, against rank j - 1;
\* the first one is against the master itself.
MasterGather(r) ==
  /\ pc[r] = "gather" /\ \A s \in MaxPower..(nprocs - 1) : gathered[s] # {}
  /\ models' = [models EXCEPT ![r] =
       [p \in Rank |->
          IF p < MaxPower THEN @[p]
          ELSE LET tmp == CHOOSE m \in gathered[p] : TRUE
                   j == p - MaxPower + 1
               IN  IF j = 1 THEN tmp ELSE Merge(@[j - 1], tmp)]]
  /\ Goto(r, "scatter")
  /\ UNCHANGED <<round, left, mail, gathered, scattered, lm, next, entered>>

-----------------------------------------------------------------------------
(* The models go out; HCA then measures every intercept against rank 0.    *)

MasterScatter ==
  /\ pc[Master] = "scatter"
  /\ scattered' = [s \in Rank |-> IF s = Master THEN {} ELSE {models[Master][s]}]
  /\ lm' = [lm EXCEPT ![Master] = models[Master][Master]]
  /\ Goto(Master, "remeasure")
  /\ UNCHANGED <<round, models, left, mail, gathered, next, entered>>

ReceiveScatter(r) ==
  /\ pc[r] = "scatter" /\ r # Master
  /\ \E m \in scattered[r] : lm' = [lm EXCEPT ![r] = m]
  /\ Goto(r, "remeasure")
  /\ UNCHANGED <<round, models, left, mail, gathered, scattered, next, entered>>

\* remeasure_all_intercepts: the master takes the ranks in order.
MasterRemeasure ==
  /\ pc[Master] = "remeasure" /\ remeasureAll
  /\ Leave(Master)
  /\ next' = next + 1
  /\ UNCHANGED <<pc, round, models, mail, gathered, scattered, lm, entered>>

\* The client keeps the slope and takes the measured intercept.
ClientRemeasure(r) ==
  /\ pc[r] = "remeasure" /\ r \in left
  /\ left' = left \ {r}
  /\ lm' = [lm EXCEPT ![r].intercept = <<r, Master>>]
  /\ EnterBarrier(r, "final")
  /\ UNCHANGED <<round, models, mail, gathered, scattered, next>>

RemeasureDone(r) ==
  /\ pc[r] = "remeasure"
  /\ remeasureAll => r = Master /\ next = nprocs
  /\ EnterBarrier(r, "final")
  /\ UNCHANGED <<round, models, left, mail, gathered, scattered, lm, next>>

\* Mutant: the master keeps the model it has scattered to itself.
ReturnScattered(r) ==
  /\ pc[r] = "final" /\ AllEntered(r)
  /\ Goto(r, "done")
  /\ UNCHANGED <<round, models, left, mail, gathered, scattered, lm, next, entered>>

\* The master's own clock is the reference.
Return(r) ==
  /\ pc[r] = "final" /\ AllEntered(r)
  /\ lm' = IF r = Master THEN [lm EXCEPT ![r] = Model(r, r)] ELSE lm
  /\ Goto(r, "done")
  /\ UNCHANGED <<round, models, left, mail, gathered, scattered, next, entered>>

-----------------------------------------------------------------------------
\* What one rank does by itself.
RankStep(r) ==
  \/ SkipRound(r) \/ MasterLearn(r) \/ ClientLearn(r) \/ MasterReceive(r)
  \/ LeaveBarrier(r)
  \/ ReferenceStep2(r) \/ ClientStep2(r) \/ MasterGather(r)
  \/ ReceiveScatter(r) \/ ClientRemeasure(r) \/ RemeasureDone(r) \/ Return(r)

MasterStep ==
  (MasterScatter \/ MasterRemeasure) /\ UNCHANGED remeasureAll
Step(r) == RankStep(r) /\ UNCHANGED remeasureAll

AllDone == \A r \in Rank : pc[r] = "done"
Stop == AllDone /\ UNCHANGED vars

Next == Stop \/ MasterStep \/ \E r \in Rank : Step(r)

\* A rank whose call can return goes on.
Spec == Init /\ [][Next]_vars
          /\ WF_vars(MasterStep) /\ \A r \in Rank : WF_vars(Step(r))

-----------------------------------------------------------------------------
(* Properties                                                              *)

\* No uninitialised entry of linear_models is ever sent up the tree: the array is
\* not initialised, and what a client sends is filled in by the rounds before.
OnlyLearnedModelsTravel ==
  \A r \in Rank :
    /\ \A array \in mail[r] : \A j \in DOMAIN array : array[j].slope # Garbage
    /\ Garbage \notin {m.slope : m \in gathered[r] \cup scattered[r]}

\* After round i a rank that was a master in it has the models of the 2^(i+1) - 1
\* ranks after it, each of them against its own clock.
CollectsSubtree ==
  \A r \in Rank :
    pc[r] = "barrier" /\ r < MaxPower /\ r % my_pow_2[round[r] + 1] = 0 =>
      \A s \in (r + 1)..(r + my_pow_2[round[r] + 1] - 1) : models[r][s] = Model(s, r)

\* The clock every rank returns with is its own clock put against rank 0's, in both
\* coefficients.
AllAgainstMaster == \A r \in Rank : pc[r] = "done" => lm[r] = Model(r, Master)

\* Every rank gets through all the collective calls and returns.
Termination == <>AllDone
=============================================================================
