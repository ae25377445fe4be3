----------------------------- MODULE HCAProofs -----------------------------
(***************************************************************************)
(* HCA and HCA2 on any number of ranks.  Barriers keep all ranks in one    *)
(* round; in it, models travel over the edges of the tree, each of them    *)
(* merged to one against the rank that collects it, and at last against    *)
(* rank 0.  ScheduleProofs has the lemmas on the rounds.  At the end: what *)
(* clocks taken along a tree promise, whatever the tree (SyncTree).        *)
(***************************************************************************)
EXTENDS HCA, ScheduleProofs, SyncTree

-----------------------------------------------------------------------------
(* The inductive invariant                                                 *)

Places ==
  {"round", "receive", "barrier", "step2", "gather", "scatter", "remeasure", "final", "done"}

Types ==
  /\ remeasureAll \in BOOLEAN
  /\ pc \in [Rank -> Places]
  /\ round \in [Rank -> Nat]
  /\ entered \in [Rank -> Nat]
  /\ models = [r \in Rank |-> [s \in Rank |-> models[r][s]]]
  /\ left \subseteq Rank
  /\ mail = [r \in Rank |-> mail[r]]
  /\ gathered = [r \in Rank |-> gathered[r]]
  /\ scattered = [r \in Rank |-> scattered[r]]
  /\ lm = [r \in Rank |-> lm[r]]
  /\ next \in Nat \ {0}

\* How many barriers a rank has entered tells where it is.
InPlace(r) ==
  /\ pc[r] \in {"round", "receive"} => round[r] < LastRound /\ entered[r] = round[r]
  /\ pc[r] = "barrier" => round[r] < LastRound /\ entered[r] = round[r] + 1
  /\ pc[r] \in {"step2", "gather", "scatter", "remeasure"} => entered[r] = LastRound
  /\ pc[r] \in {"final", "done"} => entered[r] = LastRound + 1
  /\ pc[r] = "gather" => r = Master

\* Nobody is ahead by more than the barrier it waits in.
Met ==
  \A r \in Rank :
    /\ \A s \in Rank : entered[s] + 1 >= entered[r]
    /\ pc[r] \notin {"barrier", "final"} => AllEntered(r)

\* What a client c sends its reference p in round i: its own model, and those of the
\* ranks after it against c's clock.
Sent(c, p, i) ==
  [j \in 0..(my_pow_2[i] - 1) |-> IF j = 0 THEN Model(c, p) ELSE Model(c + j, c)]

\* The two ends of a call of round i.
Edge(i, p, c) ==
  /\ p \in Rank /\ c \in Rank /\ p # c /\ p < MaxPower /\ c < MaxPower
  /\ c = p + my_pow_2[i]
  /\ p % my_pow_2[i + 1] = 0 /\ c % my_pow_2[i + 1] = my_pow_2[i]
  /\ RoundCall(nprocs, i + 1, p) = {<<p, c>>}
  /\ RoundCall(nprocs, i + 1, c) = {<<p, c>>}

\* A reference waits for what its client has learned, or the client has sent it and
\* cannot leave the round.
Receiving(p) ==
  \E c \in Rank :
    /\ Edge(round[p], p, c)
    /\ \/ mail[p] = {}
       \/ pc[c] = "barrier" /\ round[c] = round[p] /\ mail[p] = {Sent(c, p, round[p])}

\* A client that its reference is done with has not gone on.
Waited(c) ==
  /\ pc[c] \notin {"receive", "barrier"}
  /\ pc[c] = "step2" => c >= MaxPower
  /\ pc[c] = "round" =>
       \E p \in Rank : Edge(round[c], p, c) /\ pc[p] = "receive" /\ round[p] = round[c]

Measured(r) ==
  /\ pc[r] = "receive" => Receiving(r)
  /\ mail[r] # {} => pc[r] = "receive"
  /\ r \in left => Waited(r)

\* After m barriers a rank that has been a reference in all m rounds has the models of
\* the 2^m - 1 ranks after it.
Collected(r) ==
  r < MaxPower =>
    \A m \in 0..LastRound : m <= entered[r] /\ r % my_pow_2[m] = 0 =>
      \A s \in (r + 1)..(r + my_pow_2[m] - 1) : models[r][s] = Model(s, r)

\* What is gathered is against the rank it was learned from, what rank 0 hands out is
\* against its own clock.
HandedOut(r) ==
  /\ gathered[r] # {} => r >= MaxPower /\ gathered[r] = {Model(r, r - MaxPower)}
  /\ scattered[r] # {} => scattered[r] = {Model(r, Master)}
  /\ r # Master /\ pc[r] \in {"remeasure", "final", "done"} => lm[r] = Model(r, Master)
  /\ pc[r] = "done" => lm[r] = Model(r, Master)
  /\ pc[Master] = "scatter" => r = Master \/ models[Master][r] = Model(r, Master)

Counted == Types /\ Met /\ \A r \in Rank : InPlace(r)
Travelling == \A r \in Rank : Measured(r) /\ Collected(r)
IInv == Counted /\ Travelling /\ \A r \in Rank : HandedOut(r)

-----------------------------------------------------------------------------
(* Rounds                                                                  *)

LEMMA Size ==
  /\ nprocs \in Nat /\ nprocs > 0 /\ Rank = 0..(nprocs - 1) /\ Master = 0 /\ 0 \in Rank
  /\ LastRound \in Nat /\ MaxPower = my_pow_2[LastRound]
  /\ MaxPower \in Nat /\ MaxPower > 0 /\ MaxPower <= nprocs
<1>1. nprocs \in Nat /\ nprocs > 0
  BY nprocsAssumption
<1> QED BY <1>1, RoundsOf DEF Rank, Master, LastRound, MaxPower

LEMMA PositivePowers == \A i \in Nat : my_pow_2[i] \in Nat /\ my_pow_2[i] > 0
BY Powers, PowerExceeds

\* A group of ranks that starts below the largest power of two ends there too.
LEMMA GroupInside ==
  ASSUME NEW r \in Rank, r < MaxPower, NEW m \in 0..LastRound, r % my_pow_2[m] = 0
  PROVE  r + my_pow_2[m] <= MaxPower
<1> DEFINE d == my_pow_2[m]
<1>1. d \in Nat /\ d > 0 /\ r \in Nat /\ m \in Nat /\ LastRound \in Nat /\ m <= LastRound
  BY PositivePowers, Size
<1>2. Divides(d, MaxPower)
  BY <1>1, PowersDivide, Size
<1>3. PICK q \in Nat : r = d * q
  BY <1>1, NoRemainder DEF Divides
<1>4. PICK k \in Nat : MaxPower = d * k
  BY <1>2 DEF Divides
<1>5. d * q < d * k
  BY <1>3, <1>4
<1> HIDE DEF d
<1>6. d * q + d <= d * k
  BY <1>1, <1>5, GroupFits
<1> QED BY <1>3, <1>4, <1>6 DEF d

LEMMA EdgeOf ==
  ASSUME NEW i \in Nat, i < LastRound, NEW r \in Rank,
         NEW call \in RoundCall(nprocs, i + 1, r)
  PROVE  \E p, c \in Rank : /\ call = <<p, c>> /\ r \in {p, c}
                            /\ Edge(i, p, c)
<1> DEFINE p == call[1]
           c == call[2]
           half == my_pow_2[i]
           whole == my_pow_2[i + 1]
<1>1. i + 1 \in 1..NRounds(nprocs) /\ (i + 1) - 1 = i
  BY Size DEF LastRound
<1>2. /\ p \in Rank /\ c \in Rank /\ p # c
      /\ RoundCall(nprocs, i + 1, p) = {call} /\ RoundCall(nprocs, i + 1, c) = {call}
  <2>1. /\ nprocs \in Nat /\ nprocs > 0 /\ i + 1 \in 1..NRounds(nprocs)
        /\ r \in 0..(nprocs - 1) /\ Rank = 0..(nprocs - 1)
    BY <1>1, Size
  <2>2. \A s : Call(nprocs, i + 1, s) = RoundCall(nprocs, i + 1, s)
    BY <2>1 DEF Call
  <2>3. i + 1 \in 0..NRounds(nprocs) /\ call \in Call(nprocs, i + 1, r)
    BY <2>1, <2>2
  <2>4. Meet(nprocs, i + 1, call)
    BY <2>1, <2>3, CallMatches, Zenon
  <2> QED BY <2>1, <2>2, <2>4 DEF Meet
<1>3. half \in Nat /\ half > 0 /\ whole \in Nat /\ whole = 2 * half
  BY Powers, PositivePowers
<1>4. ASSUME NEW s \in Rank
      PROVE  RoundCall(nprocs, i + 1, s) =
               IF s >= MaxPower THEN {}
               ELSE IF s % whole = 0 THEN {<<s, s + half>>}
               ELSE IF s % whole = half THEN {<<s - half, s>>}
               ELSE {}
  BY <1>1 DEF RoundCall, MaxPower
<1> HIDE DEF half, whole
<1>5. call = <<p, c>> /\ r \in {p, c}
  <2>1. call = <<r, r + half>> \/ call = <<r - half, r>>
    BY <1>4
  <2> QED BY <2>1
<1>6. p < MaxPower /\ c < MaxPower
  <2>1. RoundCall(nprocs, i + 1, p) # {} /\ RoundCall(nprocs, i + 1, c) # {}
    BY <1>2
  <2>2. ~(p >= MaxPower) /\ ~(c >= MaxPower)
    BY <1>2, <1>4, <2>1
  <2> QED BY <1>2, <2>2, Size
<1> HIDE DEF p, c
<1>7. p % whole = 0 /\ c = p + half
  <2>1. p % whole = 0 \/ p % whole = half
    BY <1>2, <1>4
  <2>2. CASE p % whole # 0
    <3>1. call = <<p - half, p>>
      BY <1>2, <1>4, <1>6, <2>1, <2>2
    <3> QED BY <1>2, <1>5, <3>1
  <2>3. CASE p % whole = 0
    <3>1. call = <<p, p + half>>
      BY <1>2, <1>4, <1>6, <2>3
    <3> QED BY <1>5, <2>3, <3>1
  <2> QED BY <2>2, <2>3
<1>8. c % whole = half
  <2>1. CASE c % whole = 0
    <3>1. call = <<c, c + half>>
      BY <1>2, <1>4, <1>6, <2>1
    <3> QED BY <1>2, <1>5, <3>1
  <2>2. c % whole = 0 \/ c % whole = half
    BY <1>2, <1>4
  <2> QED BY <2>1, <2>2
<1> QED BY <1>2, <1>5, <1>6, <1>7, <1>8 DEF Edge, half, whole

\* The two ends of a call of the last round.
LEMMA LastEdgeOf ==
  ASSUME NEW r \in Rank, NEW call \in LastCall(nprocs, r)
  PROVE  \E p, c \in Rank : /\ call = <<p, c>> /\ r \in {p, c} /\ p # c
                            /\ p < MaxPower /\ c = p + MaxPower
<1>1. LastCall(nprocs, r) = IF r >= MaxPower THEN {<<r - MaxPower, r>>}
                            ELSE IF r < nprocs - MaxPower THEN {<<r, r + MaxPower>>}
                            ELSE {}
  BY DEF LastCall, MaxPower
<1>2. nprocs < 2 * MaxPower
  BY Size, RoundsOf DEF MaxPower
<1>3. CASE r >= MaxPower
  <2>1. call = <<r - MaxPower, r>> /\ r - MaxPower \in Rank
    BY <1>1, <1>3, Size
  <2> QED BY <1>2, <1>3, <2>1, Size
<1>4. CASE r < MaxPower
  <2>1. call = <<r, r + MaxPower>> /\ r + MaxPower \in Rank
    BY <1>1, <1>4, Size
  <2> QED BY <1>4, <2>1, Size
<1> QED BY <1>3, <1>4, Size

-----------------------------------------------------------------------------
(* Counting barriers                                                       *)

\* What the steps of r do to its place, and to its counters.
Within(r) ==
  /\ UNCHANGED <<round, entered>>
  /\ \/ pc[r] = "round" /\ pc'[r] = "receive"
     \/ /\ pc[r] \in {"step2", "gather", "scatter"} /\ pc'[r] \in {"gather", "scatter", "remeasure"}
        /\ pc'[r] = "gather" => r = Master
Entering(r) ==
  /\ UNCHANGED round /\ entered' = [entered EXCEPT ![r] = @ + 1]
  /\ \/ pc[r] \in {"round", "receive"} /\ pc'[r] = "barrier"
     \/ pc[r] = "remeasure" /\ pc'[r] = "final"
Leaving(r) ==
  /\ AllEntered(r) /\ UNCHANGED entered
  /\ \/ /\ pc[r] = "barrier" /\ round' = [round EXCEPT ![r] = @ + 1]
        /\ pc'[r] = IF round[r] + 1 < LastRound THEN "round" ELSE "step2"
     \/ pc[r] = "final" /\ pc'[r] = "done" /\ UNCHANGED round
Moves(r) ==
  /\ pc' = [pc EXCEPT ![r] = pc'[r]]
  /\ Within(r) \/ Entering(r) \/ Leaving(r)

LEMMA RankMoves ==
  ASSUME Types, NEW r \in Rank, RankStep(r)
  PROVE  Moves(r)
<1>0. pc = [s \in Rank |-> pc[s]]
  BY DEF Types
<1>1. CASE SkipRound(r)
  BY <1>1, <1>0 DEF SkipRound, EnterBarrier, Goto, Moves, Entering
<1>2. CASE MasterLearn(r)
  BY <1>2, <1>0 DEF MasterLearn, Goto, Moves, Within
<1>3. CASE ClientLearn(r)
  BY <1>3, <1>0 DEF ClientLearn, EnterBarrier, Goto, Moves, Entering
<1>4. CASE MasterReceive(r)
  BY <1>4, <1>0 DEF MasterReceive, EnterBarrier, Goto, Moves, Entering
<1>5. CASE LeaveBarrier(r)
  BY <1>5, <1>0 DEF LeaveBarrier, Goto, Moves, Leaving
<1>6. CASE ReferenceStep2(r)
  BY <1>6, <1>0 DEF ReferenceStep2, Goto, Moves, Within
<1>7. CASE ClientStep2(r)
  BY <1>7, <1>0 DEF ClientStep2, Goto, Moves, Within
<1>8. CASE MasterGather(r)
  BY <1>8, <1>0 DEF MasterGather, Goto, Moves, Within
<1>9. CASE ReceiveScatter(r)
  BY <1>9, <1>0 DEF ReceiveScatter, Goto, Moves, Within
<1>10. CASE ClientRemeasure(r)
  BY <1>10, <1>0 DEF ClientRemeasure, EnterBarrier, Goto, Moves, Entering
<1>11. CASE RemeasureDone(r)
  BY <1>11, <1>0 DEF RemeasureDone, EnterBarrier, Goto, Moves, Entering
<1>12. CASE Return(r)
  BY <1>12, <1>0 DEF Return, Goto, Moves, Leaving
<1> QED
  BY <1>1, <1>2, <1>3, <1>4, <1>5, <1>6, <1>7, <1>8, <1>9, <1>10, <1>11, <1>12
     DEF RankStep

LEMMA Movement ==
  ASSUME Types, [Next]_vars
  PROVE  (\E r \in Rank : Moves(r)) \/ UNCHANGED <<pc, round, entered>>
<1>0. pc = [r \in Rank |-> pc[r]] /\ Master \in Rank
  BY Size DEF Types
<1>1. CASE MasterScatter
  BY <1>1, <1>0 DEF MasterScatter, Goto, Moves, Within
<1>2. CASE MasterRemeasure
  BY <1>2 DEF MasterRemeasure
<1> QED BY RankMoves, <1>1, <1>2 DEF Next, MasterStep, Step, Stop, vars

LEMMA NextPlaces ==
  ASSUME Counted, [Next]_vars
  PROVE  /\ pc' \in [Rank -> Places] /\ round' \in [Rank -> Nat] /\ entered' \in [Rank -> Nat]
         /\ \A r \in Rank : InPlace(r)'
         /\ Met'
<1>0. pc \in [Rank -> Places] /\ round \in [Rank -> Nat] /\ entered \in [Rank -> Nat]
  BY DEF Counted, Types
<1>1. CASE UNCHANGED <<pc, round, entered>>
  BY <1>0, <1>1 DEF Counted, InPlace, Met, AllEntered
<1>2. ASSUME NEW r \in Rank, Moves(r)
      PROVE  /\ pc' \in [Rank -> Places] /\ round' \in [Rank -> Nat]
             /\ entered' \in [Rank -> Nat]
             /\ \A s \in Rank : InPlace(s)'
             /\ Met'
  <2>1. pc' = [pc EXCEPT ![r] = pc'[r]]
    BY <1>2 DEF Moves
  <2>2. pc'[r] \in Places
    BY <1>2 DEF Moves, Within, Entering, Leaving, Places
  <2>3. pc' \in [Rank -> Places]
    BY <1>0, <2>1, <2>2
  <2>4. round' \in [Rank -> Nat] /\ entered' \in [Rank -> Nat]
    BY <1>0, <1>2 DEF Moves, Within, Entering, Leaving
  <2>5. \A s \in Rank \ {r} : pc'[s] = pc[s] /\ round'[s] = round[s] /\ entered'[s] = entered[s]
    BY <1>0, <1>2, <2>1 DEF Moves, Within, Entering, Leaving
  <2>6. InPlace(r) /\ \A s \in Rank \ {r} : InPlace(s)'
    BY <2>5 DEF Counted, InPlace
  <2>7. entered'[r] >= entered[r]
    BY <1>0, <1>2 DEF Moves, Within, Entering, Leaving
  <2>8. ASSUME NEW s \in Rank, pc'[s] \notin {"barrier", "final"} PROVE AllEntered(s)'
    <3>1. AllEntered(s) /\ entered'[s] = entered[s]
      <4>1. CASE s = r
        BY <1>2, <2>8, <4>1 DEF Counted, Met, Moves, Within, Entering, Leaving
      <4>2. CASE s # r
        BY <2>5, <2>8, <4>2 DEF Counted, Met
      <4> QED BY <4>1, <4>2
    <3> QED BY <1>0, <2>4, <2>5, <2>7, <3>1 DEF AllEntered
  <2>10. ASSUME NEW s \in Rank, NEW t \in Rank PROVE entered'[t] + 1 >= entered'[s]
    <3>1. CASE entered'[s] = entered[s]
      BY <1>0, <2>4, <2>5, <2>7, <3>1 DEF Counted, Met
    <3>2. CASE entered'[s] # entered[s]
      <4>1. s = r /\ Entering(r)
        BY <1>2, <2>5, <3>2 DEF Moves, Within, Leaving
      <4>2. AllEntered(r) /\ entered'[r] = entered[r] + 1
        BY <1>0, <4>1 DEF Counted, Met, Entering
      <4> QED BY <1>0, <2>4, <2>5, <2>7, <4>1, <4>2 DEF AllEntered
    <3> QED BY <3>1, <3>2
  <2>9. InPlace(r)'
    <3>1. CASE Within(r)
      BY <2>6, <3>1 DEF Within, InPlace
    <3>2. CASE Entering(r)
      BY <1>0, <2>6, <3>2 DEF Entering, InPlace
    <3>3. CASE Leaving(r)
      BY <1>0, <2>6, <3>3, Size DEF Leaving, InPlace
    <3> QED BY <1>2, <3>1, <3>2, <3>3 DEF Moves
  <2> QED BY <2>3, <2>4, <2>6, <2>8, <2>9, <2>10 DEF Met
<1> QED BY <1>1, <1>2, Movement DEF Counted

\* Where ranks may be together.
LEMMA Together ==
  ASSUME Counted, NEW r \in Rank, NEW s \in Rank, pc[r] \in {"round", "receive"}
  PROVE  /\ pc[s] \in {"round", "receive"} => round[s] = round[r]
         /\ pc[s] \in {"round", "receive", "barrier"}
         /\ pc[s] = "barrier" => round[s] \in {round[r], round[r] - 1}
         /\ pc[s] = "barrier" /\ round[s] = round[r] => ~AllEntered(s)
<1>1. /\ pc[s] \in Places /\ round[r] \in Nat /\ round[s] \in Nat
      /\ entered[r] \in Nat /\ entered[s] \in Nat
  BY DEF Counted, Types
<1>2. InPlace(r) /\ InPlace(s) /\ entered[s] >= entered[r] /\ entered[r] + 1 >= entered[s]
  BY DEF Counted, Met, AllEntered
<1>3. pc[s] \notin {"barrier", "final"} => entered[r] >= entered[s]
  BY DEF Counted, Met, AllEntered
<1>4. entered[r] = round[r] /\ round[r] < LastRound /\ LastRound \in Nat
  BY <1>2, Size DEF InPlace
<1>5. pc[s] \in {"round", "receive"} => round[s] = round[r]
  BY <1>1, <1>2, <1>3, <1>4 DEF InPlace
<1>6. pc[s] \notin {"step2", "gather", "scatter", "remeasure", "done"}
  <2>1. ~(entered[r] >= LastRound) /\ ~(entered[r] >= LastRound + 1)
    BY <1>1, <1>4
  <2> QED BY <1>2, <1>3, <2>1 DEF InPlace
<1>7. pc[s] # "final"
  <2>1. ~(entered[r] + 1 >= LastRound + 1)
    BY <1>1, <1>4
  <2> QED BY <1>2, <2>1 DEF InPlace
<1>8. pc[s] = "barrier" => entered[s] = round[s] + 1
  BY <1>2 DEF InPlace
<1>9. pc[s] = "barrier" => round[s] \in {round[r], round[r] - 1}
  BY <1>1, <1>2, <1>4, <1>8
<1>10. pc[s] = "barrier" /\ round[s] = round[r] => ~AllEntered(s)
  BY <1>1, <1>4, <1>8 DEF AllEntered
<1> QED BY <1>1, <1>5, <1>6, <1>7, <1>9, <1>10 DEF Places

-----------------------------------------------------------------------------
(* Models on their way                                                     *)

\* The call of a rank that makes one.
LEMMA CallFacts ==
  ASSUME Counted, NEW r \in Rank, NEW call \in MyCall(r)
  PROVE  \E p, c \in Rank :
           /\ call = <<p, c>> /\ p # c /\ r \in {p, c}
           /\ pc[r] \in {"round", "step2", "remeasure"}
           /\ pc[r] = "round" => round[r] < LastRound /\ Edge(round[r], p, c)
           /\ pc[r] = "step2" => p < MaxPower /\ c = p + MaxPower
<1>0. next \in Nat \ {0} /\ round[r] \in Nat /\ InPlace(r)
  BY DEF Counted, Types
<1>1. CASE pc[r] = "round"
  <2>1. call \in RoundCall(nprocs, round[r] + 1, r) /\ round[r] < LastRound
    BY <1>0, <1>1 DEF MyCall, InPlace
  <2>2. PICK p, c \in Rank : call = <<p, c>> /\ r \in {p, c} /\ Edge(round[r], p, c)
    BY <1>0, <2>1, EdgeOf
  <2> QED BY <1>1, <2>1, <2>2 DEF Edge
<1>2. CASE pc[r] = "step2"
  <2>1. call \in LastCall(nprocs, r)
    BY <1>2 DEF MyCall
  <2> QED BY <1>2, <2>1, LastEdgeOf
<1>3. CASE pc[r] = "remeasure"
  <2>1. \/ r # Master /\ call = <<Master, r>>
        \/ r = Master /\ next < nprocs /\ call = <<Master, next>>
    BY <1>3 DEF MyCall
  <2>2. CASE r # Master /\ call = <<Master, r>>
    BY <1>3, <2>2, Size
  <2>3. CASE r = Master /\ next < nprocs /\ call = <<Master, next>>
    BY <1>0, <1>3, <2>3, Size
  <2> QED BY <2>1, <2>2, <2>3
<1> QED BY <1>1, <1>2, <1>3 DEF MyCall

\* The client that a reference leaves: it is in the same call and not through with it.
LEMMA LeaveFacts ==
  ASSUME Counted, NEW r \in Rank, Leave(r)
  PROVE  \E c \in Rank :
           /\ c # r /\ c \notin left /\ left' = left \cup {c}
           /\ <<r, c>> \in MyCall(r) /\ MyCall(c) = {<<r, c>>}
           /\ pc[c] \notin {"receive", "barrier"}
           /\ pc[c] = "step2" => c >= MaxPower
           /\ pc[c] = "round" => pc[r] = "round" /\ round[r] = round[c]
           /\ pc[r] = "round" => pc[c] = "round" /\ Edge(round[r], r, c)
<1>1. PICK call \in MyCall(r) : /\ call[1] = r /\ MyCall(call[2]) = {call}
                                /\ call[2] \notin left /\ left' = left \cup {call[2]}
  BY DEF Leave
<1>2. PICK p, c \in Rank :
        /\ call = <<p, c>> /\ p # c
        /\ pc[r] \in {"round", "step2", "remeasure"}
        /\ pc[r] = "round" => round[r] < LastRound /\ Edge(round[r], p, c)
  BY <1>1, CallFacts
<1>3. p = r /\ c # r /\ call = <<r, c>> /\ MyCall(c) = {<<r, c>>} /\ c \notin left
      /\ left' = left \cup {c}
  BY <1>1, <1>2
<1>4. /\ pc[c] \in {"round", "step2", "remeasure"}
      /\ pc[c] = "step2" => c = r + MaxPower
  <2>1. PICK p2, c2 \in Rank :
          /\ <<r, c>> = <<p2, c2>> /\ pc[c] \in {"round", "step2", "remeasure"}
          /\ pc[c] = "step2" => c2 = p2 + MaxPower
    BY <1>3, CallFacts
  <2> QED BY <2>1
<1>5. pc[c] = "step2" => c >= MaxPower
  BY <1>4, Size
<1>6. pc[c] = "round" => pc[r] = "round" /\ round[r] = round[c]
  BY <1>2, Together
<1>7. pc[r] = "round" => pc[c] = "round"
  BY <1>4, Together
<1> QED BY <1>1, <1>2, <1>3, <1>4, <1>5, <1>6, <1>7

\* What all steps but those that send and receive models keep.
LEMMA OthersMeasured ==
  ASSUME Counted, \A x \in Rank : Measured(x), NEW r \in Rank,
         Moves(r) \/ UNCHANGED <<pc, round, entered>>,
         pc[r] # "receive", pc'[r] # "receive", UNCHANGED mail, left' \subseteq Rank,
         \A x \in left' : \/ x \in left
                          \/ x # r /\ pc[x] \notin {"receive", "barrier", "round"}
                             /\ (pc[x] = "step2" => x >= MaxPower),
         r \in left' => pc'[r] \notin {"receive", "barrier", "round", "step2"}
  PROVE  \A x \in Rank : Measured(x)'
<1>0. pc \in [Rank -> Places] /\ round \in [Rank -> Nat] /\ entered \in [Rank -> Nat]
  BY DEF Counted, Types
<1>1. \A x \in Rank \ {r} : pc'[x] = pc[x] /\ round'[x] = round[x]
  BY <1>0 DEF Moves, Within, Entering, Leaving
<1>2. SUFFICES ASSUME NEW x \in Rank PROVE Measured(x)'
  OBVIOUS
<1>3. Measured(x)
  OBVIOUS
<1>4. ASSUME pc'[x] = "receive" PROVE Receiving(x)'
  <2>1. x # r /\ pc[x] = "receive" /\ round'[x] = round[x] /\ mail'[x] = mail[x]
    BY <1>1, <1>4
  <2>2. PICK c \in Rank :
          /\ Edge(round[x], x, c)
          /\ \/ mail[x] = {}
             \/ pc[c] = "barrier" /\ round[c] = round[x] /\ mail[x] = {Sent(c, x, round[x])}
    BY <1>3, <2>1 DEF Measured, Receiving
  <2>3. CASE mail[x] = {}
    BY <2>1, <2>2, <2>3 DEF Receiving, Edge
  <2>4. CASE /\ pc[c] = "barrier" /\ round[c] = round[x]
             /\ mail[x] = {Sent(c, x, round[x])}
    <3>1. ~AllEntered(c)
      BY <2>1, <2>4, Together
    <3>2. pc'[c] = pc[c] /\ round'[c] = round[c]
      BY <1>1, <2>4, <3>1 DEF Moves, Within, Entering, Leaving
    <3> QED BY <2>1, <2>2, <2>4, <3>2 DEF Receiving, Edge, Sent, Model
  <2> QED BY <2>2, <2>3, <2>4
<1>5. ASSUME mail'[x] # {} PROVE pc'[x] = "receive"
  BY <1>1, <1>3, <1>5 DEF Measured
<1>6. ASSUME x \in left' PROVE Waited(x)'
  <2>1. CASE x = r
    BY <1>6, <2>1 DEF Waited
  <2>2. CASE x # r /\ x \notin left
    BY <1>1, <1>6, <2>2 DEF Waited
  <2>3. CASE x # r /\ x \in left
    <3>1. Waited(x) /\ pc'[x] = pc[x] /\ round'[x] = round[x]
      BY <1>1, <1>3, <2>3 DEF Measured
    <3>2. ASSUME pc[x] = "round"
          PROVE  \E p \in Rank : /\ Edge(round[x], p, x)
                                 /\ pc'[p] = "receive" /\ round'[p] = round[x]
      <4>1. PICK p \in Rank : /\ Edge(round[x], p, x)
                              /\ pc[p] = "receive" /\ round[p] = round[x]
        BY <3>1, <3>2 DEF Waited
      <4>2. pc'[p] = "receive" /\ round'[p] = round[p]
        BY <1>1, <4>1
      <4> QED BY <4>1, <4>2
    <3> QED BY <3>1, <3>2 DEF Waited, Edge
  <2> QED BY <2>1, <2>2, <2>3
<1> QED BY <1>4, <1>5, <1>6 DEF Measured

LEMMA MasterLearnMeasured ==
  ASSUME Counted, \A x \in Rank : Measured(x), NEW r \in Rank, MasterLearn(r)
  PROVE  \A x \in Rank : Measured(x)'
<1>0. pc \in [Rank -> Places] /\ left \subseteq Rank
  BY DEF Counted, Types
<1>1. PICK c \in Rank : /\ c # r /\ left' = left \cup {c} /\ pc[c] = "round"
                        /\ Edge(round[r], r, c) /\ round[r] = round[c]
  BY LeaveFacts DEF MasterLearn
<1>2. /\ pc[r] = "round" /\ pc'[r] = "receive" /\ UNCHANGED <<round, mail>>
      /\ \A x \in Rank \ {r} : pc'[x] = pc[x]
  BY <1>0 DEF MasterLearn, Goto
<1>3. SUFFICES ASSUME NEW x \in Rank PROVE Measured(x)'
  OBVIOUS
<1>4. ASSUME pc'[x] = "receive" PROVE Receiving(x)'
  <2>1. CASE x = r
    <3>1. mail[r] = {}
      BY <1>2 DEF Measured
    <3> QED BY <1>1, <1>2, <2>1, <3>1 DEF Receiving, Edge
  <2>2. CASE x # r
    <3>1. PICK d \in Rank :
            /\ Edge(round[x], x, d)
            /\ \/ mail[x] = {}
               \/ /\ pc[d] = "barrier" /\ round[d] = round[x]
                  /\ mail[x] = {Sent(d, x, round[x])}
      BY <1>2, <1>4, <2>2 DEF Measured, Receiving
    <3>2. pc[d] = "barrier" => pc'[d] = "barrier"
      BY <1>2
    <3> QED BY <1>2, <3>1, <3>2 DEF Receiving, Edge, Sent, Model
  <2> QED BY <2>1, <2>2
<1>5. mail'[x] # {} => pc'[x] = "receive"
  BY <1>2 DEF Measured
<1>6. r \notin left
  <2>1. SUFFICES ASSUME NEW p \in Rank, Edge(round[r], p, r) PROVE FALSE
    BY <1>2 DEF Measured, Waited
  <2> QED BY <1>1, <2>1 DEF Edge
<1>7. ASSUME x \in left' PROVE Waited(x)'
  <2>1. x # r
    BY <1>1, <1>6, <1>7
  <2>2. CASE x = c
    BY <1>1, <1>2, <2>1, <2>2 DEF Waited, Edge
  <2>3. CASE x # c
    <3>1. Waited(x) /\ pc'[x] = pc[x]
      BY <1>1, <1>2, <1>7, <2>1, <2>3 DEF Measured
    <3>2. \A p \in Rank : pc[p] = "receive" => pc'[p] = "receive"
      BY <1>2
    <3> QED BY <1>2, <3>1, <3>2 DEF Waited, Edge
  <2> QED BY <2>2, <2>3
<1> QED BY <1>4, <1>5, <1>7 DEF Measured

\* A client sends its own model, and all it has collected.
LEMMA ClientSends ==
  ASSUME Counted, NEW r \in Rank, Measured(r), Collected(r), ClientLearn(r)
  PROVE  \E p \in Rank :
           /\ Edge(round[r], p, r) /\ pc[p] = "receive" /\ round[p] = round[r]
           /\ models' = [models EXCEPT ![r][r] = Model(r, p)]
           /\ mail' = [mail EXCEPT ![p] = {Sent(r, p, round[r])}]
<1> DEFINE i == round[r]
<1>0. /\ pc[r] = "round" /\ r \in left /\ i \in Nat /\ i < LastRound /\ entered[r] = i
      /\ r \in Nat /\ LastRound \in Nat
  BY Size DEF ClientLearn, Counted, Types, InPlace
<1>1. PICK p \in Rank : Edge(i, p, r) /\ pc[p] = "receive" /\ round[p] = i
  BY <1>0 DEF Measured, Waited
<1>2. MyCall(r) = {<<p, r>>}
  BY <1>0, <1>1 DEF MyCall, Edge
<1>3. /\ models' = [models EXCEPT ![r][r] = Model(r, p)]
      /\ mail' = [mail EXCEPT ![p] = {[j \in 0..(my_pow_2[i] - 1) |-> models'[r][r + j]]}]
  <2>1. PICK call \in MyCall(r) :
          /\ models' = [models EXCEPT ![r][r] = Model(r, call[1])]
          /\ mail' = [mail EXCEPT ![call[1]] =
                        {[j \in 0..(my_pow_2[i] - 1) |-> models'[r][r + j]]}]
    BY DEF ClientLearn
  <2>2. call[1] = p
    BY <1>2, <2>1
  <2> QED BY <2>1, <2>2
<1>4. r % my_pow_2[i] = 0 /\ r < MaxPower
  <2>1. i + 1 \in Nat /\ i + 1 > 0 /\ (i + 1) - 1 = i
    BY <1>0
  <2>2. r % my_pow_2[i + 1] = my_pow_2[(i + 1) - 1]
    BY <1>1, <2>1 DEF Edge
  <2>3. \A j \in Nat : j < i + 1 => r % my_pow_2[j] = 0
    BY <1>0, <2>1, <2>2, OneRound
  <2> QED BY <1>0, <1>1, <2>3 DEF Edge
<1>5. i \in 0..LastRound /\ r + my_pow_2[i] <= MaxPower /\ my_pow_2[i] \in Nat
  BY <1>0, <1>4, GroupInside, PositivePowers
<1>6. models[r] = [s \in Rank |-> models[r][s]] /\ models = [s \in Rank |-> models[s]]
  BY DEF Counted, Types
<1>7. ASSUME NEW j \in 0..(my_pow_2[i] - 1)
      PROVE  models'[r][r + j] = IF j = 0 THEN Model(r, p) ELSE Model(r + j, r)
  <2>1. CASE j = 0
    BY <1>0, <1>3, <1>6, <2>1
  <2>2. CASE j # 0
    <3>1. r + j \in (r + 1)..(r + my_pow_2[i] - 1) /\ r + j \in Rank /\ r + j # r
      BY <1>0, <1>5, <2>2, Size
    <3>2. models[r][r + j] = Model(r + j, r)
      BY <1>0, <1>4, <1>5, <3>1 DEF Collected
    <3>3. models'[r][r + j] = models[r][r + j]
      BY <1>3, <1>6, <3>1
    <3> QED BY <2>2, <3>2, <3>3
  <2> QED BY <2>1, <2>2
<1>8. [j \in 0..(my_pow_2[i] - 1) |-> models'[r][r + j]] = Sent(r, p, i)
  BY <1>7 DEF Sent
<1> QED BY <1>1, <1>3, <1>8

LEMMA ClientLearnMeasured ==
  ASSUME Counted, \A x \in Rank : Measured(x), NEW r \in Rank, Collected(r), ClientLearn(r)
  PROVE  \A x \in Rank : Measured(x)'
<1>0. pc \in [Rank -> Places] /\ left \subseteq Rank /\ mail = [x \in Rank |-> mail[x]]
  BY DEF Counted, Types
<1>1. PICK p \in Rank :
        /\ Edge(round[r], p, r) /\ pc[p] = "receive" /\ round[p] = round[r]
        /\ mail' = [mail EXCEPT ![p] = {Sent(r, p, round[r])}]
  BY ClientSends
<1>2. /\ pc[r] = "round" /\ pc'[r] = "barrier" /\ UNCHANGED round /\ left' = left \ {r}
      /\ \A x \in Rank \ {r} : pc'[x] = pc[x]
  BY <1>0 DEF ClientLearn, EnterBarrier, Goto
<1>3. /\ mail'[p] = {Sent(r, p, round[r])} /\ \A x \in Rank \ {p} : mail'[x] = mail[x]
  BY <1>0, <1>1
<1>4. SUFFICES ASSUME NEW x \in Rank PROVE Measured(x)'
  OBVIOUS
<1>5. ASSUME pc'[x] = "receive" PROVE Receiving(x)'
  <2>1. CASE x = p
    BY <1>1, <1>2, <1>3, <2>1 DEF Receiving, Edge, Sent, Model
  <2>2. CASE x # p
    <3>1. PICK d \in Rank :
            /\ Edge(round[x], x, d)
            /\ \/ mail[x] = {}
               \/ /\ pc[d] = "barrier" /\ round[d] = round[x]
                  /\ mail[x] = {Sent(d, x, round[x])}
      BY <1>2, <1>5 DEF Measured, Receiving
    <3>2. pc[d] = "barrier" => pc'[d] = "barrier"
      BY <1>2
    <3> QED BY <1>2, <1>3, <2>2, <3>1, <3>2 DEF Receiving, Edge, Sent, Model
  <2> QED BY <2>1, <2>2
<1>6. mail'[x] # {} => pc'[x] = "receive"
  BY <1>1, <1>2, <1>3 DEF Measured
<1>7. ASSUME x \in left' PROVE Waited(x)'
  <2>1. x # r /\ Waited(x) /\ pc'[x] = pc[x]
    BY <1>2, <1>7 DEF Measured
  <2>2. \A q \in Rank : pc[q] = "receive" => pc'[q] = "receive"
    BY <1>2
  <2> QED BY <1>2, <2>1, <2>2 DEF Waited, Edge
<1> QED BY <1>5, <1>6, <1>7 DEF Measured

LEMMA MasterReceiveMeasured ==
  ASSUME Counted, \A x \in Rank : Measured(x), NEW r \in Rank, MasterReceive(r)
  PROVE  \A x \in Rank : Measured(x)'
<1>0. pc \in [Rank -> Places] /\ left \subseteq Rank /\ mail = [x \in Rank |-> mail[x]]
  BY DEF Counted, Types
<1>1. /\ pc[r] = "receive" /\ pc'[r] = "barrier" /\ UNCHANGED <<round, left>> /\ mail[r] # {}
      /\ mail' = [mail EXCEPT ![r] = {}]
      /\ \A x \in Rank \ {r} : pc'[x] = pc[x]
  BY <1>0 DEF MasterReceive, EnterBarrier, Goto
<1>2. PICK c \in Rank : Edge(round[r], r, c) /\ pc[c] = "barrier"
  BY <1>1 DEF Measured, Receiving
<1>3. mail'[r] = {} /\ \A x \in Rank \ {r} : mail'[x] = mail[x]
  BY <1>0, <1>1
<1>4. SUFFICES ASSUME NEW x \in Rank PROVE Measured(x)'
  OBVIOUS
<1>5. ASSUME pc'[x] = "receive" PROVE Receiving(x)'
  <2>1. PICK d \in Rank :
          /\ Edge(round[x], x, d)
          /\ \/ mail[x] = {}
             \/ /\ pc[d] = "barrier" /\ round[d] = round[x]
                /\ mail[x] = {Sent(d, x, round[x])}
    BY <1>1, <1>5 DEF Measured, Receiving
  <2>2. x # r /\ pc[d] = "barrier" => pc'[d] = "barrier"
    BY <1>1
  <2>3. x # r
    BY <1>1, <1>5
  <2> QED BY <1>1, <1>3, <2>1, <2>2, <2>3 DEF Receiving, Edge, Sent, Model
<1>6. mail'[x] # {} => pc'[x] = "receive"
  BY <1>1, <1>3 DEF Measured
<1>7. ASSUME x \in left' PROVE Waited(x)'
  <2>1. Waited(x) /\ x # r /\ x # c
    BY <1>1, <1>2, <1>7 DEF Measured, Waited
  <2>2. ASSUME pc[x] = "round"
        PROVE  \E p \in Rank : Edge(round[x], p, x) /\ pc'[p] = "receive" /\ round[p] = round[x]
    <3>1. PICK p \in Rank : Edge(round[x], p, x) /\ pc[p] = "receive" /\ round[p] = round[x]
      BY <2>1, <2>2 DEF Waited
    <3>2. p # r
      BY <1>2, <2>1, <3>1 DEF Edge
    <3> QED BY <1>1, <3>1, <3>2
  <2> QED BY <1>1, <2>1, <2>2 DEF Waited, Edge
<1> QED BY <1>5, <1>6, <1>7 DEF Measured

LEMMA NextMeasured ==
  ASSUME Counted, Travelling, [Next]_vars
  PROVE  \A x \in Rank : Measured(x)'
<1>0. /\ pc \in [Rank -> Places] /\ left \subseteq Rank /\ Master \in Rank
      /\ \A x \in Rank : Measured(x) /\ Collected(x) /\ InPlace(x)
  BY Size DEF Counted, Types, Travelling
<1> DEFINE Others(r) ==
             /\ Moves(r) \/ UNCHANGED <<pc, round, entered>>
             /\ pc[r] # "receive" /\ pc'[r] # "receive" /\ UNCHANGED mail
             /\ \A x \in left' : \/ x \in left
                                \/ /\ x \in Rank \ {r}
                                   /\ pc[x] \notin {"receive", "barrier", "round"}
                                   /\ pc[x] = "step2" => x >= MaxPower
             /\ r \in left' => pc'[r] \notin {"receive", "barrier", "round", "step2"}
<1>1. ASSUME NEW r \in Rank, Others(r) PROVE \A x \in Rank : Measured(x)'
  <2>1. left' \subseteq Rank
    BY <1>0, <1>1
  <2> QED BY <1>0, <1>1, <2>1, OthersMeasured
<1>2. ASSUME NEW r \in Rank, RankStep(r) PROVE Moves(r)
  BY <1>2, RankMoves DEF Counted
<1> HIDE DEF Others
<1>3. ASSUME NEW r \in Rank, RankStep(r) PROVE \A x \in Rank : Measured(x)'
  <2>0. r \in left => Waited(r)
    BY <1>0 DEF Measured
  <2>1. CASE SkipRound(r)
    <3>1. pc[r] = "round" /\ pc'[r] = "barrier" /\ UNCHANGED <<mail, left>> /\ MyCall(r) = {}
      BY <1>0, <2>1 DEF SkipRound, EnterBarrier, Goto
    <3>2. r \notin left
      BY <2>0, <3>1 DEF Waited, Edge, MyCall
    <3> QED BY <1>1, <1>2, <1>3, <3>1, <3>2 DEF Others
  <2>2. CASE MasterLearn(r)
    BY <1>0, <2>2, MasterLearnMeasured
  <2>3. CASE ClientLearn(r)
    BY <1>0, <2>3, ClientLearnMeasured
  <2>4. CASE MasterReceive(r)
    BY <1>0, <2>4, MasterReceiveMeasured
  <2>5. CASE LeaveBarrier(r)
    <3>1. pc[r] = "barrier" /\ pc'[r] \in {"round", "step2"} /\ UNCHANGED <<mail, left>>
      BY <1>0, <2>5 DEF LeaveBarrier, Goto
    <3>2. r \notin left
      BY <2>0, <3>1 DEF Waited
    <3> QED BY <1>1, <1>2, <1>3, <3>1, <3>2 DEF Others
  <2>6. CASE ReferenceStep2(r)
    <3>1. /\ pc[r] = "step2" /\ r < MaxPower /\ pc'[r] \in {"gather", "scatter"}
          /\ UNCHANGED mail /\ (UNCHANGED left \/ Leave(r))
      BY <1>0, <2>6 DEF ReferenceStep2, Goto
    <3>2. \A x \in left' : \/ x \in left
                           \/ /\ x \in Rank \ {r}
                              /\ pc[x] \notin {"receive", "barrier", "round"}
                              /\ pc[x] = "step2" => x >= MaxPower
      <4>1. CASE Leave(r)
        BY <3>1, <4>1, LeaveFacts
      <4> QED BY <3>1, <4>1
    <3> QED BY <1>1, <1>2, <1>3, <3>1, <3>2 DEF Others
  <2>7. CASE ClientStep2(r)
    <3>1. pc[r] = "step2" /\ pc'[r] = "scatter" /\ UNCHANGED mail /\ left' = left \ {r}
      BY <1>0, <2>7 DEF ClientStep2, Goto
    <3> QED BY <1>1, <1>2, <1>3, <3>1 DEF Others
  <2>8. CASE MasterGather(r)
    <3>1. pc[r] = "gather" /\ pc'[r] = "scatter" /\ UNCHANGED <<mail, left>>
      BY <1>0, <2>8 DEF MasterGather, Goto
    <3> QED BY <1>1, <1>2, <1>3, <3>1 DEF Others
  <2>9. CASE ReceiveScatter(r)
    <3>1. pc[r] = "scatter" /\ pc'[r] = "remeasure" /\ UNCHANGED <<mail, left>>
      BY <1>0, <2>9 DEF ReceiveScatter, Goto
    <3> QED BY <1>1, <1>2, <1>3, <3>1 DEF Others
  <2>10. CASE ClientRemeasure(r)
    <3>1. pc[r] = "remeasure" /\ pc'[r] = "final" /\ UNCHANGED mail /\ left' = left \ {r}
      BY <1>0, <2>10 DEF ClientRemeasure, EnterBarrier, Goto
    <3> QED BY <1>1, <1>2, <1>3, <3>1 DEF Others
  <2>11. CASE RemeasureDone(r)
    <3>1. pc[r] = "remeasure" /\ pc'[r] = "final" /\ UNCHANGED <<mail, left>>
      BY <1>0, <2>11 DEF RemeasureDone, EnterBarrier, Goto
    <3> QED BY <1>1, <1>2, <1>3, <3>1 DEF Others
  <2>12. CASE Return(r)
    <3>1. pc[r] = "final" /\ pc'[r] = "done" /\ UNCHANGED <<mail, left>>
      BY <1>0, <2>12 DEF Return, Goto
    <3> QED BY <1>1, <1>2, <1>3, <3>1 DEF Others
  <2> QED
    BY <1>3, <2>1, <2>2, <2>3, <2>4, <2>5, <2>6, <2>7, <2>8, <2>9, <2>10, <2>11, <2>12
       DEF RankStep
<1>4. CASE MasterScatter
  <2>1. /\ pc[Master] = "scatter" /\ pc' = [pc EXCEPT ![Master] = "remeasure"]
        /\ UNCHANGED <<mail, left, round, entered>>
    BY <1>4 DEF MasterScatter, Goto
  <2>2. pc'[Master] = "remeasure" /\ Moves(Master)
    BY <1>0, <2>1 DEF Moves, Within
  <2> QED BY <1>0, <1>1, <2>1, <2>2 DEF Others
<1>5. CASE MasterRemeasure
  <2>1. /\ pc[Master] = "remeasure" /\ Leave(Master)
        /\ UNCHANGED <<pc, round, mail, entered>>
    BY <1>5 DEF MasterRemeasure
  <2>2. \A x \in left' : \/ x \in left
                         \/ /\ x \in Rank \ {Master}
                            /\ pc[x] \notin {"receive", "barrier", "round"}
                            /\ pc[x] = "step2" => x >= MaxPower
    BY <1>0, <2>1, LeaveFacts
  <2> QED BY <1>0, <1>1, <2>1, <2>2 DEF Others
<1>6. CASE UNCHANGED vars
  BY <1>0, <1>6 DEF vars, Measured, Receiving, Waited, Edge, Sent, Model
<1> QED BY <1>3, <1>4, <1>5, <1>6 DEF Next, MasterStep, Step, Stop

-----------------------------------------------------------------------------
(* Models a rank has collected                                             *)

LEMMA PowersGrow ==
  ASSUME NEW i \in Nat, NEW j \in Nat, i <= j
  PROVE  my_pow_2[i] <= my_pow_2[j]
<1> DEFINE a == my_pow_2[i]
           b == my_pow_2[j]
<1>1. a \in Nat /\ b \in Nat /\ b > 0
  BY PositivePowers
<1>2. PICK q \in Nat : b = a * q
  BY PowersDivide DEF Divides
<1> HIDE DEF a, b
<1>3. q # 0
  BY <1>1, <1>2
<1>4. PICK k \in Nat : q = k + 1
  BY <1>3
<1>5. b = a + a * k /\ a * k \in Nat
  BY <1>1, <1>2, <1>4
<1> QED BY <1>1, <1>5 DEF a, b

\* A rank that is not a reference in the round it enters the barrier of has nothing new
\* to collect.
LEMMA KeepCollected ==
  ASSUME Types, NEW x \in Rank, Collected(x),
         \/ entered'[x] = entered[x]
         \/ /\ entered'[x] = entered[x] + 1
            /\ \/ x >= MaxPower
               \/ entered[x] + 1 \notin 0..LastRound
               \/ x % my_pow_2[entered[x] + 1] # 0,
         \A s \in Rank : s > x /\ s < MaxPower => models'[x][s] = models[x][s]
  PROVE  Collected(x)'
<1>1. SUFFICES ASSUME x < MaxPower, NEW m \in 0..LastRound, m <= entered'[x],
                      x % my_pow_2[m] = 0, NEW s \in (x + 1)..(x + my_pow_2[m] - 1)
               PROVE  models'[x][s] = Model(s, x)
  BY DEF Collected, Model
<1>2. entered[x] \in Nat /\ x \in Nat /\ m \in Nat /\ MaxPower \in Nat
  BY Size DEF Types
<1>3. m <= entered[x]
  BY <1>1, <1>2
<1>4. x + my_pow_2[m] <= MaxPower /\ my_pow_2[m] \in Nat
  BY <1>1, <1>2, GroupInside, PositivePowers
<1>5. s \in Rank /\ s > x /\ s < MaxPower
  BY <1>2, <1>4, Size
<1>6. models[x][s] = Model(s, x)
  BY <1>1, <1>3 DEF Collected
<1> QED BY <1>5, <1>6

LEMMA MergedModel ==
  ASSUME NEW a, NEW b, NEW c
  PROVE  Merge(Model(b, a), Model(c, b)) = Model(c, a)
BY DEF Merge, Model, Compose

\* A reference of a round collects what its client has, and its client's own model.
LEMMA ReceiveCollected ==
  ASSUME Counted, NEW r \in Rank, Measured(r), Collected(r), MasterReceive(r)
  PROVE  Collected(r)'
<1> DEFINE i == round[r]
           half == my_pow_2[i]
<1>0. /\ pc[r] = "receive" /\ i \in Nat /\ i < LastRound /\ entered[r] = i
      /\ r \in Nat /\ LastRound \in Nat /\ MaxPower \in Nat
      /\ entered' = [entered EXCEPT ![r] = @ + 1] /\ r \in DOMAIN entered
  BY Size DEF MasterReceive, EnterBarrier, Counted, Types, InPlace
<1>1. PICK tmp \in mail[r] : models' = [models EXCEPT ![r] =
                    [s \in Rank |-> IF s - (r + half) \notin DOMAIN tmp THEN @[s]
                                    ELSE IF s = r + half THEN tmp[0]
                                    ELSE Merge(tmp[0], tmp[s - (r + half)])]]
  BY DEF MasterReceive
<1>2. PICK c \in Rank : Edge(i, r, c) /\ tmp = Sent(c, r, i)
  BY <1>0, <1>1 DEF Measured, Receiving
<1>3. /\ c = r + half /\ r < MaxPower /\ half \in Nat /\ half > 0
      /\ i + 1 \in Nat /\ my_pow_2[i + 1] = 2 * half /\ r % my_pow_2[i + 1] = 0
      /\ i \in 0..LastRound /\ i + 1 \in 0..LastRound
  <2>1. c = r + half /\ r < MaxPower /\ r % my_pow_2[i + 1] = 0
    BY <1>2 DEF Edge
  <2>2. half \in Nat /\ half > 0 /\ my_pow_2[i + 1] = 2 * half
    BY <1>0, PositivePowers, Powers
  <2>3. i + 1 \in Nat /\ i \in 0..LastRound /\ i + 1 \in 0..LastRound
    BY <1>0
  <2> QED BY <2>1, <2>2, <2>3
<1>4. r % half = 0
  <2>1. Divides(half, my_pow_2[i + 1]) /\ Divides(my_pow_2[i + 1], r)
    BY <1>0, <1>3, PowersDivide, NoRemainder, PositivePowers
  <2>2. my_pow_2[i + 1] \in Nat
    BY <1>3
  <2>3. Divides(half, r)
    BY <1>0, <1>3, <2>1, <2>2, DividesOn
  <2> QED BY <1>0, <1>3, <2>3, NoRemainder
<1>5. DOMAIN tmp = 0..(half - 1) /\ tmp[0] = Model(c, r)
      /\ \A j \in 1..(half - 1) : tmp[j] = Model(c + j, c)
  BY <1>2, <1>3 DEF Sent
<1> HIDE DEF i, half
<1>6. r \in DOMAIN models
  BY DEF Counted, Types
<1>7. ASSUME NEW s \in Rank, s < c PROVE models'[r][s] = models[r][s]
  <2>1. s - (r + half) \notin DOMAIN tmp
    BY <1>0, <1>3, <1>5, <1>7, Size
  <2> QED BY <1>1, <1>6, <2>1
<1>8. ASSUME NEW s \in Rank, s >= c, s < c + half PROVE models'[r][s] = Model(s, r)
  <2>1. s - (r + half) \in 0..(half - 1) /\ s - (r + half) = s - c /\ c + (s - c) = s
    BY <1>0, <1>3, <1>8, Size
  <2>2. models'[r][s] = IF s = c THEN tmp[0] ELSE Merge(tmp[0], tmp[s - c])
    BY <1>1, <1>3, <1>5, <1>6, <2>1
  <2>3. s # c => tmp[s - c] = Model(s, c)
    BY <1>0, <1>3, <1>5, <2>1
  <2> QED BY <1>5, <2>2, <2>3, MergedModel
<1>9. SUFFICES ASSUME NEW m \in 0..LastRound, m <= entered'[r],
                      r % my_pow_2[m] = 0, NEW s \in (r + 1)..(r + my_pow_2[m] - 1)
               PROVE  models'[r][s] = Model(s, r)
  BY DEF Collected, Model
<1>10. m \in Nat /\ m <= i + 1 /\ my_pow_2[m] \in Nat /\ r + my_pow_2[m] <= MaxPower
  BY <1>0, <1>3, <1>9, GroupInside, PositivePowers DEF i
<1>11. s \in Rank /\ s > r /\ s < r + my_pow_2[m] /\ s \in Nat
  BY <1>0, <1>9, <1>10, Size
<1>12. my_pow_2[m] <= half + half
  BY <1>3, <1>10, PowersGrow
<1>13. CASE s < c
  <2>1. s \in (r + 1)..(r + half - 1)
    BY <1>0, <1>3, <1>11, <1>13
  <2>2. models[r][s] = Model(s, r)
    BY <1>0, <1>3, <1>4, <2>1 DEF Collected, i, half
  <2> QED BY <1>7, <1>11, <1>13, <2>2
<1>14. CASE s >= c
  BY <1>0, <1>3, <1>8, <1>10, <1>11, <1>12, <1>14
<1> QED BY <1>0, <1>3, <1>11, <1>13, <1>14

LEMMA NextCollected ==
  ASSUME Counted, Travelling, [Next]_vars
  PROVE  \A x \in Rank : Collected(x)'
<1>0. /\ entered \in [Rank -> Nat] /\ models = [r \in Rank |-> [s \in Rank |-> models[r][s]]]
      /\ \A x \in Rank : Measured(x) /\ Collected(x) /\ InPlace(x)
      /\ Types /\ LastRound \in Nat /\ MaxPower \in Nat
  BY Size DEF Counted, Types, Travelling
<1>1. SUFFICES ASSUME NEW x \in Rank PROVE Collected(x)'
  OBVIOUS
<1> DEFINE Keeps == \A s \in Rank : s > x /\ s < MaxPower => models'[x][s] = models[x][s]
<1>2. ASSUME Keeps, entered'[x] = entered[x] PROVE Collected(x)'
  BY <1>0, <1>2, KeepCollected
<1>3. ASSUME NEW r \in Rank, RankStep(r) PROVE Collected(x)'
  <2>1. CASE SkipRound(r)
    <3>1. /\ pc[r] = "round" /\ MyCall(r) = {} /\ Keeps
          /\ entered' = [entered EXCEPT ![r] = @ + 1]
      BY <2>1 DEF SkipRound, EnterBarrier
    <3>2. CASE x = r
      <4>1. RoundCall(nprocs, round[r] + 1, r) = {} /\ entered[r] = round[r]
        BY <1>0, <3>1 DEF MyCall, InPlace
      <4>2. r >= MaxPower \/ r % my_pow_2[entered[r] + 1] # 0
        BY <4>1 DEF RoundCall, MaxPower
      <4> QED BY <1>0, <3>1, <3>2, <4>2, KeepCollected
    <3> QED BY <1>0, <1>2, <3>1, <3>2
  <2>2. CASE MasterLearn(r)
    BY <1>2, <2>2 DEF MasterLearn
  <2>3. CASE ClientLearn(r)
    <3>1. PICK p \in Rank : /\ Edge(round[r], p, r)
                            /\ models' = [models EXCEPT ![r][r] = Model(r, p)]
      BY <1>0, <2>3, ClientSends
    <3>2. /\ pc[r] = "round" /\ entered' = [entered EXCEPT ![r] = @ + 1]
      BY <2>3 DEF ClientLearn, EnterBarrier
    <3>3. Keeps
      BY <1>0, <3>1, Size
    <3>4. r % my_pow_2[entered[r] + 1] # 0
      BY <1>0, <3>1, <3>2, PositivePowers DEF Edge, InPlace
    <3> QED BY <1>0, <3>2, <3>3, <3>4, KeepCollected
  <2>4. CASE MasterReceive(r)
    <3>1. CASE x = r
      BY <1>0, <2>4, <3>1, ReceiveCollected
    <3>2. CASE x # r
      <4>1. entered'[x] = entered[x] /\ Keeps
        BY <1>0, <2>4, <3>2 DEF MasterReceive, EnterBarrier
      <4> QED BY <1>2, <4>1
    <3> QED BY <3>1, <3>2
  <2>5. CASE LeaveBarrier(r)
    BY <1>2, <2>5 DEF LeaveBarrier
  <2>6. CASE ReferenceStep2(r)
    <3>1. entered'[x] = entered[x] /\ r \in Nat /\ r + MaxPower >= MaxPower
      BY <1>0, <2>6, Size DEF ReferenceStep2
    <3>2. \/ UNCHANGED models
          \/ models' = [models EXCEPT ![r][r + MaxPower] = Model(r, r)]
      BY <2>6 DEF ReferenceStep2
    <3>3. Keeps
      BY <1>0, <3>1, <3>2
    <3> QED BY <1>2, <3>1, <3>3
  <2>7. CASE ClientStep2(r)
    <3>1. entered'[x] = entered[x] /\ Keeps
      BY <1>0, <2>7, Size DEF ClientStep2
    <3> QED BY <1>2, <3>1
  <2>8. CASE MasterGather(r)
    <3>1. entered'[x] = entered[x]
      BY <2>8 DEF MasterGather
    <3>2. Keeps
      BY <1>0, <2>8 DEF MasterGather
    <3> QED BY <1>2, <3>1, <3>2
  <2>9. CASE ReceiveScatter(r)
    BY <1>2, <2>9 DEF ReceiveScatter
  <2>10. ASSUME pc[r] = "remeasure", UNCHANGED models,
                entered' = [entered EXCEPT ![r] = @ + 1]
         PROVE  Collected(x)'
    <3>1. x = r => entered[x] + 1 \notin 0..LastRound
      BY <1>0, <2>10 DEF InPlace
    <3>2. entered'[x] = IF x = r THEN entered[x] + 1 ELSE entered[x]
      BY <1>0, <2>10
    <3>3. Keeps
      BY <2>10
    <3> QED BY <1>0, <3>1, <3>2, <3>3, KeepCollected
  <2>11. CASE ClientRemeasure(r)
    BY <2>10, <2>11 DEF ClientRemeasure, EnterBarrier
  <2>12. CASE RemeasureDone(r)
    BY <2>10, <2>12 DEF RemeasureDone, EnterBarrier
  <2>13. CASE Return(r)
    BY <1>2, <2>13 DEF Return
  <2> QED
    BY <1>3, <2>1, <2>2, <2>3, <2>4, <2>5, <2>6, <2>7, <2>8, <2>9, <2>11, <2>12, <2>13
       DEF RankStep
<1>4. CASE MasterScatter
  BY <1>2, <1>4 DEF MasterScatter
<1>5. CASE MasterRemeasure
  BY <1>2, <1>5 DEF MasterRemeasure
<1>6. CASE UNCHANGED vars
  BY <1>2, <1>6 DEF vars
<1> QED BY <1>3, <1>4, <1>5, <1>6 DEF Next, MasterStep, Step, Stop

-----------------------------------------------------------------------------
(* The models rank 0 hands out                                             *)

\* The client of the last round, whose reference is done with it.
LEMMA ClientOfLastRound ==
  ASSUME NEW r \in Rank, Measured(r), ClientStep2(r)
  PROVE  /\ r >= MaxPower /\ r - MaxPower \in Rank
         /\ models' = [models EXCEPT ![r][r] = Model(r, r - MaxPower)]
         /\ gathered' = [gathered EXCEPT ![r] = {models'[r][r]}]
<1>1. pc[r] = "step2" /\ r \in left
  BY DEF ClientStep2
<1>2. r >= MaxPower /\ r \in Nat /\ r < nprocs /\ nprocs \in Nat /\ MaxPower \in Nat /\ MaxPower > 0
  BY <1>1, Size DEF Measured, Waited
<1>3. MyCall(r) = {<<r - MaxPower, r>>}
  BY <1>1, <1>2 DEF MyCall, LastCall, MaxPower
<1>4. PICK call \in MyCall(r) : models' = [models EXCEPT ![r][r] = Model(r, call[1])]
  BY DEF ClientStep2
<1>5. call[1] = r - MaxPower
  BY <1>3, <1>4
<1>6. r - MaxPower \in Rank
  BY <1>2, Size
<1> QED BY <1>2, <1>4, <1>5, <1>6 DEF ClientStep2

LEMMA NewRow ==
  ASSUME NEW r \in Rank, NEW row, row = [s \in Rank |-> row[s]],
         models = [x \in Rank |-> [s \in Rank |-> models[x][s]]],
         models' = [models EXCEPT ![r] = row]
  PROVE  models' = [x \in Rank |-> [s \in Rank |-> models'[x][s]]]
<1>1. ASSUME NEW x \in Rank PROVE models'[x] = [s \in Rank |-> models'[x][s]]
  <2>1. CASE x = r
    <3>1. models'[x] = row
      BY <2>1
    <3> QED BY <3>1
  <2>2. CASE x # r
    <3>1. models'[x] = models[x] /\ models[x] = [s \in Rank |-> models[x][s]]
      BY <2>2
    <3> QED BY <3>1
  <2> QED BY <2>1, <2>2
<1>2. models' = [x \in Rank |-> models'[x]]
  OBVIOUS
<1> QED BY <1>1, <1>2

LEMMA NextTypes ==
  ASSUME Counted, Travelling, [Next]_vars
  PROVE  Types'
<1>0. /\ pc' \in [Rank -> Places] /\ round' \in [Rank -> Nat] /\ entered' \in [Rank -> Nat]
      /\ \A r \in Rank : Measured(r) /\ Collected(r)
  BY NextPlaces DEF Travelling
<1> DEFINE Settled ==
             /\ remeasureAll \in BOOLEAN /\ left \subseteq Rank /\ next \in Nat \ {0}
             /\ models = [r \in Rank |-> [s \in Rank |-> models[r][s]]]
             /\ mail = [r \in Rank |-> mail[r]]
             /\ gathered = [r \in Rank |-> gathered[r]]
             /\ scattered = [r \in Rank |-> scattered[r]]
             /\ lm = [r \in Rank |-> lm[r]]
<1>1. Settled /\ Master \in Rank
  BY Size DEF Counted, Types
<1>2. ASSUME NEW r \in Rank, Leave(r) PROVE left' \subseteq Rank
  BY <1>1, <1>2, LeaveFacts
<1>3. ASSUME NEW r \in Rank, RankStep(r), UNCHANGED remeasureAll PROVE Settled'
  <2>1. CASE SkipRound(r)
    BY <1>1, <1>3, <2>1 DEF SkipRound
  <2>2. CASE MasterLearn(r)
    BY <1>1, <1>2, <1>3, <2>2 DEF MasterLearn
  <2>3. CASE ClientLearn(r)
    <3>1. PICK p \in Rank : /\ models' = [models EXCEPT ![r][r] = Model(r, p)]
                            /\ mail' = [mail EXCEPT ![p] = {Sent(r, p, round[r])}]
      BY <1>0, <2>3, ClientSends
    <3>2. models' = [x \in Rank |-> [s \in Rank |-> models'[x][s]]]
      BY <1>1, <3>1
    <3> QED BY <1>1, <1>3, <2>3, <3>1, <3>2 DEF ClientLearn
  <2>4. CASE MasterReceive(r)
    <3>1. models' = [x \in Rank |-> [s \in Rank |-> models'[x][s]]]
      <4> DEFINE row(tmp) ==
                [s \in Rank |-> IF s - (r + my_pow_2[round[r]]) \notin DOMAIN tmp
                                THEN models[r][s]
                                ELSE IF s = r + my_pow_2[round[r]] THEN tmp[0]
                                ELSE Merge(tmp[0], tmp[s - (r + my_pow_2[round[r]])])]
      <4>1. PICK tmp \in mail[r] : models' = [models EXCEPT ![r] = row(tmp)]
        BY <1>1, <2>4 DEF MasterReceive
      <4>2. row(tmp) = [s \in Rank |-> row(tmp)[s]]
        OBVIOUS
      <4> QED BY <1>1, <4>1, <4>2, NewRow
    <3> QED BY <1>1, <1>3, <2>4, <3>1 DEF MasterReceive
  <2>5. CASE LeaveBarrier(r)
    BY <1>1, <1>3, <2>5 DEF LeaveBarrier
  <2>6. CASE ReferenceStep2(r)
    <3>1. models' = [x \in Rank |-> [s \in Rank |-> models'[x][s]]]
      BY <1>1, <2>6 DEF ReferenceStep2
    <3> QED BY <1>1, <1>2, <1>3, <2>6, <3>1 DEF ReferenceStep2
  <2>7. CASE ClientStep2(r)
    <3>1. models' = [x \in Rank |-> [s \in Rank |-> models'[x][s]]]
      BY <1>0, <1>1, <2>7, ClientOfLastRound
    <3> QED BY <1>1, <1>3, <2>7, <3>1 DEF ClientStep2
  <2>8. CASE MasterGather(r)
    <3>1. models' = [x \in Rank |-> [s \in Rank |-> models'[x][s]]]
      <4> DEFINE row ==
              [p \in Rank |->
                 IF p < MaxPower THEN models[r][p]
                 ELSE LET tmp == CHOOSE m \in gathered[p] : TRUE
                          j == p - MaxPower + 1
                      IN  IF j = 1 THEN tmp ELSE Merge(models[r][j - 1], tmp)]
      <4>1. models' = [models EXCEPT ![r] = row]
        BY <1>1, <2>8 DEF MasterGather
      <4>2. row = [s \in Rank |-> row[s]]
        OBVIOUS
      <4> HIDE DEF row
      <4> QED BY <1>1, <4>1, <4>2, NewRow
    <3> QED BY <1>1, <1>3, <2>8, <3>1 DEF MasterGather
  <2>9. CASE ReceiveScatter(r)
    BY <1>1, <1>3, <2>9 DEF ReceiveScatter
  <2>10. CASE ClientRemeasure(r)
    BY <1>1, <1>3, <2>10 DEF ClientRemeasure
  <2>11. CASE RemeasureDone(r)
    BY <1>1, <1>3, <2>11 DEF RemeasureDone
  <2>12. CASE Return(r)
    BY <1>1, <1>3, <2>12 DEF Return
  <2> QED
    BY <1>3, <2>1, <2>2, <2>3, <2>4, <2>5, <2>6, <2>7, <2>8, <2>9, <2>10, <2>11, <2>12
       DEF RankStep
<1>4. ASSUME MasterScatter, UNCHANGED remeasureAll PROVE Settled'
  BY <1>1, <1>4 DEF MasterScatter
<1>5. ASSUME MasterRemeasure, UNCHANGED remeasureAll PROVE Settled'
  BY <1>1, <1>2, <1>5 DEF MasterRemeasure
<1>6. ASSUME UNCHANGED vars PROVE Settled'
  BY <1>1, <1>6 DEF vars
<1>7. Settled'
  BY <1>3, <1>4, <1>5, <1>6 DEF Next, MasterStep, Step, Stop
<1> QED BY <1>0, <1>7 DEF Types

\* What rank 0 has when it comes to the scatter: all models collected, and those of the
\* last round merged with them.
LEMMA ReadyToScatter ==
  ASSUME Counted, Travelling, \A x \in Rank : HandedOut(x), NEW r \in Rank, RankStep(r),
         pc'[Master] = "scatter", NEW s \in Rank, s # Master
  PROVE  models'[Master][s] = Model(s, Master)
<1>0. /\ pc \in [Rank -> Places] /\ entered \in [Rank -> Nat] /\ Master \in Rank /\ Master = 0
      /\ models = [x \in Rank |-> [y \in Rank |-> models[x][y]]]
      /\ InPlace(Master) /\ Measured(Master) /\ Collected(Master)
      /\ LastRound \in Nat /\ MaxPower \in Nat /\ MaxPower > 0 /\ MaxPower <= nprocs
      /\ MaxPower = my_pow_2[LastRound] /\ nprocs \in Nat /\ s \in Nat /\ s > 0 /\ s < nprocs
  BY Size DEF Counted, Types, Travelling
<1>1. ASSUME entered[Master] = LastRound, NEW q \in Rank, q # Master, q < MaxPower
      PROVE  models[Master][q] = Model(q, Master)
  <2>1. Master % my_pow_2[LastRound] = 0
    BY <1>0
  <2>2. /\ q \in (Master + 1)..(Master + my_pow_2[LastRound] - 1)
        /\ LastRound \in 0..LastRound /\ LastRound <= entered[Master]
    BY <1>0, <1>1, Size
  <2>3. Collected(Master) /\ Master < MaxPower
    BY <1>0
  <2> QED BY <2>1, <2>2, <2>3 DEF Collected
<1>2. CASE r # Master
  <2>1. pc[Master] = "scatter"
    BY <1>0, <1>2, RankMoves DEF Counted, Moves
  <2>2. models'[Master] = models[Master]
    BY <1>0, <1>2 DEF RankStep, SkipRound, MasterLearn, ClientLearn, MasterReceive,
      LeaveBarrier, ReferenceStep2, ClientStep2, MasterGather, ReceiveScatter,
      ClientRemeasure, RemeasureDone, Return
  <2> QED BY <2>1, <2>2 DEF HandedOut
<1>3. CASE r = Master /\ ReferenceStep2(r)
  <2>1. pc[r] = "step2" /\ ~(nprocs > MaxPower)
    BY <1>0, <1>3 DEF ReferenceStep2, Goto
  <2>2. MyCall(r) = {}
    BY <2>1 DEF MyCall
  <2>3. UNCHANGED models
    BY <1>3, <2>2 DEF ReferenceStep2
  <2>4. entered[Master] = LastRound /\ s < MaxPower
    BY <1>0, <1>3, <2>1 DEF InPlace
  <2> QED BY <1>1, <2>3, <2>4
<1>4. CASE r = Master /\ MasterGather(r)
  <2> DEFINE tmp == CHOOSE m \in gathered[s] : TRUE
             j == s - MaxPower + 1
  <2>1. /\ pc[Master] = "gather" /\ entered[Master] = LastRound
        /\ \A p \in MaxPower..(nprocs - 1) : gathered[p] # {}
    BY <1>0, <1>4 DEF MasterGather, InPlace
  <2>2. models'[Master][s] =
          IF s < MaxPower THEN models[Master][s]
          ELSE IF j = 1 THEN tmp ELSE Merge(models[Master][j - 1], tmp)
    BY <1>0, <1>4 DEF MasterGather
  <2>3. s >= MaxPower => tmp = Model(s, s - MaxPower)
    <3>1. SUFFICES ASSUME s >= MaxPower PROVE tmp = Model(s, s - MaxPower)
      OBVIOUS
    <3>2. gathered[s] = {Model(s, s - MaxPower)}
      BY <1>0, <2>1, <3>1 DEF HandedOut
    <3> QED BY <3>2
  <2> HIDE DEF tmp
  <2>4. CASE s < MaxPower
    BY <1>1, <2>1, <2>2, <2>4
  <2>5. CASE s = MaxPower
    <3>1. j = 1 /\ s - MaxPower = Master
      BY <1>0, <2>5
    <3> QED BY <1>0, <2>2, <2>3, <2>5, <3>1
  <2>6. CASE s > MaxPower
    <3>1. nprocs < 2 * MaxPower
      BY Size, RoundsOf DEF MaxPower
    <3>2. /\ j # 1 /\ j - 1 = s - MaxPower /\ s - MaxPower \in Rank
          /\ s - MaxPower # Master /\ s - MaxPower < MaxPower
      BY <1>0, <2>6, <3>1, Size
    <3>3. models[Master][s - MaxPower] = Model(s - MaxPower, Master)
      BY <1>1, <2>1, <3>2
    <3> QED BY <1>0, <2>2, <2>3, <2>6, <3>2, <3>3, MergedModel
  <2>7. s < MaxPower \/ s = MaxPower \/ s > MaxPower
    <3>1. s \in Nat /\ MaxPower \in Nat
      BY <1>0
    <3> QED BY <3>1
  <2> QED BY <2>4, <2>5, <2>6, <2>7
<1>5. CASE r = Master /\ ClientStep2(r)
  BY <1>0, <1>5, ClientOfLastRound
<1>6. CASE r = Master /\ ~ReferenceStep2(r) /\ ~MasterGather(r) /\ ~ClientStep2(r)
  <2>1. pc'[r] # "scatter"
    BY <1>0, <1>6 DEF RankStep, SkipRound, MasterLearn, ClientLearn, MasterReceive,
      LeaveBarrier, ReceiveScatter, ClientRemeasure, RemeasureDone, Return, Goto, EnterBarrier
  <2> QED BY <1>6, <2>1
<1> QED BY <1>2, <1>3, <1>4, <1>5, <1>6

LEMMA NextHandedOut ==
  ASSUME IInv, [Next]_vars
  PROVE  \A x \in Rank : HandedOut(x)'
<1>0. /\ pc \in [Rank -> Places] /\ Master \in Rank /\ MaxPower \in Nat
      /\ gathered = [x \in Rank |-> gathered[x]] /\ scattered = [x \in Rank |-> scattered[x]]
      /\ lm = [x \in Rank |-> lm[x]]
      /\ Counted /\ Travelling /\ \A x \in Rank : Measured(x) /\ HandedOut(x)
  BY Size DEF IInv, Counted, Types, Travelling
<1> DEFINE Parts(x) ==
             /\ gathered[x] # {} => x >= MaxPower /\ gathered[x] = {Model(x, x - MaxPower)}
             /\ scattered[x] # {} => scattered[x] = {Model(x, Master)}
             /\ x # Master /\ pc[x] \in {"remeasure", "final", "done"} => lm[x] = Model(x, Master)
             /\ pc[x] = "done" => lm[x] = Model(x, Master)
<1>1. \A x \in Rank : Parts(x)
  BY <1>0 DEF HandedOut
<1>2. ASSUME NEW r \in Rank, RankStep(r), NEW x \in Rank PROVE Parts(x)'
  <2>2. ASSUME pc' = [pc EXCEPT ![r] = pc'[r]], UNCHANGED <<gathered, scattered, lm>>,
               pc'[r] \notin {"remeasure", "final", "done"}
        PROVE  Parts(x)'
    BY <1>0, <1>1, <2>2 DEF Model
  <2>3. CASE SkipRound(r)
    BY <1>0, <2>2, <2>3 DEF SkipRound, EnterBarrier, Goto
  <2>4. CASE MasterLearn(r)
    BY <1>0, <2>2, <2>4 DEF MasterLearn, Goto
  <2>5. CASE ClientLearn(r)
    BY <1>0, <2>2, <2>5 DEF ClientLearn, EnterBarrier, Goto
  <2>6. CASE MasterReceive(r)
    BY <1>0, <2>2, <2>6 DEF MasterReceive, EnterBarrier, Goto
  <2>7. CASE LeaveBarrier(r)
    BY <1>0, <2>2, <2>7 DEF LeaveBarrier, Goto
  <2>8. CASE ReferenceStep2(r)
    BY <1>0, <2>2, <2>8 DEF ReferenceStep2, Goto
  <2>9. CASE ClientStep2(r)
    <3>1. r >= MaxPower /\ gathered'[r] = {Model(r, r - MaxPower)}
      <4>1. /\ r >= MaxPower
            /\ models' = [models EXCEPT ![r][r] = Model(r, r - MaxPower)]
            /\ gathered' = [gathered EXCEPT ![r] = {models'[r][r]}]
        BY <1>0, <2>9, ClientOfLastRound
      <4>2. models'[r][r] = Model(r, r - MaxPower)
        BY <1>0, <4>1 DEF Counted, Types
      <4> QED BY <1>0, <4>1, <4>2
    <3>2. /\ pc' = [pc EXCEPT ![r] = "scatter"] /\ UNCHANGED <<scattered, lm>>
          /\ \A y \in Rank \ {r} : gathered'[y] = gathered[y]
      BY <1>0, <2>9 DEF ClientStep2, Goto
    <3> QED BY <1>0, <1>1, <3>1, <3>2 DEF Model
  <2>10. CASE MasterGather(r)
    BY <1>0, <2>2, <2>10 DEF MasterGather, Goto
  <2>11. CASE ReceiveScatter(r)
    <3>1. /\ pc' = [pc EXCEPT ![r] = "remeasure"] /\ UNCHANGED <<gathered, scattered>>
          /\ r # Master /\ \E m \in scattered[r] : lm' = [lm EXCEPT ![r] = m]
      BY <2>11 DEF ReceiveScatter, Goto
    <3>2. lm' = [lm EXCEPT ![r] = Model(r, Master)]
      BY <1>1, <3>1
    <3> QED BY <1>0, <1>1, <3>1, <3>2 DEF Model
  <2>12. CASE ClientRemeasure(r)
    <3>1. /\ pc[r] = "remeasure" /\ pc' = [pc EXCEPT ![r] = "final"]
          /\ UNCHANGED <<gathered, scattered>>
          /\ lm' = [lm EXCEPT ![r].intercept = <<r, Master>>]
      BY <2>12 DEF ClientRemeasure, EnterBarrier, Goto
    <3>2. r # Master => lm'[r] = Model(r, Master)
      BY <1>0, <1>1, <3>1 DEF Model
    <3>3. \A y \in Rank \ {r} : lm'[y] = lm[y] /\ pc'[y] = pc[y]
      BY <1>0, <3>1
    <3> QED BY <1>0, <1>1, <3>1, <3>2, <3>3 DEF Model
  <2>13. CASE RemeasureDone(r)
    <3>1. /\ pc[r] = "remeasure" /\ pc' = [pc EXCEPT ![r] = "final"]
          /\ UNCHANGED <<gathered, scattered, lm>>
      BY <2>13 DEF RemeasureDone, EnterBarrier, Goto
    <3> QED BY <1>0, <1>1, <3>1 DEF Model
  <2>14. CASE Return(r)
    <3>1. /\ pc[r] = "final" /\ pc' = [pc EXCEPT ![r] = "done"]
          /\ UNCHANGED <<gathered, scattered>>
          /\ lm' = IF r = Master THEN [lm EXCEPT ![r] = Model(r, r)] ELSE lm
      BY <2>14 DEF Return, Goto
    <3>2. lm'[r] = Model(r, Master) /\ \A y \in Rank \ {r} : lm'[y] = lm[y] /\ pc'[y] = pc[y]
      BY <1>0, <1>1, <3>1
    <3> QED BY <1>0, <1>1, <3>1, <3>2 DEF Model
  <2> QED
    BY <1>2, <2>3, <2>4, <2>5, <2>6, <2>7, <2>8, <2>9, <2>10, <2>11, <2>12, <2>13, <2>14
       DEF RankStep
<1>3. ASSUME NEW r \in Rank, RankStep(r), NEW x \in Rank PROVE HandedOut(x)'
  <2>1. pc'[Master] = "scatter" => x = Master \/ models'[Master][x] = Model(x, Master)
    BY <1>0, <1>3, ReadyToScatter
  <2>2. Parts(x)'
    BY <1>2, <1>3
  <2> QED BY <2>1, <2>2 DEF HandedOut, Model
<1>4. ASSUME MasterScatter, NEW x \in Rank PROVE HandedOut(x)'
  <2>1. /\ pc[Master] = "scatter" /\ pc' = [pc EXCEPT ![Master] = "remeasure"]
        /\ UNCHANGED gathered
        /\ scattered' = [s \in Rank |-> IF s = Master THEN {} ELSE {models[Master][s]}]
        /\ lm' = [lm EXCEPT ![Master] = models[Master][Master]]
    BY <1>4 DEF MasterScatter, Goto
  <2>2. scattered'[x] # {} => scattered'[x] = {Model(x, Master)}
    BY <1>0, <2>1 DEF HandedOut
  <2>3. pc'[Master] = "remeasure" /\ (x # Master => lm'[x] = lm[x] /\ pc'[x] = pc[x])
    BY <1>0, <2>1
  <2> QED BY <1>1, <2>1, <2>2, <2>3 DEF HandedOut, Model
<1>5. ASSUME MasterRemeasure, NEW x \in Rank PROVE HandedOut(x)'
  BY <1>0, <1>5 DEF MasterRemeasure, HandedOut, Model
<1>6. ASSUME UNCHANGED vars, NEW x \in Rank PROVE HandedOut(x)'
  BY <1>0, <1>6 DEF vars, HandedOut, Model
<1> QED BY <1>3, <1>4, <1>5, <1>6 DEF Next, MasterStep, Step, Stop

-----------------------------------------------------------------------------
(* Theorems                                                                *)

LEMMA InitIInv == Init => IInv
<1> SUFFICES ASSUME Init PROVE IInv
  OBVIOUS
<1>0. LastRound \in Nat /\ MaxPower \in Nat /\ 0 \in Rank /\ Rank \subseteq Nat
  BY Size
<1>1. /\ pc = [r \in Rank |-> IF LastRound > 0 THEN "round" ELSE "step2"]
      /\ entered = [r \in Rank |-> 0] /\ round = [r \in Rank |-> 0] /\ left = {}
      /\ mail = [r \in Rank |-> {}] /\ gathered = [r \in Rank |-> {}]
      /\ scattered = [r \in Rank |-> {}] /\ lm = [r \in Rank |-> Unset] /\ next = 1
      /\ models = [r \in Rank |-> [s \in Rank |-> Unset]] /\ remeasureAll \in BOOLEAN
  BY DEF Init
<1>2. models = [r \in Rank |-> [s \in Rank |-> models[r][s]]]
  BY <1>1
<1>3. Types
  BY <1>0, <1>1, <1>2 DEF Types, Places
<1>4. Met /\ \A r \in Rank : InPlace(r)
  BY <1>0, <1>1 DEF Met, InPlace, AllEntered
<1>5. ASSUME NEW r \in Rank PROVE Measured(r) /\ HandedOut(r)
  BY <1>1, Size DEF Measured, HandedOut
<1>6. ASSUME NEW r \in Rank PROVE Collected(r)
  <2>1. SUFFICES ASSUME NEW m \in 0..LastRound, m <= entered[r],
                        NEW s \in (r + 1)..(r + my_pow_2[m] - 1)
                 PROVE  FALSE
    BY DEF Collected
  <2>2. m = 0 /\ r \in Nat
    BY <1>0, <1>1, <2>1
  <2> QED BY <2>1, <2>2, Powers
<1> QED BY <1>3, <1>4, <1>5, <1>6 DEF IInv, Counted, Travelling

LEMMA Invariance == Spec => []IInv
<1>1. IInv /\ [Next]_vars => IInv'
  <2> SUFFICES ASSUME IInv, [Next]_vars PROVE IInv'
    OBVIOUS
  <2>1. Counted /\ Travelling
    BY DEF IInv
  <2>2. Counted'
    BY <2>1, NextTypes, NextPlaces DEF Counted
  <2>3. Travelling'
    BY <2>1, NextMeasured, NextCollected DEF Travelling
  <2> QED BY <2>2, <2>3, NextHandedOut DEF IInv
<1> QED BY InitIInv, <1>1, PTL DEF Spec

\* No uninitialised entry of linear_models travels, on any number of ranks: what a client
\* sends up the tree it has learned or collected in the rounds before.
THEOREM OnlyLearnedTravel == Spec => []OnlyLearnedModelsTravel
<1>1. IInv => OnlyLearnedModelsTravel
  <2> SUFFICES ASSUME IInv, NEW r \in Rank
               PROVE  /\ \A array \in mail[r] : \A j \in DOMAIN array :
                           array[j].slope # Garbage
                      /\ Garbage \notin {m.slope : m \in gathered[r] \cup scattered[r]}
    BY DEF OnlyLearnedModelsTravel
  <2>0. Rank \subseteq Nat /\ Measured(r) /\ HandedOut(r) /\ round \in [Rank -> Nat]
    BY Size DEF IInv, Travelling, Counted, Types
  <2>1. ASSUME NEW array \in mail[r], NEW j \in DOMAIN array PROVE array[j].slope # Garbage
    <3>1. PICK c \in Rank : array = Sent(c, r, round[r])
      BY <2>0, <2>1 DEF Measured, Receiving
    <3>2. j \in 0..(my_pow_2[round[r]] - 1) /\ my_pow_2[round[r]] \in Nat
      BY <2>0, <2>1, <3>1, PositivePowers DEF Sent
    <3>3. array[j] = IF j = 0 THEN Model(c, r) ELSE Model(c + j, c)
      BY <3>1, <3>2 DEF Sent
    <3> QED BY <2>0, <3>2, <3>3 DEF Model, Garbage
  <2>2. ASSUME NEW m \in gathered[r] \cup scattered[r] PROVE m.slope # Garbage
    <3>1. m = Model(r, r - MaxPower) \/ m = Model(r, Master)
      BY <2>0, <2>2 DEF HandedOut
    <3> QED BY <2>0, <3>1 DEF Model, Garbage
  <2> QED BY <2>1, <2>2
<1> QED BY Invariance, <1>1, PTL

\* On any number of ranks, a rank that leads its group after a round has a model of every
\* other rank of the group against its own clock.
THEOREM SubtreesCollected == Spec => []CollectsSubtree
<1>1. IInv => CollectsSubtree
  <2> SUFFICES ASSUME IInv, NEW r \in Rank, pc[r] = "barrier", r < MaxPower,
                      r % my_pow_2[round[r] + 1] = 0,
                      NEW s \in (r + 1)..(r + my_pow_2[round[r] + 1] - 1)
               PROVE  models[r][s] = Model(s, r)
    BY DEF CollectsSubtree
  <2>1. Collected(r) /\ InPlace(r) /\ round[r] \in Nat /\ LastRound \in Nat
    BY Size DEF IInv, Travelling, Counted, Types
  <2>2. round[r] + 1 \in 0..LastRound /\ round[r] + 1 <= entered[r]
    BY <2>1 DEF InPlace
  <2> QED BY <2>1, <2>2 DEF Collected
<1> QED BY Invariance, <1>1, PTL

\* On any number of ranks, every rank returns with its own clock put against rank 0's: the
\* merged models are composed along the tree with no gap, HCA and HCA2 alike.
THEOREM AllModelsAgainstMaster == Spec => []AllAgainstMaster
<1>1. IInv => AllAgainstMaster
  BY DEF IInv, HandedOut, AllAgainstMaster
<1> QED BY Invariance, <1>1, PTL

-----------------------------------------------------------------------------
(* What SyncTree promises, on every tree                                   *)

\* The level of a child's error is one more than its parent's.
LEMMA OneLevel ==
  ASSUME NEW d \in Nat
  PROVE  (d + 1) * MaxError = d * MaxError + MaxError /\ d * MaxError \in Nat
  BY MaxErrorAssumption

\* A parent is a rank other than its child, one level above it.
LEMMA ParentFacts ==
  ASSUME NEW r \in TreeRank \ {Root}
  PROVE  /\ Parent[r] \in TreeRank /\ Parent[r] # r
         /\ Depth[r] \in Nat /\ Depth[Parent[r]] \in Nat
         /\ Depth[r] = Depth[Parent[r]] + 1
<1>1. Parent[r] \in TreeRank
  BY ParentAssumption
<1>2. Depth[r] = Depth[Parent[r]] + 1 /\ Depth[r] \in Nat /\ Depth[Parent[r]] \in Nat
  BY <1>1, DepthAssumption
<1> QED
  BY <1>1, <1>2

\* The synchronisations are counted from 0 and errors are integers.
THEOREM TypeCorrect == TreeSpec => []TypeOK
<1>1. TreeInit => TypeOK
  BY MaxSyncsAssumption DEF TreeInit, TypeOK
<1>2. TypeOK /\ [TreeNext]_treeVars => TypeOK'
  <2> SUFFICES ASSUME TypeOK, [TreeNext]_treeVars PROVE TypeOK'
    OBVIOUS
  <2>1. CASE Lead
    BY <2>1, RootAssumption, MaxSyncsAssumption DEF Lead, TypeOK
  <2>2. ASSUME NEW r \in TreeRank \ {Root}, Adopt(r) PROVE TypeOK'
    <3>1. PICK e \in -MaxError..MaxError : err' = [err EXCEPT ![r] = err[Parent[r]] + e]
      BY <2>2 DEF Adopt
    <3>2. err[Parent[r]] + e \in Int
      BY ParentFacts, MaxErrorAssumption DEF TypeOK
    <3>3. err' \in [TreeRank -> Int]
      BY <3>1, <3>2 DEF TypeOK
    <3>4. gen' \in [TreeRank -> 0..MaxSyncs]
      <4>1. gen[r] + 1 \in 0..MaxSyncs
        BY <2>2, ParentFacts, MaxSyncsAssumption DEF Adopt, TypeOK
      <4> QED
        BY <2>2, <4>1 DEF Adopt, TypeOK
    <3> QED
      BY <3>3, <3>4 DEF TypeOK
  <2>3. CASE UNCHANGED treeVars
    BY <2>3 DEF treeVars, TypeOK
  <2> QED
    BY <2>1, <2>2, <2>3 DEF TreeNext
<1> QED
  BY <1>1, <1>2, PTL DEF TreeSpec

\* A clock is off by at most one measurement's error for each level of the tree.
THEOREM AccuracyByLevel == TreeSpec => []Accurate
<1>1. TreeInit => Accurate
  <2> SUFFICES ASSUME TreeInit, NEW r \in TreeRank
               PROVE  -(Depth[r] * MaxError) <= err[r] /\ err[r] <= Depth[r] * MaxError
    BY DEF Accurate
  <2>1. Depth[r] * MaxError \in Nat
    BY DepthAssumption, OneLevel
  <2> QED
    BY <2>1 DEF TreeInit
<1>2. TypeOK /\ Accurate /\ [TreeNext]_treeVars => Accurate'
  <2> SUFFICES ASSUME TypeOK, Accurate, [TreeNext]_treeVars PROVE Accurate'
    OBVIOUS
  <2>1. CASE Lead
    BY <2>1 DEF Lead, Accurate
  <2>2. ASSUME NEW r \in TreeRank \ {Root}, Adopt(r) PROVE Accurate'
    <3> DEFINE p == Parent[r]
               bound == Depth[p] * MaxError
    <3>1. PICK e \in -MaxError..MaxError : err' = [err EXCEPT ![r] = err[p] + e]
      BY <2>2 DEF Adopt
    <3>2. Depth[r] * MaxError = bound + MaxError /\ bound \in Nat
      BY ParentFacts, OneLevel
    <3>3. -bound <= err[p] /\ err[p] <= bound
      BY ParentFacts DEF Accurate
    <3>4. err[p] \in Int /\ err'[r] = err[p] + e
      BY <3>1, ParentFacts DEF TypeOK
    <3> HIDE DEF bound, p
    <3>5. -(Depth[r] * MaxError) <= err'[r] /\ err'[r] <= Depth[r] * MaxError
      BY <3>2, <3>3, <3>4, MaxErrorAssumption
    <3>6. \A s \in TreeRank \ {r} : err'[s] = err[s]
      BY <3>1 DEF TypeOK
    <3> QED
      BY <3>5, <3>6 DEF Accurate
  <2>3. CASE UNCHANGED treeVars
    BY <2>3 DEF treeVars, Accurate
  <2> QED
    BY <2>1, <2>2, <2>3 DEF TreeNext
<1> QED
  BY <1>1, <1>2, TypeCorrect, PTL DEF TreeSpec

\* A rank is in its parent's synchronisation or in the one before it.
THEOREM StaysInStep == TreeSpec => []InStep
<1>1. TreeInit => InStep
  <2> SUFFICES ASSUME TreeInit, NEW r \in TreeRank \ {Root}
               PROVE  gen[r] \in {gen[Parent[r]], gen[Parent[r]] - 1}
    BY DEF InStep
  <2>1. gen[r] = 0 /\ gen[Parent[r]] = 0
    BY ParentFacts DEF TreeInit
  <2> QED
    BY <2>1
<1>2. TypeOK /\ InStep /\ [TreeNext]_treeVars => InStep'
  <2> SUFFICES ASSUME TypeOK, InStep, [TreeNext]_treeVars, NEW r \in TreeRank \ {Root}
               PROVE  gen'[r] \in {gen'[Parent[r]], gen'[Parent[r]] - 1}
    BY DEF InStep
  <2>0. /\ gen[r] \in {gen[Parent[r]], gen[Parent[r]] - 1}
        /\ gen[r] \in Nat /\ gen[Parent[r]] \in Nat
    BY ParentFacts DEF InStep, TypeOK
  <2>1. CASE Lead
    <3>1. CASE Parent[r] = Root
      <4>1. gen[r] = gen[Root]
        BY <2>1, <3>1 DEF Lead, Served, Children
      <4> QED
        BY <2>0, <2>1, <3>1, <4>1, RootAssumption, ParentFacts DEF Lead, TypeOK
    <3>2. CASE Parent[r] # Root
      BY <2>0, <2>1, <3>2, ParentFacts DEF Lead, TypeOK
    <3> QED
      BY <3>1, <3>2
  <2>2. ASSUME NEW s \in TreeRank \ {Root}, Adopt(s)
        PROVE  gen'[r] \in {gen'[Parent[r]], gen'[Parent[r]] - 1}
    <3>1. CASE s = r
      BY <2>0, <2>2, <3>1, ParentFacts DEF Adopt, TypeOK
    <3>2. CASE Parent[r] = s
      <4>1. gen[r] = gen[s]
        BY <2>2, <3>2 DEF Adopt, Served, Children
      <4> QED
        BY <2>0, <2>2, <3>2, <4>1, ParentFacts DEF Adopt, TypeOK
    <3>3. CASE s # r /\ Parent[r] # s
      BY <2>0, <2>2, <3>3, ParentFacts DEF Adopt, TypeOK
    <3> QED
      BY <3>1, <3>2, <3>3
  <2>3. CASE UNCHANGED treeVars
    BY <2>0, <2>3 DEF treeVars
  <2> QED
    BY <2>1, <2>2, <2>3 DEF TreeNext
<1> QED
  BY <1>1, <1>2, TypeCorrect, PTL DEF TreeSpec
=============================================================================
