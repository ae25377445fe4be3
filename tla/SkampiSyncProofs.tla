-------------------------- MODULE SkampiSyncProofs --------------------------
(***************************************************************************)
(* The SKaMPI synchronisation of any number of ranks.  A rank's counter of *)
(* barriers tells where it is: every synchronisation has nprocs of them,   *)
(* and who has left one knows that all have entered it.                    *)
(***************************************************************************)
EXTENDS SkampiSync, TLAPS

Places == {"idle", "barrier", "measure", "bcast", "final"}

Types ==
  /\ pc \in [Rank -> Places]
  /\ syncs \in [Rank -> Nat]
  /\ i \in [Rank -> Nat]
  /\ entered \in [Rank -> Nat]
  /\ answer = [r \in Rank |-> answer[r]]

\* The barriers of n synchronisations.
Barriers(n) == n * nprocs

\* Where a rank is and how many barriers it has entered go together.
InPlace(r) ==
  /\ pc[r] \in {"barrier", "measure"} =>
       /\ i[r] \in 1..(nprocs - 1)
       /\ entered[r] + nprocs = Barriers(syncs[r]) + i[r]
  /\ pc[r] = "bcast" => entered[r] + 1 = Barriers(syncs[r])
  /\ pc[r] \in {"idle", "final"} => entered[r] = Barriers(syncs[r])
  /\ pc[r] # "idle" => syncs[r] >= 1

\* Who does not wait in a barrier has seen all enter it.
Met == \A r \in Rank : pc[r] \notin {"barrier", "final"} => AllEntered(r)

\* An offset is left for a client that is measuring.
Answered ==
  \A r \in Rank : answer[r] # {} => r # 0 /\ pc[r] = "measure" /\ i[r] = r

IInv == Types /\ (\A r \in Rank : InPlace(r)) /\ Met /\ Answered

-----------------------------------------------------------------------------
(* Counting barriers.                                                      *)

LEMMA Root == 0 \in Rank /\ Rank \subseteq Nat /\ nprocs \in Nat /\ nprocs >= 1
  BY nprocsAssumption DEF Rank

LEMMA OneMore ==
  ASSUME NEW n \in Nat
  PROVE  Barriers(n) \in Nat /\ Barriers(n + 1) = Barriers(n) + nprocs /\ Barriers(0) = 0
  BY Root DEF Barriers

\* More synchronisations, more barriers.
LEMMA Growing ==
  ASSUME NEW m \in Nat, NEW n \in Nat, m < n
  PROVE  Barriers(m) + nprocs =< Barriers(n)
<1>1. PICK d \in Nat : n = m + 1 + d
  <2>1. n - m - 1 \in Nat /\ n = m + 1 + (n - m - 1)
    OBVIOUS
  <2> QED
    BY <2>1
<1>2. n * nprocs = m * nprocs + nprocs + d * nprocs
  BY <1>1, Root
<1>3. d * nprocs \in Nat /\ m * nprocs \in Nat /\ n * nprocs \in Nat
  BY Root
<1> QED
  BY <1>2, <1>3, Root DEF Barriers

\* Two ranks inside the loop that have entered as many barriers take the same turn.
LEMMA SameTurn ==
  ASSUME NEW m \in Nat, NEW n \in Nat, NEW j \in 1..nprocs, NEW k \in 1..nprocs,
         Barriers(m) + j = Barriers(n) + k
  PROVE  m = n /\ j = k
<1>1. nprocs \in Nat /\ Barriers(m) \in Nat /\ Barriers(n) \in Nat
  BY Root, OneMore
<1>2. ~(m < n)
  BY <1>1, Growing
<1>3. ~(n < m)
  BY <1>1, Growing
<1>4. m = n
  BY <1>2, <1>3
<1> QED
  BY <1>1, <1>4

-----------------------------------------------------------------------------
(* Steps.                                                                  *)

\* Going on to the next turn, from the last one or from the start.
LEMMA NextTurnKeeps ==
  ASSUME IInv, NEW r \in Rank, NEW turn \in Nat, NextTurn(r, turn),
         \/ pc[r] = "measure" /\ turn = i[r] + 1 /\ UNCHANGED syncs
         \/ pc[r] = "idle" /\ turn = 1 /\ syncs' = [syncs EXCEPT ![r] = @ + 1]
  PROVE  /\ pc' \in [Rank -> Places] /\ i' \in [Rank -> Nat]
         /\ syncs' \in [Rank -> Nat] /\ entered' \in [Rank -> Nat]
         /\ \A s \in Rank \ {r} : /\ pc'[s] = pc[s] /\ i'[s] = i[s]
                                  /\ syncs'[s] = syncs[s] /\ entered'[s] = entered[s]
         /\ (\A s \in Rank : InPlace(s))' /\ Met'
<1>0. nprocs \in Nat /\ nprocs >= 1
  BY Root
<1>1. Types /\ InPlace(r) /\ Met
  BY DEF IInv
<1>2. /\ i' \in [Rank -> Nat] /\ syncs' \in [Rank -> Nat] /\ i'[r] = turn
      /\ \A s \in Rank \ {r} : i'[s] = i[s] /\ syncs'[s] = syncs[s]
  BY <1>1 DEF NextTurn, Types
<1>3. turn >= 1 /\ turn =< nprocs /\ syncs'[r] >= 1
      /\ entered[r] + nprocs + 1 = Barriers(syncs'[r]) + turn
  <2>1. CASE pc[r] = "measure" /\ turn = i[r] + 1 /\ UNCHANGED syncs
    BY <2>1, <1>0, <1>1, OneMore DEF Types, InPlace
  <2>2. CASE pc[r] = "idle" /\ turn = 1 /\ syncs' = [syncs EXCEPT ![r] = @ + 1]
    <3>1. syncs'[r] = syncs[r] + 1 /\ syncs[r] \in Nat
      BY <2>2, <1>1 DEF Types
    <3> QED
      BY <2>2, <3>1, <1>0, <1>1, OneMore DEF Types, InPlace
  <2> QED
    BY <2>1, <2>2
<1>4. CASE turn < nprocs
  <2>1. /\ pc' = [pc EXCEPT ![r] = "barrier"]
        /\ entered' = [entered EXCEPT ![r] = @ + 1]
    BY <1>4 DEF NextTurn, EnterBarrier
  <2>2. /\ pc' \in [Rank -> Places] /\ pc'[r] = "barrier"
        /\ entered' \in [Rank -> Nat] /\ entered'[r] = entered[r] + 1
        /\ \A s \in Rank \ {r} : pc'[s] = pc[s] /\ entered'[s] = entered[s]
    BY <2>1, <1>1 DEF Types, Places
  <2>3. InPlace(r)'
    <3>1. i'[r] \in 1..(nprocs - 1)
      BY <1>0, <1>2, <1>3, <1>4
    <3>2. entered'[r] + nprocs = Barriers(syncs'[r]) + i'[r]
      BY <1>0, <1>1, <1>2, <1>3, <2>2, OneMore DEF Types
    <3> QED
      BY <1>3, <2>2, <3>1, <3>2 DEF InPlace
  <2>4. ASSUME NEW s \in Rank, s # r PROVE InPlace(s)'
    BY <2>4, <1>2, <2>2 DEF IInv, InPlace
  <2>5. Met'
    BY <1>1, <2>2 DEF Met, AllEntered, Types
  <2> QED
    BY <1>2, <2>2, <2>3, <2>4, <2>5
<1>5. CASE ~(turn < nprocs)
  <2>1. pc' = [pc EXCEPT ![r] = "bcast"] /\ entered' = entered
    BY <1>5 DEF NextTurn
  <2>2. /\ pc' \in [Rank -> Places] /\ pc'[r] = "bcast"
        /\ \A s \in Rank \ {r} : pc'[s] = pc[s]
    BY <2>1, <1>1 DEF Types, Places
  <2>3. InPlace(r)'
    <3>1. entered'[r] + 1 = Barriers(syncs'[r])
      BY <1>0, <1>1, <1>2, <1>3, <1>5, <2>1, OneMore DEF Types
    <3> QED
      BY <1>3, <2>2, <3>1 DEF InPlace
  <2>4. ASSUME NEW s \in Rank, s # r PROVE InPlace(s)'
    BY <2>4, <1>2, <2>1, <2>2 DEF IInv, InPlace
  <2>5. Met'
    <3>1. pc[r] \notin {"barrier", "final"}
      OBVIOUS
    <3> QED
      BY <1>1, <2>1, <2>2, <3>1 DEF Met, AllEntered
  <2> QED
    BY <1>1, <1>2, <2>1, <2>2, <2>3, <2>4, <2>5 DEF Types
<1> QED
  BY <1>4, <1>5

\* Entering the last barrier after the broadcast.
LEMMA LastBarrierKeeps ==
  ASSUME IInv, NEW r \in Rank, pc[r] = "bcast", ToLastBarrier(r),
         UNCHANGED <<syncs, i, answer>>
  PROVE  IInv'
<1>1. Types /\ InPlace(r) /\ Met
  BY DEF IInv
<1>2. /\ pc' = [pc EXCEPT ![r] = "final"]
      /\ entered' = [entered EXCEPT ![r] = @ + 1]
  BY DEF ToLastBarrier, EnterBarrier
<1>3. /\ pc' \in [Rank -> Places] /\ pc'[r] = "final"
      /\ entered' \in [Rank -> Nat] /\ entered'[r] = entered[r] + 1
      /\ \A s \in Rank \ {r} : pc'[s] = pc[s] /\ entered'[s] = entered[s]
  BY <1>1, <1>2 DEF Types, Places
<1>4. Types'
  BY <1>1, <1>3 DEF Types
<1>5. InPlace(r)'
  BY <1>1, <1>3 DEF InPlace
<1>6. ASSUME NEW s \in Rank, s # r PROVE InPlace(s)'
  BY <1>3, <1>6 DEF IInv, InPlace
<1>7. Met'
  BY <1>1, <1>3 DEF Met, AllEntered, Types
<1>8. Answered'
  BY <1>3 DEF IInv, Answered
<1> QED
  BY <1>4, <1>5, <1>6, <1>7, <1>8 DEF IInv

\* Leaving a barrier that all have entered.
LEMMA LeaveKeeps ==
  ASSUME IInv, NEW r \in Rank, AllEntered(r), UNCHANGED <<syncs, i, entered, answer>>,
         \/ pc[r] = "barrier" /\ pc' = [pc EXCEPT ![r] = "measure"]
         \/ pc[r] = "final" /\ pc' = [pc EXCEPT ![r] = "idle"]
  PROVE  IInv'
<1>1. Types /\ InPlace(r) /\ Met
  BY DEF IInv
<1>2. /\ pc' \in [Rank -> Places]
      /\ \A s \in Rank \ {r} : pc'[s] = pc[s]
      /\ \/ pc[r] = "barrier" /\ pc'[r] = "measure"
         \/ pc[r] = "final" /\ pc'[r] = "idle"
  BY <1>1 DEF Types, Places
<1>3. Types'
  BY <1>1, <1>2 DEF Types
<1>4. InPlace(r)'
  BY <1>1, <1>2 DEF InPlace
<1>5. ASSUME NEW s \in Rank, s # r PROVE InPlace(s)'
  BY <1>2, <1>5 DEF IInv, InPlace
<1>6. Met'
  BY <1>1, <1>2 DEF Met, AllEntered
<1>7. Answered'
  BY <1>2 DEF IInv, Answered
<1> QED
  BY <1>3, <1>4, <1>5, <1>6, <1>7 DEF IInv

\* Rank 0 leaves an offset for a client that is measuring.
LEMMA ServeKeeps ==
  ASSUME IInv, Serve
  PROVE  IInv'
<1> DEFINE client == i[0]
           turn == i[0] + 1
<1>1. Types /\ InPlace(0) /\ pc[0] = "measure" /\ pc[client] = "measure"
      /\ i[client] = client
  BY Root DEF IInv, Serve
<1>2. client \in 1..(nprocs - 1) /\ client \in Rank /\ client # 0 /\ turn \in Nat
  BY <1>1, Root DEF InPlace, Rank
<1>3. NextTurn(0, turn) /\ UNCHANGED syncs
  BY DEF Serve
<1>4. PICK yours : answer' = [answer EXCEPT ![client] = {yours}]
  BY DEF Serve
<1>5. /\ pc' \in [Rank -> Places] /\ i' \in [Rank -> Nat]
      /\ syncs' \in [Rank -> Nat] /\ entered' \in [Rank -> Nat]
      /\ \A s \in Rank \ {0} : pc'[s] = pc[s] /\ i'[s] = i[s]
      /\ (\A s \in Rank : InPlace(s))' /\ Met'
  BY <1>1, <1>2, <1>3, NextTurnKeeps, Root
<1>6. /\ answer' = [s \in Rank |-> answer'[s]]
      /\ \A s \in Rank \ {client} : answer'[s] = answer[s]
  BY <1>1, <1>2, <1>4 DEF Types
<1>7. Answered'
  <2> SUFFICES ASSUME NEW s \in Rank, answer'[s] # {}
               PROVE  s # 0 /\ pc'[s] = "measure" /\ i'[s] = s
    BY DEF Answered
  <2>1. CASE s = client
    BY <2>1, <1>1, <1>2, <1>5
  <2>2. CASE s # client
    BY <2>2, <1>5, <1>6 DEF IInv, Answered
  <2> QED
    BY <2>1, <2>2
<1>8. Types'
  BY <1>5, <1>6 DEF Types
<1> QED
  BY <1>5, <1>7, <1>8 DEF IInv

\* A client takes the offset that has been left for it.
LEMMA LearnKeeps ==
  ASSUME IInv, NEW r \in Rank, Learn(r)
  PROVE  IInv'
<1>1. Types /\ InPlace(r) /\ pc[r] = "measure" /\ i[r] + 1 \in Nat
  BY DEF IInv, Learn, Answered, Types
<1>2. NextTurn(r, i[r] + 1) /\ UNCHANGED syncs /\ answer' = [answer EXCEPT ![r] = {}]
  BY DEF Learn
<1>3. /\ pc' \in [Rank -> Places] /\ i' \in [Rank -> Nat]
      /\ syncs' \in [Rank -> Nat] /\ entered' \in [Rank -> Nat]
      /\ \A s \in Rank \ {r} : pc'[s] = pc[s] /\ i'[s] = i[s]
      /\ (\A s \in Rank : InPlace(s))' /\ Met'
  BY <1>1, <1>2, NextTurnKeeps
<1>4. /\ answer' = [s \in Rank |-> answer'[s]] /\ answer'[r] = {}
      /\ \A s \in Rank \ {r} : answer'[s] = answer[s]
  BY <1>1, <1>2 DEF Types
<1>5. Answered'
  BY <1>3, <1>4 DEF IInv, Answered
<1>6. Types'
  BY <1>3, <1>4 DEF Types
<1> QED
  BY <1>3, <1>5, <1>6 DEF IInv

\* A turn of r in which no offset waits for it.
LEMMA TurnKeeps ==
  ASSUME IInv, NEW r \in Rank, Start(r) \/ Skip(r)
  PROVE  IInv'
<1>1. Types /\ answer[r] = {} /\ UNCHANGED answer
  BY DEF IInv, Answered, Start, Skip
<1>2. PICK turn \in Nat :
        /\ NextTurn(r, turn)
        /\ \/ pc[r] = "measure" /\ turn = i[r] + 1 /\ UNCHANGED syncs
           \/ pc[r] = "idle" /\ turn = 1 /\ syncs' = [syncs EXCEPT ![r] = @ + 1]
  <2>1. CASE Start(r)
    BY <2>1 DEF Start
  <2>2. CASE Skip(r)
    <3>1. i[r] + 1 \in Nat
      BY <1>1 DEF Types
    <3> QED
      BY <2>2, <3>1 DEF Skip
  <2> QED
    BY <2>1, <2>2
<1>3. /\ pc' \in [Rank -> Places] /\ i' \in [Rank -> Nat]
      /\ syncs' \in [Rank -> Nat] /\ entered' \in [Rank -> Nat]
      /\ \A s \in Rank \ {r} : pc'[s] = pc[s] /\ i'[s] = i[s]
      /\ (\A s \in Rank : InPlace(s))' /\ Met'
  BY <1>2, NextTurnKeeps
<1>4. Answered'
  BY <1>1, <1>3 DEF IInv, Answered
<1>5. Types'
  BY <1>1, <1>3 DEF Types
<1> QED
  BY <1>3, <1>4, <1>5 DEF IInv

LEMMA Initially == Init => IInv
<1> SUFFICES ASSUME Init PROVE IInv
  OBVIOUS
<1>1. Types
  BY DEF Init, Types, Places
<1>2. ASSUME NEW r \in Rank PROVE InPlace(r)
  BY OneMore DEF Init, InPlace
<1>3. Met /\ Answered
  BY DEF Init, Met, AllEntered, Answered
<1> QED
  BY <1>1, <1>2, <1>3 DEF IInv

\* The invariant is inductive.
LEMMA Invariance == IInv /\ [Next]_vars => IInv'
<1> SUFFICES ASSUME IInv, [Next]_vars PROVE IInv'
  OBVIOUS
<1>1. CASE UNCHANGED vars
  BY <1>1 DEF vars, IInv, Types, InPlace, Met, AllEntered, Answered
<1>2. CASE Serve
  BY <1>2, ServeKeeps
<1>3. CASE Broadcast
  BY <1>3, LastBarrierKeeps, Root DEF Broadcast
<1>4. ASSUME NEW r \in Rank, Step(r) PROVE IInv'
  <2>1. CASE Start(r) \/ Skip(r)
    BY <2>1, TurnKeeps
  <2>2. CASE LeaveBarrier(r)
    BY <2>2, LeaveKeeps DEF LeaveBarrier
  <2>3. CASE Learn(r)
    BY <2>3, LearnKeeps
  <2>4. CASE TakeBroadcast(r)
    BY <2>4, LastBarrierKeeps DEF TakeBroadcast
  <2>5. CASE Return(r)
    BY <2>5, LeaveKeeps DEF Return
  <2> QED
    BY <1>4, <2>1, <2>2, <2>3, <2>4, <2>5 DEF Step
<1> QED
  BY <1>1, <1>2, <1>3, <1>4 DEF Next, RootStep, Stop

-----------------------------------------------------------------------------
(* What the invariant gives.                                               *)

\* Ranks that measure have entered as many barriers, so they take the same turn.
LEMMA SameSynchronisation == IInv => OnePairAtATime
<1> SUFFICES ASSUME IInv, NEW r \in Rank, NEW s \in Rank,
                    pc[r] = "measure", pc[s] = "measure"
             PROVE  i[r] = i[s] /\ syncs[r] = syncs[s]
  BY DEF OnePairAtATime
<1>1. entered[r] >= entered[s] /\ entered[s] >= entered[r]
  BY DEF IInv, Met, AllEntered
<1>2. /\ syncs[r] \in Nat /\ syncs[s] \in Nat
      /\ entered[r] \in Nat /\ entered[s] \in Nat
  BY DEF IInv, Types
<1>3. InPlace(r) /\ InPlace(s)
  BY DEF IInv
<1>4. /\ i[r] \in 1..nprocs /\ i[s] \in 1..nprocs
      /\ Barriers(syncs[r]) + i[r] = Barriers(syncs[s]) + i[s]
  <2>1. /\ i[r] \in 1..(nprocs - 1) /\ entered[r] + nprocs = Barriers(syncs[r]) + i[r]
        /\ i[s] \in 1..(nprocs - 1) /\ entered[s] + nprocs = Barriers(syncs[s]) + i[s]
    BY <1>3 DEF InPlace
  <2>2. entered[r] = entered[s]
    BY <1>1, <1>2
  <2> QED
    BY <2>1, <2>2, Root
<1> QED
  BY <1>2, <1>4, SameTurn

\* Who has left the last barrier knows that the others have entered it.
LEMMA AllReturned == IInv => ReturnedTogether
<1> SUFFICES ASSUME IInv, NEW r \in Rank, NEW s \in Rank, pc[r] = "idle"
             PROVE  /\ syncs[s] >= syncs[r]
                    /\ syncs[s] = syncs[r] => pc[s] \in {"idle", "final"}
  BY DEF ReturnedTogether
<1>1. /\ syncs[r] \in Nat /\ syncs[s] \in Nat /\ nprocs \in Nat
      /\ entered[r] \in Nat /\ entered[s] \in Nat
      /\ Barriers(syncs[r]) \in Nat /\ Barriers(syncs[s]) \in Nat
      /\ pc[s] \in Places
  BY Root, OneMore DEF IInv, Types
<1>2. InPlace(r) /\ InPlace(s) /\ entered[s] >= entered[r]
  BY DEF IInv, Met, AllEntered
<1>3. entered[r] = Barriers(syncs[r])
  BY <1>2 DEF InPlace
<1>4. /\ entered[s] =< Barriers(syncs[s])
      /\ entered[s] = Barriers(syncs[s]) => pc[s] \in {"idle", "final"}
  BY <1>1, <1>2 DEF InPlace, Places
<1>5. ~(syncs[s] < syncs[r])
  <2> SUFFICES ASSUME syncs[s] < syncs[r] PROVE FALSE
    OBVIOUS
  <2>1. Barriers(syncs[s]) + nprocs =< Barriers(syncs[r])
    BY <1>1, Growing
  <2> QED
    BY <2>1, <1>1, <1>2, <1>3, <1>4, Root
<1> QED
  BY <1>1, <1>2, <1>3, <1>4, <1>5

-----------------------------------------------------------------------------
(* Results.                                                                *)

\* Whoever measures takes the same turn of the same synchronisation: the barriers
\* keep the ping-pongs of SKaMPIClockSync apart on any number of ranks.
THEOREM TurnsApart == Spec => []OnePairAtATime
  BY Initially, Invariance, SameSynchronisation, PTL DEF Spec

\* Who returns from a synchronisation knows that every other rank has measured in it.
THEOREM AllHaveMeasured == Spec => []ReturnedTogether
  BY Initially, Invariance, AllReturned, PTL DEF Spec

-----------------------------------------------------------------------------
(***************************************************************************)
(* The synchronisation implements SyncTree, rank 0 above all others: its   *)
(* steps are those of the promise or change nothing that the promise       *)
(* speaks of.                                                              *)
(***************************************************************************)

\* The arrays and clocks; rank 0 is its own reference.
Values ==
  /\ tds \in [Rank -> [Rank -> Int]]
  /\ global \in [Rank -> Int]
  /\ bcast.tds \in [Rank -> Int]
  /\ \A r \in Rank : answer[r] \subseteq Int /\ \A a, b \in answer[r] : a = b
  /\ tds[0][0] = 0 /\ global[0] = 0

\* No rank has taken a clock in a synchronisation that rank 0 has not begun.
Behind == \A r \in Rank : Generation(r) =< syncs[0]

RInv == IInv /\ Values /\ Behind

-----------------------------------------------------------------------------
(* What the promise sees of a rank.                                        *)

LEMMA GenerationType ==
  ASSUME Types, \A s \in Rank : InPlace(s), NEW r \in Rank
  PROVE  /\ Generation(r) \in Nat /\ Generation(r) \in {syncs[r], syncs[r] - 1}
         /\ HasLearned(r) => Generation(r) = syncs[r]
         /\ ~HasLearned(r) => Generation(r) = syncs[r] - 1
<1>1. syncs[r] \in Nat /\ InPlace(r) /\ pc[r] \in Places
  BY DEF Types
<1>2. CASE HasLearned(r)
  BY <1>1, <1>2 DEF Generation
<1>3. CASE ~HasLearned(r)
  <2>1. pc[r] # "idle"
    BY <1>3 DEF HasLearned
  <2> QED
    BY <1>1, <1>3, <2>1 DEF Generation, InPlace
<1> QED
  BY <1>2, <1>3

\* A rank that a step leaves alone.
LEMMA Untouched ==
  ASSUME NEW r \in Rank, pc'[r] = pc[r], syncs'[r] = syncs[r], i'[r] = i[r],
         answer'[r] = answer[r], tds'[r][0] = tds[r][0], global'[r] = global[r]
  PROVE  Generation(r)' = Generation(r) /\ ErrorNow(r)' = ErrorNow(r)
<1>1. HasLearned(r)' = HasLearned(r)
  BY DEF HasLearned
<1>2. Generation(r)' = Generation(r)
  BY <1>1 DEF Generation
<1>3. OffsetLeft(r)' = OffsetLeft(r)
  BY DEF OffsetLeft
<1>4. Offset(r)' = Offset(r)
  BY <1>1, <1>3 DEF Offset
<1> QED
  BY <1>2, <1>4 DEF ErrorNow, ErrorOf

\* The one offset left is the one that is found.
LEMMA OnlyOffset ==
  ASSUME NEW r \in Rank, NEW offset, answer[r] = {offset}
  PROVE  OffsetLeft(r) = offset
  BY DEF OffsetLeft

\* Rank 0 is never away from itself.
LEMMA RootExact ==
  ASSUME RInv
  PROVE  ErrorNow(0) = 0 /\ Generation(0) = syncs[0]
<1>1. answer[0] = {} /\ tds[0][0] = 0 /\ global[0] = 0
  BY Root DEF RInv, IInv, Answered, Values
<1>2. Offset(0) = 0
  BY <1>1 DEF Offset
<1>3. Skew[0] \in Int
  BY SkewAssumption, Root
<1> QED
  BY <1>2, <1>3 DEF ErrorNow, ErrorOf, Generation, HasLearned

Still(r) == Generation(r)' = Generation(r) /\ ErrorNow(r)' = ErrorNow(r)

LEMMA NextTurnPlace ==
  ASSUME Types, NEW r \in Rank, NEW turn \in Nat, NextTurn(r, turn)
  PROVE  /\ i'[r] = turn
         /\ turn < nprocs => pc'[r] = "barrier"
         /\ ~(turn < nprocs) => pc'[r] = "bcast"
         /\ \A s \in Rank \ {r} : pc'[s] = pc[s] /\ i'[s] = i[s]
  BY DEF Types, NextTurn

-----------------------------------------------------------------------------
(* The steps that the promise does not see.                                *)

\* A rank begins, and still has the clock of the synchronisation before.
LEMMA StartStill ==
  ASSUME RInv, NEW r \in Rank \ {0}, Start(r)
  PROVE  Values' /\ \A s \in Rank : Still(s)
<1>1. /\ Types /\ InPlace(r) /\ Values /\ pc[r] = "idle" /\ answer[r] = {}
      /\ UNCHANGED <<answer, bcast, global>>
  BY DEF RInv, IInv, Answered, Start
<1>2. NextTurn(r, 1) /\ tds' = [tds EXCEPT ![r] = Zeros]
      /\ syncs' = [syncs EXCEPT ![r] = @ + 1]
  BY DEF Start
<1>3. 1 < nprocs
  BY Root DEF Rank
<1>4. /\ i'[r] = 1 /\ pc'[r] = "barrier" /\ syncs'[r] = syncs[r] + 1
      /\ \A s \in Rank \ {r} : /\ pc'[s] = pc[s] /\ i'[s] = i[s]
                               /\ syncs'[s] = syncs[s] /\ tds'[s] = tds[s]
  BY <1>1, <1>2, <1>3, NextTurnPlace DEF Types, Values
<1>5. Values'
  <2>1. tds' \in [Rank -> [Rank -> Int]]
    BY <1>1, <1>2 DEF Values, Zeros
  <2>2. tds'[0][0] = 0
    BY <1>1, <1>4, Root DEF Values
  <2> QED
    BY <1>1, <2>1, <2>2 DEF Values
<1>6. Still(r)
  <2>1. HasLearned(r) /\ ~HasLearned(r)'
    BY <1>1, <1>4, Root DEF HasLearned
  <2>2. Generation(r) = syncs[r] /\ Generation(r)' = syncs[r]
    BY <1>1, <1>4, <2>1 DEF Generation, Types
  <2>3. Offset(r) = global[r] /\ Offset(r)' = global[r]
    BY <1>1, <2>1 DEF Offset
  <2> QED
    BY <2>2, <2>3 DEF Still, ErrorNow, ErrorOf
<1>7. ASSUME NEW s \in Rank, s # r PROVE Still(s)
  BY <1>1, <1>4, <1>7, Untouched DEF Still
<1> QED
  BY <1>5, <1>6, <1>7

\* A rank passes over another one's turn.
LEMMA SkipStill ==
  ASSUME RInv, NEW r \in Rank, Skip(r)
  PROVE  Values' /\ \A s \in Rank : Still(s)
<1>1. /\ Types /\ InPlace(r) /\ Values /\ pc[r] = "measure" /\ r # 0 /\ i[r] # r
      /\ i[r] \in Nat /\ r \in Nat /\ nprocs \in Nat /\ r < nprocs
      /\ answer[r] = {} /\ UNCHANGED <<syncs, answer, tds, bcast, global>>
  BY Root DEF RInv, IInv, Types, Answered, Skip, Rank
<1>2. NextTurn(r, i[r] + 1)
  BY DEF Skip
<1>3. /\ i'[r] = i[r] + 1
      /\ i[r] + 1 < nprocs => pc'[r] = "barrier"
      /\ ~(i[r] + 1 < nprocs) => pc'[r] = "bcast"
      /\ \A s \in Rank \ {r} : pc'[s] = pc[s] /\ i'[s] = i[s]
  BY <1>1, <1>2, NextTurnPlace
<1>4. HasLearned(r)' <=> HasLearned(r)
  <2>1. HasLearned(r) <=> i[r] > r
    BY <1>1 DEF HasLearned
  <2>2. CASE i[r] + 1 < nprocs
    <3>1. HasLearned(r)' <=> i[r] + 1 > r
      BY <1>1, <1>3, <2>2 DEF HasLearned
    <3> QED
      BY <1>1, <2>1, <3>1
  <2>3. CASE ~(i[r] + 1 < nprocs)
    <3>1. HasLearned(r)' /\ i[r] > r
      BY <1>1, <1>3, <2>3 DEF HasLearned
    <3> QED
      BY <2>1, <3>1
  <2> QED
    BY <2>2, <2>3
<1>5. pc'[r] # "idle"
  BY <1>3
<1>6. Still(r)
  <2>1. Generation(r)' = Generation(r)
    BY <1>1, <1>4 DEF Generation
  <2>2. Offset(r)' = Offset(r)
    BY <1>1, <1>4, <1>5 DEF Offset
  <2> QED
    BY <2>1, <2>2 DEF Still, ErrorNow, ErrorOf
<1>7. ASSUME NEW s \in Rank, s # r PROVE Still(s)
  BY <1>1, <1>3, <1>7, Untouched DEF Still
<1> QED
  BY <1>1, <1>6, <1>7 DEF Values

\* A client puts the offset that was left for it into its array.
LEMMA LearnStill ==
  ASSUME RInv, NEW r \in Rank, Learn(r)
  PROVE  Values' /\ \A s \in Rank : Still(s)
<1>1. PICK offset \in answer[r] : tds' = [tds EXCEPT ![r][0] = offset]
  BY DEF Learn
<1>2. /\ Types /\ Values /\ pc[r] = "measure" /\ r # 0 /\ i[r] = r /\ r \in Nat
      /\ answer' = [answer EXCEPT ![r] = {}] /\ NextTurn(r, i[r] + 1)
      /\ UNCHANGED <<syncs, bcast, global>>
  BY Root DEF RInv, IInv, Answered, Learn
<1>3. answer[r] = {offset} /\ offset \in Int
  BY <1>1, <1>2 DEF Values
<1>4. /\ i'[r] = r + 1 /\ pc'[r] # "idle"
      /\ \A s \in Rank \ {r} : pc'[s] = pc[s] /\ i'[s] = i[s]
  BY <1>2, NextTurnPlace
<1>5. answer'[r] = {} /\ \A s \in Rank \ {r} : answer'[s] = answer[s]
  BY <1>2 DEF Types
<1>6. /\ tds' \in [Rank -> [Rank -> Int]] /\ tds'[r][0] = offset
      /\ \A s \in Rank \ {r} : tds'[s] = tds[s]
  BY <1>1, <1>2, <1>3, Root DEF Values
<1>7. Values'
  BY <1>2, <1>5, <1>6, Root DEF Values
<1>8. Still(r)
  <2>1. HasLearned(r) /\ HasLearned(r)'
    BY <1>2, <1>3, <1>4 DEF HasLearned
  <2>2. Generation(r)' = Generation(r)
    BY <1>2, <2>1 DEF Generation
  <2>3. Offset(r) = offset
    BY <1>3, OnlyOffset DEF Offset
  <2>4. Offset(r)' = offset
    BY <1>4, <1>5, <1>6, <2>1 DEF Offset
  <2> QED
    BY <2>2, <2>3, <2>4 DEF Still, ErrorNow, ErrorOf
<1>9. ASSUME NEW s \in Rank, s # r PROVE Still(s)
  BY <1>2, <1>4, <1>5, <1>6, <1>9, Untouched DEF Still
<1> QED
  BY <1>7, <1>8, <1>9

\* A rank passes a barrier in the loop.
LEMMA LeaveBarrierStill ==
  ASSUME RInv, NEW r \in Rank, LeaveBarrier(r)
  PROVE  Values' /\ \A s \in Rank : Still(s)
<1>1. /\ Types /\ Values /\ pc[r] = "barrier"
      /\ pc' = [pc EXCEPT ![r] = "measure"]
      /\ UNCHANGED <<syncs, i, answer, tds, bcast, global>>
  BY DEF RInv, IInv, LeaveBarrier
<1>2. pc'[r] = "measure" /\ \A s \in Rank \ {r} : pc'[s] = pc[s]
  BY <1>1 DEF Types
<1>3. Still(r)
  <2>1. HasLearned(r)' <=> HasLearned(r)
    BY <1>1, <1>2 DEF HasLearned
  <2>2. Generation(r)' = Generation(r) /\ Offset(r)' = Offset(r)
    BY <1>1, <1>2, <2>1 DEF Generation, Offset, OffsetLeft
  <2> QED
    BY <2>2 DEF Still, ErrorNow, ErrorOf
<1>4. ASSUME NEW s \in Rank, s # r PROVE Still(s)
  BY <1>1, <1>2, <1>4, Untouched DEF Still
<1> QED
  BY <1>1, <1>3, <1>4 DEF Values

\* After the broadcast a rank's own offset is what it was.
LEMMA BroadcastStill ==
  ASSUME RInv, NEW r \in Rank, (r = 0 /\ Broadcast) \/ TakeBroadcast(r)
  PROVE  Values' /\ \A s \in Rank : Still(s)
<1>1. /\ Types /\ Values /\ pc[r] = "bcast" /\ pc' = [pc EXCEPT ![r] = "final"]
      /\ UNCHANGED <<syncs, i, answer, global>>
  BY DEF RInv, IInv, Broadcast, TakeBroadcast, ToLastBarrier
<1>2. pc'[r] = "final" /\ \A s \in Rank \ {r} : pc'[s] = pc[s]
  BY <1>1 DEF Types
<1>3. /\ tds' \in [Rank -> [Rank -> Int]] /\ bcast'.tds \in [Rank -> Int]
      /\ \A s \in Rank : tds'[s][0] = tds[s][0]
  <2>1. CASE r = 0 /\ Broadcast
    BY <2>1, <1>1, Root DEF Broadcast, Values
  <2>2. CASE TakeBroadcast(r)
    <3> DEFINE row == [s \in Rank |-> IF s = 0 THEN tds[r][0] ELSE bcast.tds[s] + tds[r][0]]
    <3>1. tds' = [tds EXCEPT ![r] = row] /\ UNCHANGED bcast
      BY <2>2 DEF TakeBroadcast
    <3>2. row \in [Rank -> Int] /\ row[0] = tds[r][0]
      BY <1>1, Root DEF Values
    <3> HIDE DEF row
    <3> QED
      BY <1>1, <3>1, <3>2 DEF Values
  <2> QED
    BY <2>1, <2>2
<1>4. Values'
  BY <1>1, <1>3, Root DEF Values
<1>5. Still(r)
  <2>1. HasLearned(r) /\ HasLearned(r)'
    BY <1>1, <1>2 DEF HasLearned
  <2>2. Generation(r)' = Generation(r) /\ Offset(r)' = Offset(r)
    BY <1>1, <1>2, <1>3, <2>1 DEF Generation, Offset, OffsetLeft
  <2> QED
    BY <2>2 DEF Still, ErrorNow, ErrorOf
<1>6. ASSUME NEW s \in Rank, s # r PROVE Still(s)
  BY <1>1, <1>2, <1>3, <1>6, Untouched DEF Still
<1> QED
  BY <1>4, <1>5, <1>6

\* The clock that a rank is returned has the offset in its array.
LEMMA ReturnStill ==
  ASSUME RInv, NEW r \in Rank, Return(r)
  PROVE  Values' /\ \A s \in Rank : Still(s)
<1>1. /\ Types /\ Values /\ pc[r] = "final" /\ answer[r] = {}
      /\ pc' = [pc EXCEPT ![r] = "idle"]
      /\ global' = [global EXCEPT ![r] = tds[r][0]]
      /\ UNCHANGED <<syncs, i, answer, tds, bcast>>
  BY DEF RInv, IInv, Answered, Return
<1>2. /\ pc'[r] = "idle" /\ global'[r] = tds[r][0]
      /\ \A s \in Rank \ {r} : pc'[s] = pc[s] /\ global'[s] = global[s]
  BY <1>1 DEF Types, Values
<1>3. Values'
  <2>1. global' \in [Rank -> Int]
    BY <1>1, Root DEF Values
  <2>2. global'[0] = 0
    BY <1>1, <1>2, Root DEF Values
  <2> QED
    BY <1>1, <2>1, <2>2 DEF Values
<1>4. Still(r)
  <2>1. HasLearned(r) /\ HasLearned(r)'
    BY <1>1, <1>2 DEF HasLearned
  <2>2. Offset(r) = tds[r][0] /\ Offset(r)' = tds[r][0]
    BY <1>1, <1>2, <2>1 DEF Offset
  <2>3. Generation(r)' = Generation(r)
    BY <1>1, <2>1 DEF Generation
  <2> QED
    BY <2>2, <2>3 DEF Still, ErrorNow, ErrorOf
<1>5. ASSUME NEW s \in Rank, s # r PROVE Still(s)
  BY <1>1, <1>2, <1>5, Untouched DEF Still
<1> QED
  BY <1>3, <1>4, <1>5

-----------------------------------------------------------------------------
(* The steps of the promise.                                               *)

\* Rank 0 begins when every other rank has its clock of the synchronisation before.
LEMMA StartLeads ==
  ASSUME RInv, Start(0)
  PROVE  /\ Values'
         /\ syncs[0] < MaxSyncs
         /\ \A s \in Rank : Generation(s) = syncs[0]
         /\ Generation(0)' = syncs[0] + 1 /\ ErrorNow(0)' = 0
         /\ \A s \in Rank \ {0} : Still(s)
<1>1. /\ Types /\ Values /\ pc[0] = "idle" /\ answer[0] = {} /\ 0 \in Rank
      /\ syncs[0] < MaxSyncs /\ UNCHANGED <<answer, bcast, global>>
  BY Root DEF RInv, IInv, Answered, Start
<1>2. NextTurn(0, 1) /\ tds' = [tds EXCEPT ![0] = Zeros]
      /\ syncs' = [syncs EXCEPT ![0] = @ + 1]
  BY DEF Start
<1>3. /\ pc'[0] # "idle" /\ syncs'[0] = syncs[0] + 1
      /\ \A s \in Rank \ {0} : /\ pc'[s] = pc[s] /\ i'[s] = i[s]
                               /\ syncs'[s] = syncs[s] /\ tds'[s] = tds[s]
  BY <1>1, <1>2, NextTurnPlace DEF Types, Values
<1>4. tds' \in [Rank -> [Rank -> Int]] /\ tds'[0][0] = 0
  BY <1>1, <1>2 DEF Values, Zeros
<1>5. Values'
  BY <1>1, <1>4 DEF Values
<1>6. ASSUME NEW s \in Rank PROVE Generation(s) = syncs[0]
  <2>1. /\ Generation(s) \in Nat /\ Generation(s) \in {syncs[s], syncs[s] - 1}
        /\ HasLearned(s) => Generation(s) = syncs[s]
        /\ Generation(s) =< syncs[0] /\ syncs[s] \in Nat /\ syncs[0] \in Nat
    BY <1>1, GenerationType DEF RInv, IInv, Behind, Types
  <2>2. syncs[s] >= syncs[0] /\ (syncs[s] = syncs[0] => pc[s] \in {"idle", "final"})
    BY <1>1, AllReturned DEF RInv, ReturnedTogether
  <2>3. CASE syncs[s] = syncs[0]
    BY <2>1, <2>2, <2>3 DEF HasLearned
  <2>4. CASE syncs[s] > syncs[0]
    BY <2>1, <2>4
  <2> QED
    BY <2>1, <2>2, <2>3, <2>4
<1>7. Generation(0)' = syncs[0] + 1
  BY <1>3 DEF Generation, HasLearned
<1>8. ErrorNow(0)' = 0
  <2>1. Offset(0)' = 0
    BY <1>1, <1>3, <1>4 DEF Offset, HasLearned
  <2>2. Skew[0] \in Int
    BY <1>1, SkewAssumption
  <2> QED
    BY <2>1, <2>2 DEF ErrorNow, ErrorOf
<1>9. ASSUME NEW s \in Rank \ {0} PROVE Still(s)
  BY <1>1, <1>3, Untouched DEF Still
<1> QED
  BY <1>1, <1>5, <1>6, <1>7, <1>8, <1>9

\* A client takes its clock from rank 0's when rank 0 leaves the measurement.
LEMMA ServeAdopts ==
  ASSUME RInv, Serve
  PROVE  /\ Values'
         /\ \E r \in Rank \ {0} :
              /\ Generation(0) = Generation(r) + 1
              /\ Generation(r)' = Generation(r) + 1
              /\ ErrorNow(r)' \in -MaxError..MaxError
              /\ \A s \in Rank \ {r} : Still(s)
<1>0. PICK client \in Rank \ {0} : i[0] = client
  BY Root DEF RInv, IInv, InPlace, Serve, Rank
<1> DEFINE turn == client + 1
<1>1. /\ Types /\ Values /\ InPlace(0) /\ 0 \in Rank
      /\ pc[0] = "measure" /\ pc[client] = "measure" /\ i[client] = client
      /\ answer[client] = {} /\ NextTurn(0, turn)
      /\ UNCHANGED <<syncs, bcast, global>>
  BY <1>0, Root DEF RInv, IInv, Serve
<1>2. PICK mine \in Measured(client), yours \in Measured(client) :
        /\ tds' = [tds EXCEPT ![0][client] = mine]
        /\ answer' = [answer EXCEPT ![client] = {yours}]
  BY <1>0 DEF Serve
<1>3. client \in Rank \ {0} /\ turn \in Nat
  BY Root
<1>4. Skew[client] \in Int /\ Skew[0] \in Int /\ MaxError \in Nat
  BY <1>1, <1>3, SkewAssumption, BoundsAssumption
<1>5. /\ mine \in Int /\ yours \in Int
      /\ ErrorOf(client, yours) \in -MaxError..MaxError
  <2>1. PICK e \in -MaxError..MaxError : yours = Skew[client] - Skew[0] + e
    BY DEF Measured
  <2>2. ErrorOf(client, yours) = -e
    BY <1>4, <2>1 DEF ErrorOf
  <2>3. mine \in Int
    BY <1>4 DEF Measured
  <2> QED
    BY <1>4, <2>1, <2>2, <2>3
<1>6. /\ pc'[0] # "idle" /\ pc'[client] = "measure" /\ i'[client] = client
      /\ \A s \in Rank \ {0} : pc'[s] = pc[s] /\ i'[s] = i[s]
  BY <1>1, <1>3, NextTurnPlace
<1>7. /\ tds' \in [Rank -> [Rank -> Int]] /\ tds'[0][0] = tds[0][0]
      /\ \A s \in Rank \ {0} : tds'[s] = tds[s]
  BY <1>1, <1>2, <1>3, <1>5 DEF Values
<1>8. answer'[client] = {yours} /\ \A s \in Rank \ {client} : answer'[s] = answer[s]
  BY <1>1, <1>2, <1>3 DEF Types
<1>9. Values'
  BY <1>1, <1>5, <1>7, <1>8 DEF Values
<1>10. syncs[client] = syncs[0]
  BY <1>1, <1>3, SameSynchronisation DEF RInv, OnePairAtATime
<1>11. /\ Generation(client) = syncs[client] - 1 /\ Generation(0) = syncs[0]
       /\ syncs[client] \in Nat
  <2>1. ~HasLearned(client)
    BY <1>1, <1>3, Root DEF HasLearned
  <2> QED
    BY <1>1, <1>3, <2>1, GenerationType, RootExact DEF RInv, IInv, Types
<1>12. HasLearned(client)'
  BY <1>8 DEF HasLearned
<1>13. Generation(client)' = Generation(client) + 1 /\ Generation(client)' # 0
  <2>1. Generation(client)' = syncs[client]
    BY <1>1, <1>12 DEF Generation
  <2>2. Generation(client) \in Nat
    BY <1>1, <1>3, GenerationType DEF RInv, IInv
  <2> QED
    BY <1>11, <2>1, <2>2
<1>14. ErrorNow(client)' \in -MaxError..MaxError
  <2>1. Offset(client)' = yours
    <3>1. OffsetLeft(client)' = yours
      BY <1>8 DEF OffsetLeft
    <3> QED
      BY <1>8, <3>1 DEF Offset
  <2> QED
    BY <1>5, <1>13, <2>1 DEF ErrorNow, ErrorOf
<1>15. Still(0)
  <2>1. answer[0] = {} /\ answer'[0] = {}
    BY <1>1, <1>3, <1>8 DEF RInv, IInv, Answered
  <2>2. Generation(0)' = Generation(0)
    BY <1>1 DEF Generation, HasLearned
  <2>3. Offset(0)' = Offset(0)
    BY <1>1, <1>6, <1>7, <2>1 DEF Offset, HasLearned
  <2> QED
    BY <2>2, <2>3 DEF Still, ErrorNow, ErrorOf
<1>16. ASSUME NEW s \in Rank, s # client, s # 0 PROVE Still(s)
  BY <1>1, <1>6, <1>7, <1>8, <1>16, Untouched DEF Still
<1> QED
  BY <1>3, <1>9, <1>10, <1>11, <1>13, <1>14, <1>15, <1>16
-----------------------------------------------------------------------------
(* Putting the steps together.                                             *)

LEMMA InitiallyR == Init => RInv
<1> SUFFICES ASSUME Init PROVE RInv
  OBVIOUS
<1>1. Zeros \in [Rank -> Int] /\ Zeros[0] = 0
  BY Root DEF Zeros
<1>2. Values
  <2>1. tds \in [Rank -> [Rank -> Int]] /\ tds[0] = Zeros
    BY <1>1, Root DEF Init
  <2>2. global \in [Rank -> Int] /\ global[0] = 0 /\ bcast.tds = Zeros
    BY Root DEF Init
  <2>3. \A r \in Rank : answer[r] = {}
    BY DEF Init
  <2> QED
    BY <1>1, <2>1, <2>2, <2>3 DEF Values
<1>3. Behind
  <2> SUFFICES ASSUME NEW r \in Rank PROVE Generation(r) =< syncs[0]
    BY DEF Behind
  <2>1. HasLearned(r) /\ syncs[r] = 0 /\ syncs[0] = 0
    BY Root DEF Init, HasLearned
  <2> QED
    BY <2>1 DEF Generation
<1> QED
  BY <1>2, <1>3, Initially DEF RInv

\* What a step of the program is to the promise.
StepOfTree ==
  \/ \A s \in Rank : Still(s)
  \/ /\ syncs[0] < MaxSyncs
     /\ \A s \in Rank : Generation(s) = syncs[0]
     /\ Generation(0)' = syncs[0] + 1 /\ ErrorNow(0)' = 0
     /\ \A s \in Rank \ {0} : Still(s)
  \/ \E r \in Rank \ {0} :
       /\ Generation(0) = Generation(r) + 1
       /\ Generation(r)' = Generation(r) + 1
       /\ ErrorNow(r)' \in -MaxError..MaxError
       /\ \A s \in Rank \ {r} : Still(s)

LEMMA EveryStep ==
  ASSUME RInv, [Next]_vars
  PROVE  Values' /\ StepOfTree
<1>1. CASE UNCHANGED vars
  <2>1. ASSUME NEW s \in Rank PROVE Still(s)
    BY <1>1, Untouched DEF vars, Still
  <2>2. Values'
    BY <1>1 DEF vars, RInv, Values
  <2> QED
    BY <2>1, <2>2 DEF StepOfTree
<1>2. CASE Serve
  BY <1>2, ServeAdopts DEF StepOfTree
<1>3. CASE Broadcast
  BY <1>3, BroadcastStill, Root DEF StepOfTree
<1>4. ASSUME NEW r \in Rank, Step(r) PROVE Values' /\ StepOfTree
  <2>1. CASE Start(r) /\ r = 0
    BY <2>1, StartLeads DEF StepOfTree
  <2>2. CASE Start(r) /\ r # 0
    BY <2>2, StartStill DEF StepOfTree
  <2>3. CASE LeaveBarrier(r)
    BY <2>3, LeaveBarrierStill DEF StepOfTree
  <2>4. CASE Skip(r)
    BY <2>4, SkipStill DEF StepOfTree
  <2>5. CASE Learn(r)
    BY <2>5, LearnStill DEF StepOfTree
  <2>6. CASE TakeBroadcast(r)
    BY <2>6, BroadcastStill DEF StepOfTree
  <2>7. CASE Return(r)
    BY <2>7, ReturnStill DEF StepOfTree
  <2> QED
    BY <1>4, <2>1, <2>2, <2>3, <2>4, <2>5, <2>6, <2>7 DEF Step
<1> QED
  BY <1>1, <1>2, <1>3, <1>4 DEF Next, RootStep, Stop

\* Rank 0 never counts down.
LEMMA InvarianceR == RInv /\ [Next]_vars => RInv'
<1> SUFFICES ASSUME RInv, [Next]_vars PROVE RInv'
  OBVIOUS
<1>1. IInv' /\ Values' /\ StepOfTree
  BY Invariance, EveryStep DEF RInv
<1>2. Generation(0) = syncs[0] /\ Generation(0)' = syncs'[0] /\ syncs[0] \in Nat
  BY RootExact, Root DEF RInv, IInv, Types, Generation, HasLearned
<1>3. ASSUME NEW r \in Rank PROVE Generation(r) \in Nat /\ Generation(r) =< syncs[0]
  BY GenerationType DEF RInv, IInv, Behind
<1>4. Behind'
  <2> SUFFICES ASSUME NEW r \in Rank PROVE Generation(r)' =< syncs'[0]
    BY DEF Behind
  <2>1. CASE \A s \in Rank : Still(s)
    BY <2>1, <1>2, <1>3, Root DEF Still
  <2>2. CASE /\ \A s \in Rank : Generation(s) = syncs[0]
             /\ Generation(0)' = syncs[0] + 1
             /\ \A s \in Rank \ {0} : Still(s)
    BY <2>2, <1>2, <1>3 DEF Still
  <2>3. ASSUME NEW c \in Rank \ {0}, Generation(0) = Generation(c) + 1,
               Generation(c)' = Generation(c) + 1, \A s \in Rank \ {c} : Still(s)
        PROVE  Generation(r)' =< syncs'[0]
    BY <2>3, <1>2, <1>3, Root DEF Still
  <2> QED
    BY <1>1, <2>1, <2>2, <2>3 DEF StepOfTree
<1> QED
  BY <1>1, <1>4 DEF RInv

\* The promise's variables.
TreeGen == [r \in Rank |-> Generation(r)]
TreeErr == [r \in Rank |-> ErrorNow(r)]

LEMMA StepMaps ==
  ASSUME RInv, StepOfTree
  PROVE  [Tree!TreeNext]_(Tree!treeVars)
<1>0. 0 \in Rank /\ ErrorNow(0) = 0 /\ Generation(0) = syncs[0]
  BY Root, RootExact
<1>1. CASE \A s \in Rank : Still(s)
  BY <1>1 DEF Still, Tree!treeVars
<1>2. CASE /\ syncs[0] < MaxSyncs
           /\ \A s \in Rank : Generation(s) = syncs[0]
           /\ Generation(0)' = syncs[0] + 1 /\ ErrorNow(0)' = 0
           /\ \A s \in Rank \ {0} : Still(s)
  <2>1. TreeGen[0] < MaxSyncs /\ Tree!Served(0)
    BY <1>0, <1>2 DEF TreeGen, Tree!Served, Tree!Children
  <2>2. TreeGen' = [TreeGen EXCEPT ![0] = @ + 1]
    BY <1>0, <1>2 DEF TreeGen, Still
  <2>3. TreeErr' = TreeErr
    BY <1>0, <1>2 DEF TreeErr, Still
  <2> QED
    BY <2>1, <2>2, <2>3 DEF TreeGen, TreeErr, Tree!TreeNext, Tree!Lead
<1>3. ASSUME NEW r \in Rank \ {0},
             Generation(0) = Generation(r) + 1, Generation(r)' = Generation(r) + 1,
             ErrorNow(r)' \in -MaxError..MaxError, \A s \in Rank \ {r} : Still(s)
      PROVE  Tree!Adopt(r)
  <2>1. TreeGen[0] = TreeGen[r] + 1 /\ Tree!Served(r)
    BY <1>0, <1>3 DEF TreeGen, Tree!Served, Tree!Children
  <2>2. TreeGen' = [TreeGen EXCEPT ![r] = @ + 1]
    BY <1>3 DEF TreeGen, Still
  <2>3. \E e \in -MaxError..MaxError : TreeErr' = [TreeErr EXCEPT ![r] = TreeErr[0] + e]
    <3>1. TreeErr[0] + ErrorNow(r)' = ErrorNow(r)'
      BY <1>0, <1>3, BoundsAssumption DEF TreeErr
    <3>2. TreeErr' = [TreeErr EXCEPT ![r] = ErrorNow(r)']
      BY <1>3 DEF TreeErr, Still
    <3> QED
      BY <1>3, <3>1, <3>2
  <2> QED
    BY <2>1, <2>2, <2>3 DEF TreeGen, TreeErr, Tree!Adopt
<1> QED
  BY <1>1, <1>2, <1>3 DEF StepOfTree, Tree!TreeNext

\* SKaMPIClockSync keeps the promise of SyncTree for any number of ranks: a rank takes
\* its clock from rank 0's once in every synchronisation, with the error of one
\* measurement, and rank 0 begins none before all have taken theirs.
THEOREM KeepsTreePromise == Spec => TreePromise
<1>1. Init => Tree!TreeInit
  <2> SUFFICES ASSUME Init PROVE Tree!TreeInit
    OBVIOUS
  <2>1. ASSUME NEW r \in Rank PROVE Generation(r) = 0
    BY DEF Init, Generation, HasLearned
  <2>2. ASSUME NEW r \in Rank PROVE ErrorNow(r) = 0
    BY <2>1 DEF ErrorNow
  <2> QED
    BY <2>1, <2>2 DEF Tree!TreeInit
<1>2. RInv /\ [Next]_vars => [Tree!TreeNext]_(Tree!treeVars)
  BY EveryStep, StepMaps
<1> QED
  BY <1>1, <1>2, InitiallyR, InvarianceR, PTL DEF Spec, TreePromise, Tree!TreeSpec
=============================================================================
