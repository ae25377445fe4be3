------------------------- MODULE SkampiOffsetProofs -------------------------
(***************************************************************************)
(* For any skews, any sequence of measurements and any number of rounds:   *)
(* the two sides stay in lockstep, their brackets hold the true difference *)
(* of the clocks, and their counts of rounds agree.                        *)
(***************************************************************************)
EXTENDS SkampiOffset, SequenceTheorems, TLAPS

\* The queues of this protocol never hold more than two messages.
LEMMA ShortQueues ==
  ASSUME NEW x, NEW y
  PROVE  /\ Append(<<>>, x) = <<x>>      /\ Append(<<x>>, y) = <<x, y>>
         /\ Head(<<x>>) = x /\ Tail(<<x>>) = <<>> /\ <<x>> # <<>>
         /\ Head(<<x, y>>) = x /\ Tail(<<x, y>>) = <<y>> /\ <<x, y>> # <<>>
<1> DEFINE S == {x, y}
<1>1. x \in S /\ y \in S /\ <<>> \in Seq(S) /\ <<x>> \in Seq(S) /\ <<x, y>> \in Seq(S)
  OBVIOUS
<1> HIDE DEF S
<1>2. Append(<<>>, x) = <<x>>
  BY <1>1
<1>3. Append(<<x>>, y) = <<x, y>>
  <2>1. Append(<<x>>, y) \in Seq(S) /\ Len(Append(<<x>>, y)) = 2 /\ Len(<<x, y>>) = 2
    BY <1>1
  <2>2. Append(<<x>>, y)[1] = x /\ Append(<<x>>, y)[2] = y
    BY <1>1
  <2>3. \A j \in 1..2 : Append(<<x>>, y)[j] = <<x, y>>[j]
    BY <2>2
  <2> QED
    BY <1>1, <2>1, <2>3, SeqEqual
<1>4. Head(<<x>>) = x /\ Tail(<<x>>) = <<>> /\ <<x>> # <<>>
  BY <1>1
<1>5. Head(<<x, y>>) = x
  BY <1>1
<1>6. Tail(<<x, y>>) = <<y>>
  BY <1>1
<1>7. <<x, y>> # <<>>
  BY <1>1
<1> QED
  BY <1>2, <1>3, <1>4, <1>5, <1>6, <1>7

\* There are two ranks.
LEMMA Others ==
  ASSUME NEW p \in Rank
  PROVE  Other(p) \in Rank /\ Other(p) # p /\ Other(Other(p)) = p
         /\ \A r \in Rank : r = p \/ r = Other(p)
  BY DEF Rank, Other

\* The invariant holds before the first measurement.
LEMMA InitInv == Init => IInv
<1> SUFFICES ASSUME Init PROVE IInv
  OBVIOUS
<1> USE SkewAssumption, RefsAssumption, MaxTimeAssumption DEF Init, Rank, Other
<1>1. TypeOK
  BY DEF TypeOK, Place, Msg
<1>2. Past
  BY DEF Past, TrueTime
<1>3. InRole /\ HalfBracket /\ BracketSound
  BY DEF InRole, HalfBracket, BracketSound, HasBracket
<1>4. Lockstep
  BY DEF Lockstep, Apart, Out
<1> QED
  BY <1>1, <1>2, <1>3, <1>4 DEF IInv

\* The joint positions, seen from either side.
LEMMA Positions ==
  ASSUME NEW p \in Rank
  PROVE  LET q == Other(p) IN
           Lockstep <=>
             \/ Apart(p, q)    \/ RefAhead(p, q) \/ ClientAhead(p, q)
             \/ Greeting(p, q) \/ Looping(p, q)  \/ Leaving(p, q)
             \/ RefAhead(q, p) \/ ClientAhead(q, p)
             \/ Greeting(q, p) \/ Looping(q, p)  \/ Leaving(q, p)
<1>1. Apart(Other(p), p) <=> Apart(p, Other(p))
  BY Others DEF Apart
<1> QED
  BY <1>1, Others DEF Lockstep

\* The channels after a receive, and after a receive with its answer.
LEMMA AfterRecv ==
  ASSUME NEW p \in Rank, net \in [Rank -> Seq(Msg)], net[p] # <<>>, Recv(p)
  PROVE  /\ net' \in [Rank -> Seq(Msg)]
         /\ net'[p] = Tail(net[p]) /\ net'[Other(p)] = net[Other(p)]
<1>1. Tail(net[p]) \in Seq(Msg)
  BY HeadTailProperties
<1> QED
  BY <1>1, Others DEF Recv

\* The channels after a receive that is answered with v.
LEMMA AfterRecvSend ==
  ASSUME NEW p \in Rank, NEW v \in Int, net \in [Rank -> Seq(Msg)],
         k[p] \in Nat, net[p] # <<>>, RecvSend(p, v)
  PROVE  /\ net' \in [Rank -> Seq(Msg)]
         /\ net'[p] = Tail(net[p])
         /\ net'[Other(p)] = Append(net[Other(p)], Message(p, v))
<1>1. Tail(net[p]) \in Seq(Msg)
  BY HeadTailProperties
<1>2. Message(p, v) \in Msg
  BY DEF Message, Msg
<1>3. net[Other(p)] \in Seq(Msg)
  BY Others
<1>4. Append(net[Other(p)], Message(p, v)) \in Seq(Msg)
  BY <1>2, <1>3, AppendProperties
<1> QED
  BY <1>1, <1>4, Others DEF RecvSend

\* What the type invariant and the constants give every step of rank p.
LEMMA Typing ==
  ASSUME TypeOK, NEW p \in Rank
  PROVE  /\ now \in Nat /\ Skew[p] \in Nat /\ Clock(p) \in Nat
         /\ k[p] \in Nat /\ own[p] \in Int /\ i[p] \in Nat /\ ppmt[p] \in Int
         /\ tdMin[p] \in Int /\ tdMax[p] \in Int /\ cache[p] \in SUBSET Nat
         /\ net[p] \in Seq(Msg)
         /\ net[p] # <<>> => Got(p) \in Int
<1>1. net[p] # <<>> => Head(net[p]) \in Msg
  BY HeadTailProperties DEF TypeOK
<1> QED
  BY SMTT(30), <1>1, SkewAssumption, MaxTimeAssumption, RefsAssumption
     DEF TypeOK, Clock, Got, Msg

-----------------------------------------------------------------------------
(* Type correctness, step by step.                                         *)

\* Every step keeps the types; the hash needs a bracket that is not empty.
LEMMA TypeStep ==
  ASSUME TypeOK, NEW p \in Rank, Step(p), pc[p] = "finish" => tdMin[p] <= tdMax[p]
  PROVE  TypeOK'
<1> DEFINE q == Other(p)
<1>ty. /\ now \in Nat /\ Skew[p] \in Nat /\ Clock(p) \in Nat
       /\ k[p] \in Nat /\ own[p] \in Int /\ i[p] \in Nat /\ ppmt[p] \in Int
       /\ tdMin[p] \in Int /\ tdMax[p] \in Int /\ cache[p] \in SUBSET Nat
       /\ net[p] # <<>> => Got(p) \in Int
       /\ Invalid \in Int
  BY Typing DEF Invalid
<1>net. /\ net \in [Rank -> Seq(Msg)]
        /\ q \in Rank /\ net[q] \in Seq(Msg)
  BY Others DEF TypeOK
<1>rs. ASSUME NEW v \in Int, net[p] # <<>>, RecvSend(p, v)
       PROVE  net' \in [Rank -> Seq(Msg)]
  BY <1>rs, <1>ty, <1>net, AfterRecvSend
<1>look. ASSUME Lookup(p)
         PROVE  ppmt' \in [Rank -> Int] /\ cache' \in [Rank -> SUBSET Nat]
  BY <1>look DEF Lookup, LookupTime, TypeOK
<1>exch. ASSUME Exchange(p, Got(p)), net[p] # <<>>
         PROVE  /\ own' \in [Rank -> Int]
                /\ tdMin' \in [Rank -> Int] /\ tdMax' \in [Rank -> Int]
  <2>1. TightenMin(p, Got(p)) \in Int /\ TightenMax(p, Got(p)) \in Int
    BY <1>exch, <1>ty DEF TightenMin, TightenMax, Larger, Smaller
  <2> QED
    BY SMTT(30), <1>exch, <1>ty, <2>1 DEF Exchange, TypeOK
<1>1. CASE RefEnter(p)
  <2>1. [m |-> k[p] + 1, v |-> Clock(p)] \in Msg
    BY <1>ty DEF Msg
  <2>2. Append(net[q], [m |-> k[p] + 1, v |-> Clock(p)]) \in Seq(Msg)
    BY <2>1, <1>net, AppendProperties
  <2>3. net' \in [Rank -> Seq(Msg)]
    BY <1>1, <2>2, <1>net DEF RefEnter
  <2>4. k' \in [Rank -> 0..Len(Refs)]
    <3>1. k' = [k EXCEPT ![p] = @ + 1] /\ k[p] < Len(Refs)
      BY <1>1 DEF RefEnter
    <3>2. k \in [Rank -> 0..Len(Refs)] /\ Len(Refs) \in Nat
      BY RefsAssumption DEF TypeOK
    <3>3. k[p] + 1 \in 0..Len(Refs)
      BY <3>1, <3>2
    <3> QED
      BY <3>1, <3>2, <3>3
  <2>5. Lookup(p)
    BY <1>1 DEF RefEnter
  <2>11. now' \in 0..MaxTime
    BY <1>1, <1>ty DEF RefEnter, TypeOK
  <2>13. pc' \in [Rank -> Place]
    BY <1>1, <1>ty DEF RefEnter, TypeOK, Place
  <2>14. own' \in [Rank -> Int] /\ i' \in [Rank -> Nat]
    BY <1>1, <1>ty DEF RefEnter, TypeOK
  <2>15. tdMin' \in [Rank -> Int] /\ tdMax' \in [Rank -> Int]
    BY <1>1, <1>ty DEF RefEnter, TypeOK, bracket
  <2>17. result' \in [Rank -> [stamp : Int, off2 : Int]]
    BY <1>1, <1>ty DEF RefEnter, TypeOK
  <2> QED
    BY <2>3, <2>11, <2>4, <1>look, <2>13, <2>14, <2>15, <2>5, <2>17 DEF TypeOK
<1>2. CASE RefHandshake(p)
  <2>1. net[p] # <<>> /\ RecvSend(p, Clock(p))
    BY <1>2 DEF RefHandshake, Waiting
  <2>2. net' \in [Rank -> Seq(Msg)]
    BY <2>1, <1>rs, <1>ty
  <2>3. Got(p) - Clock(p) \in Int /\ Got(p) - own[p] \in Int
    BY <2>1, <1>ty
  <2>11. now' \in 0..MaxTime
    BY <1>2, <1>ty, <2>3 DEF RefHandshake, TypeOK
  <2>12. k' \in [Rank -> 0..Len(Refs)]
    BY <1>2, <1>ty, <2>3 DEF RefHandshake, TypeOK
  <2>13. pc' \in [Rank -> Place]
    BY <1>2, <1>ty, <2>3 DEF RefHandshake, TypeOK, Place
  <2>14. own' \in [Rank -> Int] /\ i' \in [Rank -> Nat]
    BY <1>2, <1>ty, <2>3 DEF RefHandshake, TypeOK
  <2>15. tdMin' \in [Rank -> Int] /\ tdMax' \in [Rank -> Int]
    BY <1>2, <1>ty, <2>3 DEF RefHandshake, TypeOK, bracket
  <2>16. ppmt' \in [Rank -> Int] /\ cache' \in [Rank -> SUBSET Nat]
    BY <1>2, <1>ty, <2>3 DEF RefHandshake, TypeOK
  <2>17. result' \in [Rank -> [stamp : Int, off2 : Int]]
    BY <1>2, <1>ty, <2>3 DEF RefHandshake, TypeOK
  <2> QED
    BY <2>2, <2>11, <2>12, <2>13, <2>14, <2>15, <2>16, <2>17 DEF TypeOK
<1>3. CASE RefRound(p)
  <2>0. net[p] # <<>>
    BY <1>3 DEF RefRound, Waiting
  <2>1. CASE Got(p) < 0
    <3>1. net' \in [Rank -> Seq(Msg)]
      BY <1>3, <2>0, <2>1, <1>net, AfterRecv DEF RefRound
    <3>11. now' \in 0..MaxTime
      BY <1>3, <2>1 DEF RefRound, TypeOK
    <3>12. k' \in [Rank -> 0..Len(Refs)]
      BY <1>3, <2>1 DEF RefRound, TypeOK
    <3>13. pc' \in [Rank -> Place]
      BY <1>3, <2>1 DEF RefRound, TypeOK, Place
    <3>14. own' \in [Rank -> Int] /\ i' \in [Rank -> Nat]
      BY <1>3, <2>1 DEF RefRound, TypeOK
    <3>15. tdMin' \in [Rank -> Int] /\ tdMax' \in [Rank -> Int]
      BY <1>3, <2>1 DEF RefRound, TypeOK, bracket
    <3>16. ppmt' \in [Rank -> Int] /\ cache' \in [Rank -> SUBSET Nat]
      BY <1>3, <2>1 DEF RefRound, TypeOK
    <3>17. result' \in [Rank -> [stamp : Int, off2 : Int]]
      BY <1>3, <2>1 DEF RefRound, TypeOK
    <3> QED
      BY <3>1, <3>11, <3>12, <3>13, <3>14, <3>15, <3>16, <3>17 DEF TypeOK
  <2>2. CASE ~(Got(p) < 0)
    <3>1. net' \in [Rank -> Seq(Msg)]
      BY <1>3, <2>0, <2>2, <1>rs, <1>ty DEF RefRound
    <3>2. pc' \in [Rank -> Place]
      BY <1>3, <2>2 DEF RefRound, TypeOK, Place
    <3>5. i' \in [Rank -> Nat]
      <4>1. i' = [i EXCEPT ![p] = IF EarlyStop(p) THEN @ ELSE @ + 1]
        BY <1>3, <2>2 DEF RefRound
      <4>2. i \in [Rank -> Nat] /\ (IF EarlyStop(p) THEN i[p] ELSE i[p] + 1) \in Nat
        BY <1>ty DEF TypeOK
      <4> QED
        BY <4>1, <4>2
    <3>3. Exchange(p, Got(p))
      BY <1>3, <2>2 DEF RefRound
    <3>4. own' \in [Rank -> Int] /\ tdMin' \in [Rank -> Int] /\ tdMax' \in [Rank -> Int]
      BY <3>3, <2>0, <1>exch
    <3>11. now' \in 0..MaxTime
      BY <1>3, <2>2 DEF RefRound, TypeOK
    <3>12. k' \in [Rank -> 0..Len(Refs)]
      BY <1>3, <2>2 DEF RefRound, TypeOK
    <3>16. ppmt' \in [Rank -> Int] /\ cache' \in [Rank -> SUBSET Nat]
      BY <1>3, <2>2 DEF RefRound, TypeOK
    <3>17. result' \in [Rank -> [stamp : Int, off2 : Int]]
      BY <1>3, <2>2 DEF RefRound, TypeOK
    <3> QED
      BY <3>1, <3>11, <3>12, <3>2, <3>4, <3>5, <3>16, <3>17 DEF TypeOK
  <2> QED
    BY <2>1, <2>2
<1>4. CASE ClientEnter(p)
  <2>1. k' \in [Rank -> 0..Len(Refs)]
    <3>1. k' = [k EXCEPT ![p] = @ + 1] /\ k[p] < Len(Refs)
      BY <1>4 DEF ClientEnter
    <3>2. k \in [Rank -> 0..Len(Refs)] /\ Len(Refs) \in Nat
      BY RefsAssumption DEF TypeOK
    <3>3. k[p] + 1 \in 0..Len(Refs)
      BY <3>1, <3>2
    <3> QED
      BY <3>1, <3>2, <3>3
  <2>2. Lookup(p)
    BY <1>4 DEF ClientEnter
  <2>3. net' \in [Rank -> Seq(Msg)]
    BY <1>4, <1>net DEF ClientEnter
  <2>11. now' \in 0..MaxTime
    BY <1>4, <1>ty DEF ClientEnter, TypeOK
  <2>13. pc' \in [Rank -> Place]
    BY <1>4, <1>ty DEF ClientEnter, TypeOK, Place
  <2>14. own' \in [Rank -> Int] /\ i' \in [Rank -> Nat]
    BY <1>4, <1>ty DEF ClientEnter, TypeOK
  <2>15. tdMin' \in [Rank -> Int] /\ tdMax' \in [Rank -> Int]
    BY <1>4, <1>ty DEF ClientEnter, TypeOK, bracket
  <2>17. result' \in [Rank -> [stamp : Int, off2 : Int]]
    BY <1>4, <1>ty DEF ClientEnter, TypeOK
  <2> QED
    BY <2>3, <1>look, <2>11, <2>1, <2>13, <2>14, <2>15, <2>2, <2>17 DEF TypeOK
<1>5. CASE ClientHandshake(p)
  <2>1. net[p] # <<>> /\ RecvSend(p, Clock(p))
    BY <1>5 DEF ClientHandshake, Waiting
  <2>2. net' \in [Rank -> Seq(Msg)]
    BY <2>1, <1>rs, <1>ty
  <2>3. Got(p) - Clock(p) \in Int
    BY <2>1, <1>ty
  <2>11. now' \in 0..MaxTime
    BY <1>5, <1>ty, <2>3 DEF ClientHandshake, TypeOK
  <2>12. k' \in [Rank -> 0..Len(Refs)]
    BY <1>5, <1>ty, <2>3 DEF ClientHandshake, TypeOK
  <2>13. pc' \in [Rank -> Place]
    BY <1>5, <1>ty, <2>3 DEF ClientHandshake, TypeOK, Place
  <2>14. own' \in [Rank -> Int] /\ i' \in [Rank -> Nat]
    BY <1>5, <1>ty, <2>3 DEF ClientHandshake, TypeOK
  <2>15. tdMin' \in [Rank -> Int] /\ tdMax' \in [Rank -> Int]
    BY <1>5, <1>ty, <2>3 DEF ClientHandshake, TypeOK, bracket
  <2>16. ppmt' \in [Rank -> Int] /\ cache' \in [Rank -> SUBSET Nat]
    BY <1>5, <1>ty, <2>3 DEF ClientHandshake, TypeOK
  <2>17. result' \in [Rank -> [stamp : Int, off2 : Int]]
    BY <1>5, <1>ty, <2>3 DEF ClientHandshake, TypeOK
  <2> QED
    BY <2>2, <2>11, <2>12, <2>13, <2>14, <2>15, <2>16, <2>17 DEF TypeOK
<1>6. CASE ClientHandshake2(p)
  <2>1. net[p] # <<>> /\ RecvSend(p, Clock(p))
    BY <1>6 DEF ClientHandshake2, Waiting
  <2>2. net' \in [Rank -> Seq(Msg)]
    BY <2>1, <1>rs, <1>ty
  <2>3. TightenMin(p, Got(p)) \in Int /\ Got(p) - own[p] \in Int
    BY <2>1, <1>ty DEF TightenMin, Larger
  <2>11. now' \in 0..MaxTime
    BY <1>6, <1>ty, <2>3 DEF ClientHandshake2, TypeOK
  <2>12. k' \in [Rank -> 0..Len(Refs)]
    BY <1>6, <1>ty, <2>3 DEF ClientHandshake2, TypeOK
  <2>13. pc' \in [Rank -> Place]
    BY <1>6, <1>ty, <2>3 DEF ClientHandshake2, TypeOK, Place
  <2>14. own' \in [Rank -> Int] /\ i' \in [Rank -> Nat]
    BY <1>6, <1>ty, <2>3 DEF ClientHandshake2, TypeOK
  <2>15. tdMin' \in [Rank -> Int] /\ tdMax' \in [Rank -> Int]
    BY <1>6, <1>ty, <2>3 DEF ClientHandshake2, TypeOK, bracket
  <2>16. ppmt' \in [Rank -> Int] /\ cache' \in [Rank -> SUBSET Nat]
    BY <1>6, <1>ty, <2>3 DEF ClientHandshake2, TypeOK
  <2>17. result' \in [Rank -> [stamp : Int, off2 : Int]]
    BY <1>6, <1>ty, <2>3 DEF ClientHandshake2, TypeOK
  <2> QED
    BY <2>2, <2>11, <2>12, <2>13, <2>14, <2>15, <2>16, <2>17 DEF TypeOK
<1>7. CASE ClientRound(p)
  <2>0. net[p] # <<>>
    BY <1>7 DEF ClientRound, Waiting
  <2>1. CASE Got(p) < 0
    <3>1. net' \in [Rank -> Seq(Msg)]
      BY <1>7, <2>0, <2>1, <1>net, AfterRecv DEF ClientRound
    <3>11. now' \in 0..MaxTime
      BY <1>7, <2>1, <1>ty DEF ClientRound, TypeOK
    <3>12. k' \in [Rank -> 0..Len(Refs)]
      BY <1>7, <2>1, <1>ty DEF ClientRound, TypeOK
    <3>13. pc' \in [Rank -> Place]
      BY <1>7, <2>1, <1>ty DEF ClientRound, TypeOK, Place
    <3>14. own' \in [Rank -> Int]
      BY SMTT(30), <1>7, <2>1, <1>ty DEF ClientRound, TypeOK
    <3>18. i' \in [Rank -> Nat]
      BY <1>7, <2>1 DEF ClientRound, TypeOK
    <3>15. tdMin' \in [Rank -> Int] /\ tdMax' \in [Rank -> Int]
      BY <1>7, <2>1, <1>ty DEF ClientRound, TypeOK, bracket
    <3>16. ppmt' \in [Rank -> Int] /\ cache' \in [Rank -> SUBSET Nat]
      BY <1>7, <2>1, <1>ty DEF ClientRound, TypeOK
    <3>17. result' \in [Rank -> [stamp : Int, off2 : Int]]
      BY <1>7, <2>1, <1>ty DEF ClientRound, TypeOK
    <3> QED
      BY <3>1, <3>11, <3>12, <3>13, <3>14, <3>15, <3>16, <3>17, <3>18 DEF TypeOK
  <2>2. CASE ~(Got(p) < 0)
    <3>1. net' \in [Rank -> Seq(Msg)]
      BY <1>7, <2>0, <2>2, <1>rs, <1>ty DEF ClientRound
    <3>2. pc' \in [Rank -> Place]
      BY <1>7, <2>2 DEF ClientRound, TypeOK, Place
    <3>5. i' \in [Rank -> Nat]
      <4>1. i' = [i EXCEPT ![p] = IF EarlyStop(p) THEN @ ELSE @ + 1]
        BY <1>7, <2>2 DEF ClientRound
      <4>2. i \in [Rank -> Nat] /\ (IF EarlyStop(p) THEN i[p] ELSE i[p] + 1) \in Nat
        BY <1>ty DEF TypeOK
      <4> QED
        BY <4>1, <4>2
    <3>3. Exchange(p, Got(p))
      BY <1>7, <2>2 DEF ClientRound
    <3>4. own' \in [Rank -> Int] /\ tdMin' \in [Rank -> Int] /\ tdMax' \in [Rank -> Int]
      BY <3>3, <2>0, <1>exch
    <3>11. now' \in 0..MaxTime
      BY <1>7, <2>2 DEF ClientRound, TypeOK
    <3>12. k' \in [Rank -> 0..Len(Refs)]
      BY <1>7, <2>2 DEF ClientRound, TypeOK
    <3>16. ppmt' \in [Rank -> Int] /\ cache' \in [Rank -> SUBSET Nat]
      BY <1>7, <2>2 DEF ClientRound, TypeOK
    <3>17. result' \in [Rank -> [stamp : Int, off2 : Int]]
      BY <1>7, <2>2 DEF ClientRound, TypeOK
    <3> QED
      BY <3>1, <3>11, <3>12, <3>2, <3>4, <3>5, <3>16, <3>17 DEF TypeOK
  <2> QED
    BY <2>1, <2>2
<1>8. CASE Finish(p)
  <2>0. tdMax[p] - tdMin[p] \in Nat
    BY <1>8, <1>ty DEF Finish
  <2>1. StoredTime(p) \in Nat /\ Offset2(p) \in Int
    BY <1>ty, <2>0 DEF StoredTime, Offset2, Smaller
  <2>2. cache' \in [Rank -> SUBSET Nat]
    BY <1>8, <2>1 DEF Finish, TypeOK
  <2>3. result' \in [Rank -> [stamp : Int, off2 : Int]]
    BY <1>8, <2>1, <1>ty DEF Finish, TypeOK
  <2>4. net' \in [Rank -> Seq(Msg)]
    BY <1>8, <1>net DEF Finish
  <2>5. ppmt' \in [Rank -> Int]
    BY <1>8 DEF Finish, TypeOK
  <2>11. now' \in 0..MaxTime
    BY <1>8 DEF Finish, TypeOK
  <2>12. k' \in [Rank -> 0..Len(Refs)]
    BY <1>8 DEF Finish, TypeOK
  <2>13. pc' \in [Rank -> Place]
    BY <1>8 DEF Finish, TypeOK, Place
  <2>14. own' \in [Rank -> Int] /\ i' \in [Rank -> Nat]
    BY <1>8 DEF Finish, TypeOK
  <2>15. tdMin' \in [Rank -> Int] /\ tdMax' \in [Rank -> Int]
    BY <1>8 DEF Finish, TypeOK, bracket
  <2> QED
    BY <2>4, <2>11, <2>12, <2>13, <2>14, <2>15, <2>2, <2>5, <2>3 DEF TypeOK
<1> QED
  BY <1>1, <1>2, <1>3, <1>4, <1>5, <1>6, <1>7, <1>8 DEF Step

-----------------------------------------------------------------------------
(* A step changes the locals of one rank only; the invariant after it is   *)
(* what holds of that rank and of the channels.                            *)

Frame(p) ==
  LET q == Other(p) IN
  /\ now' = now
  /\ k'[q] = k[q] /\ pc'[q] = pc[q] /\ own'[q] = own[q]
  /\ tdMin'[q] = tdMin[q] /\ tdMax'[q] = tdMax[q]

\* A step leaves the other side's locals and true time alone.
LEMMA FrameStep ==
  ASSUME TypeOK, NEW p \in Rank, Step(p)
  PROVE  Frame(p)
<1> DEFINE q == Other(p)
<1> q \in Rank /\ q # p
  BY Others
<1>1. CASE RefEnter(p)
  BY <1>1 DEF RefEnter, Frame, TypeOK, bracket
<1>2. CASE RefHandshake(p)
  BY <1>2 DEF RefHandshake, Frame, TypeOK
<1>3. CASE RefRound(p)
  <2>1. CASE Got(p) < 0
    BY <1>3, <2>1 DEF RefRound, Frame, TypeOK, bracket
  <2>2. CASE ~(Got(p) < 0)
    BY <1>3, <2>2 DEF RefRound, Exchange, Frame, TypeOK
  <2> QED
    BY <2>1, <2>2
<1>4. CASE ClientEnter(p)
  BY <1>4 DEF ClientEnter, Frame, TypeOK, bracket
<1>5. CASE ClientHandshake(p)
  BY <1>5 DEF ClientHandshake, Frame, TypeOK
<1>6. CASE ClientHandshake2(p)
  BY <1>6 DEF ClientHandshake2, Frame, TypeOK
<1>7. CASE ClientRound(p)
  <2>1. CASE Got(p) < 0
    BY <1>7, <2>1 DEF ClientRound, Frame, TypeOK, bracket
  <2>2. CASE ~(Got(p) < 0)
    BY <1>7, <2>2 DEF ClientRound, Exchange, Frame, TypeOK
  <2> QED
    BY <2>1, <2>2
<1>8. CASE Finish(p)
  BY <1>8 DEF Finish, Frame, TypeOK, bracket
<1> QED
  BY <1>1, <1>2, <1>3, <1>4, <1>5, <1>6, <1>7, <1>8 DEF Step

\* The conjuncts of the invariant that are about one rank.
Alone(p) ==
  /\ own[p] >= 0 /\ TrueTime(p) <= now
  /\ pc[p] # "idle" => k[p] >= 1
  /\ pc[p] \in {"refHandshake", "refLoop"} => IsRef(p)
  /\ pc[p] \in {"clientHandshake", "clientHandshake2", "clientLoop"} => ~IsRef(p)
  /\ pc[p] = "clientHandshake2" => tdMin[p] <= Difference(p)
  /\ HasBracket(p) => tdMin[p] <= Difference(p) /\ Difference(p) <= tdMax[p]

\* The invariant is its types, the joint position and what each rank is by itself.
LEMMA AloneInv == IInv <=> TypeOK /\ Lockstep /\ \A p \in Rank : Alone(p)
<1>1. IInv => TypeOK /\ Lockstep /\ \A p \in Rank : Alone(p)
  BY DEF IInv, Past, InRole, HalfBracket, BracketSound, Alone
<1>2. ASSUME TypeOK, Lockstep, \A p \in Rank : Alone(p)
      PROVE  IInv
  BY <1>2 DEF IInv, Past, InRole, HalfBracket, BracketSound, Alone
<1> QED
  BY <1>1, <1>2

\* After a step of p it is enough to look at p and at the joint position.
LEMMA Assemble ==
  ASSUME IInv, NEW p \in Rank, Step(p), Lockstep', Alone(p)'
  PROVE  IInv'
<1> DEFINE q == Other(p)
<1> q \in Rank /\ \A r \in Rank : r = p \/ r = q
  BY Others
<1>1. TypeOK /\ Alone(q)
  BY AloneInv
<1>2. Frame(p)
  BY <1>1, FrameStep
<1>3. Alone(q)'
  BY <1>1, <1>2 DEF Alone, Frame, TrueTime, IsRef, Difference, HasBracket
<1>4. TypeOK'
  <2>1. pc[p] = "finish" => tdMin[p] <= tdMax[p]
    BY <1>1, Typing, AloneInv, SkewAssumption DEF Alone, HasBracket, Difference
  <2> QED
    BY <1>1, <2>1, TypeStep
<1> QED
  BY <1>3, <1>4 DEF IInv, Past, InRole, HalfBracket, BracketSound, Alone

\* What a step of rank p may assume of both sides.
Facts(p) ==
  LET q == Other(p) IN
  /\ q \in Rank /\ q # p /\ Other(q) = p
  /\ now \in Nat /\ Clock(p) = now + Skew[p] /\ Clock(p) \in Nat
  /\ Skew[p] \in Nat /\ Skew[q] \in Nat
  /\ own[p] \in Nat /\ own[q] \in Nat /\ k[p] \in Nat /\ k[q] \in Nat
  /\ TrueTime(p) = own[p] - Skew[p] /\ TrueTime(q) = own[q] - Skew[q]
  /\ TrueTime(p) <= now /\ TrueTime(q) <= now
  /\ Difference(p) = Skew[q] - Skew[p]
  /\ tdMin[p] \in Int /\ tdMax[p] \in Int

\* The invariant gives these facts.
LEMMA FactsHold ==
  ASSUME IInv, NEW p \in Rank
  PROVE  Facts(p)
<1> DEFINE q == Other(p)
<1>0. q \in Rank /\ q # p /\ Other(q) = p
  BY Others
<1>1. TypeOK /\ Past
  BY DEF IInv
<1>2. /\ now \in Nat /\ Clock(p) \in Nat /\ Skew[p] \in Nat /\ Skew[q] \in Nat
      /\ own[p] \in Int /\ own[q] \in Int /\ k[p] \in Nat /\ k[q] \in Nat
      /\ tdMin[p] \in Int /\ tdMax[p] \in Int
  BY <1>0, <1>1, Typing
<1>3. own[p] >= 0 /\ own[q] >= 0 /\ TrueTime(p) <= now /\ TrueTime(q) <= now
  BY <1>0, <1>1 DEF Past
<1> QED
  BY <1>0, <1>2, <1>3 DEF Facts, Clock, TrueTime, Difference

\* Which joint position an enabled step starts from, by the place it starts in.
LEMMA AtRefHandshake ==
  ASSUME Lockstep, NEW p \in Rank, Waiting(p, "refHandshake")
  PROVE  LET q == Other(p) IN
         /\ k[p] = k[q] /\ pc[q] = "clientHandshake2"
         /\ net[p] = <<Reading(q)>> /\ net[q] = <<>>
         /\ TrueTime(p) <= TrueTime(q)
  BY Positions, Others DEF Waiting, Apart, RefAhead, ClientAhead, Greeting, Looping,
     Leaving, Out, InLoop

\* A client whose first receive has its message is greeted by its reference.
LEMMA AtClientHandshake ==
  ASSUME Lockstep, NEW p \in Rank, Waiting(p, "clientHandshake")
  PROVE  LET q == Other(p) IN
         /\ k[p] = k[q] /\ pc[q] = "refHandshake"
         /\ net[p] = <<Reading(q)>> /\ net[q] = <<>>
  BY Positions, Others DEF Waiting, Apart, RefAhead, ClientAhead, Greeting, Looping,
     Leaving, Out, InLoop

\* A client whose second receive has its message meets its reference in the loop.
LEMMA AtClientHandshake2 ==
  ASSUME Lockstep, NEW p \in Rank, Waiting(p, "clientHandshake2")
  PROVE  LET q == Other(p) IN
         /\ k[p] = k[q] /\ pc[q] = "refLoop"
         /\ net[p] = <<Reading(q)>> /\ net[q] = <<>>
         /\ TrueTime(p) <= TrueTime(q)
  BY Positions, Others DEF Waiting, Apart, RefAhead, ClientAhead, Greeting, Looping,
     Leaving, Out, InLoop

\* In the loop the next message is a stop sign, with nothing else of this
\* measurement behind it, or a reading younger than one's own.
LEMMA AtLoop ==
  ASSUME Lockstep, NEW p \in Rank, InLoop(p), net[p] # <<>>
  PROVE  LET q == Other(p) IN
         \/ /\ k[p] = k[q] /\ InLoop(q) /\ pc[p] # pc[q]
            /\ net[p] = <<Reading(q)>> /\ net[q] = <<>>
            /\ TrueTime(p) <= TrueTime(q)
         \/ Leaving(p, q)
         \/ /\ RefAhead(q, p) /\ net[p] = <<Message(p, Invalid), Reading(q)>>
         \/ /\ ClientAhead(q, p) /\ net[p] = <<Message(p, Invalid)>>
  BY Positions, Others DEF Apart, RefAhead, ClientAhead, Greeting, Looping,
     Leaving, Out, InLoop

\* A rank outside the exchange has a partner that is out of it too, ahead or leaving.
LEMMA AtIdle ==
  ASSUME Lockstep, NEW p \in Rank, Out(p)
  PROVE  LET q == Other(p) IN
         \/ Apart(p, q) \/ RefAhead(q, p) \/ ClientAhead(q, p) \/ Leaving(q, p)
  BY Positions, Others DEF Apart, RefAhead, ClientAhead, Greeting, Looping,
     Leaving, Out, InLoop

-----------------------------------------------------------------------------
(* The steps.                                                              *)

\* The turn passes to the other side.
LEMMA Answered ==
  ASSUME TypeOK, NEW p \in Rank, NEW v \in Int, NEW x, RecvSend(p, v),
         net[p] = <<x>>, net[Other(p)] = <<>>
  PROVE  net'[p] = <<>> /\ net'[Other(p)] = <<Message(p, v)>>
<1>1. net[p] # <<>> /\ Tail(net[p]) = <<>>
      /\ Append(net[Other(p)], Message(p, v)) = <<Message(p, v)>>
  BY ShortQueues
<1>2. net \in [Rank -> Seq(Msg)] /\ k[p] \in Nat
  BY Typing DEF TypeOK
<1> QED
  BY <1>1, <1>2, AfterRecvSend

\* The reference's first send: it gets one measurement ahead, or meets its client.
LEMMA RefEnterInv ==
  ASSUME IInv, NEW p \in Rank, RefEnter(p)
  PROVE  IInv'
<1> DEFINE q == Other(p)
<1>1. Facts(p) /\ Lockstep /\ TypeOK /\ Step(p)
  BY FactsHold DEF IInv, Step
<1>2. Frame(p)
  BY <1>1, FrameStep
<1>3. /\ pc'[p] = "refHandshake" /\ k'[p] = k[p] + 1 /\ own'[p] = Clock(p)
      /\ net'[p] = net[p]
      /\ net'[q] = Append(net[q], [m |-> k[p] + 1, v |-> Clock(p)])
      /\ pc[p] = "idle" /\ NextIsRef(p)
  BY <1>1 DEF RefEnter, TypeOK, Facts
<1>4. Reading(p)' = [m |-> k[p] + 1, v |-> Clock(p)]
  BY <1>3 DEF Reading, Message
<1>5. Lockstep'
  <2>1. CASE Apart(p, q)
    <3>1. RefAhead(p, q)'
      BY <1>1, <1>2, <1>3, <1>4, <2>1, ShortQueues DEF Apart, RefAhead, Frame, Facts, Out
    <3> QED
      BY <3>1 DEF Lockstep
  <2>2. CASE ClientAhead(q, p)
    <3>1. Greeting(p, q)'
      BY <1>1, <1>2, <1>3, <1>4, <2>2, ShortQueues
         DEF ClientAhead, Greeting, Frame, Facts, Out, InLoop
    <3> QED
      BY <3>1 DEF Lockstep
  <2>3. CASE RefAhead(q, p)
    <3>1. IsRef(q) /\ Refs[k[q]] = p /\ q # p
      BY <1>1, <1>3, <2>3 DEF RefAhead, IInv, InRole, NextIsRef, Facts
    <3> QED
      BY <3>1 DEF IsRef
  <2>4. CASE Leaving(q, p)
    <3>1. net[p] = <<>> /\ net[q] = <<Message(q, Invalid)>> /\ k[p] = k[q] /\ InLoop(q)
      BY <1>1, <2>4 DEF Leaving, Facts
    <3>2. net'[q] = <<Message(q, Invalid), [m |-> k[p] + 1, v |-> Clock(p)]>>
      BY <1>3, <3>1, ShortQueues
    <3>3. Message(q, Invalid)' = Message(q, Invalid)
      BY <1>2 DEF Message, Frame
    <3>4. RefAhead(p, q)'
      BY <1>1, <1>2, <1>3, <1>4, <3>1, <3>2, <3>3 DEF RefAhead, Frame, Facts, InLoop
    <3> QED
      BY <3>4 DEF Lockstep
  <2> QED
    BY <1>1, <1>3, <2>1, <2>2, <2>3, <2>4, AtIdle DEF Out
<1>6. Alone(p)'
  BY SMTT(30), <1>1, <1>2, <1>3 DEF Alone, Facts, Frame, TrueTime, HasBracket, IsRef, NextIsRef
<1> QED
  BY <1>1, <1>5, <1>6, Assemble

\* The reference's first receive starts its bracket.
LEMMA RefHandshakeInv ==
  ASSUME IInv, NEW p \in Rank, RefHandshake(p)
  PROVE  IInv'
<1> DEFINE q == Other(p)
<1>1. Facts(p) /\ Lockstep /\ TypeOK /\ Step(p) /\ Alone(p)
  BY FactsHold, AloneInv DEF IInv, Step
<1>2. Frame(p)
  BY <1>1, FrameStep
<1>3. /\ k[p] = k[q] /\ pc[p] = "refHandshake" /\ pc[q] = "clientHandshake2"
      /\ net[p] = <<Reading(q)>> /\ net[q] = <<>> /\ TrueTime(p) <= TrueTime(q)
  BY <1>1, AtRefHandshake DEF RefHandshake, Waiting
<1>4. Got(p) = own[q]
  BY <1>3, ShortQueues DEF Got, Reading, Message
<1>5. /\ pc'[p] = "refLoop" /\ k'[p] = k[p] /\ own'[p] = Clock(p)
      /\ tdMin'[p] = own[q] - Clock(p) /\ tdMax'[p] = own[q] - own[p]
  BY <1>1, <1>4 DEF RefHandshake, TypeOK
<1>6. net'[p] = <<>> /\ net'[q] = <<Message(p, Clock(p))>>
  BY SMTT(30), <1>1, <1>3, Answered DEF RefHandshake, Facts
<1>7. Reading(p)' = Message(p, Clock(p))
  BY <1>5 DEF Reading, Message
<1>8. Looping(p, q)'
  BY <1>1, <1>2, <1>3, <1>5, <1>6, <1>7 DEF Looping, Frame, Facts, TrueTime
<1>9. Alone(p)'
  BY SMTT(30), <1>1, <1>2, <1>3, <1>5
     DEF Alone, Facts, Frame, TrueTime, HasBracket, IsRef, Difference
<1> QED
  BY <1>1, <1>8, <1>9, Assemble DEF Lockstep

\* The client enters: it gets one measurement ahead, or finds the reading waiting.
LEMMA ClientEnterInv ==
  ASSUME IInv, NEW p \in Rank, ClientEnter(p)
  PROVE  IInv'
<1> DEFINE q == Other(p)
<1>1. Facts(p) /\ Lockstep /\ TypeOK /\ Step(p) /\ Alone(p)
  BY FactsHold, AloneInv DEF IInv, Step
<1>2. Frame(p)
  BY <1>1, FrameStep
<1>3. /\ pc'[p] = "clientHandshake" /\ k'[p] = k[p] + 1 /\ own'[p] = own[p]
      /\ net' = net /\ pc[p] = "idle" /\ ~NextIsRef(p) /\ k[p] < Len(Refs)
  BY <1>1 DEF ClientEnter, TypeOK, Facts
<1>4. Reading(q)' = Reading(q) /\ Message(q, Invalid)' = Message(q, Invalid)
  BY <1>2 DEF Reading, Message, Frame
<1>5. Lockstep'
  <2>1. CASE Apart(p, q)
    <3>1. ClientAhead(p, q)'
      BY <1>1, <1>2, <1>3, <2>1 DEF Apart, ClientAhead, Frame, Facts, Out
    <3> QED
      BY <3>1 DEF Lockstep
  <2>2. CASE ClientAhead(q, p)
    <3>1. Refs[k[q]] # q /\ Refs[k[q]] # p
      BY <1>1, <1>3, <2>2, AloneInv DEF ClientAhead, Alone, IsRef, NextIsRef, Facts
    <3>2. k[q] \in 1..Len(Refs)
      BY SMTT(30), <1>1, <1>3, <2>2 DEF ClientAhead, Facts
    <3>3. Refs[k[q]] \in Rank
      BY <3>2, RefsAssumption, ElementOfSeq
    <3> QED
      BY <3>1, <3>3, Others
  <2>3. CASE RefAhead(q, p)
    <3>1. Greeting(q, p)'
      BY <1>1, <1>2, <1>3, <1>4, <2>3 DEF RefAhead, Greeting, Frame, Facts, Out, InLoop
    <3> QED
      BY <1>1, <3>1 DEF Lockstep, Facts
  <2>4. CASE Leaving(q, p)
    <3>1. ClientAhead(p, q)'
      BY <1>1, <1>2, <1>3, <1>4, <2>4 DEF Leaving, ClientAhead, Frame, Facts, Out, InLoop
    <3> QED
      BY <3>1 DEF Lockstep
  <2> QED
    BY <1>1, <1>3, <2>1, <2>2, <2>3, <2>4, AtIdle DEF Out
<1>6. Alone(p)'
  BY <1>1, <1>2, <1>3 DEF Alone, Facts, Frame, TrueTime, HasBracket, IsRef, NextIsRef
<1> QED
  BY <1>1, <1>5, <1>6, Assemble

\* The client's first receive gives it the lower bound.
LEMMA ClientHandshakeInv ==
  ASSUME IInv, NEW p \in Rank, ClientHandshake(p)
  PROVE  IInv'
<1> DEFINE q == Other(p)
<1>1. Facts(p) /\ Lockstep /\ TypeOK /\ Step(p) /\ Alone(p)
  BY FactsHold, AloneInv DEF IInv, Step
<1>2. Frame(p)
  BY <1>1, FrameStep
<1>3. /\ k[p] = k[q] /\ pc[p] = "clientHandshake" /\ pc[q] = "refHandshake"
      /\ net[p] = <<Reading(q)>> /\ net[q] = <<>>
  BY <1>1, AtClientHandshake DEF ClientHandshake, Waiting
<1>4. Got(p) = own[q]
  BY <1>3, ShortQueues DEF Got, Reading, Message
<1>5. /\ pc'[p] = "clientHandshake2" /\ k'[p] = k[p] /\ own'[p] = Clock(p)
      /\ tdMin'[p] = own[q] - Clock(p)
  BY <1>1, <1>4 DEF ClientHandshake, TypeOK
<1>6. net'[p] = <<>> /\ net'[q] = <<Message(p, Clock(p))>>
  BY SMTT(30), <1>1, <1>3, Answered DEF ClientHandshake, Facts
<1>7. Reading(p)' = Message(p, Clock(p))
  BY <1>5 DEF Reading, Message
<1>8. Greeting(q, p)'
  BY <1>1, <1>2, <1>3, <1>5, <1>6, <1>7 DEF Greeting, Frame, Facts, TrueTime
<1>9. Alone(p)'
  BY SMTT(30), <1>1, <1>2, <1>3, <1>5
     DEF Alone, Facts, Frame, TrueTime, HasBracket, IsRef, Difference
<1> QED
  BY <1>1, <1>8, <1>9, Assemble DEF Lockstep, Facts

\* The client's second receive completes its bracket.
LEMMA ClientHandshake2Inv ==
  ASSUME IInv, NEW p \in Rank, ClientHandshake2(p)
  PROVE  IInv'
<1> DEFINE q == Other(p)
<1>1. Facts(p) /\ Lockstep /\ TypeOK /\ Step(p) /\ Alone(p)
  BY FactsHold, AloneInv DEF IInv, Step
<1>2. Frame(p)
  BY <1>1, FrameStep
<1>3. /\ k[p] = k[q] /\ pc[p] = "clientHandshake2" /\ pc[q] = "refLoop"
      /\ net[p] = <<Reading(q)>> /\ net[q] = <<>> /\ TrueTime(p) <= TrueTime(q)
  BY <1>1, AtClientHandshake2 DEF ClientHandshake2, Waiting
<1>4. Got(p) = own[q]
  BY <1>3, ShortQueues DEF Got, Reading, Message
<1>5. /\ pc'[p] = "clientLoop" /\ k'[p] = k[p] /\ own'[p] = Clock(p)
      /\ tdMin'[p] = Larger(tdMin[p], own[q] - Clock(p)) /\ tdMax'[p] = own[q] - own[p]
  BY <1>1, <1>4 DEF ClientHandshake2, TypeOK, TightenMin
<1>6. net'[p] = <<>> /\ net'[q] = <<Message(p, Clock(p))>>
  BY SMTT(30), <1>1, <1>3, Answered DEF ClientHandshake2, Facts
<1>7. Reading(p)' = Message(p, Clock(p))
  BY <1>5 DEF Reading, Message
<1>8. Looping(q, p)'
  BY <1>1, <1>2, <1>3, <1>5, <1>6, <1>7 DEF Looping, Frame, Facts, TrueTime
<1>9. own[q] - Clock(p) <= Difference(p) /\ Difference(p) <= own[q] - own[p]
  BY SMTT(30), <1>1, <1>3 DEF Facts
<1>10. tdMin[p] <= Difference(p)
  BY <1>1, <1>3 DEF Alone
<1>11. tdMin'[p] <= Difference(p)
  BY <1>1, <1>5, <1>9, <1>10 DEF Larger, Facts
<1>12. tdMax'[p] >= Difference(p)
  BY <1>5, <1>9
<1>13. Alone(p)'
  BY <1>1, <1>2, <1>3, <1>5, <1>11, <1>12
     DEF Alone, Facts, Frame, TrueTime, HasBracket, IsRef, Difference
<1> QED
  BY <1>1, <1>8, <1>13, Assemble DEF Lockstep, Facts

\* A side that receives the stop sign leaves with nothing of this measurement in
\* flight.
LEMMA LoopStop ==
  ASSUME IInv, NEW p \in Rank, Step(p), InLoop(p), net[p] # <<>>, Got(p) < 0,
         Recv(p), pc'[p] = "finish", k' = k
  PROVE  Lockstep'
<1> DEFINE q == Other(p)
<1>1. Facts(p) /\ Lockstep /\ TypeOK /\ Frame(p)
  BY FactsHold, FrameStep DEF IInv
<1>2. net'[p] = Tail(net[p]) /\ net'[q] = net[q]
  BY <1>1, AfterRecv DEF TypeOK
<1>3. Reading(q)' = Reading(q)
  BY <1>1 DEF Reading, Message, Frame
<1>4. CASE net[p] = <<Reading(q)>>
  BY <1>1, <1>4, ShortQueues DEF Got, Reading, Message, Facts
<1>5. CASE Leaving(p, q)
  <2>1. Apart(p, q)'
    BY <1>1, <1>2, <1>5, ShortQueues DEF Leaving, Apart, Frame, Out
  <2> QED
    BY <2>1 DEF Lockstep
<1>6. CASE RefAhead(q, p) /\ net[p] = <<Message(p, Invalid), Reading(q)>>
  <2>1. net'[p] = <<Reading(q)>>
    BY <1>2, <1>6, ShortQueues
  <2>2. RefAhead(q, p)'
    BY <1>1, <1>2, <1>3, <1>6, <2>1 DEF RefAhead, Frame, Out
  <2> QED
    BY <1>1, <2>2 DEF Lockstep, Facts
<1>7. CASE ClientAhead(q, p) /\ net[p] = <<Message(p, Invalid)>>
  <2>1. net'[p] = <<>>
    BY <1>2, <1>7, ShortQueues
  <2>2. ClientAhead(q, p)'
    BY <1>1, <1>2, <1>7, <2>1 DEF ClientAhead, Frame, Out
  <2> QED
    BY <1>1, <2>2 DEF Lockstep, Facts
<1> QED
  BY <1>1, <1>4, <1>5, <1>6, <1>7, AtLoop

\* What is not the stop sign is the reading the other side has just sent.
LEMMA LoopReading ==
  ASSUME IInv, NEW p \in Rank, InLoop(p), net[p] # <<>>, ~(Got(p) < 0)
  PROVE  LET q == Other(p) IN
         /\ k[p] = k[q] /\ InLoop(q) /\ pc[p] # pc[q]
         /\ net[p] = <<Reading(q)>> /\ net[q] = <<>>
         /\ TrueTime(p) <= TrueTime(q) /\ Got(p) = own[q]
<1> DEFINE q == Other(p)
<1>1. Lockstep
  BY DEF IInv
<1>2. CASE net[p] = <<Reading(q)>>
  <2>1. Got(p) = own[q]
    BY <1>2, ShortQueues DEF Got, Reading, Message
  <2>2. Leaving(p, q) => Got(p) < 0
    BY ShortQueues DEF Leaving, Got, Message, Invalid
  <2>3. ClientAhead(q, p) /\ net[p] = <<Message(p, Invalid)>> => Got(p) < 0
    BY ShortQueues DEF Got, Message, Invalid
  <2>4. net[p] # <<Message(p, Invalid), Reading(q)>>
    BY <1>2
  <2> QED
    BY <1>1, <2>1, <2>2, <2>3, <2>4, AtLoop
<1>3. CASE net[p] # <<Reading(q)>>
  <2>1. CASE Leaving(p, q) \/ net[p] = <<Message(p, Invalid)>>
    BY <2>1, ShortQueues DEF Leaving, Got, Message, Invalid
  <2>2. CASE net[p] = <<Message(p, Invalid), Reading(q)>>
    BY <2>2, ShortQueues DEF Got, Message, Invalid
  <2> QED
    BY <1>1, <1>3, <2>1, <2>2, AtLoop
<1> QED
  BY <1>2, <1>3

\* An exchange keeps the bracket sound and hands the turn over, with a reading or
\* with the stop sign.
LEMMA LoopAnswer ==
  ASSUME IInv, NEW p \in Rank, Step(p), InLoop(p), net[p] # <<>>, ~(Got(p) < 0),
         Exchange(p, Got(p)), k' = k, NEW v \in Int, RecvSend(p, v),
         \/ v = Invalid /\ pc'[p] = "finish"
         \/ v = Clock(p) /\ pc'[p] = pc[p]
  PROVE  IInv'
<1> DEFINE q == Other(p)
<1>1. Facts(p) /\ Lockstep /\ TypeOK /\ Frame(p) /\ Alone(p)
  BY FactsHold, FrameStep, AloneInv DEF IInv
<1>2. /\ k[p] = k[q] /\ InLoop(q) /\ pc[p] # pc[q]
      /\ net[p] = <<Reading(q)>> /\ net[q] = <<>>
      /\ TrueTime(p) <= TrueTime(q) /\ Got(p) = own[q]
  BY LoopReading
<1>3. /\ own'[p] = Clock(p)
      /\ tdMin'[p] = Larger(tdMin[p], own[q] - Clock(p))
      /\ tdMax'[p] = Smaller(tdMax[p], own[q] - own[p])
  BY <1>1, <1>2 DEF Exchange, TightenMin, TightenMax, TypeOK
<1>4. net'[p] = <<>> /\ net'[q] = <<Message(p, v)>>
  BY <1>1, <1>2, Answered
<1>5. Lockstep'
  <2>1. CASE v = Invalid /\ pc'[p] = "finish"
    <3>1. Leaving(q, p)'
      BY <1>1, <1>2, <1>4, <2>1 DEF Leaving, Frame, Facts, InLoop, Out, Message
    <3> QED
      BY <1>1, <3>1 DEF Lockstep, Facts
  <2>2. CASE v = Clock(p) /\ pc'[p] = pc[p]
    <3>1. Reading(p)' = Message(p, v)
      BY <1>3, <2>2 DEF Reading, Message
    <3>2. TrueTime(q)' <= TrueTime(p)'
      BY <1>1, <1>3 DEF Facts, Frame, TrueTime
    <3>3. CASE pc[p] = "refLoop"
      <4>1. Looping(p, q)'
        BY <1>1, <1>2, <1>4, <2>2, <3>1, <3>2, <3>3 DEF Looping, Frame, InLoop
      <4> QED
        BY <4>1 DEF Lockstep
    <3>4. CASE pc[p] = "clientLoop"
      <4>1. Looping(q, p)'
        BY <1>1, <1>2, <1>4, <2>2, <3>1, <3>2, <3>4 DEF Looping, Frame, InLoop
      <4> QED
        BY <1>1, <4>1 DEF Lockstep, Facts
    <3> QED
      BY <3>3, <3>4 DEF InLoop
  <2> QED
    BY <2>1, <2>2
<1>6. tdMin'[p] <= Difference(p) /\ Difference(p) <= tdMax'[p]
  BY SMTT(30), <1>1, <1>2, <1>3 DEF Alone, Facts, HasBracket, InLoop, Larger, Smaller
<1>7. Alone(p)'
  BY SMTT(30), <1>1, <1>2, <1>3, <1>6
     DEF Alone, Facts, Frame, TrueTime, HasBracket, IsRef, Difference, InLoop
<1> QED
  BY <1>5, <1>7, Assemble

\* One pass of the reference's loop, by what it has received and answers.
LEMMA RefRoundInv ==
  ASSUME IInv, NEW p \in Rank, RefRound(p)
  PROVE  IInv'
<1>1. Facts(p) /\ TypeOK /\ Step(p) /\ Alone(p)
  BY FactsHold, AloneInv DEF IInv, Step
<1>2. pc[p] = "refLoop" /\ InLoop(p) /\ net[p] # <<>> /\ k' = k
  BY DEF RefRound, Waiting, InLoop
<1>3. CASE Got(p) < 0
  <2>1. Recv(p) /\ pc'[p] = "finish" /\ UNCHANGED <<now, k, own, tdMin, tdMax>>
    BY <1>1, <1>3 DEF RefRound, TypeOK, bracket
  <2>2. Alone(p)'
    BY <1>1, <1>2, <2>1 DEF Alone, TrueTime, HasBracket, Difference
  <2> QED
    BY <1>1, <1>2, <1>3, <2>1, <2>2, LoopStop, Assemble
<1>4. CASE ~(Got(p) < 0)
  <2> DEFINE last == EarlyStop(p) \/ i[p] + 1 >= Number_ping_pongs
  <2>1. /\ Exchange(p, Got(p))
        /\ RecvSend(p, IF last THEN Invalid ELSE Clock(p))
        /\ pc'[p] = IF last THEN "finish" ELSE pc[p]
    BY <1>1, <1>4 DEF RefRound, RoundsDone, TypeOK
  <2> HIDE DEF last
  <2>2. Invalid \in Int /\ Clock(p) \in Int
    BY <1>1 DEF Facts, Invalid
  <2>3. CASE last
    BY <1>1, <1>2, <1>4, <2>1, <2>2, <2>3, LoopAnswer
  <2>4. CASE ~last
    BY <1>1, <1>2, <1>4, <2>1, <2>2, <2>4, LoopAnswer
  <2> QED
    BY <2>3, <2>4
<1> QED
  BY <1>3, <1>4

\* One pass of the client's loop, by what it has received and answers.
LEMMA ClientRoundInv ==
  ASSUME IInv, NEW p \in Rank, ClientRound(p)
  PROVE  IInv'
<1>1. Facts(p) /\ TypeOK /\ Step(p) /\ Alone(p)
  BY FactsHold, AloneInv DEF IInv, Step
<1>2. pc[p] = "clientLoop" /\ InLoop(p) /\ net[p] # <<>> /\ k' = k
  BY DEF ClientRound, Waiting, InLoop
<1>3. CASE Got(p) < 0
  <2>1. /\ Recv(p) /\ pc'[p] = "finish" /\ own'[p] = Clock(p)
        /\ UNCHANGED <<now, k, tdMin, tdMax>>
    BY <1>1, <1>3 DEF ClientRound, TypeOK, bracket
  <2>2. Alone(p)'
    BY <1>1, <1>2, <2>1 DEF Alone, Facts, TrueTime, HasBracket, Difference
  <2> QED
    BY <1>1, <1>2, <1>3, <2>1, <2>2, LoopStop, Assemble
<1>4. CASE ~(Got(p) < 0)
  <2>1. /\ Exchange(p, Got(p))
        /\ RecvSend(p, IF EarlyStop(p) THEN Invalid ELSE Clock(p))
        /\ pc'[p] = IF EarlyStop(p) THEN "finish" ELSE pc[p]
    BY <1>1, <1>4 DEF ClientRound, TypeOK
  <2>2. Invalid \in Int /\ Clock(p) \in Int
    BY <1>1 DEF Facts, Invalid
  <2>3. CASE EarlyStop(p)
    BY <1>1, <1>2, <1>4, <2>1, <2>2, <2>3, LoopAnswer
  <2>4. CASE ~EarlyStop(p)
    BY <1>1, <1>2, <1>4, <2>1, <2>2, <2>4, LoopAnswer
  <2> QED
    BY <2>3, <2>4
<1> QED
  BY <1>3, <1>4

\* Leaving a measurement disturbs neither the channels nor the other side.
LEMMA FinishInv ==
  ASSUME IInv, NEW p \in Rank, Finish(p)
  PROVE  IInv'
<1> DEFINE q == Other(p)
<1>1. Facts(p) /\ Lockstep /\ TypeOK /\ Step(p) /\ Alone(p)
  BY FactsHold, AloneInv DEF IInv, Step
<1>2. Frame(p)
  BY <1>1, FrameStep
<1>3. /\ pc[p] = "finish" /\ pc'[p] = "idle"
      /\ UNCHANGED <<now, net, k, own, tdMin, tdMax>>
  BY <1>1 DEF Finish, TypeOK, bracket
<1>4. Reading(q)' = Reading(q) /\ Message(q, Invalid)' = Message(q, Invalid)
      /\ Message(p, Invalid)' = Message(p, Invalid)
  BY <1>3 DEF Reading, Message
<1>5. \/ Apart(p, q)' \/ RefAhead(q, p)' \/ ClientAhead(q, p)' \/ Leaving(q, p)'
  <2>1. Out(p) /\ Out(p)' /\ ~InLoop(p) /\ pc'[q] = pc[q]
    BY <1>2, <1>3 DEF Out, InLoop, Frame
  <2>2. \/ Apart(p, q) \/ RefAhead(q, p) \/ ClientAhead(q, p) \/ Leaving(q, p)
    BY <1>1, <2>1, AtIdle
  <2>3. Out(q)' <=> Out(q)
    BY <2>1 DEF Out
  <2>4. InLoop(q)' <=> InLoop(q)
    BY <2>1 DEF InLoop
  <2> QED
    BY <1>3, <1>4, <2>1, <2>2, <2>3, <2>4 DEF Apart, RefAhead, ClientAhead, Leaving
<1>6. Alone(p)'
  BY <1>1, <1>3 DEF Alone, TrueTime, HasBracket
<1> QED
  BY <1>1, <1>5, <1>6, Assemble DEF Lockstep, Facts

\* Time alone makes no reading younger than the present.
LEMMA TickInv ==
  ASSUME IInv, Tick
  PROVE  IInv'
<1>1. TypeOK'
  BY MaxTimeAssumption DEF Tick, IInv, TypeOK, bracket
<1>2. Lockstep'
  BY DEF Tick, IInv, Lockstep, Apart, RefAhead, ClientAhead, Greeting, Looping,
     Leaving, Reading, Message, TrueTime, Out, InLoop
<1>3. Past'
  <2> SUFFICES ASSUME NEW p \in Rank
               PROVE  own'[p] >= 0 /\ TrueTime(p)' <= now'
    BY DEF Past
  <2>1. Facts(p)
    BY FactsHold
  <2> QED
    BY <2>1 DEF Facts, Tick, TrueTime
<1>4. InRole' /\ HalfBracket' /\ BracketSound'
  BY DEF Tick, IInv, InRole, HalfBracket, BracketSound, HasBracket, IsRef,
     Difference, bracket
<1> QED
  BY <1>1, <1>2, <1>3, <1>4 DEF IInv

\* The invariant is inductive.
LEMMA NextInv == IInv /\ [Next]_vars => IInv'
<1> SUFFICES ASSUME IInv, [Next]_vars PROVE IInv'
  OBVIOUS
<1>1. CASE Tick
  BY <1>1, TickInv
<1>2. ASSUME NEW p \in Rank, Step(p) PROVE IInv'
  BY <1>2, RefEnterInv, RefHandshakeInv, RefRoundInv, ClientEnterInv,
     ClientHandshakeInv, ClientHandshake2Inv, ClientRoundInv, FinishInv DEF Step
<1>3. CASE UNCHANGED vars
  BY ZenonT(30), <1>3 DEF vars, bracket, IInv, TypeOK, Past, InRole, Lockstep, HalfBracket,
     BracketSound, HasBracket, IsRef, Difference, Apart, RefAhead, ClientAhead,
     Greeting, Looping, Leaving, Reading, Message, TrueTime, Out, InLoop
<1> QED
  BY <1>1, <1>2, <1>3 DEF Next, Stop

-----------------------------------------------------------------------------
(* The rounds.                                                             *)

\* The rounds of a measurement, the handshake included.
Rounds == Larger(2, Number_ping_pongs)

\* What the round counters of a pair are at each joint position: the reference
\* counts a round when it answers, the client when it is answered, and only the
\* reference says stop, after the last round.
Count(p) ==
  LET q == Other(p) IN
  /\ pc[p] = "refLoop" => i[p] \in 1..(Rounds - 1)
  /\ pc[p] = "refLoop" /\ pc[q] = "clientHandshake2" => i[p] = 1
  /\ pc[p] = "refLoop" /\ pc[q] = "clientLoop" =>
       i[p] = IF net[p] = <<>> THEN i[q] + 1 ELSE i[q]
  /\ InLoop(p) /\ net[p] # <<>> /\ Got(p) < 0 =>
       pc[p] = "clientLoop" /\ i[p] = Rounds - 1
  /\ Out(p) /\ k[p] > 0 => i[p] = Rounds - (IF IsRef(p) THEN 0 ELSE 1)

\* No ping-pong time above zero is ever looked up, so nobody stops early.
RoundInv == \A p \in Rank : ppmt[p] \in {-1, 0} /\ Count(p)

\* What a step of rank p may assume about the counters of both sides.
RoundFacts(p) ==
  LET q == Other(p) IN
  /\ Facts(p) /\ TypeOK /\ Lockstep /\ Frame(p)
  /\ Rounds \in Nat /\ Rounds >= 2 /\ Rounds >= Number_ping_pongs
  /\ Rounds = 2 \/ Rounds = Number_ping_pongs
  /\ i[p] \in Nat /\ i[q] \in Nat /\ i'[q] = i[q]
  /\ Count(p) /\ Count(q) /\ ~EarlyStop(p)

\* The invariants give these facts: a round trip takes no negative time, so it is
\* never below a ping-pong time of zero.
LEMMA RoundFactsHold ==
  ASSUME IInv, RoundInv, NEW p \in Rank, Step(p)
  PROVE  RoundFacts(p)
<1> DEFINE q == Other(p)
<1>1. Facts(p) /\ TypeOK /\ Lockstep /\ Frame(p)
  BY FactsHold, FrameStep DEF IInv
<1>2. /\ Rounds \in Nat /\ Rounds >= 2 /\ Rounds >= Number_ping_pongs
      /\ Rounds = 2 \/ Rounds = Number_ping_pongs
  BY PingPongAssumption DEF Rounds, Larger
<1>3. i[p] \in Nat /\ i[q] \in Nat
  BY <1>1 DEF TypeOK, Facts
<1>4. i'[q] = i[q]
  BY <1>1 DEF Step, Facts, RefEnter, RefHandshake, RefRound, ClientEnter, ClientHandshake,
     ClientHandshake2, ClientRound, Finish, TypeOK
<1>5. ~EarlyStop(p)
  <2>1. CASE ppmt[p] = -1
    BY <2>1 DEF EarlyStop
  <2>2. CASE ppmt[p] = 0
    <3>1. Clock(p) \in Int /\ own[p] \in Int /\ Clock(p) - own[p] >= 0
      BY <1>1 DEF Facts
    <3> QED
      BY <2>2, <3>1 DEF EarlyStop
  <2> QED
    BY <2>1, <2>2 DEF RoundInv
<1> QED
  BY <1>1, <1>2, <1>3, <1>4, <1>5 DEF RoundInv, RoundFacts, Facts

\* What is answered with a reading is not taken for the stop sign.
LEMMA AnsweredReading ==
  ASSUME NEW p \in Rank, RoundFacts(p), NEW x, net[p] = <<x>>, net[Other(p)] = <<>>,
         RecvSend(p, Clock(p))
  PROVE  /\ net'[p] = <<>> /\ net'[Other(p)] # <<>>
         /\ ~(Got(Other(p)) < 0)'
<1> DEFINE q == Other(p)
<1>1. TypeOK /\ Clock(p) \in Nat /\ q \in Rank
  BY DEF RoundFacts, Facts
<1>2. net'[p] = <<>> /\ net'[q] = <<Message(p, Clock(p))>>
  <2>1. Clock(p) \in Int
    BY <1>1
  <2> QED
    BY <1>1, <2>1, Answered
<1> QED
  BY <1>1, <1>2, ShortQueues DEF Got, Message

\* A side that enters finds the other out of the loop, or about to take the stop sign.
LEMMA RefEnterRounds ==
  ASSUME IInv, RoundInv, NEW p \in Rank, RefEnter(p)
  PROVE  Count(p)' /\ Count(Other(p))'
<1> DEFINE q == Other(p)
<1>1. RoundFacts(p)
  BY RoundFactsHold DEF Step
<1>2. /\ pc[p] = "idle" /\ pc'[p] = "refHandshake" /\ pc'[q] = pc[q] /\ k'[q] = k[q]
      /\ net'[q] = Append(net[q], [m |-> k[p] + 1, v |-> Clock(p)])
  BY <1>1 DEF RefEnter, TypeOK, RoundFacts, Facts, Frame
<1>3. Count(p)'
  BY <1>2 DEF Count, Out, InLoop
<1>4. InLoop(q) => pc[q] = "clientLoop" /\ i[q] = Rounds - 1
  <2> SUFFICES ASSUME InLoop(q) PROVE pc[q] = "clientLoop" /\ i[q] = Rounds - 1
    OBVIOUS
  <2>1. Leaving(q, p)
    BY <1>1, <1>2, AtIdle DEF RoundFacts, Out, InLoop, Apart, RefAhead, ClientAhead
  <2>2. net[q] # <<>> /\ Got(q) < 0
    BY <2>1, ShortQueues DEF Leaving, Got, Message, Invalid
  <2> QED
    BY <1>1, <2>2 DEF RoundFacts, Count, Out
<1>5. Count(q)'
  <2>1. IsRef(q)' <=> IsRef(q)
    BY <1>2 DEF IsRef
  <2>2. Other(q) = p
    BY <1>1 DEF RoundFacts, Facts
  <2> QED
    BY <1>1, <1>2, <1>4, <2>1, <2>2 DEF RoundFacts, Count, Out, InLoop
<1> QED
  BY <1>3, <1>5

\* The client's entering leaves the messages alone.
LEMMA ClientEnterRounds ==
  ASSUME IInv, RoundInv, NEW p \in Rank, ClientEnter(p)
  PROVE  Count(p)' /\ Count(Other(p))'
<1> DEFINE q == Other(p)
<1>1. RoundFacts(p)
  BY RoundFactsHold DEF Step
<1>2. /\ pc[p] = "idle" /\ pc'[p] = "clientHandshake" /\ pc'[q] = pc[q] /\ k'[q] = k[q]
      /\ net' = net
  BY <1>1 DEF ClientEnter, TypeOK, RoundFacts, Facts, Frame
<1>3. Count(p)'
  BY <1>2 DEF Count, Out, InLoop
<1>4. Count(q)'
  <2>1. (IsRef(q)' <=> IsRef(q)) /\ Got(q)' = Got(q) /\ (InLoop(q)' <=> InLoop(q))
    BY <1>2 DEF IsRef, Got, InLoop
  <2>2. Other(q) = p
    BY <1>1 DEF RoundFacts, Facts
  <2>3. pc[q] = "refLoop" => pc[p] # "clientLoop" /\ pc[p] # "clientHandshake2"
    BY <1>2
  <2> QED
    BY <1>1, <1>2, <2>1, <2>2, <2>3 DEF RoundFacts, Count, Out
<1> QED
  BY <1>3, <1>4

\* The reference's first round.
LEMMA RefHandshakeRounds ==
  ASSUME IInv, RoundInv, NEW p \in Rank, RefHandshake(p)
  PROVE  Count(p)' /\ Count(Other(p))'
<1> DEFINE q == Other(p)
<1>1. RoundFacts(p)
  BY RoundFactsHold DEF Step
<1>2. pc[q] = "clientHandshake2" /\ net[p] = <<Reading(q)>> /\ net[q] = <<>>
  BY <1>1, AtRefHandshake DEF RefHandshake, Waiting, RoundFacts
<1>3. /\ pc'[p] = "refLoop" /\ pc'[q] = "clientHandshake2" /\ i'[p] = 1
      /\ RecvSend(p, Clock(p))
  BY <1>1, <1>2 DEF RefHandshake, TypeOK, RoundFacts, Facts, Frame
<1>4. net'[p] = <<>>
  BY <1>1, <1>2, <1>3, AnsweredReading
<1>5. Count(p)'
  BY <1>1, <1>3, <1>4 DEF RoundFacts, Count, Out
<1>6. Count(q)'
  BY <1>3 DEF Count, Out, InLoop
<1> QED
  BY <1>5, <1>6

\* The client has no round to count yet.
LEMMA ClientHandshakeRounds ==
  ASSUME IInv, RoundInv, NEW p \in Rank, ClientHandshake(p)
  PROVE  Count(p)' /\ Count(Other(p))'
<1> DEFINE q == Other(p)
<1>1. RoundFacts(p)
  BY RoundFactsHold DEF Step
<1>2. pc[q] = "refHandshake"
  BY <1>1, AtClientHandshake DEF ClientHandshake, Waiting, RoundFacts
<1>3. pc'[p] = "clientHandshake2" /\ pc'[q] = "refHandshake"
  BY <1>1, <1>2 DEF ClientHandshake, TypeOK, RoundFacts, Frame
<1> QED
  BY <1>3 DEF Count, Out, InLoop

\* The client's first round, which the reference has counted when it answered.
LEMMA ClientHandshake2Rounds ==
  ASSUME IInv, RoundInv, NEW p \in Rank, ClientHandshake2(p)
  PROVE  Count(p)' /\ Count(Other(p))'
<1> DEFINE q == Other(p)
<1>1. RoundFacts(p)
  BY RoundFactsHold DEF Step
<1>2. /\ pc[p] = "clientHandshake2" /\ pc[q] = "refLoop"
      /\ net[p] = <<Reading(q)>> /\ net[q] = <<>>
  BY <1>1, AtClientHandshake2 DEF ClientHandshake2, Waiting, RoundFacts
<1>3. /\ pc'[p] = "clientLoop" /\ pc'[q] = "refLoop" /\ i'[p] = 1
      /\ RecvSend(p, Clock(p))
  BY <1>1, <1>2 DEF ClientHandshake2, TypeOK, RoundFacts, Facts, Frame
<1>4. net'[p] = <<>> /\ net'[q] # <<>> /\ ~(Got(q) < 0)'
  BY <1>1, <1>2, <1>3, AnsweredReading
<1>5. Count(p)'
  BY <1>3, <1>4 DEF Count, Out
<1>6. Count(q)'
  <2>1. Other(q) = p /\ q \in Rank
    BY <1>1 DEF RoundFacts, Facts
  <2>2. i[q] = 1 /\ i[q] \in 1..(Rounds - 1)
    BY <1>1, <1>2, <2>1 DEF RoundFacts, Count, Out
  <2> QED
    BY <1>1, <1>3, <1>4, <2>1, <2>2 DEF RoundFacts, Count, Out
<1> QED
  BY <1>5, <1>6

\* The reference hears no stop sign; it counts the round and says stop after the last.
LEMMA RefRoundRounds ==
  ASSUME IInv, RoundInv, NEW p \in Rank, RefRound(p)
  PROVE  Count(p)' /\ Count(Other(p))'
<1> DEFINE q == Other(p)
<1>1. RoundFacts(p)
  BY RoundFactsHold DEF Step
<1>2. pc[p] = "refLoop" /\ InLoop(p) /\ net[p] # <<>>
  BY DEF RefRound, Waiting, InLoop
<1>3. ~(Got(p) < 0)
  BY <1>1, <1>2 DEF RoundFacts, Count, Out
<1>4. pc[q] = "clientLoop" /\ net[p] = <<Reading(q)>> /\ net[q] = <<>>
  BY <1>2, <1>3, LoopReading DEF InLoop
<1>5. i[p] = i[q] /\ i[p] \in 1..(Rounds - 1)
  BY <1>1, <1>2, <1>4 DEF RoundFacts, Count, Out
<1>6. i'[p] = i[p] + 1 /\ k'[p] = k[p] /\ k' = k
  BY <1>1, <1>3 DEF RefRound, RoundsDone, RoundFacts, TypeOK
<1>7. Other(q) = p /\ q \in Rank /\ pc'[q] = "clientLoop" /\ i'[q] = i[q]
  BY <1>1, <1>4 DEF RoundFacts, Facts, Frame
<1>8. IsRef(p)'
  BY <1>2, <1>6 DEF IInv, InRole, IsRef
<1>9. CASE i[p] + 1 >= Number_ping_pongs
  <2>1. pc'[p] = "finish" /\ RecvSend(p, Invalid)
    BY <1>1, <1>3, <1>9 DEF RefRound, RoundsDone, RoundFacts, TypeOK
  <2>2. i'[p] = Rounds
    BY <1>1, <1>5, <1>6, <1>9, PingPongAssumption DEF RoundFacts
  <2>3. Count(p)'
    BY <1>1, <1>8, <2>1, <2>2 DEF Count, Out, InLoop, RoundFacts
  <2>4. i[q] = Rounds - 1
    BY <1>1, <1>5, <1>6, <2>2 DEF RoundFacts
  <2>5. Count(q)'
    BY <1>7, <2>1, <2>4 DEF Count, Out
  <2> QED
    BY <2>3, <2>5
<1>10. CASE ~(i[p] + 1 >= Number_ping_pongs)
  <2>1. pc'[p] = "refLoop" /\ RecvSend(p, Clock(p))
    BY <1>1, <1>2, <1>3, <1>10 DEF RefRound, RoundsDone, RoundFacts, TypeOK
  <2>2. net'[p] = <<>> /\ ~(Got(q) < 0)'
    BY <1>1, <1>4, <2>1, AnsweredReading
  <2>3. i'[p] \in 1..(Rounds - 1)
    BY <1>1, <1>5, <1>6, <1>10, PingPongAssumption DEF RoundFacts
  <2>4. Count(p)'
    BY <1>5, <1>6, <1>7, <2>1, <2>2, <2>3 DEF Count, Out
  <2>5. Count(q)'
    BY <1>7, <2>2 DEF Count, Out
  <2> QED
    BY <2>4, <2>5
<1> QED
  BY <1>9, <1>10

\* The client counts the rounds it is answered in, and leaves on the stop sign.
LEMMA ClientRoundRounds ==
  ASSUME IInv, RoundInv, NEW p \in Rank, ClientRound(p)
  PROVE  Count(p)' /\ Count(Other(p))'
<1> DEFINE q == Other(p)
<1>1. RoundFacts(p)
  BY RoundFactsHold DEF Step
<1>2. pc[p] = "clientLoop" /\ InLoop(p) /\ net[p] # <<>> /\ k' = k
  BY DEF ClientRound, Waiting, InLoop
<1>3. Other(q) = p /\ q \in Rank /\ pc'[q] = pc[q] /\ i'[q] = i[q]
  BY <1>1 DEF RoundFacts, Facts, Frame
<1>4. (IsRef(p)' <=> IsRef(p)) /\ (IsRef(q)' <=> IsRef(q)) /\ ~IsRef(p)
  BY <1>2 DEF IsRef, IInv, InRole
<1>5. CASE Got(p) < 0
  <2>1. pc'[p] = "finish" /\ i'[p] = i[p] /\ Recv(p)
    BY <1>1, <1>5 DEF ClientRound, RoundFacts, TypeOK
  <2>2. i[p] = Rounds - 1
    BY <1>1, <1>2, <1>5 DEF RoundFacts, Count, Out
  <2>3. Count(p)'
    BY <1>4, <2>1, <2>2 DEF Count, Out, InLoop
  <2>4. ~InLoop(q)
    <3>1. net[p] # <<Reading(q)>>
      BY <1>1, <1>5, ShortQueues DEF Got, Reading, Message, RoundFacts, Facts
    <3> QED
      BY <1>1, <1>2, <3>1, AtLoop DEF RoundFacts, Leaving, RefAhead, ClientAhead, Out, InLoop
  <2>5. Count(q)'
    BY <1>1, <1>2, <1>3, <1>4, <2>4 DEF RoundFacts, Count, Out, InLoop
  <2> QED
    BY <2>3, <2>5
<1>6. CASE ~(Got(p) < 0)
  <2>1. pc[q] = "refLoop" /\ net[p] = <<Reading(q)>> /\ net[q] = <<>>
    BY <1>2, <1>6, LoopReading DEF InLoop
  <2>2. pc'[p] = "clientLoop" /\ i'[p] = i[p] + 1 /\ RecvSend(p, Clock(p))
    BY <1>1, <1>2, <1>6 DEF ClientRound, RoundFacts, TypeOK
  <2>3. net'[p] = <<>>
    BY <1>1, <2>1, <2>2, AnsweredReading
  <2>4. net'[q] # <<>> /\ ~(Got(q) < 0)'
    BY <1>1, <2>1, <2>2, AnsweredReading
  <2>5. i[q] = i[p] + 1 /\ i[q] \in 1..(Rounds - 1)
    BY <1>1, <1>2, <1>3, <2>1 DEF RoundFacts, Count, Out
  <2>6. Count(p)'
    BY <2>2, <2>3 DEF Count, Out
  <2>7. Count(q)'
    BY <1>3, <2>1, <2>2, <2>4, <2>5 DEF Count, Out
  <2> QED
    BY <2>6, <2>7
<1> QED
  BY <1>5, <1>6

\* Who leaves changes no counter.
LEMMA FinishRounds ==
  ASSUME IInv, RoundInv, NEW p \in Rank, Finish(p)
  PROVE  Count(p)' /\ Count(Other(p))'
<1> DEFINE q == Other(p)
<1>1. RoundFacts(p)
  BY RoundFactsHold DEF Step
<1>2. /\ pc[p] = "finish" /\ pc'[p] = "idle" /\ pc'[q] = pc[q]
      /\ i'[q] = i[q] /\ i'[p] = i[p] /\ k' = k /\ net' = net /\ Other(q) = p
  BY <1>1 DEF Finish, RoundFacts, Facts, Frame, TypeOK
<1>3. Count(p)'
  <2>1. IsRef(p)' <=> IsRef(p)
    BY <1>2 DEF IsRef
  <2> QED
    BY <1>1, <1>2, <2>1 DEF RoundFacts, Count, Out, InLoop
<1>4. (IsRef(q)' <=> IsRef(q)) /\ Got(q)' = Got(q) /\ (InLoop(q)' <=> InLoop(q))
  BY <1>2 DEF IsRef, Got, InLoop
<1>5. Count(q)'
  BY <1>1, <1>2, <1>4 DEF RoundFacts, Count, Out
<1> QED
  BY <1>3, <1>5

\* No step looks up a ping-pong time that could stop a measurement early.
LEMMA NoTimeKept ==
  ASSUME TypeOK, RoundInv, NEW p \in Rank, Step(p)
  PROVE  \A r \in Rank : ppmt'[r] \in {-1, 0}
<1>1. ppmt' = ppmt \/ ppmt' = [ppmt EXCEPT ![p] = LookupTime(p)]
  BY DEF Step, RefEnter, RefHandshake, RefRound, ClientEnter, ClientHandshake,
     ClientHandshake2, ClientRound, Finish, Lookup
<1>2. LookupTime(p) \in {-1, 0}
  BY DEF LookupTime
<1>3. ppmt \in [Rank -> Int] /\ \A r \in Rank : ppmt[r] \in {-1, 0}
  BY DEF TypeOK, RoundInv
<1> QED
  BY <1>1, <1>2, <1>3

\* The counters fit together from the start and after every step.
LEMMA RoundInvariance == IInv /\ RoundInv /\ [Next]_vars => RoundInv'
<1> SUFFICES ASSUME IInv, RoundInv, [Next]_vars PROVE RoundInv'
  OBVIOUS
<1>1. ASSUME NEW p \in Rank, Step(p) PROVE RoundInv'
  <2>1. Count(p)' /\ Count(Other(p))'
    BY <1>1, RefEnterRounds, RefHandshakeRounds, RefRoundRounds, ClientEnterRounds,
       ClientHandshakeRounds, ClientHandshake2Rounds, ClientRoundRounds, FinishRounds DEF Step
  <2>2. \A r \in Rank : r = p \/ r = Other(p)
    BY Others
  <2>3. \A r \in Rank : Count(r)'
    BY <2>1, <2>2
  <2>4. \A r \in Rank : ppmt'[r] \in {-1, 0}
    BY <1>1, NoTimeKept DEF IInv
  <2> QED
    BY <2>3, <2>4 DEF RoundInv
<1>2. CASE UNCHANGED <<net, k, pc, i, ppmt>>
  BY <1>2 DEF RoundInv, Count, Out, InLoop, Got, IsRef
<1> QED
  BY <1>1, <1>2 DEF Next, Stop, Tick, vars

-----------------------------------------------------------------------------
(* The theorems.                                                           *)

\* For every value of the constants the inductive invariant holds throughout: the
\* locals of measure_offset keep their types and the two sides stay in lockstep.
THEOREM Invariance == Spec => []IInv
  BY InitInv, NextInv, PTL DEF Spec

\* The bracket either side keeps around the difference of the clocks holds it,
\* whatever the skews, the delays and the number of measurements and rounds.
THEOREM BracketIsSound == Spec => []BracketSound
<1>1. IInv => BracketSound
  BY DEF IInv
<1> QED
  BY <1>1, Invariance, PTL

\* A receive of one measurement never takes a message of another.
THEOREM NoStrayMessage == Spec => []NoCrossTalk
<1>1. IInv => NoCrossTalk
  <2> SUFFICES ASSUME IInv, NEW p \in Rank, pc[p] \notin {"idle", "finish"},
                      net[p] # <<>>
               PROVE  Head(net[p]).m = k[p]
    BY DEF NoCrossTalk
  <2> DEFINE q == Other(p)
  <2>1. Lockstep /\ TypeOK
    BY DEF IInv
  <2>2. CASE InLoop(p)
    <3>1. \/ k[p] = k[q] /\ net[p] = <<Reading(q)>>
          \/ net[p] = <<Message(p, Invalid)>>
          \/ net[p] = <<Message(p, Invalid), Reading(q)>>
      BY <2>1, <2>2, AtLoop DEF Leaving
    <3> QED
      BY <3>1, ShortQueues DEF Reading, Message
  <2>3. CASE ~InLoop(p)
    <3>1. pc[p] \in {"refHandshake", "clientHandshake", "clientHandshake2"}
      BY <2>1, <2>3 DEF TypeOK, Place, InLoop
    <3>2. k[p] = k[q] /\ net[p] = <<Reading(q)>>
      BY <2>1, <3>1, AtRefHandshake, AtClientHandshake, AtClientHandshake2 DEF Waiting
    <3> QED
      BY <3>2, ShortQueues DEF Reading, Message
  <2> QED
    BY <2>2, <2>3
<1> QED
  BY <1>1, Invariance, PTL

\* The offset returned on either side is off by at most half the bracket.
THEOREM OffsetIsAccurate == Spec => OffsetAccurate
<1> DEFINE Accurate(p) ==
      LET client == IF IsRef(p) THEN Other(p) ELSE p
          error == result'[p].off2 - 2 * (Skew[client] - Skew[Other(client)])
          width == tdMax[p] - tdMin[p]
      IN  -width <= error /\ error <= width
<1>1. ASSUME IInv, NEW p \in Rank, Finish(p)
      PROVE  Accurate(p)
  <2>1. Facts(p) /\ Alone(p) /\ TypeOK
    BY <1>1, FactsHold, AloneInv
  <2>2. tdMin[p] <= Difference(p) /\ Difference(p) <= tdMax[p]
    BY <1>1, <2>1 DEF Finish, Alone, HasBracket
  <2>3. result'[p].off2 = Offset2(p)
    BY <1>1, <2>1 DEF Finish, TypeOK
  <2>4. CASE IsRef(p)
    BY <2>1, <2>2, <2>3, <2>4 DEF Facts, Offset2
  <2>5. CASE ~IsRef(p)
    BY <2>1, <2>2, <2>3, <2>5 DEF Facts, Offset2
  <2> QED
    BY <2>4, <2>5
<1>2. IInv /\ [Next]_vars => [\A p \in Rank : Finish(p) => Accurate(p)]_vars
  BY <1>1
<1> QED
  BY <1>2, Invariance, PTL DEF Spec, OffsetAccurate

\* The locals of measure_offset keep their types, for every value of the constants.
THEOREM TypeCorrect == Spec => []TypeOK
<1>1. IInv => TypeOK
  BY DEF IInv
<1> QED
  BY <1>1, Invariance, PTL

\* The two sides take strict turns, at most one measurement apart, and the messages
\* in flight are those of the turn.
THEOREM StrictTurns == Spec => []Lockstep
<1>1. IInv => Lockstep
  BY DEF IInv
<1> QED
  BY <1>1, Invariance, PTL

\* The two counters of a measurement agree when both sides have left it, whatever the
\* hash of ping-pong times held on either side.
THEOREM RoundsAlwaysAgree == Spec => []RoundsAgree
<1>1. Init => RoundInv
  BY DEF Init, RoundInv, Count, InLoop, Out
<1>2. IInv /\ RoundInv => RoundsAgree
  <2> SUFFICES ASSUME IInv, RoundInv, NEW p \in Rank, Out(p), Out(Other(p)),
                      k[p] = k[Other(p)], k[p] > 0, IsRef(p)
               PROVE  /\ i[p] = i[Other(p)] + 1 /\ i[p] = Rounds
                      /\ i[Other(p)] >= Smaller(Minimum_ping_pongs, Rounds - 1)
    BY PingPongAssumption DEF RoundsAgree, Rounds, Larger, Smaller
  <2>1. Other(p) \in Rank /\ Other(p) # p
    BY Others
  <2>2. ~IsRef(Other(p))
    BY <2>1 DEF IsRef
  <2>3. Rounds \in Int
    BY PingPongAssumption DEF Rounds, Larger
  <2>4. Count(p) /\ Count(Other(p))
    BY <2>1 DEF RoundInv
  <2>5. i[p] = Rounds
    BY <2>3, <2>4 DEF Count
  <2>6. i[Other(p)] = Rounds - 1
    BY <2>2, <2>4 DEF Count
  <2> QED
    BY <2>3, <2>5, <2>6, PingPongAssumption DEF Smaller
<1> QED
  BY <1>1, <1>2, Invariance, RoundInvariance, PTL DEF Spec
=============================================================================
