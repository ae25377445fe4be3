----------------------------- MODULE HCA3Proofs -----------------------------
(***************************************************************************)
(* HCA3 and HCA3O on any number of ranks, without barriers.  Every call is *)
(* an edge of the tree; the two ends of an edge are never further apart    *)
(* than one measurement, however far the rest of the ranks is.  From that, *)
(* how accurate the clocks are, and that the rounds keep SyncTree's        *)
(* promise.  ScheduleProofs has the lemmas on the tree.                    *)
(***************************************************************************)
EXTENDS HCA3, ScheduleProofs

-----------------------------------------------------------------------------
(* The inductive invariant                                                 *)

Client == Rank \ {0}

\* The synchronisations in which r is past round i, and its measurements in round i.
Past(r, i) == IF round[r] < i THEN syncs[r] ELSE syncs[r] - 1
Within(r, i) == IF round[r] = i THEN done[r] ELSE 0

Types ==
  /\ setting \in Settings
  /\ round \in [Rank -> -1..NRounds(nprocs)]
  /\ syncs \in [Rank -> Nat]
  /\ done \in [Rank -> Nat]
  /\ DOMAIN fit = Rank /\ fit = [r \in Rank |-> fit[r]]
  /\ DOMAIN answer = Rank /\ answer = [r \in Rank |-> answer[r]]
  /\ DOMAIN my_clock = Rank /\ my_clock = [r \in Rank |-> my_clock[r]]
  /\ DOMAIN global = Rank /\ global = [r \in Rank |-> global[r]]

\* A sequence of n entries.
Holds(seq, n) == seq \in Seq({seq[k] : k \in DOMAIN seq}) /\ Len(seq) = n

\* A rank counts measurements only in the rounds in which it has a call, and collects
\* them only in the one in which it learns.
Own(r) ==
  /\ done[r] < Measurements
  /\ done[r] > 0 => MyCall(r) # {}
  /\ IF r # 0 /\ round[r] = Learns[r]
     THEN Holds(fit[r], done[r]) ELSE fit[r] = <<>>
  /\ r = 0 => answer[r] = {}

\* c and its reference p have done the same, but for an answer that c has not taken.
Edge(c) ==
  LET p == Parents[c]
      i == Learns[c]
  IN  \/ answer[c] = {} /\ Past(p, i) = Past(c, i) /\ Within(p, i) = Within(c, i)
      \/ /\ round[c] = i /\ \E point \in answer[c] : answer[c] = {point}
         /\ \/ Past(p, i) = Past(c, i) /\ Within(p, i) = Within(c, i) + 1
            \/ /\ Past(p, i) = Past(c, i) + 1
               /\ Within(p, i) = 0 /\ Within(c, i) + 1 = Measurements

IInv == Types /\ (\A r \in Rank : Own(r)) /\ \A c \in Client : Edge(c)

-----------------------------------------------------------------------------
(* Calls                                                                   *)

LEMMA Size ==
  /\ nprocs \in Nat /\ nprocs > 0 /\ NRounds(nprocs) \in Nat
  /\ Rank = 0..(nprocs - 1) /\ Client = 1..(nprocs - 1) /\ Client \subseteq Rank
<1>1. nprocs \in Nat /\ nprocs > 0
  BY nprocsAssumption
<1> QED BY <1>1, RoundsOf DEF Rank, Client

\* The two ends of a call make the same call.
LEMMA Ends ==
  \A i \in 0..NRounds(nprocs) : \A r \in Rank : \A call \in Call(nprocs, i, r) :
    /\ call[1] \in Rank /\ call[2] \in Rank /\ call[1] # call[2]
    /\ Call(nprocs, i, call[1]) = {call} /\ Call(nprocs, i, call[2]) = {call}
<1> TAKE i \in 0..NRounds(nprocs)
<1> TAKE r \in Rank
<1> TAKE call \in Call(nprocs, i, r)
<1>1. nprocs \in Nat /\ nprocs > 0 /\ Rank = 0..(nprocs - 1) /\ r \in 0..(nprocs - 1)
  BY Size
<1>2. Meet(nprocs, i, call)
  BY <1>1, CallMatches, Zenon
<1> QED BY <1>1, <1>2 DEF Meet

\* Who learns when, from whom.
LEMMA Learning ==
  ASSUME NEW c \in Client
  PROVE  /\ Learns[c] \in 0..NRounds(nprocs) /\ Parents[c] \in Rank /\ Parents[c] # c
         /\ Calls[Learns[c]][c] = {<<Parents[c], c>>}
         /\ Calls[Learns[c]][Parents[c]] = {<<Parents[c], c>>}
<1> DEFINE i == LearnRound(nprocs, c)
           p == ParentOf(nprocs, c)
<1>1. c \in 1..(nprocs - 1) /\ c \in Rank /\ c # 0
  BY Size DEF Client
<1>2. Learns[c] = i /\ Parents[c] = p
  BY <1>1 DEF Learns, Parents
<1>3. ClientRounds(nprocs, c) = {i} /\ i \in 0..NRounds(nprocs)
  BY <1>1, Size, LearnsIn
<1>4. PICK call \in Call(nprocs, i, c) : call[2] = c
  BY <1>3 DEF ClientRounds
<1>5. /\ call[1] \in Rank /\ call[1] # c
      /\ Call(nprocs, i, call[1]) = {call} /\ Call(nprocs, i, c) = {call}
  BY <1>1, <1>3, <1>4, Ends
<1>6. p = call[1]
  BY <1>5 DEF ParentOf
<1>7. call = <<call[1], call[2]>>
  BY <1>4 DEF Call, RoundCall, LastCall
<1>8. Calls[i][c] = Call(nprocs, i, c) /\ Calls[i][p] = Call(nprocs, i, p)
  BY <1>1, <1>3, <1>5, <1>6 DEF Calls
<1> HIDE DEF i, p
<1> QED BY <1>2, <1>3, <1>4, <1>5, <1>6, <1>7, <1>8

\* Every call is an edge.
LEMMA CallIsEdge ==
  ASSUME NEW i \in 0..NRounds(nprocs), NEW r \in Rank, NEW call \in Calls[i][r]
  PROVE  /\ call[2] \in Client /\ call = <<Parents[call[2]], call[2]>>
         /\ i = Learns[call[2]] /\ r \in {call[1], call[2]} /\ Calls[i][r] = {call}
<1>1. call \in Call(nprocs, i, r)
  BY DEF Calls
<1>2. r \in 0..(nprocs - 1)
  BY Size
<1>3. /\ call[1] \in Rank /\ call[2] \in Rank
      /\ Call(nprocs, i, call[1]) = {call} /\ Call(nprocs, i, call[2]) = {call}
  BY <1>1, Ends
<1>4. r \in {call[1], call[2]} /\ Call(nprocs, i, r) = {call}
  BY <1>1, <1>3 DEF Call, RoundCall, LastCall
<1>5. i \in ClientRounds(nprocs, call[2])
  BY <1>3 DEF ClientRounds
<1>6. call[2] \in Client
  BY <1>3, <1>5, Size, RootLearnsNothing DEF Client
<1>7. i = Learns[call[2]]
  <2>1. call[2] \in 1..(nprocs - 1)
    BY <1>6, Size
  <2>2. ClientRounds(nprocs, call[2]) = {LearnRound(nprocs, call[2])}
    BY <2>1, Size, LearnsIn
  <2> QED BY <1>5, <1>6, <2>2 DEF Learns, Client
<1>8. Calls[i][call[2]] = {call} /\ Calls[i][r] = {call}
  BY <1>3, <1>4 DEF Calls
<1>9. {call} = {<<Parents[call[2]], call[2]>>}
  BY <1>6, <1>7, <1>8, Learning
<1> QED BY <1>4, <1>6, <1>7, <1>8, <1>9

LEMMA MyCallIs ==
  ASSUME Types, NEW r \in Rank
  PROVE  MyCall(r) = IF round[r] = -1 THEN {} ELSE Calls[round[r]][r]
<1>1. round[r] \in -1..NRounds(nprocs) /\ NRounds(nprocs) \in Nat
  BY Size DEF Types
<1> QED BY <1>1 DEF MyCall

-----------------------------------------------------------------------------
(* What a step leaves as it was                                            *)

\* A step does not take r into or out of round i.
Keeps(r, i) ==
  /\ Past(r, i)' = Past(r, i) /\ Within(r, i)' = Within(r, i)
  /\ round[r] = i => round'[r] = i

LEMMA EdgeKept ==
  ASSUME NEW c \in Client, Edge(c), setting' = setting, answer'[c] = answer[c],
         Keeps(c, Learns[c]), Keeps(Parents[c], Learns[c])
  PROVE  Edge(c)'
<1>1. Measurements' = Measurements
  BY DEF Measurements
<1> QED BY <1>1 DEF Edge, Keeps

\* A rank that does nothing keeps all its rounds.
LEMMA Resting ==
  ASSUME NEW r \in Rank, round'[r] = round[r], syncs'[r] = syncs[r], done'[r] = done[r]
  PROVE  MyCall(r)' = MyCall(r) /\ \A i \in 0..NRounds(nprocs) : Keeps(r, i)
BY DEF MyCall, Keeps, Past, Within

LEMMA OwnKept ==
  ASSUME NEW r \in Rank, Own(r), setting' = setting, round'[r] = round[r],
         syncs'[r] = syncs[r], done'[r] = done[r], fit'[r] = fit[r],
         r = 0 => answer'[r] = answer[r]
  PROVE  Own(r)'
<1>1. Measurements' = Measurements
  BY DEF Measurements
<1>2. MyCall(r)' = MyCall(r)
  BY Resting
<1> QED BY <1>1, <1>2 DEF Own

\* A step that takes rank r on, and nobody else, and leaves the answers as they are.
Alone(r) ==
  /\ setting' = setting /\ answer' = answer
  /\ \A s \in Rank \ {r} : /\ round'[s] = round[s] /\ syncs'[s] = syncs[s]
                           /\ done'[s] = done[s] /\ fit'[s] = fit[s]

LEMMA AloneInv ==
  ASSUME IInv, NEW r \in Rank, Alone(r), Types', Own(r)',
         \A c \in Client : r \in {c, Parents[c]} => Keeps(r, Learns[c])
  PROVE  IInv'
<1>1. ASSUME NEW s \in Rank PROVE Own(s)'
  <2>1. CASE s # r
    BY <2>1, OwnKept DEF IInv, Alone
  <2> QED BY <2>1
<1>2. ASSUME NEW c \in Client PROVE Edge(c)'
  <2>1. /\ Learns[c] \in 0..NRounds(nprocs) /\ c \in Rank /\ Parents[c] \in Rank
    BY Learning, Size
  <2>2. ASSUME NEW s \in {c, Parents[c]} PROVE Keeps(s, Learns[c])
    <3>1. CASE s # r
      BY <2>1, <3>1, Resting DEF Alone
    <3> QED BY <3>1
  <2> QED BY <2>2, EdgeKept DEF IInv, Alone
<1> QED BY <1>1, <1>2 DEF IInv

\* In round round[r] a rank is on one edge only.
LEMMA OneEdge ==
  ASSUME Types, NEW r \in Rank, NEW c \in Client, r \in {c, Parents[c]},
         Learns[c] = round[r]
  PROVE  MyCall(r) = {<<Parents[c], c>>}
<1>1. /\ Learns[c] \in 0..NRounds(nprocs)
      /\ Calls[Learns[c]][c] = {<<Parents[c], c>>}
      /\ Calls[Learns[c]][Parents[c]] = {<<Parents[c], c>>}
  BY Learning
<1>2. NRounds(nprocs) \in Nat
  BY Size
<1> QED BY <1>1, <1>2, MyCallIs

\* Whoever makes a call is at one of the two ends of an edge, in its round.
LEMMA OnEdge ==
  ASSUME Types, NEW r \in Rank, NEW call \in MyCall(r)
  PROVE  /\ call[2] \in Client /\ call = <<Parents[call[2]], call[2]>>
         /\ call[1] \in Rank /\ call[1] # call[2]
         /\ round[r] = Learns[call[2]] /\ r \in {call[1], call[2]} /\ MyCall(r) = {call}
<1>1. round[r] \in 0..NRounds(nprocs) /\ MyCall(r) = Calls[round[r]][r]
  <2>1. round[r] \in -1..NRounds(nprocs) /\ NRounds(nprocs) \in Nat
    BY Size DEF Types
  <2> QED BY <2>1, MyCallIs
<1>2. /\ call[2] \in Client /\ call = <<Parents[call[2]], call[2]>>
      /\ round[r] = Learns[call[2]] /\ r \in {call[1], call[2]}
      /\ Calls[round[r]][r] = {call}
  BY <1>1, CallIsEdge
<1>3. Parents[call[2]] \in Rank /\ Parents[call[2]] # call[2]
  BY <1>2, Learning
<1> QED BY <1>1, <1>2, <1>3

\* The next round.
LEMMA Advanced ==
  ASSUME Types, NEW r \in Rank, NEW clock, round[r] >= 0, Advance(r, clock),
         syncs' = syncs
  PROVE  /\ round' \in [Rank -> -1..NRounds(nprocs)] /\ done' \in [Rank -> Nat]
         /\ round'[r] = round[r] - 1 /\ done'[r] = 0
         /\ \A s \in Rank \ {r} : round'[s] = round[s] /\ done'[s] = done[s]
         /\ \A i \in 0..NRounds(nprocs) : i # round[r] => Keeps(r, i)
         /\ \A i \in 0..NRounds(nprocs) :
              i = round[r] => Past(r, i)' = Past(r, i) + 1 /\ Within(r, i)' = 0
<1>1. /\ round \in [Rank -> -1..NRounds(nprocs)] /\ NRounds(nprocs) \in Nat
      /\ done \in [Rank -> Nat] /\ syncs \in [Rank -> Nat]
  BY Size DEF Types
<1>2. round' = [round EXCEPT ![r] = @ - 1] /\ done' = [done EXCEPT ![r] = 0]
  BY DEF Advance
<1>3. round'[r] = round[r] - 1 /\ done'[r] = 0
  BY <1>1, <1>2
<1>4. /\ round' \in [Rank -> -1..NRounds(nprocs)] /\ done' \in [Rank -> Nat]
      /\ \A s \in Rank \ {r} : round'[s] = round[s] /\ done'[s] = done[s]
  BY <1>1, <1>2
<1>5. ASSUME NEW i \in 0..NRounds(nprocs), i # round[r] PROVE Keeps(r, i)
  <2>1. round[r] \in Int /\ i \in Int
    BY <1>1
  <2>2. round'[r] < i <=> round[r] < i
    BY <1>3, <1>5, <2>1
  <2>3. Past(r, i)' = Past(r, i)
    BY <2>2 DEF Past
  <2>4. Within(r, i)' = Within(r, i)
    BY <1>3, <1>5 DEF Within
  <2> QED BY <1>5, <2>3, <2>4 DEF Keeps
<1>6. ASSUME NEW i \in 0..NRounds(nprocs), i = round[r]
      PROVE  Past(r, i)' = Past(r, i) + 1 /\ Within(r, i)' = 0
  <2>1. round'[r] < i /\ ~(round[r] < i) /\ round'[r] # i /\ syncs[r] \in Int
    BY <1>1, <1>3, <1>6
  <2>2. Past(r, i)' = syncs[r] /\ Past(r, i) = syncs[r] - 1
    BY <2>1 DEF Past
  <2> QED BY <2>1, <2>2 DEF Within
<1> QED BY <1>3, <1>4, <1>5, <1>6

-----------------------------------------------------------------------------
(* The steps                                                               *)

LEMMA InitInv == Init => IInv
<1> SUFFICES ASSUME Init PROVE IInv
  OBVIOUS
<1>1. NRounds(nprocs) \in Nat
  BY Size
<1>2. Types
  BY <1>1 DEF Init, Types
<1>3. Measurements > 0
  BY SettingsAssumption DEF Init, Measurements, Setting
<1>4. ASSUME NEW r \in Rank PROVE Own(r)
  <2>1. done[r] = 0 /\ round[r] = -1 /\ fit[r] = <<>> /\ answer[r] = {}
    BY <1>4 DEF Init
  <2>2. r # 0 => Learns[r] # -1
    BY <1>1, Learning DEF Client
  <2> QED BY <1>3, <2>1, <2>2 DEF Own
<1>5. ASSUME NEW c \in Client PROVE Edge(c)
  <2>1. /\ c \in Rank /\ Parents[c] \in Rank /\ Learns[c] \in 0..NRounds(nprocs)
    BY Learning, Size
  <2> QED BY <1>1, <2>1 DEF Init, Edge, Past, Within
<1> QED BY <1>2, <1>4, <1>5 DEF IInv

LEMMA Counting == Types => Measurements \in Nat /\ Measurements > 0
BY SettingsAssumption DEF Types, Measurements, Setting

LEMMA StartInv ==
  ASSUME IInv, NEW r \in Rank, Start(r), UNCHANGED <<setting, now>>
  PROVE  IInv'
<1>1. Types /\ Own(r)
  BY DEF IInv
<1>2. /\ round \in [Rank -> -1..NRounds(nprocs)] /\ NRounds(nprocs) \in Nat
      /\ done \in [Rank -> Nat] /\ syncs \in [Rank -> Nat] /\ round[r] = -1
  BY <1>1, Size DEF Types, Start
<1>3. /\ round' = [round EXCEPT ![r] = NRounds(nprocs)] /\ syncs' = [syncs EXCEPT ![r] = @ + 1]
      /\ done' = done /\ fit' = fit /\ answer' = answer /\ setting' = setting
  BY DEF Start
<1>4. round'[r] = NRounds(nprocs) /\ syncs'[r] = syncs[r] + 1
  BY <1>2, <1>3
<1>5. done[r] = 0
  <2>1. MyCall(r) = {}
    BY <1>1, <1>2, MyCallIs
  <2> QED BY <1>1, <1>2, <2>1 DEF Own
<1>6. Types'
  <2>1. round' \in [Rank -> -1..NRounds(nprocs)] /\ syncs' \in [Rank -> Nat]
    BY <1>2, <1>3
  <2>2. DOMAIN my_clock' = Rank /\ my_clock' = [s \in Rank |-> my_clock'[s]]
    BY <1>1 DEF Types, Start
  <2> QED BY <1>1, <2>1, <2>2 DEF Types, Start
<1>7. Own(r)'
  <2>1. Measurements' = Measurements
    BY <1>3 DEF Measurements
  <2>2. fit[r] = <<>>
    <3>1. r # 0 => Learns[r] # -1
      BY <1>2, Learning DEF Client
    <3> QED BY <1>1, <1>2, <3>1 DEF Own
  <2>3. Holds(<<>>, 0)
    <3>1. <<>> \in Seq({<<>>[k] : k \in DOMAIN <<>>}) /\ Len(<<>>) = 0
      OBVIOUS
    <3> QED BY <3>1 DEF Holds
  <2> QED BY <1>1, <1>3, <1>5, <2>1, <2>2, <2>3 DEF Own
<1>8. \A i \in 0..NRounds(nprocs) : Keeps(r, i)
  BY <1>2, <1>3, <1>4, <1>5 DEF Keeps, Past, Within
<1>9. Alone(r)
  BY <1>2, <1>3 DEF Alone
<1>10. \A c \in Client : Learns[c] \in 0..NRounds(nprocs)
  BY Learning
<1> QED BY <1>6, <1>7, <1>8, <1>9, <1>10, AloneInv

LEMMA SkipInv ==
  ASSUME IInv, NEW r \in Rank, Skip(r), UNCHANGED <<setting, now>>
  PROVE  IInv'
<1>1. Types /\ Own(r)
  BY DEF IInv
<1>2. /\ round[r] >= 0 /\ MyCall(r) = {} /\ Advance(r, my_clock[r]) /\ syncs' = syncs
      /\ fit' = fit /\ answer' = answer /\ setting' = setting /\ my_clock' = my_clock
  BY DEF Skip
<1>3. /\ round' \in [Rank -> -1..NRounds(nprocs)] /\ done' \in [Rank -> Nat]
      /\ round'[r] = round[r] - 1 /\ done'[r] = 0
      /\ \A s \in Rank \ {r} : round'[s] = round[s] /\ done'[s] = done[s]
      /\ \A i \in 0..NRounds(nprocs) : i # round[r] => Keeps(r, i)
  BY <1>1, <1>2, Advanced
<1>4. Types'
  BY <1>1, <1>2, <1>3 DEF Types, Advance
<1>5. Own(r)'
  <2>1. Measurements' = Measurements
    BY <1>2 DEF Measurements
  <2>2. fit[r] = <<>>
    <3>1. ASSUME r # 0, Learns[r] = round[r] PROVE FALSE
      <4>1. r \in Client /\ r \in {r, Parents[r]}
        BY <3>1 DEF Client
      <4>2. MyCall(r) = {<<Parents[r], r>>}
        BY <1>1, <3>1, <4>1, OneEdge
      <4> QED BY <1>2, <4>2
    <3> QED BY <1>1, <3>1 DEF Own
  <2>3. Holds(<<>>, 0)
    <3>1. <<>> \in Seq({<<>>[k] : k \in DOMAIN <<>>}) /\ Len(<<>>) = 0
      OBVIOUS
    <3> QED BY <3>1 DEF Holds
  <2> QED BY <1>1, <1>2, <1>3, Counting, <2>1, <2>2, <2>3 DEF Own
<1>6. ASSUME NEW c \in Client, r \in {c, Parents[c]} PROVE Keeps(r, Learns[c])
  <2>1. Learns[c] # round[r]
    <3>1. CASE Learns[c] = round[r]
      <4>1. MyCall(r) = {<<Parents[c], c>>}
        BY <1>1, <1>6, <3>1, OneEdge
      <4> QED BY <1>2, <4>1
    <3> QED BY <3>1
  <2> QED BY <1>3, <2>1, Learning
<1>7. Alone(r)
  BY <1>2, <1>3 DEF Alone
<1> QED BY <1>4, <1>5, <1>6, <1>7, AloneInv

\* Another measurement in the same round.
LEMMA Repeated ==
  ASSUME Types, NEW r \in Rank, Again(r), syncs' = syncs
  PROVE  /\ round' = round /\ done' \in [Rank -> Nat] /\ done'[r] = done[r] + 1
         /\ \A s \in Rank \ {r} : done'[s] = done[s]
         /\ \A i \in 0..NRounds(nprocs) : i # round[r] => Keeps(r, i)
         /\ \A i \in 0..NRounds(nprocs) :
              i = round[r] => Past(r, i)' = Past(r, i) /\ Within(r, i)' = done[r] + 1
<1>1. done \in [Rank -> Nat] /\ round' = round /\ done' = [done EXCEPT ![r] = @ + 1]
  BY DEF Types, Again
<1>2. done'[r] = done[r] + 1 /\ \A s \in Rank \ {r} : done'[s] = done[s]
  BY <1>1
<1> QED BY <1>1, <1>2 DEF Keeps, Past, Within

\* A step of r in its call with c touches no other edge.
LEMMA OtherEdges ==
  ASSUME IInv, NEW r \in Rank, NEW c \in Client, MyCall(r) = {<<Parents[c], c>>},
         setting' = setting, syncs' = syncs,
         \A s \in Rank \ {r} : round'[s] = round[s] /\ done'[s] = done[s],
         \A d \in Client \ {c} : answer'[d] = answer[d],
         \A i \in 0..NRounds(nprocs) : i # round[r] => Keeps(r, i)
  PROVE  \A d \in Client \ {c} : Edge(d)'
<1>1. ASSUME NEW d \in Client \ {c} PROVE Edge(d)'
  <2>1. Learns[d] \in 0..NRounds(nprocs) /\ d \in Rank /\ Parents[d] \in Rank
    BY Learning, Size
  <2>2. ASSUME NEW s \in {d, Parents[d]} PROVE Keeps(s, Learns[d])
    <3>1. CASE s # r
      BY <2>1, <3>1, Resting
    <3>2. CASE s = r
      <4>1. ASSUME Learns[d] = round[r] PROVE FALSE
        <5>1. MyCall(r) = {<<Parents[d], d>>}
          BY <2>2, <3>2, <4>1, OneEdge DEF IInv
        <5>2. <<Parents[d], d>> = <<Parents[c], c>>
          BY <5>1
        <5> QED BY <5>2
      <4> QED BY <2>1, <3>2, <4>1
    <3> QED BY <3>1, <3>2
  <2> QED BY <2>2, EdgeKept DEF IInv
<1> QED BY <1>1

\* The two sides of a call that are both ready are where MeetInSameRound says.
LEMMA Meeting ==
  ASSUME IInv, NEW c \in Client, <<Parents[c], c>> \in MyCall(Parents[c]),
         <<Parents[c], c>> \in MyCall(c), answer[c] = {}
  PROVE  LET p == Parents[c]
         IN  /\ syncs[p] = syncs[c] /\ round[p] = round[c] /\ round[c] = Learns[c]
             /\ done[p] = done[c] /\ Holds(fit[c], done[c])
<1> DEFINE p == Parents[c]
           i == Learns[c]
<1>1. Types /\ Edge(c) /\ Own(c) /\ c \in Rank /\ p \in Rank /\ c # 0
  BY Size, Learning DEF IInv, Client
<1>2. round[p] = i /\ round[c] = i
  BY <1>1, OnEdge
<1>3. Past(p, i) = Past(c, i) /\ Within(p, i) = Within(c, i)
  BY <1>1 DEF Edge
<1>4. round[p] \in Int /\ round[c] \in Int /\ syncs[p] \in Int /\ syncs[c] \in Int
  BY <1>1, Size DEF Types
<1>5. syncs[p] - 1 = syncs[c] - 1
  <2>1. ~(round[p] < i) /\ ~(round[c] < i)
    BY <1>2, <1>4
  <2> QED BY <1>3, <2>1 DEF Past
<1>6. done[p] = done[c]
  BY <1>2, <1>3 DEF Within
<1> QED BY <1>1, <1>2, <1>4, <1>5, <1>6 DEF Own

LEMMA ServeInv ==
  ASSUME IInv, NEW r \in Rank, Serve(r), UNCHANGED <<setting, now>>
  PROVE  IInv'
<1>1. Types /\ Own(r) /\ setting' = setting /\ syncs' = syncs /\ fit' = fit
      /\ my_clock' = my_clock
  BY DEF IInv, Serve
<1>2. PICK call \in MyCall(r) :
        /\ call[1] = r /\ Ready(r, call[2])
        /\ \E point : answer' = [answer EXCEPT ![call[2]] = {point}]
        /\ IF LastOne(r) THEN Advance(r, my_clock[r]) ELSE Again(r)
  BY Zenon DEF Serve
<1> DEFINE c == call[2]
           i == Learns[c]
<1>3. /\ c \in Client /\ call = <<r, c>> /\ Parents[c] = r /\ c # r
      /\ round[r] = i /\ MyCall(r) = {<<r, c>>}
  BY <1>1, <1>2, OnEdge
<1>4. MyCall(c) = MyCall(r) /\ answer[c] = {} /\ c \in Rank /\ i \in 0..NRounds(nprocs)
  BY <1>2, <1>3, Size, Learning DEF Ready
<1>5. /\ syncs[r] = syncs[c] /\ round[c] = i /\ done[r] = done[c]
  BY <1>3, <1>4, Meeting
<1>6. PICK point : answer' = [answer EXCEPT ![c] = {point}]
  BY <1>2
<1>7. /\ answer'[c] = {point} /\ \A s \in Rank \ {c} : answer'[s] = answer[s]
      /\ DOMAIN answer' = Rank /\ answer' = [s \in Rank |-> answer'[s]]
  BY <1>1, <1>4, <1>6 DEF Types
<1>8. Edge(c) /\ Past(r, i) = Past(c, i) /\ Within(r, i) = Within(c, i)
  BY <1>3, <1>4 DEF IInv, Edge
<1>9. Measurements' = Measurements /\ Measurements \in Nat /\ done[r] \in Nat
      /\ done[r] < Measurements
  BY <1>1, Counting DEF Measurements, Own, Types
<1>10. fit[r] = <<>>
  <2>1. ASSUME r # 0, Learns[r] = round[r] PROVE FALSE
    <3>1. r \in Client
      BY <2>1 DEF Client
    <3>2. MyCall(r) = {<<Parents[r], r>>}
      BY <1>1, <2>1, <3>1, OneEdge
    <3>3. <<Parents[r], r>> = <<r, c>>
      BY <1>3, <3>2
    <3> QED BY <1>3, <3>3
  <2> QED BY <1>1, <2>1 DEF Own
<1>11. Holds(<<>>, 0)
  <2>1. <<>> \in Seq({<<>>[k] : k \in DOMAIN <<>>}) /\ Len(<<>>) = 0
    OBVIOUS
  <2> QED BY <2>1 DEF Holds
<1>12. round[r] \in Int /\ round[r] >= 0
  BY <1>3, <1>4, Size
<1> HIDE DEF c, i
\* It matters only to its own side and to this edge what r has done.
<1>13. ASSUME \A s \in Rank \ {r} : round'[s] = round[s] /\ done'[s] = done[s],
              \A j \in 0..NRounds(nprocs) : j # round[r] => Keeps(r, j),
              Types', Own(r)', Edge(c)'
       PROVE  IInv'
  <2>1. ASSUME NEW s \in Rank PROVE Own(s)'
    <3>1. CASE s # r
      <4>1. s = 0 => answer'[s] = answer[s]
        BY <1>3, <1>7 DEF Client
      <4> QED BY <1>1, <1>13, <3>1, <4>1, OwnKept DEF IInv
    <3> QED BY <1>13, <3>1
  <2>2. \A d \in Client \ {c} : Edge(d)'
    <3>1. \A d \in Client \ {c} : answer'[d] = answer[d]
      BY <1>7, Size
    <3>2. MyCall(r) = {<<Parents[c], c>>}
      BY <1>3
    <3> QED BY <1>1, <1>3, <1>13, <3>1, <3>2, OtherEdges
  <2>3. ASSUME NEW d \in Client PROVE Edge(d)'
    <3>1. d = c \/ d \in Client \ {c}
      OBVIOUS
    <3> QED BY <1>13, <2>2, <3>1
  <2> QED BY <1>13, <2>1, <2>3 DEF IInv
<1>14. Past(c, i)' = Past(c, i) /\ Within(c, i)' = Within(c, i) /\ round'[c] = round[c]
  <2>1. round'[c] = round[c] /\ syncs'[c] = syncs[c] /\ done'[c] = done[c]
    <3>1. CASE LastOne(r)
      BY <1>1, <1>2, <1>3, <1>4, <1>12, <3>1, Advanced
    <3>2. CASE ~LastOne(r)
      BY <1>1, <1>2, <1>3, <1>4, <3>2, Repeated
    <3> QED BY <3>1, <3>2
  <2> QED BY <1>4, <2>1, Resting DEF Keeps
<1>15. CASE LastOne(r)
  <2>1. /\ round' \in [Rank -> -1..NRounds(nprocs)] /\ done' \in [Rank -> Nat]
        /\ round'[r] = round[r] - 1 /\ done'[r] = 0
        /\ \A s \in Rank \ {r} : round'[s] = round[s] /\ done'[s] = done[s]
        /\ \A j \in 0..NRounds(nprocs) : j # round[r] => Keeps(r, j)
        /\ \A j \in 0..NRounds(nprocs) :
             j = round[r] => Past(r, j)' = Past(r, j) + 1 /\ Within(r, j)' = 0
    BY <1>1, <1>2, <1>12, <1>15, Advanced
  <2>2. Types'
    <3>1. DOMAIN global' = Rank /\ global' = [s \in Rank |-> global'[s]]
      BY <1>1, <1>2, <1>15 DEF Advance, Types
    <3> QED BY <1>1, <1>7, <2>1, <3>1 DEF Types
  <2>3. Own(r)'
    BY <1>1, <1>3, <1>7, <1>9, <1>10, <1>11, <2>1, Counting DEF Own
  <2>4. Edge(c)'
    <3>1. Past(r, i)' = Past(c, i)' + 1 /\ Within(r, i)' = 0
      BY <1>3, <1>4, <1>8, <1>14, <2>1
    <3>2. Within(c, i)' + 1 = Measurements'
      BY <1>3, <1>5, <1>9, <1>14, <1>15 DEF LastOne, Within
    <3>3. round'[c] = i
      BY <1>5, <1>14
    <3> QED BY <1>3, <1>7, <3>1, <3>2, <3>3 DEF Edge, i
  <2> QED BY <1>13, <2>1, <2>2, <2>3, <2>4
<1>16. CASE ~LastOne(r)
  <2>1. /\ round' = round /\ done' \in [Rank -> Nat] /\ done'[r] = done[r] + 1
        /\ \A s \in Rank \ {r} : done'[s] = done[s]
        /\ \A j \in 0..NRounds(nprocs) : j # round[r] => Keeps(r, j)
        /\ \A j \in 0..NRounds(nprocs) :
             j = round[r] => Past(r, j)' = Past(r, j) /\ Within(r, j)' = done[r] + 1
    BY <1>1, <1>2, <1>16, Repeated
  <2>2. Types'
    <3>1. global' = global
      BY <1>2, <1>16 DEF Again
    <3> QED BY <1>1, <1>7, <2>1, <3>1 DEF Types
  <2>3. Own(r)'
    <3>1. done'[r] < Measurements'
      BY <1>9, <1>16, <2>1 DEF LastOne
    <3>2. MyCall(r)' # {}
      BY <1>3, <2>1 DEF MyCall
    <3>3. r # 0 => Learns[r] # round[r]
      <4>1. ASSUME r # 0, Learns[r] = round[r] PROVE FALSE
        <5>1. r \in Client
          BY <4>1 DEF Client
        <5>2. MyCall(r) = {<<Parents[r], r>>}
          BY <1>1, <4>1, <5>1, OneEdge
        <5>3. <<Parents[r], r>> = <<r, c>>
          BY <1>3, <5>2
        <5> QED BY <1>3, <5>3
      <4> QED BY <4>1
    <3> QED BY <1>1, <1>3, <1>7, <1>10, <2>1, <3>1, <3>2, <3>3 DEF Own
  <2>4. Edge(c)'
    <3>1. Past(r, i)' = Past(c, i)' /\ Within(r, i)' = Within(c, i)' + 1
      BY <1>3, <1>4, <1>5, <1>8, <1>14, <2>1 DEF Within
    <3>2. round'[c] = i
      BY <1>5, <1>14
    <3> QED BY <1>3, <1>7, <3>1, <3>2 DEF Edge, i
  <2> QED BY <1>13, <2>1, <2>2, <2>3, <2>4
<1> QED BY <1>15, <1>16

LEMMA Collected ==
  ASSUME NEW seq, NEW n \in Nat, Holds(seq, n), NEW point
  PROVE  Holds(Append(seq, point), n + 1)
<1> DEFINE S == {seq[k] : k \in DOMAIN seq}
           more == Append(seq, point)
<1>1. seq \in Seq(S) /\ Len(seq) = n
  BY DEF Holds
<1>2. seq \in Seq(S \cup {point})
  BY <1>1
<1>3. more \in Seq(S \cup {point}) /\ Len(more) = n + 1 /\ DOMAIN more = 1..(n + 1)
  BY <1>1, <1>2
<1>4. \A k \in 1..(n + 1) : more[k] \in {more[j] : j \in DOMAIN more}
  BY <1>3
<1>5. more \in Seq({more[j] : j \in DOMAIN more})
  BY <1>3, <1>4
<1> QED BY <1>3, <1>5 DEF Holds

LEMMA LearnInv ==
  ASSUME IInv, NEW r \in Rank, Learn(r), UNCHANGED <<setting, now>>
  PROVE  IInv'
<1>1. Types /\ Own(r) /\ setting' = setting /\ syncs' = syncs
  BY DEF IInv, Learn
<1>2. PICK point \in answer[r] :
        /\ answer' = [answer EXCEPT ![r] = {}]
        /\ IF LastOne(r)
           THEN /\ fit' = [fit EXCEPT ![r] = <<>>]
                /\ my_clock' = [my_clock EXCEPT ![r] = Learned(Append(fit[r], point))]
                /\ Advance(r, Learned(Append(fit[r], point)))
           ELSE /\ fit' = [fit EXCEPT ![r] = Append(fit[r], point)]
                /\ Again(r)
                /\ UNCHANGED my_clock
  BY DEF Learn
<1> DEFINE i == Learns[r]
           p == Parents[r]
<1>3. r \in Client /\ i \in 0..NRounds(nprocs) /\ p \in Rank /\ p # r
  <2>1. r # 0
    BY <1>1, <1>2 DEF Own
  <2> QED BY <2>1, Learning DEF Client
<1>4. /\ round[r] = i
      /\ \/ Past(p, i) = Past(r, i) /\ Within(p, i) = Within(r, i) + 1
         \/ /\ Past(p, i) = Past(r, i) + 1
            /\ Within(p, i) = 0 /\ Within(r, i) + 1 = Measurements
  BY <1>2, <1>3 DEF IInv, Edge
<1>5. MyCall(r) = {<<p, r>>}
  BY <1>1, <1>3, <1>4, OneEdge
<1>6. /\ answer'[r] = {} /\ \A s \in Rank \ {r} : answer'[s] = answer[s]
      /\ DOMAIN answer' = Rank /\ answer' = [s \in Rank |-> answer'[s]]
  BY <1>1, <1>2 DEF Types
<1>7. /\ Measurements' = Measurements /\ Measurements \in Nat /\ done[r] \in Nat
      /\ done[r] < Measurements
  BY <1>1, Counting DEF Measurements, Own, Types
<1>8. round[r] \in Int /\ round[r] >= 0
  BY <1>3, <1>4, Size
<1>9. Holds(fit[r], done[r])
  BY <1>1, <1>3, <1>4 DEF Own, Client
<1>10. Within(r, i) = done[r]
  BY <1>4 DEF Within
<1>11. DOMAIN fit = Rank /\ fit = [s \in Rank |-> fit[s]]
  BY <1>1 DEF Types
<1> HIDE DEF i, p
<1>12. ASSUME \A s \in Rank \ {r} : round'[s] = round[s] /\ done'[s] = done[s],
              \A s \in Rank \ {r} : fit'[s] = fit[s],
              \A j \in 0..NRounds(nprocs) : j # round[r] => Keeps(r, j),
              Types', Own(r)', Edge(r)'
       PROVE  IInv'
  <2>1. ASSUME NEW s \in Rank PROVE Own(s)'
    <3>1. CASE s # r
      BY <1>1, <1>6, <1>12, <3>1, OwnKept DEF IInv
    <3> QED BY <1>12, <3>1
  <2>2. \A d \in Client \ {r} : Edge(d)'
    <3>1. \A d \in Client \ {r} : answer'[d] = answer[d]
      BY <1>6, Size
    <3>2. MyCall(r) = {<<Parents[r], r>>}
      BY <1>5 DEF p
    <3> QED BY <1>1, <1>3, <1>12, <3>1, <3>2, OtherEdges
  <2>3. ASSUME NEW d \in Client PROVE Edge(d)'
    <3>1. d = r \/ d \in Client \ {r}
      OBVIOUS
    <3> QED BY <1>12, <2>2, <3>1
  <2> QED BY <1>12, <2>1, <2>3 DEF IInv
<1>13. CASE LastOne(r)
  <2>1. /\ round' \in [Rank -> -1..NRounds(nprocs)] /\ done' \in [Rank -> Nat]
        /\ round'[r] = round[r] - 1 /\ done'[r] = 0
        /\ \A s \in Rank \ {r} : round'[s] = round[s] /\ done'[s] = done[s]
        /\ \A j \in 0..NRounds(nprocs) : j # round[r] => Keeps(r, j)
        /\ \A j \in 0..NRounds(nprocs) :
             j = round[r] => Past(r, j)' = Past(r, j) + 1 /\ Within(r, j)' = 0
    BY <1>1, <1>2, <1>8, <1>13, Advanced
  <2>2. fit'[r] = <<>> /\ (\A s \in Rank \ {r} : fit'[s] = fit[s])
        /\ DOMAIN fit' = Rank /\ fit' = [s \in Rank |-> fit'[s]]
    BY <1>2, <1>11, <1>13
  <2>3. Types'
    <3>1. DOMAIN global' = Rank /\ global' = [s \in Rank |-> global'[s]]
      BY <1>1, <1>2, <1>13 DEF Advance, Types
    <3>2. DOMAIN my_clock' = Rank /\ my_clock' = [s \in Rank |-> my_clock'[s]]
      BY <1>1, <1>2, <1>13 DEF Types
    <3> QED BY <1>1, <1>6, <2>1, <2>2, <3>1, <3>2 DEF Types
  <2>4. Own(r)'
    <3>1. round'[r] # Learns[r]
      BY <1>4, <1>8, <2>1 DEF i
    <3> QED BY <1>3, <1>6, <1>7, <2>1, <2>2, <3>1 DEF Own, Client
  <2>5. Edge(r)'
    <3>1. Past(p, i)' = Past(p, i) /\ Within(p, i)' = Within(p, i)
      BY <1>1, <1>3, <2>1, Resting DEF Keeps
    <3>2. Past(r, i)' = Past(r, i) + 1 /\ Within(r, i)' = 0
      BY <1>3, <1>4, <2>1
    <3>3. Past(p, i) = Past(r, i) + 1 /\ Within(p, i) = 0
      <4>1. CASE Within(p, i) = Within(r, i) + 1
        <5>1. Within(p, i) = Measurements /\ Own(p) /\ done[p] \in Nat
          BY <1>1, <1>3, <1>7, <1>10, <1>13, <4>1 DEF LastOne, IInv, Types
        <5>2. done[p] < Measurements
          BY <5>1 DEF Own
        <5> QED BY <1>7, <5>1, <5>2 DEF Within
      <4>2. CASE Past(p, i) = Past(r, i) + 1 /\ Within(p, i) = 0
        BY <4>2
      <4> QED BY <1>4, <4>1, <4>2
    <3> QED BY <1>6, <3>1, <3>2, <3>3 DEF Edge, i, p
  <2> QED BY <1>12, <2>1, <2>2, <2>3, <2>4, <2>5
<1>14. CASE ~LastOne(r)
  <2>1. /\ round' = round /\ done' \in [Rank -> Nat] /\ done'[r] = done[r] + 1
        /\ \A s \in Rank \ {r} : done'[s] = done[s]
        /\ \A j \in 0..NRounds(nprocs) : j # round[r] => Keeps(r, j)
        /\ \A j \in 0..NRounds(nprocs) :
             j = round[r] => Past(r, j)' = Past(r, j) /\ Within(r, j)' = done[r] + 1
    BY <1>1, <1>2, <1>14, Repeated
  <2>2. fit'[r] = Append(fit[r], point) /\ (\A s \in Rank \ {r} : fit'[s] = fit[s])
        /\ DOMAIN fit' = Rank /\ fit' = [s \in Rank |-> fit'[s]]
    BY <1>2, <1>11, <1>14
  <2>3. Types'
    <3>1. global' = global /\ my_clock' = my_clock
      BY <1>2, <1>14 DEF Again
    <3> QED BY <1>1, <1>6, <2>1, <2>2, <3>1 DEF Types
  <2>4. Own(r)'
    <3>1. done'[r] < Measurements'
      BY <1>7, <1>14, <2>1 DEF LastOne
    <3>2. MyCall(r)' # {}
      BY <1>5, <2>1 DEF MyCall
    <3>3. Holds(fit'[r], done'[r])
      BY <1>7, <1>9, <2>1, <2>2, Collected
    <3> QED BY <1>3, <1>4, <1>6, <2>1, <3>1, <3>2, <3>3 DEF Own, Client, i
  <2>5. Edge(r)'
    <3>1. Past(p, i)' = Past(p, i) /\ Within(p, i)' = Within(p, i)
      BY <1>1, <1>3, <2>1, Resting DEF Keeps
    <3>2. Past(r, i)' = Past(r, i) /\ Within(r, i)' = Within(r, i) + 1
      BY <1>3, <1>4, <1>10, <2>1
    <3>3. Past(p, i) = Past(r, i) /\ Within(p, i) = Within(r, i) + 1
      BY <1>4, <1>10, <1>14 DEF LastOne
    <3> QED BY <1>6, <3>1, <3>2, <3>3 DEF Edge, i, p
  <2> QED BY <1>12, <2>1, <2>2, <2>3, <2>4, <2>5
<1> QED BY <1>13, <1>14

-----------------------------------------------------------------------------
(* All steps                                                               *)

LEMMA NextInv == IInv /\ [Next]_vars => IInv'
<1> SUFFICES ASSUME IInv, [Next]_vars PROVE IInv'
  OBVIOUS
<1>1. CASE Tick \/ UNCHANGED vars
  <2>1. UNCHANGED <<setting, round, syncs, done, fit, answer, my_clock, global>>
    BY <1>1 DEF Tick, vars
  <2>2. Types'
    BY <2>1 DEF IInv, Types
  <2>3. \A r \in Rank : Own(r)'
    BY <2>1, OwnKept DEF IInv
  <2>4. ASSUME NEW c \in Client PROVE Edge(c)'
    <3>1. c \in Rank /\ Parents[c] \in Rank /\ Learns[c] \in 0..NRounds(nprocs)
      BY Learning, Size
    <3>2. Keeps(c, Learns[c]) /\ Keeps(Parents[c], Learns[c])
      BY <2>1, <3>1, Resting
    <3> QED BY <2>1, <3>2, EdgeKept DEF IInv
  <2> QED BY <2>2, <2>3, <2>4 DEF IInv
<1>2. ASSUME NEW r \in Rank, Step(r) PROVE IInv'
  BY <1>2, StartInv, SkipInv, ServeInv, LearnInv DEF Step
<1> QED BY <1>1, <1>2 DEF Next, Stop

LEMMA Invariance == Spec => []IInv
BY InitInv, NextInv, PTL DEF Spec

\* MeetInSameRound for any number of ranks, fit points and synchronisations: without a
\* barrier anywhere, two ranks that are ready for each other are at the same measurement
\* of the same round of the same synchronisation.
THEOREM RanksMeetInSameRound == Spec => []MeetInSameRound
<1>1. IInv => MeetInSameRound
  <2> SUFFICES ASSUME IInv, NEW r \in Rank, NEW call \in MyCall(r),
                      NEW other, other = IF call[1] = r THEN call[2] ELSE call[1],
                      MyCall(other) = {call}, answer[call[2]] = {}
               PROVE  /\ syncs[other] = syncs[r] /\ round[other] = round[r]
                      /\ done[other] = done[r] /\ done[r] = Len(fit[call[2]])
    BY DEF MeetInSameRound
  <2>1. /\ call[2] \in Client /\ call = <<Parents[call[2]], call[2]>>
        /\ call[1] # call[2] /\ r \in {call[1], call[2]} /\ call[1] \in Rank
    BY OnEdge DEF IInv
  <2>2. {r, other} = {call[1], call[2]}
    BY <2>1
  <2>3. call \in MyCall(call[1]) /\ call \in MyCall(call[2])
    BY <2>1
  <2>4. /\ syncs[call[1]] = syncs[call[2]] /\ round[call[1]] = round[call[2]]
        /\ done[call[1]] = done[call[2]] /\ Holds(fit[call[2]], done[call[2]])
    BY <2>1, <2>3, Meeting
  <2> QED BY <2>1, <2>2, <2>4 DEF Holds
<1> QED BY <1>1, Invariance, PTL


-----------------------------------------------------------------------------
(* Clocks on a line                                                        *)

LEMMA ExactQuotient ==
  ASSUME NEW d \in Int, d > 0, NEW a \in Int
  PROVE  (d * a) \div d = a
OBVIOUS

LEMMA OffsetFits ==
  ASSUME NEW sc \in Int, NEW s0 \in Int, NEW r \in Int, NEW t \in Int, NEW u \in Int,
         NEW e \in Int, NEW d \in Int
  PROVE  (sc + r * u) - ((sc + r * u) * 0 + ((sc + r * t) - ((s0 + r * t) + e) + d))
           = (s0 + r * u) + (e - d)
<1> DEFINE a == r * u
           b == r * t
<1>1. a \in Int /\ b \in Int /\ (sc + a) * 0 = 0
  OBVIOUS
<1> QED BY <1>1

LEMMA LineSlope ==
  ASSUME NEW sc \in Int, NEW s0 \in Int, NEW rc \in Int, NEW q \in Int, NEW t \in Int,
         NEW u \in Int, NEW e \in Int
  PROVE  ((sc + rc * u) - ((s0 + (rc * q) * u) + e)) - ((sc + rc * t) - ((s0 + (rc * q) * t) + e))
           = ((sc + rc * u) - (sc + rc * t)) * (1 - q)
<1> DEFINE a == rc * u
           b == rc * t
<1>1. a \in Int /\ b \in Int /\ (rc * q) * u = q * a /\ (rc * q) * t = q * b
  OBVIOUS
<1>2. (a - b) * (1 - q) = a - b - q * a + q * b
  OBVIOUS
<1>3. q * a \in Int /\ q * b \in Int
  OBVIOUS
<1> DEFINE x == q * a
           y == q * b
<1>4. ((sc + a) - ((s0 + x) + e)) - ((sc + b) - ((s0 + y) + e)) = a - b - x + y
  BY <1>1, <1>3
<1> QED BY <1>1, <1>2, <1>4

LEMMA LineFits ==
  ASSUME NEW sc \in Int, NEW s0 \in Int, NEW rc \in Int, NEW q \in Int, NEW t \in Int,
         NEW u \in Int, NEW e \in Int, NEW d \in Int
  PROVE  (sc + rc * u)
           - ((sc + rc * u) * (1 - q)
              + (((sc + rc * t) - ((s0 + (rc * q) * t) + e) + d) - (1 - q) * (sc + rc * t)))
           = (s0 + (rc * q) * u) + (e - d)
<1> DEFINE a == rc * u
           b == rc * t
           x == q * a
           y == q * b
           z == q * sc
<1>1. a \in Int /\ b \in Int /\ (rc * q) * u = x /\ (rc * q) * t = y
  OBVIOUS
<1>2. x \in Int /\ y \in Int /\ z \in Int
  OBVIOUS
<1>3. (sc + a) * (1 - q) = sc + a - z - x /\ (1 - q) * (sc + b) = sc + b - z - y
  OBVIOUS
<1>4. (sc + a) - ((sc + a - z - x) + (((sc + b) - ((s0 + y) + e) + d) - (sc + b - z - y)))
        = (s0 + x) + (e - d)
  BY <1>1, <1>2
<1> QED BY <1>1, <1>3, <1>4

-----------------------------------------------------------------------------
(* Accuracy                                                                *)

Bound(r) == Depths[r] * MaxError

\* A clock of r that is off by e, at all times.
Shows(r, clock, e) ==
  \A t \in Int : Normalized(clock, BaseAt(r, t)) = BaseAt(0, t) + e

Good(r, clock) == \E e \in -Bound(r)..Bound(r) : Shows(r, clock, e)

\* What r has of its clock: nothing before it learns.
Clock(r) ==
  /\ IF r = 0 \/ (round[r] < Learns[r] /\ syncs[r] > 0)
     THEN Good(r, my_clock[r]) ELSE my_clock[r] = Dummy
  /\ round[r] # -1 => syncs[r] > 0
  /\ round[r] = -1 /\ syncs[r] > 0 => global[r] = my_clock[r]
  /\ syncs[r] > 1 => Good(r, global[r])

\* The errors there may be in the k-th measurement of a round.
ErrorsOf(k) == IF setting.linear /\ k <= setting.n_fitpoints THEN {0} ELSE setting.errors

\* A measurement of c at time t, the k-th of its round, with a reference that is off by e.
PointAt(c, t, e, d) ==
  [timestamp |-> BaseAt(c, t), offset |-> BaseAt(c, t) - (BaseAt(0, t) + e) + d]
IsPoint(c, point, k, e) == \E t \in 0..now, d \in ErrorsOf(k) : point = PointAt(c, t, e, d)

\* All measurements of c in this round are with the same clock of its reference, one
\* after another.
Measured(c, e) ==
  LET p == Parents[c]
  IN  /\ \A k \in DOMAIN fit[c] : IsPoint(c, fit[c][k], k, e)
      /\ \A point \in answer[c] : IsPoint(c, point, done[c] + 1, e)
      /\ \A j, k \in DOMAIN fit[c] : j < k => fit[c][j].timestamp < fit[c][k].timestamp
      /\ \A k \in DOMAIN fit[c], point \in answer[c] : fit[c][k].timestamp < point.timestamp
      /\ Within(p, Learns[c]) > 0 => Shows(p, my_clock[p], e)

Exact(c) ==
  \/ fit[c] = <<>> /\ answer[c] = {}
  \/ \E e \in -Bound(Parents[c])..Bound(Parents[c]) : Measured(c, e)

Accuracy ==
  /\ now \in Nat
  /\ \A r \in Rank : Clock(r)
  /\ \A c \in Client : Exact(c)

-----------------------------------------------------------------------------
(* Levels and settings                                                     *)

LEMMA Levels ==
  /\ Depths \in [Rank -> Nat] /\ Depths[0] = 0
  /\ \A c \in Client : /\ Depths[c] = Depths[Parents[c]] + 1
                       /\ Parents[c] # 0 => Learns[Parents[c]] > Learns[c]
                       /\ Parents[c] # 0 => Parents[c] \in Client
<1>1. nprocs \in Nat /\ nprocs > 0 /\ Rank = 0..(nprocs - 1) /\ Client = 1..(nprocs - 1)
      /\ Client \subseteq Rank
  BY Size
<1>2. /\ DepthOf(nprocs, 0) = 0
      /\ \A r \in 1..(nprocs - 1) : DepthOf(nprocs, r) = DepthOf(nprocs, ParentOf(nprocs, r)) + 1
      /\ \A r \in 0..(nprocs - 1) : DepthOf(nprocs, r) \in Nat
  BY <1>1, DepthStep
<1>3. Depths \in [Rank -> Nat] /\ Depths[0] = 0
  BY <1>1, <1>2 DEF Depths
<1>4. ASSUME NEW c \in Client
      PROVE  /\ Depths[c] = Depths[Parents[c]] + 1
             /\ Parents[c] # 0 => Learns[Parents[c]] > Learns[c]
             /\ Parents[c] # 0 => Parents[c] \in Client
  <2>1. Parents[c] = ParentOf(nprocs, c) /\ Learns[c] = LearnRound(nprocs, c)
    BY DEF Client, Parents, Learns
  <2>2. Parents[c] \in Rank /\ c \in 1..(nprocs - 1) /\ c \in Rank
    BY <1>1, Learning
  <2>3. Depths[c] = Depths[Parents[c]] + 1
    BY <1>2, <2>1, <2>2 DEF Depths
  <2>4. ParentOf(nprocs, c) # 0 =>
          LearnRound(nprocs, ParentOf(nprocs, c)) > LearnRound(nprocs, c)
    BY <1>1, <2>2, LearnsFrom
  <2> QED BY <2>1, <2>2, <2>3, <2>4 DEF Learns, Client
<1> QED BY <1>3, <1>4

LEMMA Bounds ==
  /\ MaxError \in Nat
  /\ \A r \in Rank : Bound(r) \in Nat
  /\ Bound(0) = 0
  /\ \A c \in Client : Bound(c) = Bound(Parents[c]) + MaxError
<1>1. MaxError \in Nat
  BY BoundsAssumption
<1>2. 0 \in Rank
  BY Size
<1>3. ASSUME NEW r \in Rank PROVE Bound(r) \in Nat
  BY <1>1, Levels DEF Bound
<1>4. ASSUME NEW c \in Client PROVE Bound(c) = Bound(Parents[c]) + MaxError
  <2>1. Depths[Parents[c]] \in Nat /\ Depths[c] = Depths[Parents[c]] + 1
    BY Levels, Learning
  <2> QED BY <1>1, <2>1 DEF Bound
<1>5. Bound(0) = 0
  BY <1>1, Levels DEF Bound
<1> QED BY <1>1, <1>3, <1>4, <1>5

LEMMA SettingIs ==
  ASSUME Types
  PROVE  /\ setting.linear \in BOOLEAN
         /\ setting.n_fitpoints \in Nat /\ setting.n_fitpoints > 0
         /\ setting.recompute_intercept \in BOOLEAN
         /\ setting.errors \subseteq -MaxError..MaxError
         /\ \A r \in Rank : /\ setting.skew[r] \in Int
                            /\ setting.rate[r] \in Nat /\ setting.rate[r] > 0
         /\ setting.linear =>
              /\ setting.n_fitpoints > 1
              /\ setting.recompute_intercept \/ setting.errors = {0}
              /\ \A r \in Rank : setting.rate[0] % setting.rate[r] = 0
         /\ ~setting.linear => \A r \in Rank : setting.rate[r] = setting.rate[0]
<1>1. setting \in Setting /\ Sound(setting)
  BY SettingsAssumption DEF Types
<1> QED BY <1>1 DEF Setting, Sound

LEMMA BaseIs ==
  ASSUME Types, NEW r \in Rank, NEW t \in Int
  PROVE  BaseAt(r, t) = setting.skew[r] + setting.rate[r] * t /\ BaseAt(r, t) \in Int
BY SettingIs DEF BaseAt

LEMMA ReadingIs ==
  ASSUME Types, NEW r \in Rank, now \in Nat
  PROVE  /\ my_clock[r] = Dummy => Reading(r) = BaseAt(r, now)
         /\ \A e \in Int : Shows(r, my_clock[r], e) => Reading(r) = BaseAt(0, now) + e
<1>1. now \in Int /\ BaseAt(r, now) \in Int
  BY BaseIs
<1>2. ASSUME my_clock[r] = Dummy PROVE Reading(r) = BaseAt(r, now)
  <2>1. Reading(r) = BaseAt(r, now) - (BaseAt(r, now) * 0 + 0)
    BY <1>2 DEF Reading, Dummy, OffsetModel, Normalized
  <2> QED BY <1>1, <2>1
<1> QED BY <1>1, <1>2 DEF Reading, Shows

\* Rank 0's clock is right.
LEMMA RootShows ==
  ASSUME Types, 0 \in Rank
  PROVE  Good(0, Dummy)
<1>1. ASSUME NEW t \in Int PROVE Normalized(Dummy, BaseAt(0, t)) = BaseAt(0, t) + 0
  <2>1. BaseAt(0, t) \in Int
    BY BaseIs
  <2> QED BY <2>1 DEF Dummy, OffsetModel, Normalized
<1>2. 0 \in -Bound(0)..Bound(0)
  BY Bounds
<1> QED BY <1>1, <1>2 DEF Good, Shows

\* A round's measurements, all of them, give a clock that is off by the error of the
\* reference and that of one measurement.
LEMMA LearnedShows ==
  ASSUME Types, now \in Nat, NEW c \in Client, NEW e \in Int, NEW S, NEW points \in Seq(S),
         Len(points) = Measurements,
         \A k \in 1..Measurements : IsPoint(c, points[k], k, e),
         \A j, k \in 1..Measurements : j < k => points[j].timestamp < points[k].timestamp
  PROVE  \E d \in -MaxError..MaxError : Shows(c, Learned(points), e + d)
<1> DEFINE sc == setting.skew[c]
           s0 == setting.skew[0]
           rc == setting.rate[c]
           m == Measurements
<1>1. /\ c \in Rank /\ 0 \in Rank /\ sc \in Int /\ s0 \in Int /\ rc \in Nat /\ rc > 0
      /\ setting.rate[0] \in Nat
  BY Size, SettingIs
<1>2. m \in Nat /\ m > 0
  BY Counting
<1>3. MaxError \in Nat
  BY Bounds
<1>4. ASSUME NEW k \in 1..m
      PROVE  \E t \in Int, d \in ErrorsOf(k) : points[k] = PointAt(c, t, e, d)
  BY <1>4 DEF IsPoint
<1>5. ASSUME NEW d \in -MaxError..MaxError PROVE -d \in -MaxError..MaxError /\ d \in Int
  BY <1>3
<1>8. \A t \in Int : /\ BaseAt(c, t) = sc + rc * t
                     /\ BaseAt(0, t) = s0 + setting.rate[0] * t
  BY <1>1, BaseIs
<1>9. IF setting.linear THEN setting.rate[0] % rc = 0 ELSE rc = setting.rate[0]
  BY <1>1, SettingIs
<1> HIDE DEF sc, s0, rc
<1>6. CASE ~setting.linear
  <2>1. m = 1 /\ rc = setting.rate[0]
    BY <1>6, <1>9 DEF Measurements
  <2>2. PICK t \in Int, d \in ErrorsOf(1) : points[1] = PointAt(c, t, e, d)
    BY <1>4, <2>1
  <2>3. d \in -MaxError..MaxError
    BY <1>6, <2>2, SettingIs DEF ErrorsOf
  <2>4. ASSUME NEW u \in Int
        PROVE  Normalized(Learned(points), BaseAt(c, u)) = BaseAt(0, u) + (e + -d)
    <3>1. Learned(points) = [slope |-> 0, intercept |-> points[1].offset]
      BY <1>6 DEF Learned, OffsetModel
    <3>2. points[1].offset = (sc + rc * t) - ((s0 + rc * t) + e) + d
      BY <1>8, <2>1, <2>2 DEF PointAt
    <3>3. BaseAt(c, u) = sc + rc * u /\ BaseAt(0, u) = s0 + rc * u
      BY <1>8, <2>1
    <3>4. (sc + rc * u) - ((sc + rc * u) * 0 + ((sc + rc * t) - ((s0 + rc * t) + e) + d))
            = (s0 + rc * u) + (e - d)
      BY <1>1, <1>5, <2>3, OffsetFits
    <3>5. e - d = e + -d
      BY <1>5, <2>3
    <3> QED BY <3>1, <3>2, <3>3, <3>4, <3>5 DEF Normalized
  <2> QED BY <1>5, <2>3, <2>4 DEF Shows
<1>7. CASE setting.linear
  <2> DEFINE n == setting.n_fitpoints
             head == SubSeq(points, 1, n)
             lm == Fitted(head)
  <2>1. n \in Nat /\ n > 1 /\ n <= m /\ m = n + (IF setting.recompute_intercept THEN 1 ELSE 0)
    BY <1>7, SettingIs DEF Measurements
  <2>2. PICK q \in Nat : setting.rate[0] = rc * q
    <3>1. setting.rate[0] % rc = 0
      BY <1>7, <1>9
    <3>2. \E q \in Nat : setting.rate[0] = rc * q + (setting.rate[0] % rc)
      BY <1>1, Division, Zenon
    <3>3. PICK q \in Nat : setting.rate[0] = rc * q + (setting.rate[0] % rc)
      BY <3>2
    <3>4. rc * q \in Int
      BY <1>1
    <3> QED BY <3>1, <3>3, <3>4
  <2>3. \A t \in Int : BaseAt(c, t) = sc + rc * t /\ BaseAt(0, t) = s0 + (rc * q) * t
    BY <1>8, <2>2
  <2>4. ASSUME NEW k \in 1..n
        PROVE  \E t \in Int : points[k] = PointAt(c, t, e, 0)
    <3>1. ErrorsOf(k) = {0} /\ k \in 1..m
      BY <1>7, <2>1 DEF ErrorsOf
    <3> QED BY <1>4, <3>1
  <2>5. PICK t1 \in Int : points[1] = PointAt(c, t1, e, 0)
    BY <2>1, <2>4
  <2>6. PICK tn \in Int : points[n] = PointAt(c, tn, e, 0)
    BY <2>1, <2>4
  <2>7. /\ Len(head) = n /\ head[1] = points[1] /\ head[n] = points[n]
    BY <2>1
  <2> DEFINE x1 == sc + rc * t1
             y1 == s0 + (rc * q) * t1
             xn == sc + rc * tn
             yn == s0 + (rc * q) * tn
  <2>17. rc \in Int /\ q \in Int
    BY <1>1
  <2>8. /\ x1 \in Int /\ xn \in Int /\ y1 \in Int /\ yn \in Int
    BY <1>1, <2>17
  <2>9. /\ points[1].timestamp = x1 /\ points[1].offset = x1 - (y1 + e)
        /\ points[n].timestamp = xn /\ points[n].offset = xn - (yn + e)
    <3>1. points[1].offset = x1 - (y1 + e) + 0 /\ points[n].offset = xn - (yn + e) + 0
      BY <2>3, <2>5, <2>6 DEF PointAt
    <3> QED BY <2>3, <2>5, <2>6, <2>8, <3>1 DEF PointAt
  <2>10. xn - x1 \in Int /\ xn - x1 > 0
    <3>1. points[1].timestamp < points[n].timestamp
      BY <2>1
    <3> QED BY <2>8, <2>9, <3>1
  <2>11. (xn - (yn + e)) - (x1 - (y1 + e)) = (xn - x1) * (1 - q)
    BY <1>1, <2>17, LineSlope
  <2>12. ((xn - (yn + e)) - (x1 - (y1 + e))) \div (xn - x1) = 1 - q
    <3> DEFINE x == xn - x1
    <3>1. x \in Int /\ x > 0 /\ 1 - q \in Int
      BY <2>10, <2>17
    <3> HIDE DEF x
    <3>2. (x * (1 - q)) \div x = 1 - q
      BY <3>1, ExactQuotient
    <3> QED BY <2>11, <3>2 DEF x
  <2>13. lm = [slope |-> 1 - q, intercept |-> (x1 - (y1 + e)) - (1 - q) * x1]
    BY <2>7, <2>9, <2>12 DEF Fitted
  <2> HIDE DEF lm, head
  <2>14. \E t \in Int, d \in -MaxError..MaxError :
           /\ Learned(points).slope = 1 - q
           /\ Learned(points).intercept =
                ((sc + rc * t) - ((s0 + (rc * q) * t) + e) + d) - (1 - q) * (sc + rc * t)
    <3>1. CASE ~setting.recompute_intercept
      <4>1. Learned(points) = lm
        BY <1>7, <3>1 DEF Learned, lm, head
      <4>2. (x1 - (y1 + e) + 0) - (1 - q) * x1 = (x1 - (y1 + e)) - (1 - q) * x1
        BY <2>8
      <4>3. 0 \in -MaxError..MaxError
        BY <1>3
      <4>4. /\ Learned(points).slope = 1 - q
            /\ Learned(points).intercept = (x1 - (y1 + e) + 0) - (1 - q) * x1
        BY <2>13, <4>1, <4>2
      <4> QED BY <4>3, <4>4
    <3>2. CASE setting.recompute_intercept
      <4>1. m = n + 1 /\ m \in 1..m /\ Len(points) = m /\ ~(m <= n)
        BY <1>2, <2>1, <3>2
      <4>2. PICK t \in Int, d \in ErrorsOf(m) : points[m] = PointAt(c, t, e, d)
        BY <1>4, <4>1
      <4>3. d \in -MaxError..MaxError
        BY <4>1, <4>2, SettingIs DEF ErrorsOf
      <4>4. /\ points[m].timestamp = sc + rc * t
            /\ points[m].offset = (sc + rc * t) - ((s0 + (rc * q) * t) + e) + d
        BY <2>3, <4>2 DEF PointAt
      <4>5. Learned(points) = Remeasured(lm, points[m])
        BY <1>7, <3>2, <4>1 DEF Learned, lm, head
      <4>6. Learned(points).slope = 1 - q
            /\ Learned(points).intercept = (1 - q) * (-points[m].timestamp) + points[m].offset
        BY <2>13, <4>5 DEF Remeasured
      <4>7. sc + rc * t \in Int /\ s0 + (rc * q) * t \in Int /\ d \in Int /\ 1 - q \in Int
        BY <1>1, <1>5, <2>17, <4>3
      <4>8. (1 - q) * (-points[m].timestamp) + points[m].offset
              = ((sc + rc * t) - ((s0 + (rc * q) * t) + e) + d) - (1 - q) * (sc + rc * t)
        <5>1. ASSUME NEW a \in Int, NEW b \in Int, NEW x \in Int
              PROVE  a * (-x) + b = b - a * x
          OBVIOUS
        <5>2. points[m].timestamp \in Int /\ points[m].offset \in Int
          BY <4>4, <4>7
        <5>3. (1 - q) * (-points[m].timestamp) + points[m].offset
                = points[m].offset - (1 - q) * points[m].timestamp
          BY <4>7, <5>1, <5>2
        <5> QED BY <4>4, <5>3
      <4> QED BY <4>3, <4>6, <4>8
    <3> QED BY <3>1, <3>2, SettingIs
  <2>15. PICK t \in Int, d \in -MaxError..MaxError :
           /\ Learned(points).slope = 1 - q
           /\ Learned(points).intercept =
                ((sc + rc * t) - ((s0 + (rc * q) * t) + e) + d) - (1 - q) * (sc + rc * t)
    BY <2>14
  <2>16. ASSUME NEW u \in Int
         PROVE  Normalized(Learned(points), BaseAt(c, u)) = BaseAt(0, u) + (e + -d)
    <3>1. (sc + rc * u)
            - ((sc + rc * u) * (1 - q)
               + (((sc + rc * t) - ((s0 + (rc * q) * t) + e) + d) - (1 - q) * (sc + rc * t)))
            = (s0 + (rc * q) * u) + (e - d)
      BY <1>1, <1>5, <2>17, LineFits
    <3>2. e - d = e + -d
      BY <1>5
    <3> QED BY <2>3, <2>15, <3>1, <3>2 DEF Normalized
  <2> QED BY <1>5, <2>16 DEF Shows
<1> QED BY <1>6, <1>7, SettingIs

-----------------------------------------------------------------------------
(* Steps keep accuracy                                                     *)

LEMMA InitAccuracy == Init => Accuracy
<1> SUFFICES ASSUME Init PROVE Accuracy
  OBVIOUS
<1>1. Types /\ 0 \in Rank
  BY InitInv, Size DEF IInv
<1>2. \A r \in Rank : round[r] = -1 /\ syncs[r] = 0 /\ my_clock[r] = Dummy
  BY DEF Init
<1>3. \A r \in Rank : Clock(r)
  BY <1>1, <1>2, RootShows DEF Clock
<1>4. \A c \in Client : Exact(c)
  BY Size DEF Init, Exact
<1> QED BY <1>3, <1>4 DEF Accuracy, Init

LEMMA ClockKept ==
  ASSUME NEW r \in Rank, Clock(r), setting' = setting,
         round'[r] = round[r], syncs'[r] = syncs[r],
         my_clock'[r] = my_clock[r], global'[r] = global[r]
  PROVE  Clock(r)'
BY DEF Clock, Good, Shows, BaseAt, Bound

\* After a round in which r does not learn.
LEMMA ClockOn ==
  ASSUME IInv, NEW r \in Rank, Clock(r), setting' = setting, syncs' = syncs,
         round[r] >= 0, r # 0 => round[r] # Learns[r],
         Advance(r, my_clock[r]), my_clock' = my_clock
  PROVE  Clock(r)'
<1>1. round[r] \in Int /\ round'[r] = round[r] - 1
  <2>1. round \in [Rank -> -1..NRounds(nprocs)] /\ NRounds(nprocs) \in Nat
    BY Size DEF IInv, Types
  <2> QED BY <2>1 DEF Advance
<1>2. r # 0 => Learns[r] \in Int
  BY Learning, Size DEF Client
<1>3. r # 0 => (round'[r] < Learns[r] <=> round[r] < Learns[r])
  BY <1>1, <1>2
<1>4. round'[r] = -1 => global'[r] = my_clock[r]
  <2>1. DOMAIN global = Rank
    BY DEF IInv, Types
  <2> QED BY <1>1, <2>1 DEF Advance
<1>5. round[r] # -1
  BY <1>1
<1>6. IF r = 0 \/ (round'[r] < Learns[r] /\ syncs'[r] > 0)
      THEN Good(r, my_clock[r])' ELSE my_clock'[r] = Dummy
  BY <1>3 DEF Clock, Good, Shows, BaseAt, Bound
<1>7. syncs'[r] > 1 => Good(r, global[r])'
  <2>1. CASE round[r] = 0
    <3>1. r # 0 => 0 < Learns[r]
      BY <1>2, <2>1, Learning, Size DEF Client
    <3>2. syncs[r] > 0 => Good(r, my_clock[r])
      BY <2>1, <3>1 DEF Clock
    <3>3. global'[r] = my_clock[r]
      BY <1>1, <1>4, <2>1
    <3>4. syncs[r] \in Nat
      BY DEF IInv, Types
    <3> QED BY <3>2, <3>3, <3>4 DEF Good, Shows, BaseAt, Bound
  <2>2. CASE round[r] # 0
    BY <2>2 DEF Advance, Clock, Good, Shows, BaseAt, Bound
  <2> QED BY <2>1, <2>2
<1> QED BY <1>4, <1>5, <1>6, <1>7 DEF Clock

LEMMA PointKept ==
  ASSUME NEW c \in Client, NEW point, NEW k, NEW e, IsPoint(c, point, k, e),
         setting' = setting, now \in Nat, now' \in Nat, now <= now'
  PROVE  IsPoint(c, point, k, e)'
<1>1. \A t \in 0..now : t \in 0..now'
  OBVIOUS
<1> QED BY <1>1 DEF IsPoint, PointAt, ErrorsOf, BaseAt

LEMMA ExactKept ==
  ASSUME NEW c \in Client, Exact(c), setting' = setting,
         now \in Nat, now' \in Nat, now <= now',
         fit'[c] = fit[c], answer'[c] = answer[c], done'[c] = done[c] \/ answer[c] = {},
         Within(Parents[c], Learns[c])' > 0 =>
           Within(Parents[c], Learns[c]) > 0 /\ my_clock'[Parents[c]] = my_clock[Parents[c]]
  PROVE  Exact(c)'
<1>1. CASE fit[c] = <<>> /\ answer[c] = {}
  BY <1>1 DEF Exact
<1>2. CASE ~(fit[c] = <<>> /\ answer[c] = {})
  <2> DEFINE p == Parents[c]
  <2>1. PICK e \in -Bound(p)..Bound(p) : Measured(c, e)
    BY <1>2 DEF Exact
  <2>2. \A k \in DOMAIN fit'[c] : IsPoint(c, fit[c][k], k, e)'
    BY <2>1, PointKept DEF Measured
  <2>3. \A point \in answer'[c] : IsPoint(c, point, done[c] + 1, e)'
    <3>1. ASSUME NEW point \in answer[c] PROVE IsPoint(c, point, done[c] + 1, e)
      BY <2>1 DEF Measured
    <3>2. ASSUME NEW point \in answer[c]
          PROVE  \E t \in 0..now, d \in ErrorsOf(done[c] + 1) : point = PointAt(c, t, e, d)
      BY <3>1 DEF IsPoint
    <3>3. \A t \in 0..now : t \in 0..now'
      OBVIOUS
    <3>4. ASSUME NEW point \in answer'[c]
          PROVE  \E t \in 0..now', d \in ErrorsOf(done[c] + 1)' : point = PointAt(c, t, e, d)'
      <4>1. done'[c] = done[c] /\ point \in answer[c]
        BY <3>4
      <4> QED BY <3>2, <3>3, <4>1 DEF PointAt, ErrorsOf, BaseAt
    <3>5. ASSUME NEW point \in answer'[c] PROVE done'[c] = done[c]
      BY <3>5
    <3> QED BY <3>4, <3>5 DEF IsPoint
  <2>4. Within(p, Learns[c])' > 0 => Shows(p, my_clock[p], e)'
    BY <2>1 DEF Measured, Shows, BaseAt
  <2>5. Measured(c, e)'
    BY <2>1, <2>2, <2>3, <2>4 DEF Measured
  <2>6. Bound(p)' = Bound(p)
    BY DEF Bound
  <2> QED BY <2>1, <2>5, <2>6 DEF Exact
<1> QED BY <1>1, <1>2

\* A step of r does nothing to the measurements of the clients outside the set touched.
LEMMA Elsewhere ==
  ASSUME IInv, Accuracy, NEW r \in Rank, setting' = setting, now' = now,
         \A s \in Rank \ {r} : /\ round'[s] = round[s] /\ syncs'[s] = syncs[s]
                               /\ done'[s] = done[s] /\ fit'[s] = fit[s]
                               /\ my_clock'[s] = my_clock[s] /\ global'[s] = global[s],
         NEW touched \in SUBSET Client,
         \A d \in Client \ touched : answer'[d] = answer[d],
         \A d \in Client \ touched : Parents[d] = r => Within(r, Learns[d])' = 0,
         r \in Client \ touched => fit'[r] = fit[r] /\ answer[r] = {},
         Clock(r)', \A d \in touched : Exact(d)'
  PROVE  Accuracy'
<1>1. ASSUME NEW s \in Rank PROVE Clock(s)'
  <2>1. CASE s # r
    BY <2>1, ClockKept DEF Accuracy
  <2> QED BY <2>1
<1>2. ASSUME NEW d \in Client PROVE Exact(d)'
  <2>1. CASE d \in touched
    BY <2>1
  <2>2. CASE d \notin touched
    <3> DEFINE p == Parents[d]
    <3>1. d \in Rank /\ p \in Rank
      BY Size, Learning
    <3>2. Within(p, Learns[d])' > 0 =>
            Within(p, Learns[d]) > 0 /\ my_clock'[p] = my_clock[p]
      <4>1. CASE p = r
        BY <2>2, <4>1
      <4>2. CASE p # r
        BY <3>1, <4>2 DEF Within
      <4> QED BY <4>1, <4>2
    <3>3. fit'[d] = fit[d] /\ answer'[d] = answer[d] /\ (done'[d] = done[d] \/ answer[d] = {})
      BY <2>2, <3>1
    <3>4. now \in Nat /\ now' \in Nat /\ now <= now' /\ Exact(d)
      BY DEF Accuracy
    <3> QED BY <3>2, <3>3, <3>4, ExactKept
  <2> QED BY <2>1, <2>2
<1> QED BY <1>1, <1>2 DEF Accuracy

\* A rank that is not waiting for an answer has none.
LEMMA NoAnswer ==
  ASSUME IInv, NEW c \in Client, round[c] # Learns[c]
  PROVE  answer[c] = {} /\ fit[c] = <<>>
BY Size DEF IInv, Edge, Own, Client

LEMMA StartAccurate ==
  ASSUME IInv, Accuracy, NEW r \in Rank, Start(r), UNCHANGED <<setting, now>>
  PROVE  Accuracy'
<1>1. /\ round \in [Rank -> -1..NRounds(nprocs)] /\ NRounds(nprocs) \in Nat
      /\ syncs \in [Rank -> Nat] /\ DOMAIN my_clock = Rank /\ round[r] = -1 /\ Own(r)
      /\ Types
  BY Size DEF IInv, Types, Start
<1>2. /\ round' = [round EXCEPT ![r] = NRounds(nprocs)] /\ syncs' = [syncs EXCEPT ![r] = @ + 1]
      /\ my_clock' = [my_clock EXCEPT ![r] = Dummy] /\ done' = done /\ fit' = fit
      /\ answer' = answer /\ global' = global
  BY DEF Start
<1>3. /\ round'[r] = NRounds(nprocs) /\ syncs'[r] = syncs[r] + 1 /\ my_clock'[r] = Dummy
  BY <1>1, <1>2
<1>4. done'[r] = 0
  <2>1. MyCall(r) = {}
    BY <1>1, MyCallIs
  <2> QED BY <1>1, <1>2, <2>1 DEF Own, Types
<1>5. r \in Client => round[r] # Learns[r] /\ Learns[r] \in 0..NRounds(nprocs)
  BY <1>1, Learning
<1>6. r \in Client => fit'[r] = fit[r] /\ answer[r] = {}
  BY <1>2, <1>5, NoAnswer
<1>7. Clock(r)'
  <2>1. r # 0 => ~(round'[r] < Learns[r])
    BY <1>1, <1>3, <1>5 DEF Client
  <2>2. Good(0, Dummy)'
    <3>1. Good(0, Dummy)
      BY <1>1, Size, RootShows
    <3> QED BY <3>1 DEF Good, Shows, BaseAt, Bound
  <2>3. (r = 0 => Good(r, my_clock[r])') /\ syncs'[r] > 0 /\ round'[r] # -1
    BY <1>1, <1>3, <2>2 DEF Good
  <2>4. syncs'[r] > 1 => Good(r, global[r])'
    <3>1. r # 0 => -1 < Learns[r]
      BY <1>5, Size DEF Client
    <3>2. syncs[r] > 0 => Good(r, my_clock[r]) /\ global[r] = my_clock[r]
      BY <1>1, <3>1 DEF Accuracy, Clock
    <3> QED BY <1>1, <1>2, <1>3, <3>2 DEF Good, Shows, BaseAt, Bound
  <2> QED BY <1>3, <2>1, <2>3, <2>4 DEF Clock
<1>8. \A d \in Client : Parents[d] = r => Within(r, Learns[d])' = 0
  BY <1>4 DEF Within
<1>9. \A s \in Rank \ {r} : /\ round'[s] = round[s] /\ syncs'[s] = syncs[s]
                            /\ done'[s] = done[s] /\ fit'[s] = fit[s]
                            /\ my_clock'[s] = my_clock[s] /\ global'[s] = global[s]
  BY <1>1, <1>2
<1>10. {} \in SUBSET Client
  OBVIOUS
<1> QED BY <1>2, <1>6, <1>7, <1>8, <1>9, <1>10, Elsewhere

LEMMA SkipAccurate ==
  ASSUME IInv, Accuracy, NEW r \in Rank, Skip(r), UNCHANGED <<setting, now>>
  PROVE  Accuracy'
<1>1. /\ Types /\ round[r] >= 0 /\ MyCall(r) = {} /\ Advance(r, my_clock[r])
      /\ syncs' = syncs /\ fit' = fit /\ answer' = answer /\ my_clock' = my_clock
      /\ setting' = setting /\ Clock(r)
  BY DEF IInv, Accuracy, Skip
<1>2. /\ done'[r] = 0
      /\ \A s \in Rank \ {r} : round'[s] = round[s] /\ done'[s] = done[s]
  BY <1>1, Advanced
<1>3. ASSUME r # 0, round[r] = Learns[r] PROVE FALSE
  <2>1. r \in Client
    BY <1>3 DEF Client
  <2>2. MyCall(r) = {<<Parents[r], r>>}
    BY <1>1, <1>3, <2>1, OneEdge
  <2> QED BY <1>1, <2>2
<1>4. Clock(r)'
  BY <1>1, <1>3, ClockOn
<1>5. r \in Client => fit'[r] = fit[r] /\ answer[r] = {}
  BY <1>1, <1>3, NoAnswer DEF Client
<1>6. \A s \in Rank \ {r} : global'[s] = global[s]
  BY <1>1 DEF Advance, Types
<1>7. \A d \in Client : Parents[d] = r => Within(r, Learns[d])' = 0
  BY <1>2 DEF Within
<1>8. {} \in SUBSET Client
  OBVIOUS
<1> QED BY <1>1, <1>2, <1>4, <1>5, <1>6, <1>7, <1>8, Elsewhere

LEMMA TickAccurate ==
  ASSUME IInv, Accuracy, Tick
  PROVE  Accuracy'
<1>1. /\ now \in Nat /\ now' = now + 1
      /\ UNCHANGED <<setting, round, syncs, done, fit, answer, my_clock, global>>
  BY DEF Accuracy, Tick
<1>2. now' \in Nat /\ now <= now'
  BY <1>1
<1>3. \A r \in Rank : Clock(r)'
  BY <1>1, ClockKept DEF Accuracy
<1>4. ASSUME NEW c \in Client PROVE Exact(c)'
  <2>1. Within(Parents[c], Learns[c])' = Within(Parents[c], Learns[c])
    BY <1>1 DEF Within
  <2> QED BY <1>1, <1>2, <2>1, ExactKept DEF Accuracy
<1> QED BY <1>2, <1>3, <1>4 DEF Accuracy

\* What a reference that leaves has left.
LEMMA Answered ==
  ASSUME IInv, Accuracy, NEW c \in Client,
         <<Parents[c], c>> \in MyCall(Parents[c]), <<Parents[c], c>> \in MyCall(c),
         answer[c] = {},
         \A k \in DOMAIN fit[c] : fit[c][k].timestamp # Reading(c),
         NEW d \in Errors(Parents[c])
  PROVE  LET p == Parents[c]
             point == [timestamp |-> Reading(c), offset |-> Reading(c) - Reading(p) + d]
         IN  \E e \in -Bound(p)..Bound(p) :
               /\ \A k \in DOMAIN fit[c] : IsPoint(c, fit[c][k], k, e)
               /\ \A j, k \in DOMAIN fit[c] :
                    j < k => fit[c][j].timestamp < fit[c][k].timestamp
               /\ \A k \in DOMAIN fit[c] : fit[c][k].timestamp < point.timestamp
               /\ IsPoint(c, point, done[c] + 1, e)
               /\ Shows(p, my_clock[p], e)
<1> DEFINE p == Parents[c]
           point == [timestamp |-> Reading(c), offset |-> Reading(c) - Reading(p) + d]
<1>1. /\ Types /\ now \in Nat /\ Clock(c) /\ Clock(p) /\ c \in Rank /\ p \in Rank /\ c # 0
  BY Size, Learning DEF IInv, Accuracy, Client
<1>2. /\ round[c] = Learns[c] /\ round[p] = Learns[c] /\ done[p] = done[c]
      /\ Holds(fit[c], done[c]) /\ done[c] \in Nat /\ Learns[c] \in 0..NRounds(nprocs)
  BY <1>1, Meeting, Learning DEF Types
<1>3. Reading(c) = BaseAt(c, now)
  <2>1. ~(round[c] < Learns[c])
    BY <1>2, Size
  <2>2. my_clock[c] = Dummy
    BY <1>1, <2>1 DEF Clock
  <2> QED BY <1>1, <2>2, ReadingIs
<1>4. \E e \in -Bound(p)..Bound(p) :
        /\ \A k \in DOMAIN fit[c] : IsPoint(c, fit[c][k], k, e)
        /\ \A j, k \in DOMAIN fit[c] : j < k => fit[c][j].timestamp < fit[c][k].timestamp
        /\ Shows(p, my_clock[p], e)
  <2>1. CASE done[c] = 0
    <3>1. DOMAIN fit[c] = {}
      BY <1>2, <2>1 DEF Holds
    <3>2. p = 0 \/ (round[p] < Learns[p] /\ syncs[p] > 0)
      <4>1. round[p] # -1
        BY <1>2, Size
      <4>2. p # 0 => Learns[p] > Learns[c] /\ Learns[p] \in 0..NRounds(nprocs)
        BY Levels, Learning
      <4> QED BY <1>1, <1>2, <4>1, <4>2, Size DEF Clock
    <3>3. Good(p, my_clock[p])
      BY <1>1, <3>2 DEF Clock
    <3> QED BY <3>1, <3>3 DEF Good
  <2>2. CASE done[c] # 0
    <3>1. fit[c] # <<>>
      BY <1>2, <2>2 DEF Holds
    <3>2. PICK e \in -Bound(p)..Bound(p) : Measured(c, e)
      BY <3>1 DEF Accuracy, Exact
    <3>3. Within(p, Learns[c]) > 0
      BY <1>2, <2>2 DEF Within
    <3> QED BY <3>2, <3>3 DEF Measured
  <2> QED BY <2>1, <2>2
<1>5. PICK e \in -Bound(p)..Bound(p) :
        /\ \A k \in DOMAIN fit[c] : IsPoint(c, fit[c][k], k, e)
        /\ \A j, k \in DOMAIN fit[c] : j < k => fit[c][j].timestamp < fit[c][k].timestamp
        /\ Shows(p, my_clock[p], e)
  BY <1>4
<1>6. e \in Int
  BY <1>1, Bounds
<1>7. Reading(p) = BaseAt(0, now) + e
  BY <1>1, <1>5, <1>6, ReadingIs
<1>8. d \in ErrorsOf(done[c] + 1)
  <2>1. setting.n_fitpoints \in Nat
    BY <1>1, SettingIs
  <2>2. done[p] < setting.n_fitpoints <=> done[c] + 1 <= setting.n_fitpoints
    BY <1>2, <2>1
  <2> QED BY <2>2 DEF Errors, ErrorsOf
<1>9. IsPoint(c, point, done[c] + 1, e)
  <2>1. point = PointAt(c, now, e, d) /\ now \in 0..now
    BY <1>1, <1>3, <1>7 DEF PointAt
  <2> QED BY <1>8, <2>1 DEF IsPoint
<1>10. ASSUME NEW k \in DOMAIN fit[c] PROVE fit[c][k].timestamp < point.timestamp
  <2>1. PICK t \in 0..now : fit[c][k].timestamp = BaseAt(c, t)
    <3>1. IsPoint(c, fit[c][k], k, e)
      BY <1>5
    <3>2. PICK t \in 0..now, x \in ErrorsOf(k) : fit[c][k] = PointAt(c, t, e, x)
      BY <3>1 DEF IsPoint
    <3> QED BY <3>2 DEF PointAt
  <2>2. BaseAt(c, t) # BaseAt(c, now)
    BY <1>3, <2>1
  <2>3. t # now /\ t \in Int /\ now \in Int
    BY <1>1, <2>2
  <2>4. t < now
    BY <2>3
  <2> DEFINE s == setting.skew[c]
             a == setting.rate[c]
  <2>5. /\ s \in Int /\ a \in Nat /\ a > 0
        /\ BaseAt(c, t) = s + a * t /\ BaseAt(c, now) = s + a * now
    BY <1>1, <2>3, SettingIs, BaseIs
  <2> HIDE DEF s, a
  <2>6. s + a * t < s + a * now
    BY <2>3, <2>4, <2>5
  <2> QED BY <1>3, <2>1, <2>5, <2>6
<1> QED BY <1>5, <1>9, <1>10

LEMMA ServeAccurate ==
  ASSUME IInv, Accuracy, NEW r \in Rank, Serve(r), UNCHANGED <<setting, now>>
  PROVE  Accuracy'
<1>1. /\ Types /\ setting' = setting /\ now' = now /\ syncs' = syncs /\ fit' = fit
      /\ my_clock' = my_clock /\ Clock(r) /\ now \in Nat
  BY DEF IInv, Accuracy, Serve
<1>2. PICK call \in MyCall(r), d \in Errors(r) :
        /\ call[1] = r /\ Ready(r, call[2])
        /\ answer' = [answer EXCEPT ![call[2]] =
             {[timestamp |-> Reading(call[2]),
               offset    |-> Reading(call[2]) - Reading(r) + d]}]
        /\ IF LastOne(r) THEN Advance(r, my_clock[r]) ELSE Again(r)
  BY Zenon DEF Serve
<1> DEFINE c == call[2]
           i == Learns[c]
           point == [timestamp |-> Reading(c), offset |-> Reading(c) - Reading(r) + d]
<1>3. /\ c \in Client /\ call = <<r, c>> /\ Parents[c] = r /\ c # r
      /\ round[r] = i /\ MyCall(r) = {<<r, c>>}
  BY <1>1, <1>2, OnEdge
<1>4. /\ MyCall(c) = MyCall(r) /\ answer[c] = {} /\ c \in Rank /\ i \in 0..NRounds(nprocs)
      /\ \A k \in DOMAIN fit[c] : fit[c][k].timestamp # Reading(c)
  BY <1>2, <1>3, Size, Learning DEF Ready
<1>5. answer' = [answer EXCEPT ![c] = {point}] /\ DOMAIN answer = Rank
  BY <1>1, <1>2 DEF Types
<1>6. answer'[c] = {point} /\ \A s \in Rank \ {c} : answer'[s] = answer[s]
  BY <1>4, <1>5
<1>7. round[r] \in Int /\ round[r] >= 0
  BY <1>3, <1>4, Size
<1>8. r # 0 => round[r] # Learns[r]
  <2>1. ASSUME r # 0, Learns[r] = round[r] PROVE FALSE
    <3>1. r \in Client
      BY <2>1 DEF Client
    <3>2. MyCall(r) = {<<Parents[r], r>>}
      BY <1>1, <2>1, <3>1, OneEdge
    <3>3. <<Parents[r], r>> = <<r, c>>
      BY <1>3, <3>2
    <3> QED BY <1>3, <3>3
  <2> QED BY <2>1
<1>9. PICK e \in -Bound(r)..Bound(r) :
        /\ \A k \in DOMAIN fit[c] : IsPoint(c, fit[c][k], k, e)
        /\ \A j, k \in DOMAIN fit[c] : j < k => fit[c][j].timestamp < fit[c][k].timestamp
        /\ \A k \in DOMAIN fit[c] : fit[c][k].timestamp < point.timestamp
        /\ IsPoint(c, point, done[c] + 1, e)
        /\ Shows(r, my_clock[r], e)
  BY <1>2, <1>3, <1>4, Answered
<1> HIDE DEF point
<1> HIDE DEF c, i
\* Whether it was the last one or not, r is at no other measurement.
<1>10. /\ \A s \in Rank \ {r} : round'[s] = round[s] /\ done'[s] = done[s]
       /\ \A j \in 0..NRounds(nprocs) : j # i => Within(r, j)' = 0
       /\ Clock(r)'
  <2>1. CASE LastOne(r)
    <3>1. Advance(r, my_clock[r])
      BY <1>2, <2>1
    <3>2. done'[r] = 0 /\ \A s \in Rank \ {r} : round'[s] = round[s] /\ done'[s] = done[s]
      BY <1>1, <1>7, <3>1, Advanced
    <3>3. Clock(r)'
      BY <1>1, <1>7, <1>8, <3>1, ClockOn
    <3> QED BY <3>2, <3>3 DEF Within
  <2>2. CASE ~LastOne(r)
    <3>1. Again(r)
      BY <1>2, <2>2
    <3>2. round' = round /\ global' = global /\ \A s \in Rank \ {r} : done'[s] = done[s]
      BY <1>1, <3>1, Repeated DEF Again
    <3>3. Clock(r)'
      BY <1>1, <3>2, ClockKept
    <3> QED BY <1>3, <3>2, <3>3 DEF Within
  <2> QED BY <2>1, <2>2
<1>11. \A s \in Rank \ {r} : global'[s] = global[s]
  BY <1>1, <1>2 DEF Advance, Again, Types
<1>12. Exact(c)'
  <2>1. done'[c] = done[c]
    BY <1>3, <1>4, <1>10
  <2>2. \A k \in DOMAIN fit'[c] : IsPoint(c, fit[c][k], k, e)'
    BY <1>1, <1>3, <1>9, PointKept
  <2>3. IsPoint(c, point, done[c] + 1, e) => \E t \in 0..now, x \in ErrorsOf(done[c] + 1) :
                                               point = PointAt(c, t, e, x)
    BY DEF IsPoint
  <2>4. \E t \in 0..now', x \in ErrorsOf(done[c] + 1)' : point = PointAt(c, t, e, x)'
    BY <1>1, <1>9, <2>1, <2>3 DEF PointAt, ErrorsOf, BaseAt
  <2>5. \A x \in answer'[c] :
          /\ x = point
          /\ \E t \in 0..now', y \in ErrorsOf(done[c] + 1)' : x = PointAt(c, t, e, y)'
    BY <1>6, <2>4
  <2>6. \A x \in answer'[c] : IsPoint(c, x, done[c] + 1, e)'
    BY <2>5 DEF IsPoint
  <2>7. Shows(r, my_clock[r], e)'
    BY <1>1, <1>9 DEF Shows, BaseAt
  <2>8. Measured(c, e)'
    BY <1>1, <1>3, <1>6, <1>9, <2>2, <2>6, <2>7 DEF Measured
  <2>9. Bound(r)' = Bound(r)
    BY DEF Bound
  <2> QED BY <1>3, <2>8, <2>9 DEF Exact
<1>13. \A d2 \in Client \ {c} : Parents[d2] = r => Within(r, Learns[d2])' = 0
  <2> SUFFICES ASSUME NEW d2 \in Client \ {c}, Parents[d2] = r
               PROVE  Within(r, Learns[d2])' = 0
    OBVIOUS
  <2>1. ASSUME Learns[d2] = round[r] PROVE FALSE
    <3>1. MyCall(r) = {<<r, d2>>}
      BY <1>1, <2>1, OneEdge
    <3>2. <<r, d2>> = <<r, c>>
      BY <1>3, <3>1
    <3> QED BY <3>2
  <2> QED BY <1>3, <1>10, <2>1, Learning
<1>14. r \in Client \ {c} => fit'[r] = fit[r] /\ answer[r] = {}
  BY <1>1, <1>8, NoAnswer DEF Client
<1>15. {c} \in SUBSET Client /\ \A s \in Client \ {c} : s \in Rank \ {c}
  BY <1>3, Size
<1> QED BY <1>1, <1>6, <1>10, <1>11, <1>12, <1>13, <1>14, <1>15, Elsewhere

\* One more measurement.
LEMMA OneMore ==
  ASSUME NEW c, NEW e, NEW seq, NEW n \in Nat, Holds(seq, n), NEW point,
         \A k \in DOMAIN seq : IsPoint(c, seq[k], k, e),
         \A j, k \in DOMAIN seq : j < k => seq[j].timestamp < seq[k].timestamp,
         \A k \in DOMAIN seq : seq[k].timestamp < point.timestamp,
         IsPoint(c, point, n + 1, e)
  PROVE  LET points == Append(seq, point)
         IN  /\ Holds(points, n + 1)
             /\ \A k \in 1..(n + 1) : IsPoint(c, points[k], k, e)
             /\ \A j, k \in 1..(n + 1) : j < k => points[j].timestamp < points[k].timestamp
<1> DEFINE points == Append(seq, point)
<1>1. Holds(points, n + 1)
  BY Collected
<1>2. DOMAIN seq = 1..n
  BY DEF Holds
<1>3. \A k \in 1..(n + 1) : points[k] = IF k = n + 1 THEN point ELSE seq[k]
  BY DEF Holds
<1> HIDE DEF points
<1>4. \A k \in 1..(n + 1) : k = n + 1 \/ (k \in 1..n /\ k # n + 1)
  OBVIOUS
<1>5. ASSUME NEW k \in 1..(n + 1) PROVE IsPoint(c, points[k], k, e)
  BY <1>2, <1>3, <1>4
<1>6. ASSUME NEW j \in 1..(n + 1), NEW k \in 1..(n + 1), j < k
      PROVE  points[j].timestamp < points[k].timestamp
  <2>1. j \in 1..n /\ j # n + 1
    BY <1>6
  <2> QED BY <1>2, <1>3, <1>4, <1>6, <2>1
<1> QED BY <1>1, <1>5, <1>6 DEF points

\* The measurements of c with an answer it has not taken yet.
LEMMA WithAnswer ==
  ASSUME IInv, Accuracy, NEW c \in Client, NEW point \in answer[c]
  PROVE  LET points == Append(fit[c], point)
             n == done[c] + 1
         IN  /\ round[c] = Learns[c] /\ answer[c] = {point} /\ done[c] \in Nat
             /\ Holds(points, n) /\ Len(fit[c]) = done[c]
             /\ \E e \in -Bound(Parents[c])..Bound(Parents[c]) :
                  /\ Measured(c, e)
                  /\ \A k \in 1..n : IsPoint(c, points[k], k, e)
                  /\ \A j, k \in 1..n : j < k => points[j].timestamp < points[k].timestamp
             /\ n = Measurements => Good(c, Learned(points))
<1> DEFINE p == Parents[c]
           points == Append(fit[c], point)
<1>1. Types /\ Own(c) /\ now \in Nat /\ c # 0 /\ c \in Rank /\ p \in Rank
  BY Size, Learning DEF IInv, Accuracy, Client
<1>4. round[c] = Learns[c] /\ answer[c] = {point}
  BY DEF IInv, Edge
<1>5. done[c] \in Nat
  BY <1>1 DEF Types
<1>6. Holds(fit[c], done[c])
  BY <1>1, <1>4 DEF Own
<1>9. PICK e \in -Bound(p)..Bound(p) : Measured(c, e)
  BY DEF Accuracy, Exact
<1>10. /\ Holds(points, done[c] + 1)
       /\ \A k \in 1..(done[c] + 1) : IsPoint(c, points[k], k, e)
       /\ \A j, k \in 1..(done[c] + 1) : j < k => points[j].timestamp < points[k].timestamp
  BY <1>5, <1>6, <1>9, OneMore DEF Measured
<1> HIDE DEF points
<1>15. ASSUME done[c] + 1 = Measurements PROVE Good(c, Learned(points))
  <2>1. Len(points) = Measurements /\ points \in Seq({points[k] : k \in DOMAIN points})
    BY <1>10, <1>15 DEF Holds
  <2>2. e \in Int /\ Bound(p) \in Nat /\ MaxError \in Nat /\ Bound(c) = Bound(p) + MaxError
    BY <1>1, <1>9, Bounds
  <2>3. PICK d \in -MaxError..MaxError : Shows(c, Learned(points), e + d)
    BY <1>1, <1>10, <1>15, <2>1, <2>2, LearnedShows
  <2>4. e + d \in -Bound(c)..Bound(c)
    BY <2>2
  <2> QED BY <2>3, <2>4 DEF Good
<1> QED BY <1>4, <1>5, <1>6, <1>9, <1>10, <1>15 DEF points, Holds

LEMMA LearnAccurate ==
  ASSUME IInv, Accuracy, NEW r \in Rank, Learn(r), UNCHANGED <<setting, now>>
  PROVE  Accuracy'
<1>1. /\ Types /\ Own(r) /\ setting' = setting /\ now' = now /\ syncs' = syncs
      /\ now \in Nat /\ Clock(r)
  BY DEF IInv, Accuracy, Learn
<1>2. PICK point \in answer[r] :
        /\ answer' = [answer EXCEPT ![r] = {}]
        /\ IF LastOne(r)
           THEN /\ fit' = [fit EXCEPT ![r] = <<>>]
                /\ my_clock' = [my_clock EXCEPT ![r] = Learned(Append(fit[r], point))]
                /\ Advance(r, Learned(Append(fit[r], point)))
           ELSE /\ fit' = [fit EXCEPT ![r] = Append(fit[r], point)]
                /\ Again(r)
                /\ UNCHANGED my_clock
  BY <1>1 DEF Learn
<1> DEFINE i == Learns[r]
           p == Parents[r]
           points == Append(fit[r], point)
<1>3. r \in Client /\ i \in 0..NRounds(nprocs) /\ p \in Rank /\ p # r /\ r # 0
  <2>1. r # 0
    BY <1>1, <1>2 DEF Own
  <2> QED BY <2>1, Learning DEF Client
<1>4. round[r] = i /\ answer[r] = {point}
  BY <1>2, <1>3 DEF IInv, Edge
<1>5. round[r] \in Int /\ round[r] >= 0 /\ done[r] \in Nat
  BY <1>1, <1>3, <1>4, Size DEF Types
<1>6. Holds(fit[r], done[r])
  BY <1>1, <1>3, <1>4 DEF Own
<1>7. /\ DOMAIN answer = Rank /\ DOMAIN fit = Rank /\ DOMAIN my_clock = Rank
      /\ DOMAIN global = Rank
  BY <1>1 DEF Types
<1>8. answer'[r] = {} /\ \A s \in Rank \ {r} : answer'[s] = answer[s]
  BY <1>2, <1>7
<1>9. /\ Holds(points, done[r] + 1)
      /\ done[r] + 1 = Measurements => Good(r, Learned(points))
  BY <1>2, <1>3, WithAnswer
<1>11. PICK e \in -Bound(p)..Bound(p) :
         /\ Measured(r, e)
         /\ \A k \in 1..(done[r] + 1) : IsPoint(r, points[k], k, e)
         /\ \A j, k \in 1..(done[r] + 1) : j < k => points[j].timestamp < points[k].timestamp
  BY <1>2, <1>3, WithAnswer
<1> HIDE DEF points
<1> HIDE DEF i, p
<1>15. CASE LastOne(r)
  <2>4. Good(r, Learned(points))
    BY <1>9, <1>15 DEF LastOne
  <2>5. /\ fit'[r] = <<>> /\ my_clock'[r] = Learned(points)
        /\ \A s \in Rank \ {r} : fit'[s] = fit[s] /\ my_clock'[s] = my_clock[s]
        /\ Advance(r, Learned(points))
    BY <1>2, <1>7, <1>15 DEF points
  <2>6. /\ round'[r] = round[r] - 1 /\ done'[r] = 0
        /\ \A s \in Rank \ {r} : round'[s] = round[s] /\ done'[s] = done[s]
    BY <1>1, <1>5, <2>5, Advanced
  <2>7. /\ \A s \in Rank \ {r} : global'[s] = global[s]
        /\ round'[r] = -1 => global'[r] = Learned(points)
    BY <1>5, <1>7, <2>5, <2>6 DEF Advance
  <2>8. Clock(r)'
    <3>1. round'[r] < Learns[r] /\ syncs'[r] > 0
      BY <1>1, <1>4, <1>5, <2>6 DEF i, Clock
    <3>2. Good(r, my_clock[r])'
      BY <1>1, <2>4, <2>5 DEF Good, Shows, BaseAt, Bound
    <3>3. syncs[r] > 1 => Good(r, global[r])'
      <4>1. global'[r] = IF round[r] = 0 THEN Learned(points) ELSE global[r]
        BY <1>7, <2>5 DEF Advance
      <4> QED BY <1>1, <2>4, <4>1 DEF Clock, Good, Shows, BaseAt, Bound
    <3> QED BY <1>1, <2>5, <2>7, <3>1, <3>2, <3>3 DEF Clock
  <2>9. Exact(r)'
    BY <1>8, <2>5 DEF Exact
  <2>10. \A d \in Client : Parents[d] = r => Within(r, Learns[d])' = 0
    BY <2>6 DEF Within
  <2>11. {r} \in SUBSET Client /\ \A d \in Client \ {r} : d \in Rank \ {r}
    BY <1>3, Size
  <2> QED BY <1>1, <1>8, <2>5, <2>6, <2>7, <2>8, <2>9, <2>10, <2>11, Elsewhere
<1>16. CASE ~LastOne(r)
  <2>1. /\ fit'[r] = points /\ my_clock' = my_clock /\ Again(r)
        /\ \A s \in Rank \ {r} : fit'[s] = fit[s]
    BY <1>2, <1>7, <1>16 DEF points
  <2>2. /\ round' = round /\ global' = global /\ done'[r] = done[r] + 1
        /\ \A s \in Rank \ {r} : done'[s] = done[s]
    BY <1>1, <2>1, Repeated DEF Again
  <2>3. Clock(r)'
    BY <1>1, <2>1, <2>2, ClockKept
  <2>4. Exact(r)'
    <3>1. DOMAIN points = 1..(done[r] + 1)
      BY <1>5, <1>9 DEF Holds
    <3>2. \A k \in DOMAIN fit'[r] : IsPoint(r, fit[r][k], k, e)'
      <4>1. ASSUME NEW k \in DOMAIN points, NEW x, x = points[k] PROVE IsPoint(r, x, k, e)'
        <5>1. IsPoint(r, x, k, e)
          BY <1>11, <3>1, <4>1
        <5> QED BY <1>1, <1>3, <5>1, PointKept
      <4> QED BY <2>1, <4>1 DEF IsPoint, PointAt, ErrorsOf, BaseAt
    <3>3. \A j, k \in DOMAIN fit'[r] : j < k => fit'[r][j].timestamp < fit'[r][k].timestamp
      BY <1>11, <2>1, <3>1
    <3>4. Within(p, i)' = Within(p, i)
      BY <1>3, <2>2 DEF Within
    <3>5. Within(p, i)' > 0 => Shows(p, my_clock[p], e)'
      BY <1>1, <1>11, <2>1, <3>4 DEF Measured, Shows, BaseAt, i, p
    <3>6. Measured(r, e)'
      BY <1>8, <3>2, <3>3, <3>5 DEF Measured, i, p
    <3>7. Bound(p)' = Bound(p)
      BY DEF Bound
    <3> QED BY <3>6, <3>7 DEF Exact, p
  <2>5. \A d \in Client : Parents[d] = r => Within(r, Learns[d])' = 0
    <3>1. ASSUME NEW d \in Client, Parents[d] = r PROVE Learns[d] # round[r]
      <4>1. Learns[Parents[d]] > Learns[d] /\ Learns[r] \in Int /\ Learns[d] \in Int
        <5>1. Parents[d] # 0
          BY <1>3, <3>1
        <5>2. Learns[d] \in 0..NRounds(nprocs) /\ NRounds(nprocs) \in Nat
          BY Learning, Size
        <5>3. Learns[Parents[d]] > Learns[d]
          BY <5>1, Levels
        <5> QED BY <1>3, <5>2, <5>3 DEF i
      <4> QED BY <1>4, <3>1, <4>1 DEF i
    <3> QED BY <2>2, <3>1 DEF Within
  <2>6. {r} \in SUBSET Client /\ \A d \in Client \ {r} : d \in Rank \ {r}
    BY <1>3, Size
  <2> QED BY <1>1, <1>8, <2>1, <2>2, <2>3, <2>4, <2>5, <2>6, Elsewhere
<1> QED BY <1>15, <1>16

LEMMA NextAccuracy == IInv /\ Accuracy /\ [Next]_vars => Accuracy'
<1> SUFFICES ASSUME IInv, Accuracy, [Next]_vars PROVE Accuracy'
  OBVIOUS
<1>1. CASE UNCHANGED vars
  <2>1. \A r \in Rank : Clock(r)'
    BY <1>1, ClockKept DEF vars, Accuracy
  <2>2. ASSUME NEW c \in Client PROVE Exact(c)'
    <3>1. Within(Parents[c], Learns[c])' = Within(Parents[c], Learns[c])
      BY <1>1 DEF Within, vars
    <3>2. now \in Nat /\ now' \in Nat /\ now <= now'
      BY <1>1 DEF Accuracy, vars
    <3> QED BY <1>1, <3>1, <3>2, ExactKept DEF Accuracy, vars
  <2> QED BY <1>1, <2>1, <2>2 DEF Accuracy, vars
<1>2. CASE Tick
  BY <1>2, TickAccurate
<1>3. ASSUME NEW r \in Rank, Step(r) PROVE Accuracy'
  BY <1>3, StartAccurate, SkipAccurate, ServeAccurate, LearnAccurate DEF Step
<1> QED BY <1>1, <1>2, <1>3 DEF Next, Stop

LEMMA AccuracyInvariance == Spec => []Accuracy
BY InitAccuracy, NextAccuracy, Invariance, PTL DEF Spec

\* GlobalAccurate for any number of ranks, any skews, rates and errors within MaxError:
\* a returned clock is off by at most MaxError for each level of the tree, at all times.
THEOREM ClocksAreAccurate == Spec => []GlobalAccurate
<1>1. IInv /\ Accuracy => GlobalAccurate
  <2> SUFFICES ASSUME IInv, Accuracy, NEW r \in Rank, round[r] = -1, syncs[r] > 0,
                      NEW t \in {0, now + 1000}
               PROVE  LET bound == Depths[r] * MaxError
                      IN  ErrorAt(r, global[r], t) \in -bound..bound
    BY DEF GlobalAccurate
  <2>1. Types /\ t \in Int /\ 0 \in Rank /\ Clock(r)
    BY Size DEF IInv, Accuracy
  <2>2. r # 0 => -1 < Learns[r]
    BY Learning, Size DEF Client
  <2>3. Good(r, my_clock[r]) /\ global[r] = my_clock[r]
    BY <2>1, <2>2 DEF Clock
  <2>4. PICK e \in -Bound(r)..Bound(r) : Shows(r, global[r], e)
    BY <2>3 DEF Good
  <2>5. BaseAt(0, t) \in Int /\ e \in Int
    BY <2>1, Bounds, BaseIs
  <2>6. ErrorAt(r, global[r], t) = e
    BY <2>1, <2>4, <2>5 DEF ErrorAt, Shows
  <2> QED BY <2>4, <2>6 DEF Bound
<1> QED BY <1>1, Invariance, AccuracyInvariance, PTL

-----------------------------------------------------------------------------
(* The promise of SyncTree                                                 *)

\* A client has a clock as soon as its reference is done with it.
HandedOver ==
  /\ Generation(0) = syncs[0]
  /\ \A c \in Client : Generation(c) = Past(Parents[c], Learns[c])

LEMMA GenerationIs == IInv => HandedOver
<1> SUFFICES ASSUME IInv PROVE HandedOver
  OBVIOUS
<1>1. Generation(0) = syncs[0]
  BY DEF Generation, HasLearned
<1>2. ASSUME NEW c \in Client PROVE Generation(c) = Past(Parents[c], Learns[c])
  <2> DEFINE p == Parents[c]
             i == Learns[c]
  <2>1. /\ c \in Rank /\ c # 0 /\ p \in Rank /\ Own(c) /\ Own(p) /\ Edge(c)
        /\ done[c] \in Nat /\ done[p] \in Nat /\ syncs[c] \in Nat /\ Measurements \in Nat
    BY Size, Learning, Counting DEF IInv, Types, Client
  <2>2. i \in Nat /\ round[c] \in Int
    BY <2>1, Learning, Size DEF IInv, Types
  <2>3. CASE answer[c] = {}
    <3>1. Past(p, i) = Past(c, i)
      BY <2>1, <2>3 DEF Edge
    <3>2. Generation(c) = Past(c, i)
      BY <2>1, <2>3 DEF Generation, HasLearned, LastAnswer, Past
    <3> QED BY <3>1, <3>2
  <2>4. CASE answer[c] # {}
    <3>1. /\ round[c] = i
          /\ \/ Past(p, i) = Past(c, i) /\ Within(p, i) = Within(c, i) + 1
             \/ /\ Past(p, i) = Past(c, i) + 1
                /\ Within(p, i) = 0 /\ Within(c, i) + 1 = Measurements
      BY <2>1, <2>4 DEF Edge
    <3>2. Len(fit[c]) = done[c]
      BY <2>1, <3>1 DEF Own, Holds
    <3>3. ~(round[c] < i) /\ Past(c, i) = syncs[c] - 1 /\ Within(c, i) = done[c]
      BY <2>2, <3>1 DEF Past, Within
    <3>4. CASE Past(p, i) = Past(c, i) /\ Within(p, i) = Within(c, i) + 1
      <4>1. done[c] + 1 < Measurements
        BY <2>1, <3>3, <3>4 DEF Within, Own
      <4>2. ~HasLearned(c)
        BY <2>1, <3>2, <3>3, <4>1 DEF HasLearned, LastAnswer
      <4> QED BY <3>3, <3>4, <4>2 DEF Generation
    <3>5. CASE Past(p, i) = Past(c, i) + 1 /\ Within(c, i) + 1 = Measurements
      <4>1. HasLearned(c)
        BY <2>4, <3>2, <3>3, <3>5 DEF HasLearned, LastAnswer
      <4>2. Past(p, i) = syncs[c]
        BY <2>1, <3>3, <3>5
      <4> QED BY <4>1, <4>2 DEF Generation
    <3> QED BY <3>1, <3>4, <3>5
  <2> QED BY <2>3, <2>4
<1> QED BY <1>1, <1>2 DEF HandedOver

\* A clock that shows the root's time but for e is off by e whenever it is read.
LEMMA ShowsError ==
  ASSUME Types, NEW r \in Rank, NEW clock, NEW e \in Int, Shows(r, clock, e), NEW t \in Int
  PROVE  ErrorAt(r, clock, t) = e
<1>1. BaseAt(0, t) \in Int
  <2>1. 0 \in Rank
    BY Size
  <2> QED BY <2>1, BaseIs
<1> QED BY <1>1 DEF ErrorAt, Shows

\* Every clock a rank has been given is off by the same error whenever it is read.
LEMMA CurrentIsGood ==
  ASSUME IInv, Accuracy, NEW r \in Rank, Generation(r) # 0
  PROVE  Good(r, Current(r))
<1>1. /\ Types /\ Own(r) /\ Clock(r) /\ Bound(r) \in Nat
      /\ syncs[r] \in Nat /\ round[r] \in Int /\ round[r] >= -1
  BY Bounds, Size DEF IInv, Types, Accuracy
<1>3. CASE LastAnswer(r)
  <2>1. r \in Client
    BY <1>1, <1>3 DEF LastAnswer, Own, Client
  <2> DEFINE point == CHOOSE point \in answer[r] : TRUE
  <2>2. point \in answer[r]
    BY <1>3 DEF LastAnswer
  <2> HIDE DEF point
  <2>3. Good(r, Learned(Append(fit[r], point)))
    <3>1. done[r] + 1 = Measurements
      BY <1>3, <2>1, <2>2, WithAnswer DEF LastAnswer
    <3> QED BY <2>1, <2>2, <3>1, WithAnswer
  <2>4. Current(r) = Learned(Append(fit[r], point))
    BY <1>3 DEF Current, point
  <2> QED BY <2>3, <2>4
<1>4. CASE ~LastAnswer(r) /\ HasLearned(r) /\ round[r] >= 0
  <2>1. r = 0 \/ round[r] < Learns[r]
    BY <1>4 DEF HasLearned
  <2>2. syncs[r] > 0
    BY <1>1, <1>4 DEF Clock
  <2>3. Good(r, my_clock[r])
    BY <1>1, <2>1, <2>2 DEF Clock
  <2> QED BY <1>4, <2>3 DEF Current
<1>5. CASE ~LastAnswer(r) /\ HasLearned(r) /\ ~(round[r] >= 0)
  <2>1. round[r] = -1 /\ syncs[r] > 0
    BY <1>1, <1>5 DEF Generation
  <2>2. r = 0 \/ round[r] < Learns[r]
    BY <1>5 DEF HasLearned
  <2>3. Good(r, global[r])
    BY <1>1, <2>1, <2>2 DEF Clock
  <2> QED BY <1>5, <2>3 DEF Current
<1>6. CASE ~LastAnswer(r) /\ ~HasLearned(r)
  <2>1. r \in Client /\ ~(round[r] < Learns[r]) /\ syncs[r] # 1
    BY <1>1, <1>6 DEF HasLearned, Client, Generation
  <2>2. round[r] # -1
    BY <2>1, Learning, Size
  <2>3. syncs[r] > 1
    BY <1>1, <2>1, <2>2 DEF Clock
  <2>4. Good(r, global[r])
    BY <1>1, <2>3 DEF Clock
  <2> QED BY <1>6, <2>4 DEF Current
<1> QED BY <1>3, <1>4, <1>5, <1>6

\* Whoever keeps its clock keeps its error, also as time goes on.
LEMMA ErrorKept ==
  ASSUME IInv, Accuracy, Accuracy', NEW r \in Rank, setting' = setting,
         Generation(r)' = Generation(r), Current(r)' = Current(r)
  PROVE  ErrorNow(r)' = ErrorNow(r)
<1>1. CASE Generation(r) = 0
  BY <1>1 DEF ErrorNow
<1>2. CASE Generation(r) # 0
  <2>1. PICK e \in Int : Shows(r, Current(r), e)
    BY <1>2, CurrentIsGood, Bounds DEF Good
  <2>2. now \in Int /\ now' \in Int /\ Types
    BY DEF Accuracy, IInv
  <2>3. ErrorAt(r, Current(r), now) = e /\ ErrorAt(r, Current(r), now') = e
    BY <2>1, <2>2, ShowsError
  <2>4. ErrorAt(r, Current(r), now)' = ErrorAt(r, Current(r), now')
    BY DEF ErrorAt, BaseAt
  <2> QED BY <1>2, <2>3, <2>4 DEF ErrorNow
<1> QED BY <1>1, <1>2

\* What a step does not change of SyncTree.
Stays(r) == Generation(r)' = Generation(r) /\ Current(r)' = Current(r)

LEMMA Stutters ==
  ASSUME IInv, Accuracy, Accuracy', setting' = setting, \A r \in Rank : Stays(r)
  PROVE  UNCHANGED Tree!treeVars
<1>1. \A r \in Rank : Generation(r)' = Generation(r) /\ ErrorNow(r)' = ErrorNow(r)
  BY ErrorKept DEF Stays
<1> QED BY <1>1 DEF Tree!treeVars

LEMMA Unmoved ==
  ASSUME NEW s, setting' = setting, round'[s] = round[s], syncs'[s] = syncs[s],
         fit'[s] = fit[s], answer'[s] = answer[s], my_clock'[s] = my_clock[s],
         global'[s] = global[s]
  PROVE  Stays(s)
<1>1. \A points : Learned(points)' = Learned(points)
  BY DEF Learned, Fitted, Remeasured, OffsetModel
<1>2. LastAnswer(s)' = LastAnswer(s) /\ HasLearned(s)' = HasLearned(s)
  BY DEF HasLearned, LastAnswer, Measurements
<1> QED BY <1>1, <1>2 DEF Stays, Current, Generation

\* The root's clock is what it is compared with.
RootIsExact == ErrorNow(0) = 0

LEMMA RootExact == IInv /\ Accuracy => RootIsExact
<1> SUFFICES ASSUME IInv, Accuracy, Generation(0) # 0 PROVE ErrorNow(0) = 0
  BY DEF RootIsExact, ErrorNow
<1>1. 0 \in Rank /\ Types /\ now \in Int
  BY Size DEF IInv, Accuracy
<1>2. PICK e \in -Bound(0)..Bound(0) : Shows(0, Current(0), e)
  BY <1>1, CurrentIsGood DEF Good
<1>3. e = 0
  BY <1>2, Bounds
<1>4. ErrorAt(0, Current(0), now) = 0
  BY <1>1, <1>2, <1>3, ShowsError
<1> QED BY <1>4 DEF ErrorNow

LEMMA RootExactNext == IInv' /\ Accuracy' => RootIsExact'
BY RootExact, PTL

\* The promise's variables.
TreeGen == [r \in Rank |-> Generation(r)]
TreeErr == [r \in Rank |-> ErrorNow(r)]

LEMMA StartMaps ==
  ASSUME IInv, Accuracy, IInv', Accuracy', NEW r \in Rank, Start(r),
         UNCHANGED <<setting, now>>
  PROVE  [Tree!TreeNext]_(Tree!treeVars)
<1>1. /\ round \in [Rank -> -1..NRounds(nprocs)] /\ NRounds(nprocs) \in Nat
      /\ syncs \in [Rank -> Nat] /\ DOMAIN my_clock = Rank /\ round[r] = -1
      /\ syncs[r] < MaxSyncs /\ 0 \in Rank
  BY Size DEF IInv, Types, Start
<1>2. /\ round' = [round EXCEPT ![r] = NRounds(nprocs)] /\ syncs' = [syncs EXCEPT ![r] = @ + 1]
      /\ my_clock' = [my_clock EXCEPT ![r] = Dummy] /\ done' = done /\ fit' = fit
      /\ answer' = answer /\ global' = global /\ setting' = setting
  BY DEF Start
<1>3. round'[r] = NRounds(nprocs) /\ syncs'[r] = syncs[r] + 1
  BY <1>1, <1>2
<1>4. ASSUME NEW s \in Rank \ {r} PROVE Stays(s)
  <2>1. /\ round'[s] = round[s] /\ syncs'[s] = syncs[s] /\ my_clock'[s] = my_clock[s]
    BY <1>1, <1>2
  <2> QED BY <1>2, <2>1, Unmoved
<1>5. CASE r # 0
  <2>1. r \in Client /\ Learns[r] \in 0..NRounds(nprocs)
    BY <1>5, Learning DEF Client
  <2>2. answer[r] = {}
    BY <1>1, <2>1, NoAnswer
  <2>3. ~LastAnswer(r) /\ ~LastAnswer(r)'
    BY <1>2, <2>2 DEF LastAnswer
  <2>4. HasLearned(r) /\ ~HasLearned(r)'
    BY <1>1, <1>3, <1>5, <2>1, <2>3 DEF HasLearned
  <2>5. Stays(r)
    BY <1>1, <1>2, <1>3, <2>3, <2>4 DEF Stays, Generation, Current
  <2> QED BY <1>2, <1>4, <2>5, Stutters
<1>6. CASE r = 0
  <2>1. ASSUME NEW c \in Rank \ {0}, Parents[c] = 0 PROVE Generation(c) = syncs[0]
    <3>1. c \in Client /\ -1 < Learns[c]
      BY Learning, <1>1 DEF Client
    <3> QED BY <1>1, <1>6, <2>1, <3>1, GenerationIs DEF HandedOver, Past
  <2>2. Generation(0) = syncs[0] /\ Generation(0)' = syncs[0] + 1
    BY <1>3, <1>6 DEF Generation, HasLearned
  <2>3. ErrorNow(0) = 0 /\ ErrorNow(0)' = 0
    BY RootExact, RootExactNext DEF RootIsExact
  <2>4. \A s \in Rank \ {0} : Generation(s)' = Generation(s) /\ ErrorNow(s)' = ErrorNow(s)
    BY <1>2, <1>4, <1>6, ErrorKept DEF Stays
  <2>5. TreeGen[0] < MaxSyncs /\ Tree!Served(0)
    BY <1>1, <1>6, <2>1, <2>2 DEF TreeGen, Tree!Served, Tree!Children
  <2>6. TreeGen' = [TreeGen EXCEPT ![0] = @ + 1]
    BY <1>1, <2>2, <2>4 DEF TreeGen
  <2>7. TreeErr' = TreeErr
    BY <2>3, <2>4 DEF TreeErr
  <2> QED BY <2>5, <2>6, <2>7 DEF TreeGen, TreeErr, Tree!TreeNext, Tree!Lead
<1> QED BY <1>5, <1>6

\* A rank that has its clock, or has not reached its round, and goes on.
LEMMA GoesOn ==
  ASSUME IInv, NEW r \in Rank, setting' = setting, syncs' = syncs, fit'[r] = fit[r],
         answer'[r] = answer[r], my_clock'[r] = my_clock[r], answer[r] = {},
         round[r] >= 0, r # 0 => round[r] # Learns[r], Advance(r, my_clock[r])
  PROVE  Stays(r)
<1>1. /\ round[r] \in Int /\ round'[r] = round[r] - 1
      /\ global'[r] = IF round[r] = 0 THEN my_clock[r] ELSE global[r]
  <2>1. round \in [Rank -> -1..NRounds(nprocs)] /\ NRounds(nprocs) \in Nat /\ DOMAIN global = Rank
    BY Size DEF IInv, Types
  <2> QED BY <2>1 DEF Advance
<1>2. r # 0 => Learns[r] \in Int /\ Learns[r] >= 0
  BY Learning, Size DEF Client
<1>3. ~LastAnswer(r) /\ ~LastAnswer(r)'
  BY DEF LastAnswer
<1>4. HasLearned(r)' = HasLearned(r)
  BY <1>1, <1>2, <1>3 DEF HasLearned
<1>5. Generation(r)' = Generation(r)
  BY <1>4 DEF Generation
<1>6. Current(r)' = Current(r)
  <2>1. CASE HasLearned(r)
    <3>1. Current(r) = my_clock[r]
      BY <1>3, <2>1 DEF Current
    <3>2. Current(r)' = IF round[r] = 0 THEN global'[r] ELSE my_clock[r]
      <4>1. round'[r] >= 0 <=> round[r] # 0
        BY <1>1
      <4> QED BY <1>3, <1>4, <2>1, <4>1 DEF Current
    <3> QED BY <1>1, <3>1, <3>2
  <2>2. CASE ~HasLearned(r)
    <3>1. r # 0 /\ ~(round[r] < Learns[r])
      BY <2>2 DEF HasLearned
    <3>2. round[r] # 0
      BY <1>1, <1>2, <3>1
    <3> QED BY <1>1, <1>3, <1>4, <2>2, <3>2 DEF Current
  <2> QED BY <2>1, <2>2
<1> QED BY <1>5, <1>6 DEF Stays

LEMMA SkipMaps ==
  ASSUME IInv, Accuracy, Accuracy', NEW r \in Rank, Skip(r), UNCHANGED <<setting, now>>
  PROVE  UNCHANGED Tree!treeVars
<1>1. /\ Types /\ round[r] >= 0 /\ MyCall(r) = {} /\ Advance(r, my_clock[r])
      /\ syncs' = syncs /\ fit' = fit /\ answer' = answer /\ my_clock' = my_clock
      /\ setting' = setting
  BY DEF IInv, Skip
<1>2. \A s \in Rank \ {r} : round'[s] = round[s] /\ global'[s] = global[s]
  BY <1>1 DEF Advance, Types
<1>3. r # 0 => round[r] # Learns[r]
  <2>1. ASSUME r # 0, round[r] = Learns[r] PROVE FALSE
    <3>1. r \in Client
      BY <2>1 DEF Client
    <3>2. MyCall(r) = {<<Parents[r], r>>}
      BY <1>1, <2>1, <3>1, OneEdge
    <3> QED BY <1>1, <3>2
  <2> QED BY <2>1
<1>4. answer[r] = {}
  BY <1>3, NoAnswer DEF Client, IInv, Own
<1>5. ASSUME NEW s \in Rank PROVE Stays(s)
  <2>1. CASE s = r
    BY <1>1, <1>3, <1>4, <2>1, GoesOn
  <2>2. CASE s # r
    BY <1>1, <1>2, <2>2, Unmoved
  <2> QED BY <2>1, <2>2
<1> QED BY <1>1, <1>5, Stutters

LEMMA LearnMaps ==
  ASSUME IInv, Accuracy, Accuracy', NEW r \in Rank, Learn(r), UNCHANGED <<setting, now>>
  PROVE  UNCHANGED Tree!treeVars
<1>1. /\ Types /\ Own(r) /\ setting' = setting /\ syncs' = syncs
  BY DEF IInv, Learn
<1>2. PICK point \in answer[r] :
        /\ answer' = [answer EXCEPT ![r] = {}]
        /\ IF LastOne(r)
           THEN /\ fit' = [fit EXCEPT ![r] = <<>>]
                /\ my_clock' = [my_clock EXCEPT ![r] = Learned(Append(fit[r], point))]
                /\ Advance(r, Learned(Append(fit[r], point)))
           ELSE /\ fit' = [fit EXCEPT ![r] = Append(fit[r], point)]
                /\ Again(r)
                /\ UNCHANGED my_clock
  BY DEF Learn
<1>3. r \in Client /\ r # 0
  <2>1. r # 0
    BY <1>1, <1>2 DEF Own
  <2> QED BY <2>1 DEF Client
<1>4. /\ round[r] = Learns[r] /\ answer[r] = {point} /\ Len(fit[r]) = done[r]
      /\ round[r] \in Int /\ round[r] >= 0
  BY <1>2, <1>3, WithAnswer, Learning, Size
<1>5. /\ DOMAIN answer = Rank /\ DOMAIN fit = Rank /\ DOMAIN my_clock = Rank
      /\ DOMAIN global = Rank /\ DOMAIN round = Rank
  BY <1>1 DEF Types
<1>6. answer'[r] = {}
  BY <1>2, <1>5
<1>7. ASSUME NEW s \in Rank \ {r} PROVE Stays(s)
  <2>1. /\ round'[s] = round[s] /\ global'[s] = global[s] /\ fit'[s] = fit[s]
        /\ my_clock'[s] = my_clock[s] /\ answer'[s] = answer[s]
    BY <1>2, <1>5 DEF Advance, Again
  <2> QED BY <1>1, <2>1, Unmoved
<1>8. ~LastAnswer(r)'
  BY <1>6 DEF LastAnswer
<1>9. Stays(r)
  <2>1. CASE LastOne(r)
    <3>1. LastAnswer(r) /\ HasLearned(r)
      BY <1>2, <1>4, <2>1 DEF LastAnswer, LastOne, HasLearned
    <3>2. Current(r) = Learned(Append(fit[r], point))
      <4>1. (CHOOSE x \in answer[r] : TRUE) = point
        BY <1>4
      <4> QED BY <3>1, <4>1 DEF Current
    <3>3. /\ round'[r] = round[r] - 1
          /\ my_clock'[r] = Learned(Append(fit[r], point))
          /\ global'[r] = IF round[r] = 0 THEN Learned(Append(fit[r], point)) ELSE global[r]
      BY <1>2, <1>5, <2>1 DEF Advance
    <3>4. HasLearned(r)'
      BY <1>4, <3>3 DEF HasLearned
    <3>5. Current(r)' = Learned(Append(fit[r], point))
      BY <1>4, <1>8, <3>3, <3>4 DEF Current
    <3> QED BY <1>1, <3>1, <3>2, <3>4, <3>5 DEF Stays, Generation
  <2>2. CASE ~LastOne(r)
    <3>1. round' = round /\ global' = global
      BY <1>2, <2>2 DEF Again
    <3>2. ~LastAnswer(r) /\ ~HasLearned(r)
      BY <1>3, <1>4, <2>2 DEF LastAnswer, LastOne, HasLearned
    <3>3. ~HasLearned(r)'
      BY <1>3, <1>4, <1>8, <3>1 DEF HasLearned
    <3> QED BY <1>1, <1>8, <3>1, <3>2, <3>3 DEF Stays, Generation, Current
  <2> QED BY <2>1, <2>2
<1> QED BY <1>1, <1>7, <1>9, Stutters

LEMMA ServeMaps ==
  ASSUME IInv, Accuracy, Accuracy', NEW r \in Rank, Serve(r), UNCHANGED <<setting, now>>
  PROVE  [Tree!TreeNext]_(Tree!treeVars)
<1>1. /\ Types /\ setting' = setting /\ now' = now /\ syncs' = syncs /\ fit' = fit
      /\ my_clock' = my_clock /\ Clock(r) /\ now \in Nat
  BY DEF IInv, Accuracy, Serve
<1>2. PICK call \in MyCall(r), d \in Errors(r) :
        /\ call[1] = r /\ Ready(r, call[2])
        /\ answer' = [answer EXCEPT ![call[2]] =
             {[timestamp |-> Reading(call[2]),
               offset    |-> Reading(call[2]) - Reading(r) + d]}]
        /\ IF LastOne(r) THEN Advance(r, my_clock[r]) ELSE Again(r)
  BY Zenon DEF Serve
<1> DEFINE c == call[2]
           i == Learns[c]
           point == [timestamp |-> Reading(c), offset |-> Reading(c) - Reading(r) + d]
           points == Append(fit[c], point)
<1>3. /\ c \in Client /\ call = <<r, c>> /\ Parents[c] = r /\ c # r
      /\ round[r] = i /\ MyCall(r) = {<<r, c>>}
  BY <1>1, <1>2, OnEdge
<1>4. /\ MyCall(c) = MyCall(r) /\ answer[c] = {} /\ c \in Rank /\ i \in 0..NRounds(nprocs)
      /\ c # 0 /\ \A k \in DOMAIN fit[c] : fit[c][k].timestamp # Reading(c)
  BY <1>2, <1>3, Size, Learning DEF Ready, Client
<1>5. /\ syncs[r] = syncs[c] /\ round[c] = i /\ done[r] = done[c] /\ Holds(fit[c], done[c])
      /\ done[c] \in Nat /\ syncs[c] \in Nat
  BY <1>1, <1>3, <1>4, Meeting DEF Types
<1>6. /\ answer'[c] = {point} /\ \A s \in Rank \ {c} : answer'[s] = answer[s]
  BY <1>1, <1>2, <1>4 DEF Types
<1>7. round[r] \in Int /\ round[r] >= 0
  BY <1>3, <1>4, Size
<1>8. r # 0 => round[r] # Learns[r]
  <2>1. ASSUME r # 0, Learns[r] = round[r] PROVE FALSE
    <3>1. r \in Client
      BY <2>1 DEF Client
    <3>2. MyCall(r) = {<<Parents[r], r>>}
      BY <1>1, <2>1, <3>1, OneEdge
    <3>3. <<Parents[r], r>> = <<r, c>>
      BY <1>3, <3>2
    <3> QED BY <1>3, <3>3
  <2> QED BY <2>1
<1>9. answer[r] = {}
  BY <1>8, NoAnswer DEF Client, IInv, Own
<1>10. PICK e \in -Bound(r)..Bound(r) :
         /\ \A k \in DOMAIN fit[c] : IsPoint(c, fit[c][k], k, e)
         /\ \A j, k \in DOMAIN fit[c] : j < k => fit[c][j].timestamp < fit[c][k].timestamp
         /\ \A k \in DOMAIN fit[c] : fit[c][k].timestamp < point.timestamp
         /\ IsPoint(c, point, done[c] + 1, e)
         /\ Shows(r, my_clock[r], e)
  BY <1>2, <1>3, <1>4, Answered
<1>11. /\ Holds(points, done[c] + 1)
       /\ \A k \in 1..(done[c] + 1) : IsPoint(c, points[k], k, e)
       /\ \A j, k \in 1..(done[c] + 1) : j < k => points[j].timestamp < points[k].timestamp
  BY <1>5, <1>10, OneMore
<1> HIDE DEF points
<1> HIDE DEF point
<1> HIDE DEF c, i
<1>12. /\ DOMAIN round = Rank /\ DOMAIN global = Rank
  BY <1>1 DEF Types
<1>13. \A s \in Rank \ {r} : round'[s] = round[s] /\ global'[s] = global[s]
  BY <1>2, <1>12 DEF Advance, Again
<1>14. \A s \in Rank \ {c, r} : Stays(s)
  BY <1>1, <1>6, <1>13, Unmoved
<1>15. Stays(r)
  <2>1. CASE LastOne(r)
    <3>1. answer'[r] = answer[r] /\ Advance(r, my_clock[r])
      BY <1>2, <1>3, <1>6, <2>1
    <3> QED BY <1>1, <1>7, <1>8, <1>9, <3>1, GoesOn
  <2>2. CASE ~LastOne(r)
    <3>1. answer'[r] = answer[r] /\ round'[r] = round[r] /\ global'[r] = global[r]
      BY <1>2, <1>3, <1>6, <2>2 DEF Again
    <3> QED BY <1>1, <3>1, Unmoved
  <2> QED BY <2>1, <2>2
<1>16. /\ Len(fit'[c]) = done[c] /\ Measurements' = Measurements
       /\ round'[c] = i /\ global'[c] = global[c]
  BY <1>1, <1>3, <1>4, <1>5, <1>13 DEF Holds, Measurements
<1>17. ~HasLearned(c) /\ ~LastAnswer(c) /\ Generation(c) = syncs[c] - 1
  <2>1. ~LastAnswer(c)
    BY <1>4 DEF LastAnswer
  <2>2. ~HasLearned(c)
    <3>1. ~(round[c] < Learns[c])
      BY <1>5, <1>3, <1>7 DEF i
    <3> QED BY <1>4, <2>1, <3>1 DEF HasLearned
  <2> QED BY <2>1, <2>2 DEF Generation
<1>18. CASE ~LastOne(r)
  <2>1. ~LastAnswer(c)'
    BY <1>5, <1>16, <1>18 DEF LastAnswer, LastOne
  <2>2. ~HasLearned(c)'
    <3>1. ~(round'[c] < Learns[c])
      BY <1>3, <1>7, <1>16 DEF i
    <3> QED BY <1>4, <2>1, <3>1 DEF HasLearned
  <2>3. Stays(c)
    BY <1>1, <1>16, <1>17, <2>1, <2>2 DEF Stays, Generation, Current
  <2>4. \A s \in Rank : Stays(s)
    BY <1>14, <1>15, <2>3
  <2> QED BY <1>1, <2>4, Stutters
<1>19. CASE LastOne(r)
  <2>1. done[c] + 1 = Measurements
    BY <1>5, <1>19 DEF LastOne
  \* The error of the new clock.
  <2>2. PICK x \in -MaxError..MaxError : Shows(c, Learned(points), e + x)
    <3>1. Len(points) = Measurements /\ points \in Seq({points[k] : k \in DOMAIN points})
      BY <1>11, <2>1 DEF Holds
    <3>2. e \in Int
      BY <1>3, Bounds, Learning
    <3> QED BY <1>1, <1>3, <1>11, <2>1, <3>1, <3>2, LearnedShows
  <2>3. LastAnswer(c)' /\ HasLearned(c)'
    BY <1>6, <1>16, <2>1 DEF LastAnswer, HasLearned
  <2>4. Current(c)' = Learned(points)
    <3>1. PICK seq, q : seq = points /\ q = point
      OBVIOUS
    <3>2. (CHOOSE y \in answer'[c] : TRUE) = q
      BY <1>6, <3>1
    <3>3. seq = Append(fit'[c], q)
      BY <1>1, <3>1 DEF points
    <3>4. Current(c)' = Learned(seq)'
      BY <2>3, <3>2, <3>3 DEF Current
    <3>5. Learned(seq)' = Learned(seq)
      BY <1>1 DEF Learned, Fitted, Remeasured, OffsetModel
    <3> QED BY <3>1, <3>4, <3>5
  <2>5. Generation(c)' = Generation(c) + 1 /\ Generation(c)' = syncs[c]
    BY <1>1, <1>5, <1>17, <2>3 DEF Generation
  <2>6. syncs[c] # 0
    <3>1. round[c] # -1 /\ Clock(c)
      BY <1>3, <1>4, <1>5, <1>7 DEF Accuracy
    <3> QED BY <1>5, <3>1 DEF Clock
  <2>7. e \in Int /\ x \in Int /\ now \in Int
    BY <1>1, <1>3, Bounds, Learning
  <2>8. ErrorNow(c)' = e + x
    <3>1. ErrorAt(c, Learned(points), now) = e + x
      BY <1>1, <1>4, <2>2, <2>7, ShowsError
    <3>2. ErrorNow(c)' = ErrorAt(c, Current(c), now)'
      BY <2>5, <2>6 DEF ErrorNow
    <3>3. ErrorAt(c, Current(c), now)' = ErrorAt(c, Learned(points), now)
      BY <1>1, <2>4 DEF ErrorAt, BaseAt
    <3> QED BY <3>1, <3>2, <3>3
  \* The error of the reference's.
  <2>9. /\ HasLearned(r) /\ ~LastAnswer(r)
    <3>1. r # 0 => i < Learns[r]
      BY <1>3, Levels DEF i
    <3> QED BY <1>3, <1>9, <3>1 DEF HasLearned, LastAnswer
  <2>10. Generation(r) = syncs[c] /\ ErrorNow(r) = e
    <3>1. Generation(r) = syncs[c]
      BY <1>5, <2>9 DEF Generation
    <3>2. Current(r) = my_clock[r]
      BY <1>7, <2>9 DEF Current
    <3>3. ErrorAt(r, my_clock[r], now) = e
      BY <1>1, <1>10, <2>7, ShowsError
    <3> QED BY <2>6, <3>1, <3>2, <3>3 DEF ErrorNow
  <2>11. \A s \in Rank \ {c} : Generation(s)' = Generation(s) /\ ErrorNow(s)' = ErrorNow(s)
    <3>1. \A s \in Rank \ {c} : Stays(s)
      BY <1>14, <1>15
    <3> QED BY <1>1, <3>1, ErrorKept DEF Stays
  \* c has served its own clients of the synchronisation before.
  <2>12. ASSUME NEW s \in Rank \ {0}, Parents[s] = c PROVE Generation(s) = Generation(c)
    <3>1. s \in Client /\ Parents[s] # 0
      BY <1>4, <2>12 DEF Client
    <3>2. Learns[Parents[s]] > Learns[s] /\ Learns[s] \in 0..NRounds(nprocs)
      BY <3>1, Levels, Learning
    <3>3. ~(round[c] < Learns[s])
      BY <1>3, <1>5, <1>7, <2>12, <3>2, Size DEF i
    <3>4. Generation(s) = Past(c, Learns[s])
      BY <2>12, <3>1, GenerationIs DEF HandedOver
    <3> QED BY <1>17, <3>3, <3>4 DEF Past
  <2>13. TreeGen[Parents[c]] = TreeGen[c] + 1 /\ Tree!Served(c)
    <3>1. TreeGen[Parents[c]] = TreeGen[c] + 1
      BY <1>3, <1>4, <1>5, <1>17, <2>10 DEF TreeGen
    <3>2. Tree!Served(c)
      BY <1>4, <2>12 DEF Tree!Served, Tree!Children
    <3> QED BY <3>1, <3>2
  <2>14. TreeGen' = [TreeGen EXCEPT ![c] = @ + 1]
    BY <1>4, <2>5, <2>11 DEF TreeGen
  <2>15. TreeErr' = [TreeErr EXCEPT ![c] = TreeErr[Parents[c]] + x]
    <3>1. TreeErr[Parents[c]] = e
      BY <1>3, <2>10 DEF TreeErr
    <3>2. TreeErr' = [TreeErr EXCEPT ![c] = e + x]
      BY <1>4, <2>8, <2>11 DEF TreeErr
    <3> QED BY <3>1, <3>2
  <2>16. Tree!Adopt(c)
    BY <2>13, <2>14, <2>15 DEF TreeGen, TreeErr, Tree!Adopt
  <2> QED BY <1>4, <2>16 DEF Tree!TreeNext
<1> QED BY <1>18, <1>19

\* HCA3 and HCA3O keep the promise of SyncTree for any number of ranks: every step is one
\* of the promise's, or changes nothing of it.  A rank takes its clock from its
\* reference's clock of the same synchronisation, with the error of one measurement, and
\* only when its own clients have theirs of the synchronisation before.
THEOREM RoundsKeepTreePromise == Spec => TreePromise
<1>1. Init => Tree!TreeInit
  <2> SUFFICES ASSUME Init PROVE Tree!TreeInit
    OBVIOUS
  <2>1. ASSUME NEW r \in Rank PROVE Generation(r) = 0
    <3>1. round[r] = -1 /\ syncs[r] = 0
      BY DEF Init
    <3>2. r # 0 => -1 < Learns[r]
      BY Learning, Size DEF Client
    <3> QED BY <3>1, <3>2 DEF Generation, HasLearned
  <2>2. ASSUME NEW r \in Rank PROVE ErrorNow(r) = 0
    BY <2>1 DEF ErrorNow
  <2> QED BY <2>1, <2>2 DEF Tree!TreeInit
<1>2. IInv /\ Accuracy /\ IInv' /\ Accuracy' /\ [Next]_vars => [Tree!TreeNext]_(Tree!treeVars)
  <2> SUFFICES ASSUME IInv, Accuracy, IInv', Accuracy', [Next]_vars
               PROVE  [Tree!TreeNext]_(Tree!treeVars)
    OBVIOUS
  <2>1. CASE Tick \/ UNCHANGED vars
    <3>1. UNCHANGED <<setting, round, syncs, done, fit, answer, my_clock, global>>
      BY <2>1 DEF Tick, vars
    <3>2. \A s \in Rank : Stays(s)
      BY <3>1, Unmoved
    <3> QED BY <3>1, <3>2, Stutters
  <2>2. ASSUME NEW r \in Rank, Step(r) PROVE [Tree!TreeNext]_(Tree!treeVars)
    BY <2>2, StartMaps, SkipMaps, ServeMaps, LearnMaps DEF Step
  <2> QED BY <2>1, <2>2 DEF Next, Stop
<1> QED
  BY <1>1, <1>2, Invariance, AccuracyInvariance, PTL DEF Spec, TreePromise, Tree!TreeSpec
=============================================================================
