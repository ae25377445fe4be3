---------------------------- MODULE JKSyncProofs ----------------------------
(***************************************************************************)
(* For any number of ranks, fit points, exchanges and synchronisations:    *)
(* rank 0 and the client whose turn it is go through the same phases of    *)
(* the same measurement, and the others wait for theirs; and what a        *)
(* measurement returns is off by no more than delays differ.               *)
(***************************************************************************)
EXTENDS JKSync, FiniteSetTheorems, WellFoundedInduction, TLAPS

Phase == {"idle", "enter", "ping", "pong", "echo", "exchange", "sent"}

Types ==
  /\ syncs \in [Rank -> Nat] /\ fit \in [Rank -> Nat] /\ n \in [Rank -> Nat]
  /\ phase \in [Rank -> Phase]
  /\ p \in Client
  /\ known = [r \in Rank |-> known[r]]
  /\ up = [c \in Client |-> up[c]] /\ down = [c \in Client |-> down[c]]

\* A channel with one message.
Holds(channel, kind) == \E value : channel = <<[kind |-> kind, value |-> value]>>

\* Rank 0 is through with c at its present fit point: c has taken the last answer.
Done(c) ==
  c < p \/ (c = p /\ phase[0] = "sent" /\ ~(n[0] + 1 < nexchanges) /\ down[c] = <<>>)

\* The synchronisation and the fit point of rank 0's next measurement with c, or of the
\* one they are in.
DueSync(c) ==
  IF phase[0] = "idle" \/ (Done(c) /\ ~(fit[0] + 1 < n_fitpoints)) THEN syncs[0] + 1
  ELSE syncs[0]
DueFit(c) ==
  IF phase[0] = "idle" \/ (Done(c) /\ ~(fit[0] + 1 < n_fitpoints)) THEN 0
  ELSE IF Done(c) THEN fit[0] + 1
  ELSE fit[0]

\* c is in that measurement, or has not begun the synchronisation yet.
InDue(c) ==
  \/ phase[c] # "idle" /\ syncs[c] = DueSync(c) /\ fit[c] = DueFit(c)
  \/ phase[c] = "idle" /\ syncs[c] + 1 = DueSync(c) /\ DueFit(c) = 0

\* Rank 0 has not entered the measurement; c may have, and asked its first question.
Between(c) ==
  /\ InDue(c) /\ down[c] = <<>>
  /\ \/ /\ phase[c] \in {"idle", "enter"} /\ up[c] = <<>>
        /\ c \in known[0] <=> c \in known[c]
     \/ /\ phase[c] = "echo" /\ n[c] = 0 /\ up[c] = <<>>
        /\ c \in known[0] /\ c \in known[c]
     \/ /\ phase[c] = "exchange" /\ n[c] = 0 /\ up[c] = <<>>
        /\ c \notin known[0] /\ c \in known[c]
     \/ /\ phase[c] = "sent" /\ n[c] = 0 /\ Holds(up[c], "question")
        /\ c \notin known[0] /\ c \in known[c]

\* Rank 0 has entered and c has not.
Awaited(c) ==
  /\ phase[c] \in {"idle", "enter"} /\ up[c] = <<>> /\ n[0] = 0
  /\ \/ phase[0] = "ping" /\ down[c] = <<>> /\ c \in known[c]
     \/ phase[0] = "pong" /\ Holds(down[c], "ping") /\ c \in known[c]
     \/ phase[0] = "exchange" /\ down[c] = <<>> /\ c \notin known[c]

\* Both measure the round-trip time, or c is about to take its mean.
RoundTrip(c) ==
  /\ phase[c] = "echo" /\ c \in known[c]
  /\ \/ /\ phase[0] = "ping" /\ n[c] = n[0] /\ n[0] <= RttRounds
        /\ up[c] = <<>> /\ down[c] = <<>>
     \/ /\ phase[0] = "pong" /\ n[c] = n[0] /\ n[0] < RttRounds
        /\ up[c] = <<>> /\ Holds(down[c], "ping")
     \/ /\ phase[0] = "pong" /\ n[c] = n[0] + 1 /\ n[0] < RttRounds
        /\ Holds(up[c], "pong") /\ down[c] = <<>>
     \/ /\ phase[0] = "exchange" /\ n[0] = 0 /\ n[c] = RttRounds
        /\ up[c] = <<>> /\ Holds(down[c], "mean")

\* c asks and rank 0 answers; c may ask again before rank 0 has noticed that its answer
\* was taken.
Exchange(c) ==
  /\ c \in known[c]
  /\ \/ /\ phase[0] = "exchange" /\ phase[c] = "exchange" /\ n[c] = n[0]
        /\ up[c] = <<>> /\ down[c] = <<>>
     \/ /\ phase[0] = "exchange" /\ phase[c] = "sent" /\ n[c] = n[0]
        /\ Holds(up[c], "question") /\ down[c] = <<>>
     \/ /\ phase[0] = "sent" /\ phase[c] = "sent" /\ n[c] = n[0]
        /\ up[c] = <<>> /\ Holds(down[c], "time")
     \/ /\ phase[0] = "sent" /\ phase[c] = "exchange" /\ n[c] = n[0] + 1
        /\ up[c] = <<>> /\ down[c] = <<>>
     \/ /\ phase[0] = "sent" /\ phase[c] = "sent" /\ n[c] = n[0] + 1
        /\ Holds(up[c], "question") /\ down[c] = <<>>

Measuring(c) ==
  /\ InDue(c) /\ c \in known[0]
  /\ Awaited(c) \/ RoundTrip(c) \/ Exchange(c)

\* It is c's turn, and rank 0 has entered.
Turn(c) == c = p /\ phase[0] \notin {"idle", "enter"} /\ ~Done(c)

Pair(c) == IF Turn(c) THEN Measuring(c) ELSE Between(c)

\* Rank 0 has a turn of its own only in the phases of its side.
RootPhase ==
  /\ phase[0] # "echo"
  /\ phase[0] = "idle" => p = 1

IInv == Types /\ RootPhase /\ \A c \in Client : Pair(c)

-----------------------------------------------------------------------------
(* Lemmas                                                                  *)

LEMMA OneMessage ==
  ASSUME NEW x
  PROVE  /\ Append(<<>>, x) = <<x>>
         /\ Head(<<x>>) = x /\ Tail(<<x>>) = <<>> /\ <<x>> # <<>>
<1> DEFINE S == {x}
<1>1. x \in S /\ <<>> \in Seq(S) /\ <<x>> \in Seq(S)
  OBVIOUS
<1> HIDE DEF S
<1>2. Append(<<>>, x) = <<x>>
  BY <1>1
<1>3. Head(<<x>>) = x /\ Tail(<<x>>) = <<>> /\ <<x>> # <<>>
  BY <1>1
<1> QED BY <1>2, <1>3

LEMMA OneLength == Len(<<>>) = 0 /\ \A x : Len(<<x>>) = 1
<1>1. ASSUME NEW x PROVE Len(<<x>>) = 1
  <2>1. <<x>> \in Seq({x})
    OBVIOUS
  <2> QED BY <2>1
<1> QED BY <1>1

LEMMA Ranks ==
  /\ nprocs \in Nat /\ nprocs > 1 /\ nexchanges \in Nat /\ nexchanges > 0
  /\ n_fitpoints \in Nat /\ n_fitpoints > 0 /\ RttRounds \in Nat /\ RttRounds > 0
  /\ 0 \in Rank /\ 1 \in Client /\ 0 \notin Client
  /\ \A c \in Client : c \in Rank /\ c \in Nat /\ c > 0 /\ c < nprocs
<1>1. /\ nprocs \in Nat /\ nprocs > 1 /\ nexchanges \in Nat /\ nexchanges > 0
      /\ n_fitpoints \in Nat /\ n_fitpoints > 0
      /\ nexchanges_rtt \in Nat /\ nexchanges_rtt > 0 /\ nwarmups \in Nat /\ nwarmups > 0
  BY JKSyncAssumption
<1> QED BY <1>1 DEF RttRounds, Rank, Client

\* What the pair of c is described by.
SameRoot ==
  /\ phase'[0] = phase[0] /\ n'[0] = n[0] /\ fit'[0] = fit[0] /\ syncs'[0] = syncs[0]
  /\ p' = p /\ known'[0] = known[0]
SameClient(c) ==
  /\ phase'[c] = phase[c] /\ n'[c] = n[c] /\ fit'[c] = fit[c] /\ syncs'[c] = syncs[c]
  /\ known'[c] = known[c] /\ up'[c] = up[c] /\ down'[c] = down[c]
SameDue(c) == DueSync(c)' = DueSync(c) /\ DueFit(c)' = DueFit(c)

LEMMA Untouched ==
  ASSUME NEW c \in Client, SameRoot, SameClient(c), Pair(c)
  PROVE  Pair(c)'
BY DEF SameRoot, SameClient, Pair, Turn, Done, Measuring, Between, InDue, DueSync, DueFit,
       Awaited, RoundTrip, Exchange, Holds, RttRounds

LEMMA StillBetween ==
  ASSUME NEW c \in Client, SameClient(c), SameDue(c), Between(c),
         c \in known'[0] <=> c \in known[0]
  PROVE  Between(c)'
<1>1. InDue(c)'
  BY DEF InDue, SameClient, SameDue, Between
<1> QED BY <1>1 DEF Between, SameClient, Holds

\* A client's step leaves the pairs of the others alone.
LEMMA ClientAssemble ==
  ASSUME IInv, NEW c \in Client, SameRoot, \A d \in Client \ {c} : SameClient(d),
         Types', Pair(c)'
  PROVE  IInv'
<1>1. RootPhase'
  BY DEF IInv, RootPhase, SameRoot
<1>2. ASSUME NEW d \in Client PROVE Pair(d)'
  <2>1. CASE d = c
    BY <2>1
  <2>2. CASE d # c
    BY <2>2, Untouched DEF IInv
  <2> QED BY <2>1, <2>2
<1> QED BY <1>1, <1>2 DEF IInv

-----------------------------------------------------------------------------
(* The clients' steps                                                      *)

LEMMA StartClient ==
  ASSUME IInv, NEW c \in Client, Start(c)
  PROVE  IInv'
<1>1. /\ phase[c] = "idle" /\ phase'[c] = "enter" /\ syncs'[c] = syncs[c] + 1 /\ fit'[c] = 0
      /\ n'[c] = 0 /\ known' = known /\ up' = up /\ down' = down
  BY Ranks DEF Start, Goto, IInv, Types
<1>2. SameRoot /\ \A d \in Client \ {c} : SameClient(d)
  BY Ranks DEF Start, Goto, IInv, Types, SameRoot, SameClient
<1>3. Types'
  BY Ranks DEF Start, Goto, IInv, Types, Phase
<1>4. Pair(c)'
  <2>1. DueSync(c)' = DueSync(c) /\ DueFit(c)' = DueFit(c) /\ Turn(c)' = Turn(c)
    BY <1>1, <1>2 DEF SameRoot, DueSync, DueFit, Done, Turn
  <2>2. Pair(c) /\ syncs[c] \in Nat
    BY Ranks DEF IInv, Types
  <2> QED BY <1>1, <1>2, <2>1, <2>2 DEF Pair, Turn, Measuring, Between, InDue, Awaited, RoundTrip, Exchange, SameRoot
<1> QED BY <1>2, <1>3, <1>4, ClientAssemble

LEMMA ClientEnterInv ==
  ASSUME IInv, NEW c \in Client, ClientEnter(c)
  PROVE  IInv'
<1>1. /\ phase[c] = "enter" /\ phase'[c] = Entered(c, c, "echo") /\ n'[c] = 0
      /\ c \in known'[c] /\ syncs' = syncs /\ fit' = fit /\ up' = up /\ down' = down
  BY Ranks DEF ClientEnter, Goto, IInv, Types
<1>2. SameRoot /\ \A d \in Client \ {c} : SameClient(d)
  BY Ranks DEF ClientEnter, Goto, IInv, Types, SameRoot, SameClient
<1>3. Types'
  BY Ranks DEF ClientEnter, Goto, Entered, IInv, Types, Phase
<1>4. Pair(c)'
  <2>1. DueSync(c)' = DueSync(c) /\ DueFit(c)' = DueFit(c) /\ Turn(c)' = Turn(c)
    BY <1>1, <1>2 DEF SameRoot, DueSync, DueFit, Done, Turn
  <2>2. Pair(c)
    BY DEF IInv
  <2>3. phase'[0] = phase[0] /\ n'[0] = n[0] /\ known'[0] = known[0] /\ InDue(c)' = InDue(c)
    BY <1>1, <1>2, <2>1, <2>2 DEF SameRoot, InDue, Entered
  <2>4. CASE Turn(c)
    <3>1. InDue(c)' /\ c \in known'[0] /\ Turn(c)' /\ Awaited(c)
      BY <1>1, <2>1, <2>2, <2>3, <2>4 DEF Pair, Measuring, RoundTrip, Exchange
    <3>2. CASE c \in known[c]
      <4>1. phase'[c] = "echo" /\ n'[0] = 0 /\ n'[c] = 0 /\ phase[0] \in {"ping", "pong"}
        BY <1>1, <2>3, <3>1, <3>2 DEF Awaited, Entered
      <4>2. RoundTrip(c)'
        <5>1. /\ phase'[0] = phase[0] /\ n'[c] = n'[0] /\ n'[0] < RttRounds /\ n'[0] <= RttRounds
              /\ c \in known'[c] /\ up'[c] = <<>> /\ down'[c] = down[c]
          BY <1>1, <2>3, <3>1, <4>1, Ranks DEF Awaited
        <5>2. CASE phase[0] = "ping"
          BY <3>1, <4>1, <5>1, <5>2 DEF Awaited, RoundTrip
        <5>3. CASE phase[0] = "pong"
          BY <3>1, <4>1, <5>1, <5>3 DEF Awaited, RoundTrip, Holds
        <5> QED BY <4>1, <5>2, <5>3
      <4> QED BY <3>1, <4>2 DEF Pair, Measuring
    <3>3. CASE c \notin known[c]
      <4>1. phase'[c] = "exchange" /\ n'[0] = 0 /\ n'[c] = 0 /\ phase[0] = "exchange"
        BY <1>1, <2>3, <3>1, <3>3 DEF Awaited, Entered
      <4>2. Exchange(c)'
        BY <1>1, <2>3, <3>1, <3>3, <4>1 DEF Awaited, Exchange
      <4> QED BY <3>1, <4>2 DEF Pair, Measuring
    <3> QED BY <3>2, <3>3
  <2>5. CASE ~Turn(c)
    <3>1. /\ InDue(c)' /\ ~Turn(c)' /\ down[c] = <<>> /\ up[c] = <<>>
          /\ c \in known[0] <=> c \in known[c]
      BY <1>1, <2>1, <2>2, <2>3, <2>5 DEF Pair, Between
    <3> QED BY <1>1, <2>3, <3>1 DEF Pair, Between, Entered
  <2> QED BY <2>4, <2>5
<1> QED BY <1>2, <1>3, <1>4, ClientAssemble

LEMMA EchoInv ==
  ASSUME IInv, NEW c \in Client, Echo(c)
  PROVE  IInv'
<1>1. /\ phase[c] = "echo" /\ phase'[c] = "echo" /\ n[c] < RttRounds /\ n'[c] = n[c] + 1
      /\ down[c] # <<>> /\ down'[c] = Tail(down[c])
      /\ up'[c] = Append(up[c], [kind |-> "pong", value |-> NoTrip])
      /\ syncs' = syncs /\ fit' = fit /\ known' = known
  BY Ranks DEF Echo, Goto, IInv, Types
<1>2. SameRoot /\ \A d \in Client \ {c} : SameClient(d)
  BY Ranks DEF Echo, Goto, IInv, Types, SameRoot, SameClient
<1>3. Types'
  <2>1. n[c] + 1 \in Nat /\ fit[c] + 1 \in Nat
    BY Ranks DEF IInv, Types
  <2> QED BY <2>1, Ranks DEF Echo, Goto, IInv, Types, Phase
<1>4. Pair(c)'
  <2>1. Turn(c) /\ InDue(c) /\ c \in known[0] /\ c \in known[c] /\ phase[0] = "pong"
        /\ n[c] = n[0] /\ up[c] = <<>> /\ Holds(down[c], "ping") /\ n[0] < RttRounds
    <3>1. Turn(c) /\ Measuring(c)
      BY <1>1 DEF IInv, Pair, Between
    <3>2. RoundTrip(c) /\ n[0] \in Nat /\ RttRounds \in Nat
      BY <1>1, <3>1, Ranks DEF Measuring, Awaited, Exchange, IInv, Types
    <3> QED BY <1>1, <3>1, <3>2 DEF Measuring, RoundTrip
  <2>2. DueSync(c)' = DueSync(c) /\ DueFit(c)' = DueFit(c) /\ Turn(c)'
    BY <1>1, <1>2, <2>1 DEF SameRoot, DueSync, DueFit, Done, Turn
  <2>3. down'[c] = <<>> /\ Holds(up'[c], "pong")
    BY <1>1, <2>1, OneMessage DEF Holds
  <2>4. n'[0] = n[0] /\ n'[c] = n'[0] + 1
    BY <1>1, <1>2, <2>1 DEF SameRoot
  <2> QED BY <1>1, <1>2, <2>1, <2>2, <2>3, <2>4 DEF Pair, Measuring, InDue, RoundTrip, SameRoot, Holds
<1> QED BY <1>2, <1>3, <1>4, ClientAssemble

LEMMA TakeMeanInv ==
  ASSUME IInv, NEW c \in Client, TakeMean(c)
  PROVE  IInv'
<1>1. /\ phase[c] = "echo" /\ phase'[c] = "exchange" /\ n[c] = RttRounds /\ n'[c] = 0
      /\ down[c] # <<>> /\ down'[c] = Tail(down[c])
      /\ up' = up /\ syncs' = syncs /\ fit' = fit /\ known' = known
  BY Ranks DEF TakeMean, Goto, IInv, Types
<1>2. SameRoot /\ \A d \in Client \ {c} : SameClient(d)
  BY Ranks DEF TakeMean, Goto, IInv, Types, SameRoot, SameClient
<1>3. Types'
  BY Ranks DEF TakeMean, Goto, IInv, Types, Phase
<1>4. Pair(c)'
  <2>1. Turn(c) /\ InDue(c) /\ c \in known[0] /\ c \in known[c] /\ phase[0] = "exchange"
        /\ n[0] = 0 /\ up[c] = <<>> /\ Holds(down[c], "mean")
    <3>1. Turn(c) /\ Measuring(c)
      BY <1>1 DEF IInv, Pair, Between
    <3>2. RoundTrip(c) /\ n[0] \in Nat /\ RttRounds \in Nat
      BY <1>1, <3>1, Ranks DEF Measuring, Awaited, Exchange, IInv, Types
    <3> QED BY <1>1, <3>1, <3>2 DEF Measuring, RoundTrip
  <2>2. DueSync(c)' = DueSync(c) /\ DueFit(c)' = DueFit(c) /\ Turn(c)'
    BY <1>1, <1>2, <2>1 DEF SameRoot, DueSync, DueFit, Done, Turn
  <2>3. down'[c] = <<>>
    BY <1>1, <2>1, OneMessage DEF Holds
  <2> QED BY <1>1, <1>2, <2>1, <2>2, <2>3 DEF Pair, Measuring, InDue, Exchange, SameRoot
<1> QED BY <1>2, <1>3, <1>4, ClientAssemble

LEMMA AskInv ==
  ASSUME IInv, NEW c \in Client, Ask(c)
  PROVE  IInv'
<1>1. /\ phase[c] = "exchange" /\ phase'[c] = "sent" /\ n'[c] = n[c]
      /\ up'[c] = Append(up[c], [kind |-> "question", value |-> NoTrip])
      /\ down' = down /\ syncs' = syncs /\ fit' = fit /\ known' = known
  BY Ranks DEF Ask, Goto, IInv, Types
<1>2. SameRoot /\ \A d \in Client \ {c} : SameClient(d)
  BY Ranks DEF Ask, Goto, IInv, Types, SameRoot, SameClient
<1>3. Types'
  BY Ranks DEF Ask, Goto, IInv, Types, Phase
<1>4. Pair(c)'
  <2>1. DueSync(c)' = DueSync(c) /\ DueFit(c)' = DueFit(c) /\ Turn(c)' = Turn(c)
    BY <1>1, <1>2 DEF SameRoot, DueSync, DueFit, Done, Turn
  <2>2. Pair(c) /\ up[c] = <<>>
    BY <1>1 DEF IInv, Pair, Turn, Measuring, Between, InDue, Awaited, RoundTrip, Exchange
  <2>3. Holds(up'[c], "question")
    BY <1>1, <2>2, OneMessage DEF Holds
  <2> QED BY <1>1, <1>2, <2>1, <2>2, <2>3 DEF Pair, Turn, Measuring, Between, InDue, Awaited, RoundTrip, Exchange, SameRoot, Holds
<1> QED BY <1>2, <1>3, <1>4, ClientAssemble

LEMMA TakeAnswerInv ==
  ASSUME IInv, NEW c \in Client, TakeAnswer(c)
  PROVE  IInv'
<1>1. /\ phase[c] = "sent" /\ up[c] = <<>> /\ up' = up /\ down[c] # <<>>
      /\ down'[c] = Tail(down[c]) /\ syncs' = syncs /\ known' = known
      /\ IF n[c] + 1 < nexchanges
         THEN phase'[c] = "exchange" /\ n'[c] = n[c] + 1 /\ fit'[c] = fit[c]
         ELSE phase'[c] = NextFit(c) /\ n'[c] = 0 /\ fit'[c] = fit[c] + 1
  BY Ranks DEF TakeAnswer, Goto, IInv, Types
<1>2. SameRoot /\ \A d \in Client \ {c} : SameClient(d)
  BY Ranks DEF TakeAnswer, Goto, IInv, Types, SameRoot, SameClient
<1>3. Types'
  <2>1. n[c] + 1 \in Nat /\ fit[c] + 1 \in Nat
    BY Ranks DEF IInv, Types
  <2>2. /\ p' = p /\ syncs' = syncs /\ known' = known /\ up' = up
        /\ down' = [down EXCEPT ![c] = Tail(@)]
    BY DEF TakeAnswer
  <2>3. CASE n[c] + 1 < nexchanges
    <3>1. phase' = [phase EXCEPT ![c] = "exchange"] /\ n' = [n EXCEPT ![c] = n[c] + 1] /\ fit' = fit
      BY <2>3 DEF TakeAnswer, Goto
    <3> QED BY <2>1, <2>2, <3>1, Ranks DEF IInv, Types, Phase
  <2>4. CASE ~(n[c] + 1 < nexchanges)
    <3>1. /\ phase' = [phase EXCEPT ![c] = NextFit(c)] /\ n' = [n EXCEPT ![c] = 0]
          /\ fit' = [fit EXCEPT ![c] = @ + 1]
      BY <2>4 DEF TakeAnswer, Goto
    <3>2. NextFit(c) \in Phase
      BY DEF NextFit, Phase
    <3> QED BY <2>1, <2>2, <3>1, <3>2, Ranks DEF IInv, Types
  <2> QED BY <2>3, <2>4
<1>4. Pair(c)'
  <2>1. Turn(c) /\ InDue(c) /\ c \in known[0] /\ c \in known[c] /\ phase[0] = "sent"
        /\ n[c] = n[0] /\ Holds(down[c], "time")
    BY <1>1, Ranks DEF IInv, Types, Pair, Turn, Measuring, Between, InDue, Awaited, RoundTrip, Exchange, Holds
  <2>2. down'[c] = <<>>
    BY <1>1, <2>1, OneMessage DEF Holds
  <2>3. fit[0] \in Nat /\ syncs[0] \in Nat /\ n[0] \in Nat /\ syncs[c] = syncs[0] /\ fit[c] = fit[0]
    BY <1>1, <2>1, Ranks DEF IInv, Types, Turn, InDue, DueSync, DueFit
  <2>4. phase'[0] = "sent" /\ n'[0] = n[0] /\ fit'[0] = fit[0] /\ syncs'[0] = syncs[0] /\ c = p
        /\ p' = p /\ p \in Nat
    BY <1>2, <2>1, Ranks DEF SameRoot, Turn
  <2>5. CASE n[c] + 1 < nexchanges
    <3>1. Turn(c)' /\ DueSync(c)' = syncs[0] /\ DueFit(c)' = fit[0]
      BY <2>1, <2>4, <2>5 DEF Turn, Done, DueSync, DueFit
    <3> QED BY <1>1, <1>2, <2>1, <2>2, <2>3, <2>4, <2>5, <3>1
            DEF Pair, Measuring, InDue, Exchange, SameRoot
  <2>6. CASE ~(n[c] + 1 < nexchanges)
    <3>1. Done(c)' /\ ~Turn(c)'
      BY <2>1, <2>2, <2>4, <2>6 DEF Turn, Done
    <3>2. InDue(c)'
      BY <1>1, <2>3, <2>4, <2>6, <3>1, Ranks DEF InDue, DueSync, DueFit, NextFit
    <3> QED BY <1>1, <1>2, <2>1, <2>2, <2>6, <3>1, <3>2 DEF Pair, Between, SameRoot, NextFit
  <2> QED BY <2>5, <2>6
<1> QED BY <1>2, <1>3, <1>4, ClientAssemble

-----------------------------------------------------------------------------
(* Rank 0's steps                                                          *)

\* A step of rank 0 within its turn leaves the pairs of the others alone.
LEMMA RootAssemble ==
  ASSUME IInv, NEW c \in Client, c = p, p' = p,
         \A d \in Client : d # c =>
           SameClient(d) /\ SameDue(d) /\ (d \in known'[0] <=> d \in known[0]),
         Types', RootPhase', Pair(c)'
  PROVE  IInv'
<1>1. ASSUME NEW d \in Client PROVE Pair(d)'
  <2>1. CASE d = c
    BY <2>1
  <2>2. CASE d # c
    <3>1. ~Turn(d) /\ ~Turn(d)' /\ Between(d)
      BY <2>2 DEF Turn, IInv, Pair
    <3> QED BY <2>2, <3>1, StillBetween DEF Pair
  <2> QED BY <2>1, <2>2
<1> QED BY <1>1 DEF IInv

LEMMA StartRoot ==
  ASSUME IInv, Start(0)
  PROVE  IInv'
<1>1. /\ phase[0] = "idle" /\ phase'[0] = "enter" /\ syncs'[0] = syncs[0] + 1 /\ fit'[0] = 0
      /\ known' = known /\ p' = p /\ p = 1
  BY Ranks DEF Start, Goto, IInv, Types, RootPhase
<1>2. Types'
  BY Ranks DEF Start, Goto, IInv, Types, Phase
<1>3. RootPhase'
  BY <1>1 DEF RootPhase
<1>4. ASSUME NEW d \in Client PROVE Pair(d)'
  <2>1. SameClient(d)
    BY Ranks DEF Start, Goto, IInv, Types, SameClient
  <2>2. ~Done(d)'
    BY <1>1, Ranks DEF Done
  <2>3. SameDue(d)
    BY <1>1, <2>2 DEF SameDue, DueSync, DueFit
  <2>4. ~Turn(d) /\ ~Turn(d)' /\ Between(d)
    BY <1>1 DEF Turn, IInv, Pair
  <2> QED BY <1>1, <2>1, <2>3, <2>4, StillBetween DEF Pair
<1> QED BY <1>2, <1>3, <1>4 DEF IInv

LEMMA RootEnterInv ==
  ASSUME IInv, RootEnter
  PROVE  IInv'
<1>0. PICK c \in Client : c = p
  BY DEF IInv, Types
<1>1. /\ phase[0] = "enter" /\ phase'[0] = Entered(0, c, "ping") /\ n'[0] = 0
      /\ syncs' = syncs /\ fit' = fit /\ SameClient(c)
      /\ known'[0] = known[0] \cup {c}
  BY <1>0, Ranks DEF RootEnter, SameClient, Goto, IInv, Types
<1>2. p' = p /\ \A d \in Client : d # c => SameClient(d)
  BY <1>0, Ranks DEF RootEnter, SameClient, Goto, IInv, Types, SameClient
<1>3. Types'
  BY <1>0, Ranks DEF RootEnter, Goto, Entered, IInv, Types, Phase
<1>4. RootPhase'
  BY <1>1 DEF RootPhase, Entered
<1>5. \A d \in Client : d # c => SameDue(d)
  BY <1>0, <1>1, <1>2 DEF SameDue, DueSync, DueFit, Done, Entered
<1>6. Pair(c)'
  <2>1. Between(c)
    BY <1>0, <1>1 DEF IInv, Pair, Turn
  <2>2. ~Done(c) /\ ~Done(c)' /\ Turn(c)'
    BY <1>0, <1>1, <1>2, Ranks DEF Done, Turn, Entered
  <2>3. InDue(c)' /\ c \in known'[0]
    BY <1>1, <2>1, <2>2 DEF InDue, DueSync, DueFit, Between, SameClient, Entered
  <2>4. CASE c \in known[0]
    <3>1. phase'[0] = "ping"
      BY <1>1, <2>4 DEF Entered
    <3>2. Awaited(c)' \/ RoundTrip(c)'
      BY <1>1, <2>1, <2>4, <3>1, Ranks DEF Between, SameClient, Awaited, RoundTrip
    <3> QED BY <2>2, <2>3, <3>2 DEF Pair, Measuring
  <2>5. CASE c \notin known[0]
    <3>1. phase'[0] = "exchange"
      BY <1>1, <2>5 DEF Entered
    <3>2. Awaited(c)' \/ Exchange(c)'
      BY <1>1, <2>1, <2>5, <3>1 DEF Between, SameClient, Awaited, Exchange, Holds
    <3> QED BY <2>2, <2>3, <3>2 DEF Pair, Measuring
  <2> QED BY <2>4, <2>5
<1> QED BY <1>0, <1>1, <1>2, <1>3, <1>4, <1>5, <1>6, RootAssemble

LEMMA PingInv ==
  ASSUME IInv, Ping
  PROVE  IInv'
<1>0. PICK c \in Client : c = p
  BY DEF IInv, Types
<1>1. /\ phase[0] = "ping" /\ phase'[0] = "pong" /\ n[0] < RttRounds /\ n'[0] = n[0]
      /\ down'[c] = Append(down[c], [kind |-> "ping", value |-> NoTrip]) /\ up'[c] = up[c]
      /\ phase'[c] = phase[c] /\ n'[c] = n[c] /\ known' = known
      /\ syncs' = syncs /\ fit' = fit
  BY <1>0, Ranks DEF Ping, Goto, IInv, Types
<1>2. p' = p /\ \A d \in Client : d # c => SameClient(d)
  BY <1>0, Ranks DEF Ping, Goto, IInv, Types, SameClient
<1>3. Types'
  BY <1>0, Ranks DEF Ping, Goto, IInv, Types, Phase
<1>4. RootPhase'
  BY <1>1 DEF RootPhase, Entered
<1>5. \A d \in Client : d # c => SameDue(d)
  BY <1>0, <1>1, <1>2 DEF SameDue, DueSync, DueFit, Done, Entered
<1>6. Pair(c)'
  <2>1. Turn(c) /\ Turn(c)' /\ Measuring(c)
    BY <1>0, <1>1, <1>2, Ranks DEF IInv, Pair, Turn, Done
  <2>2. InDue(c)' /\ c \in known'[0]
    BY <1>1, <1>2, <2>1 DEF InDue, DueSync, DueFit, Measuring, Turn
  <2>3. Awaited(c) \/ RoundTrip(c)
    BY <1>1, <2>1 DEF Measuring, Exchange
  <2>4. down[c] = <<>>
    BY <1>1, <2>3 DEF Awaited, RoundTrip
  <2>5. Holds(down'[c], "ping")
    BY <1>1, <2>4, OneMessage DEF Holds
  <2>6. Awaited(c)' \/ RoundTrip(c)'
    BY <1>1, <2>3, <2>5 DEF Awaited, RoundTrip, Holds
  <2> QED BY <2>1, <2>2, <2>6 DEF Pair, Measuring
<1> QED BY <1>0, <1>1, <1>2, <1>3, <1>4, <1>5, <1>6, RootAssemble

LEMMA PongInv ==
  ASSUME IInv, Pong
  PROVE  IInv'
<1>0. PICK c \in Client : c = p
  BY DEF IInv, Types
<1>1. /\ phase[0] = "pong" /\ phase'[0] = "ping" /\ n'[0] = n[0] + 1
      /\ up[c] # <<>> /\ up'[c] = Tail(up[c]) /\ down'[c] = down[c]
      /\ phase'[c] = phase[c] /\ n'[c] = n[c] /\ known' = known
      /\ syncs' = syncs /\ fit' = fit
  BY <1>0, Ranks DEF Pong, Goto, IInv, Types
<1>2. p' = p /\ \A d \in Client : d # c => SameClient(d)
  BY <1>0, Ranks DEF Pong, Goto, IInv, Types, SameClient
<1>3. Types'
  <2>1. n[0] + 1 \in Nat
    BY Ranks DEF IInv, Types
  <2> QED BY <1>0, <2>1, Ranks DEF Pong, Goto, IInv, Types, Phase
<1>4. RootPhase'
  BY <1>1 DEF RootPhase, Entered
<1>5. \A d \in Client : d # c => SameDue(d)
  BY <1>0, <1>1, <1>2 DEF SameDue, DueSync, DueFit, Done, Entered
<1>6. Pair(c)'
  <2>1. Turn(c) /\ Turn(c)' /\ Measuring(c)
    BY <1>0, <1>1, <1>2, Ranks DEF IInv, Pair, Turn, Done
  <2>2. InDue(c)' /\ c \in known'[0]
    BY <1>1, <1>2, <2>1 DEF InDue, DueSync, DueFit, Measuring, Turn
  <2>3. RoundTrip(c)
    BY <1>1, <2>1 DEF Measuring, Awaited, Exchange
  <2>4. n[0] \in Nat /\ n[c] = n[0] + 1 /\ n[0] < RttRounds /\ Holds(up[c], "pong") /\ down[c] = <<>>
    BY <1>1, <2>3, Ranks DEF RoundTrip, IInv, Types
  <2>5. up'[c] = <<>> /\ n'[0] <= RttRounds
    BY <1>1, <2>4, OneMessage, Ranks DEF Holds
  <2>6. RoundTrip(c)'
    BY <1>1, <2>3, <2>4, <2>5 DEF RoundTrip
  <2> QED BY <2>1, <2>2, <2>6 DEF Pair, Measuring
<1> QED BY <1>0, <1>1, <1>2, <1>3, <1>4, <1>5, <1>6, RootAssemble

LEMMA SendMeanInv ==
  ASSUME IInv, SendMean
  PROVE  IInv'
<1>0. PICK c \in Client : c = p
  BY DEF IInv, Types
<1>1. /\ phase[0] = "ping" /\ phase'[0] = "exchange" /\ n[0] = RttRounds /\ n'[0] = 0
      /\ down'[c] = Append(down[c], [kind |-> "mean", value |-> Mean(rtts)]) /\ up'[c] = up[c]
      /\ phase'[c] = phase[c] /\ n'[c] = n[c] /\ known' = known
      /\ syncs' = syncs /\ fit' = fit
  BY <1>0, Ranks DEF SendMean, Goto, IInv, Types
<1>2. p' = p /\ \A d \in Client : d # c => SameClient(d)
  BY <1>0, Ranks DEF SendMean, Goto, IInv, Types, SameClient
<1>3. Types'
  BY <1>0, Ranks DEF SendMean, Goto, IInv, Types, Phase
<1>4. RootPhase'
  BY <1>1 DEF RootPhase, Entered
<1>5. \A d \in Client : d # c => SameDue(d)
  BY <1>0, <1>1, <1>2 DEF SameDue, DueSync, DueFit, Done, Entered
<1>6. Pair(c)'
  <2>1. Turn(c) /\ Turn(c)' /\ Measuring(c)
    BY <1>0, <1>1, <1>2, Ranks DEF IInv, Pair, Turn, Done
  <2>2. InDue(c)' /\ c \in known'[0]
    BY <1>1, <1>2, <2>1 DEF InDue, DueSync, DueFit, Measuring, Turn
  <2>3. RoundTrip(c)
    BY <1>1, <2>1, Ranks DEF Measuring, Awaited, Exchange
  <2>4. down[c] = <<>> /\ up[c] = <<>> /\ n[c] = RttRounds
    BY <1>1, <2>3 DEF RoundTrip
  <2>5. Holds(down'[c], "mean")
    BY <1>1, <2>4, OneMessage DEF Holds
  <2>6. RoundTrip(c)'
    BY <1>1, <2>3, <2>4, <2>5 DEF RoundTrip, Holds
  <2> QED BY <2>1, <2>2, <2>6 DEF Pair, Measuring
<1> QED BY <1>0, <1>1, <1>2, <1>3, <1>4, <1>5, <1>6, RootAssemble

LEMMA AnswerInv ==
  ASSUME IInv, Answer
  PROVE  IInv'
<1>0. PICK c \in Client : c = p
  BY DEF IInv, Types
<1>1. /\ phase[0] = "exchange" /\ phase'[0] = "sent" /\ n'[0] = n[0]
      /\ up[c] # <<>> /\ up'[c] = Tail(up[c])
      /\ down'[c] = Append(down[c], [kind |-> "time", value |-> NoTrip])
      /\ phase'[c] = phase[c] /\ n'[c] = n[c] /\ known' = known
      /\ syncs' = syncs /\ fit' = fit
  BY <1>0, Ranks DEF Answer, Goto, IInv, Types
<1>2. p' = p /\ \A d \in Client : d # c => SameClient(d)
  BY <1>0, Ranks DEF Answer, Goto, IInv, Types, SameClient
<1>3. Types'
  BY <1>0, Ranks DEF Answer, Goto, IInv, Types, Phase
<1>4. RootPhase'
  BY <1>1 DEF RootPhase, Entered
<1>5. \A d \in Client : d # c => SameDue(d)
  BY <1>0, <1>1, <1>2 DEF SameDue, DueSync, DueFit, Done, Entered
<1>6. Pair(c)'
  <2>1. Turn(c) /\ Measuring(c)
    BY <1>0, <1>1, Ranks DEF IInv, Pair, Turn, Done
  <2>2. Exchange(c)
    BY <1>1, <2>1 DEF Measuring, Awaited, RoundTrip
  <2>3. phase[c] = "sent" /\ n[c] = n[0] /\ Holds(up[c], "question") /\ down[c] = <<>>
    BY <1>1, <2>2 DEF Exchange
  <2>4. up'[c] = <<>> /\ Holds(down'[c], "time") /\ down'[c] # <<>>
    BY <1>1, <2>3, OneMessage DEF Holds
  <2>5. Exchange(c)'
    BY <1>1, <2>2, <2>3, <2>4 DEF Exchange, Holds
  <2>6. ~Done(c) /\ ~Done(c)' /\ Turn(c)'
    BY <1>0, <1>1, <1>2, <2>1, <2>4, Ranks DEF Turn, Done
  <2>7. InDue(c)' /\ c \in known'[0]
    BY <1>1, <1>2, <2>1, <2>6 DEF InDue, DueSync, DueFit, Measuring
  <2> QED BY <2>5, <2>6, <2>7 DEF Pair, Measuring
<1> QED BY <1>0, <1>1, <1>2, <1>3, <1>4, <1>5, <1>6, RootAssemble

LEMMA AnsweredInv ==
  ASSUME IInv, Answered
  PROVE  IInv'
<1>0. PICK c \in Client : c = p
  BY DEF IInv, Types
<1>1. /\ phase[0] = "sent" /\ down[c] = <<>> /\ known' = known /\ syncs' = syncs
      /\ up' = up /\ down' = down /\ \A d \in Client : SameClient(d)
  BY <1>0, Ranks DEF Answered, Goto, IInv, Types, SameClient
<1>2. n[0] \in Nat /\ fit[0] \in Nat /\ n[0] + 1 \in Nat /\ fit[0] + 1 \in Nat
  BY Ranks DEF IInv, Types
<1>3. CASE n[0] + 1 < nexchanges
  <2>1. phase' = [phase EXCEPT ![0] = "exchange"] /\ n' = [n EXCEPT ![0] = n[0] + 1]
        /\ p' = p /\ fit' = fit
    BY <1>3 DEF Answered, Goto
  <2>2. phase'[0] = "exchange" /\ n'[0] = n[0] + 1
    BY <2>1, Ranks DEF IInv, Types
  <2>3. Types'
    BY <1>1, <1>2, <2>1, Ranks DEF IInv, Types, Phase
  <2>4. RootPhase'
    BY <2>2 DEF RootPhase
  <2>5. \A d \in Client : SameDue(d)
    BY <1>0, <1>1, <1>3, <2>1, <2>2 DEF SameDue, DueSync, DueFit, Done
  <2>6. Turn(c) /\ Turn(c)' /\ Measuring(c)
    BY <1>0, <1>1, <1>3, <2>1, <2>2, Ranks DEF Turn, Done, IInv, Pair
  <2>7. InDue(c)' /\ c \in known'[0]
    BY <1>0, <1>1, <2>5, <2>6 DEF InDue, SameDue, SameClient, Measuring
  <2>8. Exchange(c)
    BY <1>1, <2>6 DEF Measuring, Awaited, RoundTrip
  <2>9. Exchange(c)'
    BY <1>0, <1>1, <2>2, <2>8, OneMessage DEF Exchange, SameClient, Holds
  <2>10. Pair(c)'
    BY <2>6, <2>7, <2>9 DEF Pair, Measuring
  <2> QED BY <1>0, <1>1, <2>1, <2>3, <2>4, <2>5, <2>10, RootAssemble
<1>4. CASE ~(n[0] + 1 < nexchanges) /\ p + 1 < nprocs
  <2>1. phase' = [phase EXCEPT ![0] = "enter"] /\ n' = [n EXCEPT ![0] = 0]
        /\ p' = p + 1 /\ fit' = fit
    BY <1>4 DEF Answered, Goto
  <2>2. phase'[0] = "enter"
    BY <2>1, Ranks DEF IInv, Types
  <2>3. p + 1 \in Client
    BY <1>0, <1>4, Ranks DEF Client, Rank
  <2>4. Types'
    BY <1>1, <2>1, <2>3, Ranks DEF IInv, Types, Phase
  <2>5. RootPhase'
    BY <2>2 DEF RootPhase
  <2>6. ASSUME NEW d \in Client PROVE Pair(d)'
    <3>1. Done(d)' = Done(d)
      BY <1>0, <1>1, <1>4, <2>1, <2>2, Ranks DEF Done
    <3>2. SameDue(d)
      BY <1>1, <2>1, <2>2, <3>1 DEF SameDue, DueSync, DueFit
    <3>3. ~Turn(d) /\ ~Turn(d)' /\ Between(d)
      BY <1>0, <1>1, <1>4, <2>2 DEF Turn, Done, IInv, Pair
    <3> QED BY <1>1, <3>2, <3>3, StillBetween DEF Pair
  <2> QED BY <2>4, <2>5, <2>6 DEF IInv
<1>5. CASE ~(n[0] + 1 < nexchanges) /\ ~(p + 1 < nprocs)
  <2>1. phase' = [phase EXCEPT ![0] = NextFit(0)] /\ n' = [n EXCEPT ![0] = 0]
        /\ p' = 1 /\ fit' = [fit EXCEPT ![0] = fit[0] + 1]
    BY <1>5 DEF Answered, Goto
  <2>2. phase'[0] = NextFit(0) /\ fit'[0] = fit[0] + 1 /\ phase'[0] \in {"enter", "idle"}
    BY <2>1, Ranks DEF IInv, Types, NextFit
  <2>3. Types'
    BY <1>1, <1>2, <2>1, <2>2, Ranks DEF IInv, Types, Phase
  <2>4. RootPhase'
    BY <2>1, <2>2 DEF RootPhase
  <2>5. ASSUME NEW d \in Client PROVE Pair(d)'
    <3>1. Done(d) /\ ~Done(d)'
      BY <1>0, <1>1, <1>5, <2>1, <2>2, Ranks DEF Done
    <3>2. SameDue(d)
      BY <1>1, <1>2, <2>2, <3>1 DEF SameDue, DueSync, DueFit, NextFit
    <3>3. ~Turn(d) /\ ~Turn(d)' /\ Between(d)
      BY <2>2, <3>1 DEF Turn, IInv, Pair
    <3> QED BY <1>1, <3>2, <3>3, StillBetween DEF Pair
  <2> QED BY <2>3, <2>4, <2>5 DEF IInv
<1> QED BY <1>3, <1>4, <1>5

-----------------------------------------------------------------------------
(* The theorem                                                             *)

LEMMA InitInv == Init => IInv
<1> SUFFICES ASSUME Init PROVE IInv
  OBVIOUS
<1>1. Types /\ RootPhase
  BY Ranks DEF Init, Types, RootPhase, Phase
<1>2. ASSUME NEW c \in Client PROVE Pair(c)
  <2>1. ~Turn(c) /\ DueSync(c) = 1 /\ DueFit(c) = 0
    BY Ranks DEF Init, Turn, DueSync, DueFit
  <2> QED BY <2>1, Ranks DEF Init, Pair, Between, InDue
<1> QED BY <1>1, <1>2 DEF IInv

LEMMA NextInv == IInv /\ [Next]_vars => IInv'
<1> SUFFICES ASSUME IInv, [Next]_vars PROVE IInv'
  OBVIOUS
<1>1. CASE UNCHANGED vars
  <2>1. Types' /\ RootPhase'
    BY <1>1 DEF vars, IInv, Types, RootPhase
  <2>2. ASSUME NEW c \in Client PROVE Pair(c)'
    BY <1>1, Untouched DEF vars, IInv, SameRoot, SameClient
  <2> QED BY <2>1, <2>2 DEF IInv
<1>2. CASE RootStep
  BY <1>2, StartRoot, RootEnterInv, PingInv, PongInv, SendMeanInv, AnswerInv, AnsweredInv
     DEF RootStep
<1>3. ASSUME NEW c \in Client, ClientStep(c) PROVE IInv'
  BY <1>3, StartClient, ClientEnterInv, EchoInv, TakeMeanInv, AskInv, TakeAnswerInv
     DEF ClientStep
<1> QED BY <1>1, <1>2, <1>3 DEF Next, Stop

\* The message a side waits for is the one there is.
LEMMA ImpliesSamePhase == IInv => SamePhase
<1> SUFFICES ASSUME IInv PROVE SamePhase
  OBVIOUS
<1>0. PICK c \in Client : c = p
  BY DEF IInv, Types
<1>1. Pair(c) /\ c # 0 /\ c \in Rank /\ n[0] \in Nat
  BY Ranks DEF IInv, Types
<1>2. ASSUME NEW d \in Client PROVE Len(up[d]) + Len(down[d]) <= 1
  <2>1. \/ up[d] = <<>> /\ down[d] = <<>>
        \/ up[d] = <<>> /\ \E x : down[d] = <<x>>
        \/ down[d] = <<>> /\ \E x : up[d] = <<x>>
    BY DEF IInv, Pair, Measuring, Between, Awaited, RoundTrip, Exchange, Holds
  <2>2. ASSUME NEW x, up[d] = <<>>, down[d] = <<x>> PROVE Len(up[d]) + Len(down[d]) <= 1
    <3>1. Len(up[d]) = 0 /\ Len(down[d]) = 1
      BY <2>2, OneLength, Zenon
    <3> QED BY <3>1
  <2>3. ASSUME NEW x, down[d] = <<>>, up[d] = <<x>> PROVE Len(up[d]) + Len(down[d]) <= 1
    <3>1. Len(up[d]) = 1 /\ Len(down[d]) = 0
      BY <2>3, OneLength, Zenon
    <3> QED BY <3>1
  <2>4. ASSUME up[d] = <<>>, down[d] = <<>> PROVE Len(up[d]) + Len(down[d]) <= 1
    <3>1. Len(up[d]) = 0 /\ Len(down[d]) = 0
      BY <2>4, OneLength, Zenon
    <3> QED BY <3>1
  <2> QED BY <2>1, <2>2, <2>3, <2>4
<1>3. ASSUME down[c] # <<>>, Wanted(c) # {}
      PROVE  Head(down[c]).kind \in Wanted(c) /\ fit[c] = fit[0] /\ syncs[c] = syncs[0]
  <2>1. Turn(c) /\ Measuring(c)
    BY <1>1, <1>3 DEF Pair, Between
  <2>2. phase[c] # "idle"
    BY <1>3, <1>1 DEF Wanted
  <2>3. fit[c] = fit[0] /\ syncs[c] = syncs[0]
    BY <2>1, <2>2 DEF Measuring, InDue, DueSync, DueFit, Turn
  <2>4. phase[c] \in {"echo", "sent", "pong"} \/ (phase[c] = "exchange" /\ c = 0)
    BY <1>3 DEF Wanted
  <2>5. CASE phase[c] = "echo"
    <3>1. \/ n[c] < RttRounds /\ Holds(down[c], "ping")
          \/ n[c] = RttRounds /\ Holds(down[c], "mean")
      BY <1>1, <1>3, <2>1, <2>5 DEF Measuring, Awaited, RoundTrip, Exchange
    <3>2. Wanted(c) = IF n[c] < RttRounds THEN {"ping"} ELSE {"mean"}
      BY <2>5, Zenon DEF Wanted
    <3>3. CASE n[c] < RttRounds /\ Holds(down[c], "ping")
      <4>1. Head(down[c]).kind = "ping"
        BY <3>3, OneMessage DEF Holds
      <4> QED BY <2>3, <3>2, <3>3, <4>1
    <3>4. CASE n[c] = RttRounds /\ Holds(down[c], "mean")
      <4>1. Head(down[c]).kind = "mean"
        BY <3>4, OneMessage DEF Holds
      <4>2. Wanted(c) = {"mean"}
        BY <3>2, <3>4, Ranks
      <4> QED BY <2>3, <4>1, <4>2
    <3> QED BY <3>1, <3>3, <3>4
  <2>6. CASE phase[c] = "sent"
    <3>1. Holds(down[c], "time")
      BY <1>1, <1>3, <2>1, <2>6 DEF Measuring, Awaited, RoundTrip, Exchange
    <3>2. Wanted(c) = {"time"}
      BY <1>1, <2>6 DEF Wanted
    <3> QED BY <2>3, <3>1, <3>2, OneMessage DEF Holds
  <2>7. phase[c] # "pong"
    BY <2>1 DEF Measuring, Awaited, RoundTrip, Exchange
  <2> QED BY <1>1, <2>4, <2>5, <2>6, <2>7
<1>4. ASSUME up[c] # <<>>, Wanted(0) # {}
      PROVE  Head(up[c]).kind \in Wanted(0) /\ fit[c] = fit[0] /\ syncs[c] = syncs[0]
  <2>1. phase[0] \in {"pong", "exchange"}
    BY <1>4 DEF Wanted, IInv, RootPhase
  <2>2. Turn(c) \/ Done(c)
    BY <1>0, <2>1 DEF Turn
  <2>3. ~Done(c)
    BY <1>0, <1>1, <2>1, Ranks DEF Done
  <2>4. Turn(c) /\ Measuring(c)
    BY <1>1, <2>2, <2>3 DEF Pair
  <2>5. phase[c] # "idle"
    BY <1>4, <2>4 DEF Measuring, Awaited, RoundTrip, Exchange
  <2>6. fit[c] = fit[0] /\ syncs[c] = syncs[0]
    BY <2>1, <2>3, <2>4, <2>5 DEF Measuring, InDue, DueSync, DueFit
  <2>7. CASE phase[0] = "pong"
    <3>1. Holds(up[c], "pong")
      BY <1>4, <2>4, <2>7 DEF Measuring, Awaited, RoundTrip, Exchange
    <3>2. Wanted(0) = {"pong"}
      BY <2>7 DEF Wanted
    <3> QED BY <2>6, <3>1, <3>2, OneMessage DEF Holds
  <2>8. CASE phase[0] = "exchange"
    <3>1. Holds(up[c], "question")
      BY <1>4, <2>4, <2>8 DEF Measuring, Awaited, RoundTrip, Exchange
    <3>2. Wanted(0) = {"question"}
      BY <2>8 DEF Wanted
    <3> QED BY <2>6, <3>1, <3>2, OneMessage DEF Holds
  <2> QED BY <2>1, <2>7, <2>8
<1> QED BY <1>0, <1>2, <1>3, <1>4 DEF SamePhase

\* SamePhase for any number of ranks, fit points, exchanges, warm-ups and
\* synchronisations: the two maps of pairs never lead rank 0 and a client into different
\* phases, so that each takes a message for what it was sent as.
THEOREM PairsMeasureTogether == Spec => []SamePhase
<1>1. Init => IInv
  BY InitInv
<1>2. IInv /\ [Next]_vars => IInv'
  BY NextInv
<1>3. IInv => SamePhase
  BY ImpliesSamePhase
<1> QED BY <1>1, <1>2, <1>3, PTL DEF Spec

-----------------------------------------------------------------------------
(* Arrays of measurements                                                  *)

\* The round trips and delays there may be.
Trip == (2 * MinDelay)..(2 * MaxDelay)
Delay == MinDelay..MaxDelay

InOrder(s) == \A i, j \in 1..Len(s) : i <= j => s[i] <= s[j]

\* A mean of round trips, at least one.
MeanOfTrips(mean) ==
  /\ mean.count \in Nat /\ mean.count > 0 /\ mean.sum \in Int
  /\ mean.count * (2 * MinDelay) <= mean.sum /\ mean.sum <= mean.count * (2 * MaxDelay)

LEMMA Delays == MinDelay \in Nat /\ MaxDelay \in Nat /\ MinDelay <= MaxDelay
BY JKSyncAssumption

\* Induction below is by the least counterexample.
LEMMA LeastNumber ==
  ASSUME NEW T \in SUBSET Nat, T # {}
  PROVE  \E x \in T : \A y \in T : x <= y
<1>1. PICK x \in T : \A y \in T : ~(<<y, x>> \in OpToRel(<, Nat))
  BY NatLessThanWellFounded, WFMin
<1>2. ASSUME NEW y \in T PROVE x <= y
  <2>1. x \in Nat /\ y \in Nat /\ <<y, x>> \in Nat \X Nat
    OBVIOUS
  <2>2. ~(<<y, x>> \in {ss \in Nat \X Nat : ss[1] < ss[2]})
    BY <1>1 DEF OpToRel
  <2>3. ~(y < x)
    BY <2>1, <2>2
  <2> QED BY <2>1, <2>3
<1> QED BY <1>2

\* What is in order is cut in two by a bound.
LEMMA UpToCuts ==
  ASSUME NEW s \in Seq(Int), InOrder(s), NEW x \in Int
  PROVE  /\ UpTo(s, x) \in 0..Len(s)
         /\ \A i \in 1..Len(s) : i <= UpTo(s, x) <=> s[i] <= x
<1> DEFINE T == {k \in 0..Len(s) : k < Len(s) => x < s[k + 1]}
<1>1. Len(s) \in Nat /\ \A i \in 1..Len(s) : s[i] \in Int
  OBVIOUS
<1>2. Len(s) \in T /\ T \subseteq Nat
  BY <1>1
<1>3. PICK k \in T : \A j \in T : k <= j
  BY <1>2, LeastNumber
<1>4. ASSUME NEW i \in 1..Len(s) PROVE i <= k <=> s[i] <= x
  <2>1. CASE i <= k
    <3>1. i - 1 \in 0..Len(s) /\ i - 1 < Len(s) /\ (i - 1) + 1 = i /\ ~(k <= i - 1)
      BY <1>1, <1>3, <2>1
    <3>2. i - 1 \notin T
      BY <1>3, <3>1
    <3> QED BY <1>1, <2>1, <3>1, <3>2
  <2>2. CASE ~(i <= k)
    <3>1. k + 1 \in 1..Len(s) /\ k + 1 <= i /\ k < Len(s)
      BY <1>1, <1>3, <2>2
    <3>2. x < s[k + 1] /\ s[k + 1] <= s[i]
      BY <1>3, <3>1 DEF InOrder
    <3> QED BY <1>1, <2>2, <3>1, <3>2
  <2> QED BY <2>1, <2>2
<1>5. {i \in 1..Len(s) : s[i] <= x} = 1..k
  BY <1>1, <1>3, <1>4
<1>6. Cardinality(1..k) = k
  <2>1. k \in Int /\ 1 \in Int /\ k \in Nat
    BY <1>1, <1>3
  <2>2. Cardinality(1..k) = IF 1 > k THEN 0 ELSE k - 1 + 1
    BY <2>1, FS_Interval
  <2> QED BY <2>1, <2>2
<1> QED BY <1>1, <1>3, <1>4, <1>5, <1>6 DEF UpTo

\* What is put into its place leaves the rest in order.
LEMMA InsertedInOrder ==
  ASSUME NEW S \in SUBSET Int, NEW s \in Seq(S), InOrder(s), NEW x \in S
  PROVE  /\ Inserted(s, x) \in Seq(S) /\ Len(Inserted(s, x)) = Len(s) + 1
         /\ InOrder(Inserted(s, x))
<1> DEFINE k == UpTo(s, x)
           t == Inserted(s, x)
<1>1. s \in Seq(Int) /\ Len(s) \in Nat /\ \A i \in 1..Len(s) : s[i] \in S /\ s[i] \in Int
  <2>1. /\ Len(s) \in Nat /\ s = [i \in 1..Len(s) |-> s[i]]
        /\ \A i \in 1..Len(s) : s[i] \in S
    OBVIOUS
  <2>2. \A i \in 1..Len(s) : s[i] \in Int
    BY <2>1
  <2>3. s \in Seq(Int)
    BY <2>1, <2>2
  <2> QED BY <2>1, <2>2, <2>3
<1>2. k \in 0..Len(s) /\ \A i \in 1..Len(s) : i <= k <=> s[i] <= x
  BY <1>1, UpToCuts
<1> HIDE DEF k
<1>3. t = SubSeq(s, 1, (k + 1) - 1) \o <<x>> \o SubSeq(s, k + 1, Len(s))
  BY DEF Inserted, InsertAt, k
<1>4. (k + 1) - 1 = k /\ SubSeq(s, 1, k) \in Seq(S) /\ SubSeq(s, k + 1, Len(s)) \in Seq(S)
      /\ Len(SubSeq(s, 1, k)) = k /\ Len(SubSeq(s, k + 1, Len(s))) = Len(s) - k
  BY <1>1, <1>2
<1>5. <<x>> \in Seq(S) /\ Len(<<x>>) = 1 /\ <<x>>[1] = x
  OBVIOUS
<1> HIDE DEF t
<1>6. /\ t \in Seq(S) /\ Len(t) = Len(s) + 1
      /\ \A i \in 1..Len(t) : t[i] = IF i <= k THEN s[i] ELSE IF i = k + 1 THEN x ELSE s[i - 1]
  <2> DEFINE a == SubSeq(s, 1, k)
             b == SubSeq(s, k + 1, Len(s))
             ax == a \o <<x>>
  <2>1. \A i \in 1..k : a[i] = s[i]
    BY <1>1, <1>2
  <2>2. \A i \in 1..(Len(s) - k) : b[i] = s[k + i]
    BY <1>1, <1>2
  <2>3. a \in Seq(S) /\ b \in Seq(S) /\ Len(a) = k /\ Len(b) = Len(s) - k /\ t = ax \o b
    BY <1>3, <1>4
  <2> HIDE DEF a, b
  <2>4. /\ ax \in Seq(S) /\ Len(ax) = k + 1
        /\ \A i \in 1..(k + 1) : ax[i] = IF i <= k THEN a[i] ELSE x
    BY <1>2, <1>5, <2>3
  <2> HIDE DEF ax
  <2>5. t \in Seq(S) /\ Len(t) = Len(s) + 1
    BY <1>1, <1>2, <2>3, <2>4
  <2>6. ASSUME NEW i \in 1..Len(t) PROVE t[i] = IF i <= k + 1 THEN ax[i] ELSE b[i - (k + 1)]
    BY <1>1, <1>2, <2>3, <2>4, <2>5
  <2>7. ASSUME NEW i \in 1..Len(t), ~(i <= k + 1) PROVE b[i - (k + 1)] = s[i - 1]
    <3>1. i - (k + 1) \in 1..(Len(s) - k) /\ k + (i - (k + 1)) = i - 1
      BY <1>1, <1>2, <2>5, <2>7
    <3> QED BY <2>2, <3>1
  <2>8. ASSUME NEW i \in 1..Len(t)
        PROVE  t[i] = IF i <= k THEN s[i] ELSE IF i = k + 1 THEN x ELSE s[i - 1]
    <3>1. i \in Nat /\ i > 0 /\ k \in Nat
      BY <1>1, <1>2, <2>5
    <3>2. CASE i <= k
      <4>1. i \in 1..k /\ i \in 1..(k + 1) /\ i <= k + 1
        BY <3>1, <3>2
      <4> QED BY <2>1, <2>4, <2>6, <3>2, <4>1
    <3>3. CASE i = k + 1
      <4>1. i \in 1..(k + 1) /\ i <= k + 1 /\ ~(i <= k)
        BY <3>1, <3>3
      <4> QED BY <2>4, <2>6, <3>3, <4>1
    <3>4. CASE ~(i <= k + 1)
      <4>1. ~(i <= k) /\ i # k + 1
        BY <3>1, <3>4
      <4> QED BY <2>6, <2>7, <3>4, <4>1
    <3> QED BY <3>1, <3>2, <3>3, <3>4
  <2> QED BY <2>5, <2>8
<1>7. ASSUME NEW i \in 1..Len(t), NEW j \in 1..Len(t), i <= j PROVE t[i] <= t[j]
  <2>1. i \in Nat /\ j \in Nat /\ k \in Nat /\ i > 0 /\ j <= Len(s) + 1 /\ x \in Int
    BY <1>1, <1>2, <1>6
  <2>2. \A a, b \in 1..Len(s) : a <= b => s[a] <= s[b]
    BY DEF InOrder
  <2>3. CASE j <= k
    <3>1. i <= k /\ i \in 1..Len(s) /\ j \in 1..Len(s)
      BY <1>1, <1>2, <1>7, <2>1, <2>3
    <3>2. t[i] = s[i] /\ t[j] = s[j]
      BY <1>6, <2>3, <3>1
    <3> QED BY <1>7, <2>2, <3>1, <3>2
  <2>4. CASE j = k + 1
    <3>1. t[j] = x
      <4>1. ~(j <= k)
        BY <2>1, <2>4
      <4> QED BY <1>6, <2>4, <4>1
    <3>2. CASE i = j
      BY <2>1, <3>1, <3>2
    <3>3. CASE i # j
      <4>1. i <= k /\ i \in 1..Len(s)
        BY <1>1, <1>2, <1>7, <2>1, <2>4, <3>3
      <4>2. t[i] = s[i] /\ s[i] <= x
        BY <1>2, <1>6, <4>1
      <4> QED BY <3>1, <4>2
    <3> QED BY <3>2, <3>3
  <2>5. CASE j > k + 1
    <3>1. j - 1 \in 1..Len(s) /\ ~(j - 1 <= k) /\ ~(j <= k) /\ j # k + 1
      BY <1>1, <1>2, <2>1, <2>5
    <3>2. t[j] = s[j - 1] /\ x <= s[j - 1] /\ s[j - 1] \in Int
      <4>1. t[j] = s[j - 1]
        BY <1>6, <3>1
      <4>2. ~(s[j - 1] <= x) /\ s[j - 1] \in Int
        BY <1>1, <1>2, <3>1
      <4> QED BY <2>1, <4>1, <4>2
    <3>3. CASE i <= k
      <4>1. i \in 1..Len(s) /\ i <= j - 1
        BY <1>1, <1>2, <2>1, <2>5, <3>3
      <4>2. t[i] = s[i]
        BY <1>6, <3>3
      <4> QED BY <2>2, <3>1, <3>2, <4>1, <4>2
    <3>4. CASE i = k + 1
      <4>1. ~(i <= k)
        BY <2>1, <3>4
      <4>2. t[i] = x
        BY <1>6, <3>4, <4>1
      <4> QED BY <3>2, <4>2
    <3>5. CASE i > k + 1
      <4>1. i - 1 \in 1..Len(s) /\ i - 1 <= j - 1 /\ ~(i <= k) /\ i # k + 1
        BY <1>1, <1>2, <1>7, <2>1, <3>5
      <4>2. t[i] = s[i - 1]
        BY <1>6, <4>1
      <4> QED BY <2>2, <3>1, <3>2, <4>1, <4>2
    <3> QED BY <2>1, <3>3, <3>4, <3>5
  <2> QED BY <2>1, <2>3, <2>4, <2>5
<1> QED BY <1>6, <1>7 DEF InOrder, t

\* The function that adds up the first k.
Adds(f, s, k) == f = [i \in 0..k |-> IF i = 0 THEN 0 ELSE f[i - 1] + s[i]]

LEMMA AddsUp ==
  ASSUME NEW s \in Seq(Int)
  PROVE  \A k \in 0..Len(s) : \E f : Adds(f, s, k)
<1> DEFINE T == {k \in 0..Len(s) : ~\E f : Adds(f, s, k)}
<1>1. SUFFICES ASSUME T # {} PROVE FALSE
  OBVIOUS
<1>2. Len(s) \in Nat /\ T \subseteq Nat
  OBVIOUS
<1>3. PICK k \in T : \A j \in T : k <= j
  BY <1>1, <1>2, LeastNumber
<1>4. CASE k = 0
  <2> DEFINE g == [i \in 0..0 |-> 0]
  <2>1. \A i \in 0..0 : g[i] = IF i = 0 THEN 0 ELSE g[i - 1] + s[i]
    OBVIOUS
  <2>2. Adds(g, s, 0)
    BY <2>1 DEF Adds
  <2> QED BY <1>3, <1>4, <2>2
<1>5. CASE k # 0
  <2>1. k - 1 \in 0..Len(s) /\ ~(k <= k - 1) /\ k \in Nat
    BY <1>2, <1>3, <1>5
  <2>2. PICK f : Adds(f, s, k - 1)
    BY <1>3, <2>1
  <2> DEFINE g == [i \in 0..k |-> IF i = k THEN f[k - 1] + s[k] ELSE f[i]]
  <2>3. ASSUME NEW i \in 0..k PROVE g[i] = IF i = 0 THEN 0 ELSE g[i - 1] + s[i]
    <3>1. CASE i = k
      <4>1. g[i - 1] = f[k - 1] /\ g[i] = f[k - 1] + s[k]
        BY <1>5, <2>1, <3>1
      <4> QED BY <1>5, <3>1, <4>1
    <3>2. CASE i # k
      <4>1. i \in 0..(k - 1) /\ g[i] = f[i] /\ (i # 0 => g[i - 1] = f[i - 1])
        BY <2>1, <3>2
      <4>2. f[i] = IF i = 0 THEN 0 ELSE f[i - 1] + s[i]
        BY <2>2, <4>1 DEF Adds
      <4> QED BY <4>1, <4>2
    <3> QED BY <3>1, <3>2
  <2>4. g = [i \in 0..k |-> g[i]]
    OBVIOUS
  <2> HIDE DEF g
  <2>5. Adds(g, s, k)
    BY <2>3, <2>4 DEF Adds
  <2> QED BY <1>3, <2>5
<1> QED BY <1>4, <1>5

\* The sum of k round trips is between k of the shortest and k of the longest.
LEMMA SumBounded ==
  ASSUME NEW s \in Seq(Trip), NEW k \in 0..Len(s)
  PROVE  /\ SumOf(s, k) \in Int
         /\ k * (2 * MinDelay) <= SumOf(s, k) /\ SumOf(s, k) <= k * (2 * MaxDelay)
<1> DEFINE f == CHOOSE g : Adds(g, s, k)
           lo == 2 * MinDelay
           hi == 2 * MaxDelay
           Bounded(i) == f[i] \in Int /\ i * lo <= f[i] /\ f[i] <= i * hi
           T == {i \in 0..k : ~Bounded(i)}
<1>1. /\ lo \in Int /\ hi \in Int /\ s \in Seq(Int) /\ Len(s) \in Nat
      /\ \A i \in 1..Len(s) : s[i] \in Int /\ lo <= s[i] /\ s[i] <= hi
  BY Delays DEF Trip
<1>2. Adds(f, s, k)
  BY <1>1, AddsUp
<1>3. SumOf(s, k) = f[k]
  BY DEF SumOf, Adds
<1> HIDE DEF f, lo, hi
<1>4. ASSUME T # {} PROVE FALSE
  <2>1. PICK i \in T : \A j \in T : i <= j
    <3>1. T \subseteq Nat
      BY <1>1
    <3> QED BY <1>4, <3>1, LeastNumber
  <2>2. i # 0
    <3>1. ASSUME i = 0 PROVE FALSE
      <4>1. f[0] = 0 /\ 0 * lo = 0 /\ 0 * hi = 0
        BY <1>1, <1>2 DEF Adds
      <4> QED BY <2>1, <3>1, <4>1
    <3> QED BY <3>1
  <2>3. /\ i - 1 \in 0..k /\ ~(i <= i - 1) /\ i \in 1..Len(s) /\ i \in Int
        /\ f[i] = f[i - 1] + s[i]
    BY <1>1, <1>2, <2>1, <2>2 DEF Adds
  <2>4. Bounded(i - 1)
    BY <2>1, <2>3
  <2>5. i * lo = (i - 1) * lo + lo /\ i * hi = (i - 1) * hi + hi
    BY <1>1, <2>3
  <2>6. (i - 1) * lo \in Int /\ (i - 1) * hi \in Int
    BY <1>1, <2>3
  <2>7. Bounded(i)
    BY <1>1, <2>3, <2>4, <2>5, <2>6
  <2> QED BY <2>1, <2>7
<1>5. Bounded(k)
  <2>1. k \in 0..k
    BY <1>1
  <2> QED BY <1>4, <2>1
<1> QED BY <1>3, <1>5 DEF lo, hi

\* The smallest round trip is below the cut-off.
LEMMA SomeKept ==
  ASSUME NEW s \in Seq(Trip), InOrder(s), Len(s) > 0
  PROVE  NKept(s) \in 1..Len(s)
<1> DEFINE position == 3 * (Len(s) - 1)
           below == position \div 4
           weight == position % 4
           cutoff == (3 * Quartile4(s)) \div 8
<1>1. Len(s) \in Nat /\ Len(s) > 0 /\ s \in Seq(Int) /\ \A i \in 1..Len(s) : s[i] \in Nat
  BY Delays DEF Trip
<1>2. position \in Nat /\ below \in Nat /\ weight \in 0..3 /\ position = 4 * below + weight
  BY <1>1
<1>3. below + 1 \in 1..Len(s) /\ (weight # 0 => below + 2 \in 1..Len(s))
  BY <1>1, <1>2
<1>4. Quartile4(s) = (4 - weight) * s[below + 1]
                       + (IF weight = 0 THEN 0 ELSE weight * s[below + 2])
  BY DEF Quartile4
<1> HIDE DEF below, weight, position
<1>5. s[1] \in Nat /\ s[1] <= s[below + 1] /\ s[below + 1] \in Nat
      /\ (weight # 0 => s[1] <= s[below + 2] /\ s[below + 2] \in Nat)
  BY <1>1, <1>3 DEF InOrder
<1>6. Quartile4(s) \in Int /\ Quartile4(s) >= 4 * s[1]
  <2>1. weight = 0 \/ weight = 1 \/ weight = 2 \/ weight = 3
    BY <1>2
  <2> QED BY <1>4, <1>5, <2>1
<1>7. cutoff \in Int /\ s[1] <= cutoff
  BY <1>5, <1>6
<1> HIDE DEF cutoff
<1>8. NKept(s) = UpTo(s, cutoff)
  BY DEF NKept, cutoff
<1>9. UpTo(s, cutoff) \in 0..Len(s) /\ \A i \in 1..Len(s) : i <= UpTo(s, cutoff) <=> s[i] <= cutoff
  <2>1. s \in Seq(Int) /\ InOrder(s) /\ cutoff \in Int
    BY <1>1, <1>7
  <2> QED BY <2>1, UpToCuts
<1>10. 1 \in 1..Len(s) /\ 1 <= UpTo(s, cutoff)
  BY <1>1, <1>7, <1>9
<1> QED BY <1>1, <1>8, <1>9, <1>10

LEMMA MeanIsOfTrips ==
  ASSUME NEW s \in Seq(Trip), InOrder(s), Len(s) > 0
  PROVE  MeanOfTrips(Mean(s))
<1>1. NKept(s) \in 1..Len(s) /\ Len(s) \in Nat
  BY SomeKept
<1>2. NKept(s) \in 0..Len(s) /\ NKept(s) \in Nat /\ NKept(s) > 0
  BY <1>1
<1> QED BY <1>2, SumBounded DEF MeanOfTrips, Mean

\* The median is one of the measurements.
LEMMA MedianIsMeasured ==
  ASSUME NEW s \in Seq(Int), Len(s) > 0
  PROVE  \E d \in ToSet(s) : 2 * d = Median(s)
<1> DEFINE m == IF Len(s) % 2 = 0 THEN Len(s) - 1 ELSE Len(s)
           mid == (m + 1) \div 2
<1>1. Len(s) \in Nat /\ Len(s) > 0 /\ \A i \in 1..Len(s) : s[i] \in Int
  OBVIOUS
<1>2. m \in 1..Len(s) /\ \E h \in Nat : m = 2 * h + 1
  <2> DEFINE h == Len(s) \div 2
  <2>1. h \in Nat /\ Len(s) % 2 \in {0, 1} /\ Len(s) = 2 * h + (Len(s) % 2)
    <3>1. Len(s) % 2 \in 0..1
      BY <1>1
    <3>2. Len(s) = 2 * h + (Len(s) % 2)
      BY <1>1
    <3>3. h \in Nat
      BY <1>1
    <3> QED BY <3>1, <3>2, <3>3
  <2> HIDE DEF h
  <2>2. CASE Len(s) % 2 = 0
    <3>1. m = 2 * (h - 1) + 1 /\ h - 1 \in Nat /\ m \in 1..Len(s)
      BY <1>1, <2>1, <2>2
    <3> QED BY <3>1
  <2>3. CASE Len(s) % 2 # 0
    <3>1. m = Len(s) /\ Len(s) % 2 = 1
      BY <2>1, <2>3
    <3>2. m = 2 * h + 1 /\ m \in 1..Len(s)
      BY <1>1, <2>1, <3>1
    <3> QED BY <2>1, <3>2
  <2> QED BY <2>2, <2>3
<1> HIDE DEF m
<1>3. m \div 2 + 1 = mid /\ mid \in 1..m
  <2>1. PICK h \in Nat : m = 2 * h + 1
    BY <1>2
  <2>2. m \div 2 = h /\ mid = h + 1
    BY <2>1
  <2> QED BY <2>1, <2>2
<1>4. Len(SubSeq(s, 1, m)) = m /\ SubSeq(s, 1, m)[mid] = s[mid]
  BY <1>1, <1>2, <1>3
<1>5. Median(s) = s[mid] + s[mid]
  BY <1>3, <1>4 DEF Median, TwiceMedian, m
<1>6. s[mid] \in ToSet(s) /\ s[mid] \in Int
  <2>1. mid \in 1..Len(s) /\ DOMAIN s = 1..Len(s)
    BY <1>2, <1>3
  <2> HIDE DEF mid
  <2> QED BY <1>1, <2>1 DEF ToSet
<1>7. 2 * s[mid] = Median(s)
  BY <1>5, <1>6
<1> QED BY <1>6, <1>7

-----------------------------------------------------------------------------
(* What is measured                                                        *)

\* The first measurement of c with rank 0.
First(c) == syncs[c] = 1 /\ fit[c] = 0

\* The last offset of c.
OffsetFits(c) ==
  fit[c] > 0 /\ phase[c] \in {"enter", "idle"} =>
    /\ offset[c] # {}
    /\ \A off \in offset[c] :
         /\ off.rtt.count > 0
         /\ IF syncs[c] = 1 /\ fit[c] = 1 THEN Within(off, MinDelay, MaxDelay)
            ELSE Within(off, MinDelay - MaxDelay, MaxDelay - MinDelay)

\* c corrects its answers by a mean that rank 0 has sent, but for the first time.
Collected(c) ==
  /\ delays[c] \in Seq(Delay) /\ InOrder(delays[c])
  /\ c \in known[c] <=> ~(syncs[c] = 0 \/ (First(c) /\ phase[c] = "enter"))
  /\ syncs[c] = 0 => phase[c] = "idle"
  /\ phase[c] = "echo" => ~First(c)
  /\ IF phase[c] \in {"exchange", "sent"}
     THEN IF First(c) THEN rtt[c] = NoTrip ELSE MeanOfTrips(rtt[c])
     ELSE rtt[c] = NoTrip
  /\ OffsetFits(c)

\* Rank 0 has a round trip for each pass after the warm-up.
Trips ==
  /\ rtts \in Seq(Trip) /\ InOrder(rtts)
  /\ IF phase[0] \in {"ping", "pong"}
     THEN Len(rtts) = IF n[0] <= nwarmups THEN 0 ELSE n[0] - nwarmups
     ELSE rtts = <<>>

MeanSent(c) ==
  down[c] # <<>> /\ Head(down[c]).kind = "mean" => MeanOfTrips(Head(down[c]).value)

Arrays ==
  /\ rtt = [c \in Client |-> rtt[c]] /\ delays = [c \in Client |-> delays[c]]
  /\ offset = [c \in Client |-> offset[c]]

DataInv == Arrays /\ Trips /\ \A c \in Client : MeanSent(c) /\ Collected(c)

\* What is kept of the measurements of c.
SameData(c) ==
  /\ phase'[c] = phase[c] /\ fit'[c] = fit[c] /\ syncs'[c] = syncs[c] /\ known'[c] = known[c]
  /\ rtt'[c] = rtt[c] /\ delays'[c] = delays[c] /\ offset'[c] = offset[c]

LEMMA DataStays ==
  ASSUME NEW c \in Client, SameData(c), Collected(c)
  PROVE  Collected(c)'
<1>1. First(c)' <=> First(c)
  BY DEF First, SameData
<1>2. OffsetFits(c)'
  BY DEF OffsetFits, SameData, Collected, Within
<1> QED BY <1>1, <1>2 DEF Collected, SameData, MeanOfTrips

LEMMA MeanStays ==
  ASSUME NEW c \in Client, down'[c] = down[c] \/ down'[c] = <<>>, MeanSent(c)
  PROVE  MeanSent(c)'
BY DEF MeanSent, MeanOfTrips

\* A step of a client.
LEMMA ClientData ==
  ASSUME DataInv, IInv, NEW c \in Client,
         \A d \in Client \ {c} : SameData(d) /\ down'[d] = down[d],
         phase'[0] = phase[0], n'[0] = n[0], rtts' = rtts,
         Arrays', down'[c] = down[c] \/ down'[c] = <<>>, Collected(c)'
  PROVE  DataInv'
<1>1. Trips'
  BY DEF DataInv, Trips
<1>2. ASSUME NEW d \in Client PROVE MeanSent(d)' /\ Collected(d)'
  <2>1. CASE d = c
    BY <2>1, MeanStays DEF DataInv
  <2>2. CASE d # c
    BY <2>2, MeanStays, DataStays DEF DataInv
  <2> QED BY <2>1, <2>2
<1> QED BY <1>1, <1>2 DEF DataInv

\* A step of rank 0.
LEMMA RootData ==
  ASSUME DataInv, UNCHANGED <<rtt, delays, offset>>, Trips',
         \A c \in Client : /\ phase'[c] = phase[c] /\ fit'[c] = fit[c]
                           /\ syncs'[c] = syncs[c] /\ known'[c] = known[c],
         \A c \in Client : MeanSent(c)'
  PROVE  DataInv'
<1>1. Arrays'
  BY DEF DataInv, Arrays
<1>2. ASSUME NEW c \in Client PROVE Collected(c)'
  BY DataStays DEF DataInv, SameData
<1> QED BY <1>1, <1>2 DEF DataInv

\* No channel has more than one message.
LEMMA AtMostOne ==
  ASSUME IInv, NEW c \in Client
  PROVE  /\ down[c] = <<>> \/ \E x : down[c] = <<x>>
         /\ down[c] # <<>> => Tail(down[c]) = <<>>
<1>1. down[c] = <<>> \/ \E x : down[c] = <<x>>
  BY DEF IInv, Pair, Measuring, Between, Awaited, RoundTrip, Exchange, Holds
<1> QED BY <1>1, OneMessage

-----------------------------------------------------------------------------
(* The clients' measurements                                               *)

LEMMA StartData ==
  ASSUME IInv, DataInv, NEW c \in Client, Start(c)
  PROVE  DataInv'
<1>1. /\ phase[c] = "idle" /\ phase'[c] = "enter" /\ syncs'[c] = syncs[c] + 1 /\ fit'[c] = 0
      /\ syncs[c] \in Nat /\ UNCHANGED <<known, down, rtts, rtt, delays, offset>>
      /\ Collected(c)
  BY Ranks DEF Start, Goto, IInv, Types, DataInv
<1>2. /\ \A d \in Client \ {c} : SameData(d) /\ down'[d] = down[d]
      /\ phase'[0] = phase[0] /\ n'[0] = n[0]
  BY Ranks DEF Start, Goto, IInv, Types, SameData
<1>3. Collected(c)'
  <2>1. First(c)' <=> syncs[c] = 0
    BY <1>1 DEF First
  <2>2. OffsetFits(c)'
    BY <1>1 DEF OffsetFits
  <2> QED BY <1>1, <2>1, <2>2 DEF Collected
<1>4. Arrays'
  BY <1>1 DEF DataInv, Arrays
<1> QED BY <1>1, <1>2, <1>3, <1>4, ClientData

LEMMA ClientEnterData ==
  ASSUME IInv, DataInv, NEW c \in Client, ClientEnter(c)
  PROVE  DataInv'
<1>1. /\ phase[c] = "enter" /\ phase'[c] = Entered(c, c, "echo") /\ c \in known'[c]
      /\ UNCHANGED <<syncs, fit, down, rtts, rtt, delays>>
      /\ offset' = [offset EXCEPT ![c] = {}] /\ Collected(c)
  BY Ranks DEF ClientEnter, Goto, IInv, Types, DataInv
<1>2. /\ \A d \in Client \ {c} : SameData(d) /\ down'[d] = down[d]
      /\ phase'[0] = phase[0] /\ n'[0] = n[0]
  BY Ranks DEF ClientEnter, Goto, IInv, Types, SameData, DataInv, Arrays
<1>3. Collected(c)'
  <2>1. (First(c)' <=> First(c)) /\ syncs[c] # 0 /\ (c \in known[c] <=> ~First(c))
    BY <1>1 DEF First, Collected
  <2>2. phase'[c] = IF First(c) THEN "exchange" ELSE "echo"
    BY <1>1, <2>1 DEF Entered
  <2>3. OffsetFits(c)'
    BY <2>2 DEF OffsetFits
  <2> QED BY <1>1, <2>1, <2>2, <2>3 DEF Collected
<1>4. Arrays'
  BY <1>1 DEF DataInv, Arrays
<1> QED BY <1>1, <1>2, <1>3, <1>4, ClientData

LEMMA EchoData ==
  ASSUME IInv, DataInv, NEW c \in Client, Echo(c)
  PROVE  DataInv'
<1>1. /\ phase[c] = "echo" /\ phase'[c] = "echo" /\ down[c] # <<>> /\ down'[c] = Tail(down[c])
      /\ UNCHANGED <<syncs, fit, known, rtts, rtt, delays, offset>>
  BY Ranks DEF Echo, Goto, IInv, Types
<1>2. /\ \A d \in Client \ {c} : SameData(d) /\ down'[d] = down[d]
      /\ phase'[0] = phase[0] /\ n'[0] = n[0]
  BY Ranks DEF Echo, Goto, IInv, Types, SameData
<1>3. Collected(c)'
  BY <1>1, DataStays DEF DataInv, SameData
<1>4. Arrays'
  BY <1>1 DEF DataInv, Arrays
<1> QED BY <1>1, <1>2, <1>3, <1>4, AtMostOne, ClientData

LEMMA TakeMeanData ==
  ASSUME IInv, DataInv, NEW c \in Client, TakeMean(c)
  PROVE  DataInv'
<1>1. /\ phase[c] = "echo" /\ n[c] = RttRounds /\ phase'[c] = "exchange"
      /\ down[c] # <<>> /\ down'[c] = Tail(down[c])
      /\ UNCHANGED <<syncs, fit, known, rtts, delays, offset>>
      /\ rtt' = [rtt EXCEPT ![c] = Head(down[c]).value] /\ Collected(c)
  BY Ranks DEF TakeMean, Goto, IInv, Types, DataInv
<1>2. /\ \A d \in Client \ {c} : SameData(d) /\ down'[d] = down[d]
      /\ phase'[0] = phase[0] /\ n'[0] = n[0]
  BY Ranks DEF TakeMean, Goto, IInv, Types, SameData, DataInv, Arrays
<1>3. MeanOfTrips(rtt'[c])
  <2>1. Holds(down[c], "mean")
    <3>1. Turn(c) /\ Measuring(c)
      BY <1>1 DEF IInv, Pair, Between
    <3>2. RoundTrip(c) /\ n[0] \in Nat /\ RttRounds \in Nat
      BY <1>1, <3>1, Ranks DEF Measuring, Awaited, Exchange, IInv, Types
    <3> QED BY <1>1, <3>2 DEF RoundTrip
  <2>2. Head(down[c]).kind = "mean"
    BY <2>1, OneMessage DEF Holds
  <2>3. MeanOfTrips(Head(down[c]).value)
    BY <1>1, <2>2 DEF DataInv, MeanSent
  <2>4. rtt'[c] = Head(down[c]).value
    BY <1>1 DEF DataInv, Arrays
  <2> QED BY <2>3, <2>4
<1>4. Collected(c)'
  <2>1. (First(c)' <=> First(c)) /\ ~First(c)
    BY <1>1 DEF First, Collected
  <2>2. OffsetFits(c)'
    BY <1>1 DEF OffsetFits
  <2>3. MeanOfTrips(rtt[c])'
    BY <1>3 DEF MeanOfTrips
  <2> QED BY <1>1, <2>1, <2>2, <2>3 DEF Collected
<1>5. Arrays'
  BY <1>1 DEF DataInv, Arrays
<1> QED BY <1>1, <1>2, <1>4, <1>5, AtMostOne, ClientData

LEMMA AskData ==
  ASSUME IInv, DataInv, NEW c \in Client, Ask(c)
  PROVE  DataInv'
<1>1. /\ phase[c] = "exchange" /\ phase'[c] = "sent"
      /\ UNCHANGED <<syncs, fit, known, down, rtts, rtt, delays, offset>> /\ Collected(c)
  BY Ranks DEF Ask, Goto, IInv, Types, DataInv
<1>2. /\ \A d \in Client \ {c} : SameData(d) /\ down'[d] = down[d]
      /\ phase'[0] = phase[0] /\ n'[0] = n[0]
  BY Ranks DEF Ask, Goto, IInv, Types, SameData
<1>3. Collected(c)'
  <2>1. First(c)' <=> First(c)
    BY <1>1 DEF First
  <2>2. OffsetFits(c)'
    BY <1>1 DEF OffsetFits
  <2> QED BY <1>1, <2>1, <2>2 DEF Collected, MeanOfTrips
<1>4. Arrays'
  BY <1>1 DEF DataInv, Arrays
<1> QED BY <1>1, <1>2, <1>3, <1>4, ClientData

LEMMA ErrorUncorrected ==
  ASSUME NEW off, off.rtt = NoTrip, off.delay \in Delay
  PROVE  off.rtt.count > 0 /\ Within(off, MinDelay, MaxDelay)
<1>1. off.rtt.count = 1 /\ off.rtt.sum = 0
  BY DEF NoTrip
<1>2. off.delay \in Int /\ MinDelay <= off.delay /\ off.delay <= MaxDelay
  BY Delays DEF Delay
<1> QED BY <1>1, <1>2, Delays DEF Within

LEMMA Scaled ==
  ASSUME NEW k \in Nat, NEW a \in Int, NEW b \in Int, a <= b
  PROVE  k * a <= k * b
OBVIOUS

\* A mean lies between twice the least and twice the largest delay.
LEMMA ErrorCorrected ==
  ASSUME NEW off, MeanOfTrips(off.rtt), off.delay \in Delay
  PROVE  off.rtt.count > 0 /\ Within(off, MinDelay - MaxDelay, MaxDelay - MinDelay)
<1> DEFINE count == off.rtt.count
           sum == off.rtt.sum
           delay == off.delay
           k == 2 * count
<1>1. /\ count \in Nat /\ count > 0 /\ sum \in Int
      /\ count * (2 * MinDelay) <= sum /\ sum <= count * (2 * MaxDelay)
  BY DEF MeanOfTrips
<1>2. delay \in Int /\ MinDelay <= delay /\ delay <= MaxDelay
      /\ MinDelay \in Int /\ MaxDelay \in Int
  BY Delays DEF Delay
<1>3. k \in Nat
  BY <1>1
<1> HIDE DEF count, sum, delay
<1>4. count * (2 * MinDelay) = k * MinDelay /\ count * (2 * MaxDelay) = k * MaxDelay
  BY <1>1, <1>2
<1> HIDE DEF k
<1>5. k * MinDelay <= k * delay /\ k * delay <= k * MaxDelay
  BY <1>2, <1>3, Scaled
<1>6. /\ k * (MinDelay - MaxDelay) = k * MinDelay - k * MaxDelay
      /\ k * (MaxDelay - MinDelay) = k * MaxDelay - k * MinDelay
  BY <1>2, <1>3
<1>7. k * MinDelay \in Int /\ k * MaxDelay \in Int /\ k * delay \in Int
  BY <1>2, <1>3
<1>8. /\ k * (MinDelay - MaxDelay) <= k * delay - sum
      /\ k * delay - sum <= k * (MaxDelay - MinDelay)
  BY <1>1, <1>4, <1>5, <1>6, <1>7
<1> QED BY <1>1, <1>8 DEF Within, count, sum, delay, k

LEMMA TakeAnswerData ==
  ASSUME IInv, DataInv, NEW c \in Client, TakeAnswer(c)
  PROVE  DataInv'
<1>1. PICK delay \in MinDelay..MaxDelay :
        IF n[c] + 1 < nexchanges
        THEN /\ delays' = [delays EXCEPT ![c] = Inserted(delays[c], delay)]
             /\ Goto(c, "exchange", n[c] + 1)
             /\ UNCHANGED <<fit, rtt, offset>>
        ELSE /\ delays' = [delays EXCEPT ![c] = <<>>]
             /\ offset' = [offset EXCEPT ![c] = Offset(c, Inserted(delays[c], delay))]
             /\ rtt' = [rtt EXCEPT ![c] = NoTrip]
             /\ fit' = [fit EXCEPT ![c] = @ + 1]
             /\ Goto(c, NextFit(c), 0)
  BY DEF TakeAnswer
<1>2. /\ phase[c] = "sent" /\ down[c] # <<>> /\ down' = [down EXCEPT ![c] = Tail(@)]
      /\ UNCHANGED <<syncs, known, rtts>> /\ Collected(c) /\ fit[c] \in Nat /\ syncs[c] \in Nat
  BY Ranks DEF TakeAnswer, IInv, Types, DataInv
<1>3. down'[c] = Tail(down[c]) /\ \A d \in Client \ {c} : down'[d] = down[d]
  BY <1>2 DEF IInv, Types
<1> DEFINE all == Inserted(delays[c], delay)
<1>4. all \in Seq(Delay) /\ Len(all) > 0 /\ InOrder(all)
  <2>1. Delay \in SUBSET Int /\ delays[c] \in Seq(Delay) /\ InOrder(delays[c]) /\ delay \in Delay
        /\ Len(delays[c]) \in Nat
    BY <1>2, Delays DEF Collected, Delay
  <2>2. Len(all) = Len(delays[c]) + 1
    BY <2>1, InsertedInOrder
  <2> QED BY <2>1, <2>2, InsertedInOrder
<1> HIDE DEF all
<1>5. CASE n[c] + 1 < nexchanges
  <2>1. /\ delays' = [delays EXCEPT ![c] = all] /\ phase' = [phase EXCEPT ![c] = "exchange"]
        /\ n' = [n EXCEPT ![c] = n[c] + 1] /\ UNCHANGED <<fit, rtt, offset>>
    BY <1>1, <1>5 DEF Goto, all
  <2>2. phase'[c] = "exchange" /\ delays'[c] = all
    BY <2>1, Ranks DEF IInv, Types, DataInv, Arrays
  <2>3. /\ \A d \in Client \ {c} : SameData(d) /\ down'[d] = down[d]
        /\ phase'[0] = phase[0] /\ n'[0] = n[0]
    BY <1>2, <1>3, <2>1, Ranks DEF IInv, Types, SameData, DataInv, Arrays
  <2>4. Collected(c)'
    <3>1. First(c)' <=> First(c)
      BY <1>2, <2>1 DEF First
    <3>2. OffsetFits(c)'
      BY <2>2 DEF OffsetFits
    <3> QED BY <1>2, <1>4, <2>1, <2>2, <3>1, <3>2 DEF Collected, MeanOfTrips, InOrder
  <2>5. Arrays'
    BY <2>1 DEF DataInv, Arrays
  <2> QED BY <1>2, <1>3, <2>3, <2>4, <2>5, AtMostOne, ClientData
<1>6. CASE ~(n[c] + 1 < nexchanges)
  <2>1. /\ delays' = [delays EXCEPT ![c] = <<>>] /\ phase' = [phase EXCEPT ![c] = NextFit(c)]
        /\ n' = [n EXCEPT ![c] = 0] /\ rtt' = [rtt EXCEPT ![c] = NoTrip]
        /\ fit' = [fit EXCEPT ![c] = @ + 1] /\ offset' = [offset EXCEPT ![c] = Offset(c, all)]
    BY <1>1, <1>6 DEF Goto, all
  <2>2. /\ phase'[c] \in {"enter", "idle"} /\ delays'[c] = <<>> /\ rtt'[c] = NoTrip
        /\ fit'[c] = fit[c] + 1 /\ offset'[c] = Offset(c, all) /\ syncs'[c] = syncs[c]
    BY <1>2, <2>1, Ranks DEF IInv, Types, DataInv, Arrays, NextFit
  <2>3. /\ \A d \in Client \ {c} : SameData(d) /\ down'[d] = down[d]
        /\ phase'[0] = phase[0] /\ n'[0] = n[0]
    BY <1>2, <1>3, <2>1, Ranks DEF IInv, Types, SameData, DataInv, Arrays
  <2>4. offset'[c] # {}
    <3>1. all \in Seq(Int)
      <4>1. all = [i \in 1..Len(all) |-> all[i]] /\ \A i \in 1..Len(all) : all[i] \in Int
        BY <1>4, Delays DEF Delay
      <4>2. Len(all) \in Nat
        BY <1>4
      <4> QED BY <4>1, <4>2
    <3>2. PICK d \in ToSet(all) : 2 * d = Median(all)
      BY <1>4, <3>1, MedianIsMeasured
    <3>3. [delay |-> d, rtt |-> rtt[c]] \in Offset(c, all)
      BY <3>2 DEF Offset
    <3> QED BY <2>2, <3>3
  <2>5. ASSUME NEW off \in offset'[c] PROVE off.rtt = rtt[c] /\ off.delay \in Delay
    <3>1. PICK d \in ToSet(all) : off = [delay |-> d, rtt |-> rtt[c]]
      BY <2>2 DEF Offset
    <3>2. d \in Delay
      BY <1>4 DEF ToSet
    <3> QED BY <3>1, <3>2
  <2>6. OffsetFits(c)'
    <3>1. CASE First(c)
      <4>1. syncs'[c] = 1 /\ fit'[c] = 1 /\ rtt[c] = NoTrip
        BY <1>2, <2>2, <3>1 DEF First, Collected
      <4>2. ASSUME NEW off \in offset'[c]
            PROVE  off.rtt.count > 0 /\ Within(off, MinDelay, MaxDelay)
        BY <2>5, <4>1, ErrorUncorrected
      <4> QED BY <2>4, <4>1, <4>2 DEF OffsetFits, Within
    <3>2. CASE ~First(c)
      <4>1. ~(syncs'[c] = 1 /\ fit'[c] = 1) /\ MeanOfTrips(rtt[c])
        BY <1>2, <2>2, <3>2 DEF First, Collected
      <4>2. ASSUME NEW off \in offset'[c]
            PROVE  off.rtt.count > 0 /\ Within(off, MinDelay - MaxDelay, MaxDelay - MinDelay)
        BY <2>5, <4>1, ErrorCorrected
      <4> QED BY <2>4, <4>1, <4>2 DEF OffsetFits, Within
    <3> QED BY <3>1, <3>2
  <2>7. Collected(c)'
    <3>1. ~First(c)' /\ syncs[c] # 0 /\ c \in known[c] /\ known'[c] = known[c]
      BY <1>2, <2>2 DEF First, Collected
    <3>2. <<>> \in Seq(Delay) /\ InOrder(<<>>)
      BY DEF InOrder
    <3>3. delays[c]' \in Seq(Delay) /\ InOrder(delays[c])'
      BY <2>2, <3>2 DEF InOrder
    <3> QED BY <2>2, <2>6, <3>1, <3>3 DEF Collected
  <2>8. Arrays'
    BY <2>1 DEF DataInv, Arrays
  <2> QED BY <1>2, <1>3, <2>3, <2>7, <2>8, AtMostOne, ClientData
<1> QED BY <1>5, <1>6

-----------------------------------------------------------------------------
(* Rank 0's measurements                                                   *)

\* What rank 0 is sending its message into is empty.
LEMMA NothingUnder ==
  ASSUME IInv, phase[0] = "ping" \/ (phase[0] = "exchange" /\ up[p] # <<>>)
  PROVE  p \in Client /\ down[p] = <<>>
<1>1. PICK c \in Client : c = p
  BY DEF IInv, Types
<1>2. Pair(c) /\ c \in Nat
  BY Ranks DEF IInv
<1>3. Turn(c) /\ Measuring(c)
  BY <1>1, <1>2 DEF Pair, Turn, Done
<1>4. down[c] = <<>>
  BY <1>1, <1>3 DEF Measuring, Awaited, RoundTrip, Exchange
<1> QED BY <1>1, <1>4

\* A message into an empty channel.
LEMMA SentOn ==
  ASSUME IInv, DataInv, p \in Client, down[p] = <<>>, NEW message,
         down' = [down EXCEPT ![p] = Append(@, message)],
         message.kind = "mean" => MeanOfTrips(message.value)
  PROVE  \A c \in Client : MeanSent(c)'
<1>1. ASSUME NEW c \in Client PROVE MeanSent(c)'
  <2>1. CASE c = p
    <3>1. down'[c] = <<message>> /\ Head(down'[c]) = message
      BY <2>1, OneMessage DEF IInv, Types
    <3> QED BY <3>1 DEF MeanSent, MeanOfTrips
  <2>2. CASE c # p
    BY <2>2, MeanStays DEF IInv, Types, DataInv
  <2> QED BY <2>1, <2>2
<1> QED BY <1>1

LEMMA RootStepData ==
  ASSUME IInv, DataInv, RootStep
  PROVE  DataInv'
<1>0. /\ \A c \in Client : c \in Rank /\ c # 0
      /\ n[0] \in Nat /\ RttRounds \in Nat /\ nwarmups \in Nat /\ nexchanges_rtt \in Nat
      /\ nexchanges_rtt > 0 /\ Trips
  BY Ranks, JKSyncAssumption DEF IInv, Types, DataInv
<1>1. CASE Start(0)
  <2>1. /\ phase[0] = "idle" /\ phase'[0] = "enter"
        /\ UNCHANGED <<known, down, rtts, rtt, delays, offset>>
    BY <1>1, Ranks DEF Start, Goto, IInv, Types
  <2>2. \A c \in Client : /\ phase'[c] = phase[c] /\ fit'[c] = fit[c]
                          /\ syncs'[c] = syncs[c] /\ known'[c] = known[c]
    BY <1>0, <1>1 DEF Start, Goto, IInv, Types
  <2>3. Trips'
    BY <1>0, <2>1 DEF Trips
  <2> QED BY <2>1, <2>2, <2>3, MeanStays, RootData DEF DataInv
<1>2. CASE RootEnter
  <2>1. /\ phase[0] = "enter" /\ phase'[0] = Entered(0, p, "ping") /\ n'[0] = 0
        /\ UNCHANGED <<syncs, fit, down, rtts, rtt, delays, offset>>
    BY <1>2, Ranks DEF RootEnter, Goto, IInv, Types
  <2>2. \A c \in Client : /\ phase'[c] = phase[c] /\ fit'[c] = fit[c]
                          /\ syncs'[c] = syncs[c] /\ known'[c] = known[c]
    BY <1>0, <1>2 DEF RootEnter, Goto, IInv, Types
  <2>3. Trips'
    <3>1. rtts = <<>> /\ Len(rtts) = 0 /\ phase'[0] \in {"ping", "exchange"}
      BY <1>0, <2>1, OneLength DEF Trips, Entered
    <3> QED BY <1>0, <2>1, <3>1 DEF Trips
  <2> QED BY <2>1, <2>2, <2>3, MeanStays, RootData DEF DataInv
<1>3. CASE Ping
  <2>1. /\ phase[0] = "ping" /\ phase'[0] = "pong" /\ n'[0] = n[0]
        /\ UNCHANGED <<syncs, fit, known, rtts, rtt, delays, offset>>
        /\ down' = [down EXCEPT ![p] = Append(@, [kind |-> "ping", value |-> NoTrip])]
    BY <1>3, Ranks DEF Ping, Goto, IInv, Types
  <2>2. \A c \in Client : phase'[c] = phase[c]
    BY <1>0, <1>3 DEF Ping, Goto, IInv, Types
  <2>3. Trips'
    BY <1>0, <2>1 DEF Trips
  <2>4. \A c \in Client : MeanSent(c)'
    BY <2>1, NothingUnder, SentOn
  <2> QED BY <2>1, <2>2, <2>3, <2>4, RootData
<1>4. CASE Pong
  <2>1. /\ phase[0] = "pong" /\ phase'[0] = "ping" /\ n'[0] = n[0] + 1
        /\ UNCHANGED <<syncs, fit, known, down, rtt, delays, offset>>
    BY <1>4, Ranks DEF Pong, Goto, IInv, Types
  <2>2. \A c \in Client : phase'[c] = phase[c]
    BY <1>0, <1>4 DEF Pong, Goto, IInv, Types
  <2>3. Trips'
    <3>1. CASE n[0] < nwarmups
      <4>1. rtts' = rtts /\ n[0] <= nwarmups /\ n[0] + 1 <= nwarmups
        BY <1>0, <1>4, <3>1 DEF Pong
      <4> QED BY <1>0, <2>1, <4>1 DEF Trips
    <3>2. CASE ~(n[0] < nwarmups)
      <4>1. PICK trip \in Trip : rtts' = Inserted(rtts, trip)
        BY <1>4, <3>2 DEF Pong, Trip
      <4>2. Trip \in SUBSET Int /\ rtts \in Seq(Trip) /\ InOrder(rtts)
        BY <1>0, Delays DEF Trip, Trips
      <4>3. rtts' \in Seq(Trip) /\ InOrder(rtts') /\ Len(rtts') = Len(rtts) + 1
        BY <4>1, <4>2, InsertedInOrder
      <4>4. Len(rtts) = n[0] - nwarmups
        BY <1>0, <2>1, <3>2 DEF Trips
      <4>5. Len(rtts') = n'[0] - nwarmups /\ ~(n'[0] <= nwarmups)
        BY <1>0, <2>1, <3>2, <4>3, <4>4
      <4> QED BY <2>1, <4>3, <4>5 DEF Trips, InOrder
    <3> QED BY <3>1, <3>2
  <2> QED BY <2>1, <2>2, <2>3, MeanStays, RootData DEF DataInv
<1>5. CASE SendMean
  <2>1. /\ phase[0] = "ping" /\ phase'[0] = "exchange" /\ n[0] = RttRounds /\ rtts' = <<>>
        /\ UNCHANGED <<syncs, fit, known, rtt, delays, offset>>
        /\ down' = [down EXCEPT ![p] = Append(@, [kind |-> "mean", value |-> Mean(rtts)])]
    BY <1>5, Ranks DEF SendMean, Goto, IInv, Types
  <2>2. \A c \in Client : phase'[c] = phase[c]
    BY <1>0, <1>5 DEF SendMean, Goto, IInv, Types
  <2>3. Trips'
    <3>1. <<>> \in Seq(Trip) /\ InOrder(<<>>)
      BY DEF InOrder
    <3> QED BY <2>1, <3>1 DEF Trips, InOrder
  <2>4. MeanOfTrips(Mean(rtts))
    <3>1. Len(rtts) > 0
      BY <1>0, <2>1 DEF Trips, RttRounds
    <3> QED BY <1>0, <3>1, MeanIsOfTrips DEF Trips
  <2>5. \A c \in Client : MeanSent(c)'
    BY <2>1, <2>4, NothingUnder, SentOn
  <2> QED BY <2>1, <2>2, <2>3, <2>5, RootData
<1>6. CASE Answer
  <2>1. /\ phase[0] = "exchange" /\ up[p] # <<>> /\ phase'[0] = "sent"
        /\ UNCHANGED <<syncs, fit, known, rtts, rtt, delays, offset>>
        /\ down' = [down EXCEPT ![p] = Append(@, [kind |-> "time", value |-> NoTrip])]
    BY <1>6, Ranks DEF Answer, Goto, IInv, Types
  <2>2. \A c \in Client : phase'[c] = phase[c]
    BY <1>0, <1>6 DEF Answer, Goto, IInv, Types
  <2>3. Trips'
    BY <1>0, <2>1 DEF Trips
  <2>4. \A c \in Client : MeanSent(c)'
    BY <2>1, NothingUnder, SentOn
  <2> QED BY <2>1, <2>2, <2>3, <2>4, RootData
<1>7. CASE Answered
  <2>1. /\ phase[0] = "sent" /\ UNCHANGED <<syncs, known, down, rtts, rtt, delays, offset>>
    BY <1>7 DEF Answered
  <2>2. /\ phase'[0] \in {"exchange", "enter", "idle"}
        /\ \A c \in Client : phase'[c] = phase[c] /\ fit'[c] = fit[c]
    BY <1>0, <1>7, Ranks DEF Answered, Goto, NextFit, IInv, Types
  <2>3. Trips'
    BY <1>0, <2>1, <2>2 DEF Trips
  <2> QED BY <2>1, <2>2, <2>3, MeanStays, RootData DEF DataInv
<1> QED BY <1>1, <1>2, <1>3, <1>4, <1>5, <1>6, <1>7 DEF RootStep

LEMMA InitData == Init => DataInv
<1> SUFFICES ASSUME Init PROVE DataInv
  OBVIOUS
<1>1. <<>> \in Seq(Trip) /\ <<>> \in Seq(Delay) /\ InOrder(<<>>)
  BY DEF InOrder
<1>2. Arrays
  BY DEF Init, Arrays
<1>3. Trips
  BY <1>1, Ranks DEF Init, Trips
<1>4. ASSUME NEW c \in Client PROVE MeanSent(c) /\ Collected(c)
  <2>1. /\ syncs[c] = 0 /\ fit[c] = 0 /\ phase[c] = "idle" /\ known[c] = {} /\ down[c] = <<>>
        /\ rtt[c] = NoTrip /\ delays[c] = <<>>
    BY Ranks DEF Init
  <2> QED BY <1>1, <2>1 DEF MeanSent, Collected, OffsetFits
<1> QED BY <1>2, <1>3, <1>4 DEF DataInv

LEMMA NextData == IInv /\ DataInv /\ [Next]_vars => DataInv'
<1> SUFFICES ASSUME IInv, DataInv, [Next]_vars PROVE DataInv'
  OBVIOUS
<1>1. CASE UNCHANGED vars
  BY <1>1 DEF vars, DataInv, Arrays, Trips, InOrder, MeanSent, MeanOfTrips, Collected, First,
              OffsetFits, Within
<1>2. ASSUME NEW c \in Client, ClientStep(c) PROVE DataInv'
  BY <1>2, StartData, ClientEnterData, EchoData, TakeMeanData, AskData, TakeAnswerData
     DEF ClientStep
<1> QED BY <1>1, <1>2, RootStepData DEF Next, Stop

\* OffsetWithinDelays for any number of ranks, fit points, warm-ups, round trips and
\* questions, and for any delays: the median of the answers is one of them, the mean is of
\* one round trip at least, and what is returned is off by no more than delays differ; the
\* first time, when nothing is corrected, by no more than one delay.
THEOREM OffsetsAreWithinDelays == Spec => []OffsetWithinDelays
<1>1. Init => IInv /\ DataInv
  BY InitInv, InitData
<1>2. IInv /\ DataInv /\ [Next]_vars => IInv' /\ DataInv'
  BY NextInv, NextData
<1>3. DataInv => OffsetWithinDelays
  BY DEF DataInv, Collected, OffsetFits, OffsetWithinDelays
<1> QED BY <1>1, <1>2, <1>3, PTL DEF Spec
=============================================================================
