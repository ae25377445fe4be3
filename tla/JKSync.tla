------------------------------- MODULE JKSync -------------------------------
(***************************************************************************)
(* JKClockSync::synchronize_all_clocks with PingpongClockOffsetAlg, its    *)
(* default: rank 0 measures with one rank after another, once for each fit *)
(* point, over MaxSyncs synchronisations in a row.  A pair that has        *)
(* measured before first finds out its round-trip time (compute_rtt), then *)
(* the client asks for rank 0's time a number of times and keeps the       *)
(* median.  The kind of a message is there for the properties only: every  *)
(* message is one number with the same tag.                                *)
(*                                                                         *)
(* An offset is the difference of the clocks plus the delay of the answer  *)
(* minus half the round-trip time; what is kept of it here is its error,   *)
(* the delay and the round-trip time.  The linear fit over the fit points  *)
(* is left out.                                                            *)
(***************************************************************************)
EXTENDS Integers, Sequences, FiniteSets, SequencesExt

CONSTANTS
  nprocs,
  n_fitpoints,
  nexchanges, nexchanges_rtt,
  nwarmups,
  MinDelay, MaxDelay,   \* the delay of one message
  MaxSyncs              \* bound on the synchronisations in a row

Rank == 0..(nprocs - 1)
Client == Rank \ {0}

ASSUME JKSyncAssumption ==
  /\ {nprocs, n_fitpoints, nexchanges, nexchanges_rtt, nwarmups} \subseteq Nat \ {0}
  /\ nprocs > 1    \* one rank has nobody to measure with, and no turn to give
  /\ MaxSyncs \in Nat
  /\ MinDelay \in Nat /\ MaxDelay \in Nat /\ MinDelay <= MaxDelay

VARIABLES
  syncs,    \* syncs[r]: the synchronisations r has begun
  phase,    \* phase[r]: what r does next
  n,        \* n[r]: the loop counter of r's phase
  fit,      \* fit[r]: the fit points r has done
  p,        \* rank 0's turn
  known,    \* known[r]: the clients whose pair with rank 0 is in r's rankpair2rtt
  up, down, \* up[c], down[c]: the messages from c to rank 0, and back
  rtts,     \* the round trips rank 0 has measured for the pair, in order
  rtt,      \* rtt[c]: c's round-trip time, a mean, while c measures
  delays,   \* delays[c]: of the answers c has got, in order
  offset    \* offset[c]: delay and round-trip time in c's last offset, {} for none

vars == <<syncs, phase, n, fit, p, known, up, down, rtts, rtt, delays, offset>>

NoTrip == [sum |-> 0, count |-> 1]

Init ==
  /\ syncs = [r \in Rank |-> 0]
  /\ phase = [r \in Rank |-> "idle"]
  /\ n = [r \in Rank |-> 0]
  /\ fit = [r \in Rank |-> 0]
  /\ p = 1
  /\ known = [r \in Rank |-> {}]
  /\ up = [c \in Client |-> <<>>]
  /\ down = [c \in Client |-> <<>>]
  /\ rtts = <<>>
  /\ rtt = [c \in Client |-> NoTrip]
  /\ delays = [c \in Client |-> <<>>]
  /\ offset = [c \in Client |-> {}]

Goto(r, next, count) ==
  /\ phase' = [phase EXCEPT ![r] = next]
  /\ n' = [n EXCEPT ![r] = count]

RttRounds == nwarmups + nexchanges_rtt

\* How many of them are at most x.
UpTo(sorted, x) == Cardinality({i \in 1..Len(sorted) : sorted[i] <= x})

\* The measurements, in order: the arrays are sorted before anything is read of them.
Inserted(sorted, x) == InsertAt(sorted, UpTo(sorted, x) + 1, x)

\* Four times the upper quartile, which lies between two of the values.
Quartile4(sorted) ==
  LET position == 3 * (Len(sorted) - 1)
      below == position \div 4
      weight == position % 4
  IN  (4 - weight) * sorted[below + 1]
        + (IF weight = 0 THEN 0 ELSE weight * sorted[below + 2])

\* The sum of the first k.
SumOf(sorted, k) ==
  LET sum[i \in 0..k] == IF i = 0 THEN 0 ELSE sum[i - 1] + sorted[i]
  IN  sum[k]

\* Where the loop over the round trips ends: at the first above 1.5 times the quartile.
NKept(sorted) == UpTo(sorted, (3 * Quartile4(sorted)) \div 8)

\* Mutant: the sum of the kept round trips is divided by the number of all.
MeanOverAll(sorted) == [sum |-> SumOf(sorted, NKept(sorted)), count |-> Len(sorted)]

\* The mean of the round trips that are kept.
Mean(sorted) == [sum |-> SumOf(sorted, NKept(sorted)), count |-> NKept(sorted)]

\* Twice the median of what is sorted: of an even number, the two in the middle.
TwiceMedian(sorted) ==
  sorted[(Len(sorted) + 1) \div 2] + sorted[Len(sorted) \div 2 + 1]

\* Twice the median of the measurements; the largest is left out of an even number.
Median(sorted) ==
  LET m == IF Len(sorted) % 2 = 0 THEN Len(sorted) - 1 ELSE Len(sorted)
  IN  TwiceMedian(SubSeq(sorted, 1, m))

-----------------------------------------------------------------------------
(* Rank 0.                                                                 *)

\* A synchronisation starts; the map of pairs is that of the ones before.
Start(r) ==
  /\ phase[r] = "idle" /\ syncs[r] < MaxSyncs
  /\ syncs' = [syncs EXCEPT ![r] = @ + 1]
  /\ fit' = [fit EXCEPT ![r] = 0]
  /\ Goto(r, "enter", 0)
  /\ UNCHANGED <<p, known, up, down, rtts, rtt, delays, offset>>

\* After a fit point, the next one or the end.
NextFit(r) == IF fit[r] + 1 < n_fitpoints THEN "enter" ELSE "idle"

\* Where a side goes that enters measure_offset: a pair that is in the map
\* measures its round-trip time.
Entered(r, c, measure) == IF c \in known[r] THEN measure ELSE "exchange"

RootEnter ==
  /\ phase[0] = "enter"
  /\ Goto(0, Entered(0, p, "ping"), 0)
  /\ known' = [known EXCEPT ![0] = @ \cup {p}]
  /\ UNCHANGED <<syncs, fit, p, up, down, rtts, rtt, delays, offset>>

Ping ==
  /\ phase[0] = "ping" /\ n[0] < RttRounds
  /\ down' = [down EXCEPT ![p] = Append(@, [kind |-> "ping", value |-> NoTrip])]
  /\ Goto(0, "pong", n[0])
  /\ UNCHANGED <<syncs, fit, p, known, up, rtts, rtt, delays, offset>>

Pong ==
  /\ phase[0] = "pong" /\ up[p] # <<>>
  /\ up' = [up EXCEPT ![p] = Tail(@)]
  /\ IF n[0] < nwarmups
     THEN UNCHANGED rtts
     ELSE \E trip \in (2 * MinDelay)..(2 * MaxDelay) : rtts' = Inserted(rtts, trip)
  /\ Goto(0, "ping", n[0] + 1)
  /\ UNCHANGED <<syncs, fit, p, known, down, rtt, delays, offset>>

\* Mutant: only rank 0 has the mean.
SendMeanNot ==
  /\ phase[0] = "ping" /\ n[0] = RttRounds
  /\ Goto(0, "exchange", 0)
  /\ UNCHANGED <<syncs, fit, p, known, up, down, rtts, rtt, delays, offset>>

SendMean ==
  /\ phase[0] = "ping" /\ n[0] = RttRounds
  /\ down' = [down EXCEPT ![p] = Append(@, [kind |-> "mean", value |-> Mean(rtts)])]
  /\ rtts' = <<>>
  /\ Goto(0, "exchange", 0)
  /\ UNCHANGED <<syncs, fit, p, known, up, rtt, delays, offset>>

\* Rank 0 gets a question and sends its time, synchronously.
Answer ==
  /\ phase[0] = "exchange" /\ up[p] # <<>>
  /\ up' = [up EXCEPT ![p] = Tail(@)]
  /\ down' = [down EXCEPT ![p] = Append(@, [kind |-> "time", value |-> NoTrip])]
  /\ Goto(0, "sent", n[0])
  /\ UNCHANGED <<syncs, fit, p, known, rtts, rtt, delays, offset>>

\* The answer is received: the next exchange, rank or fit point.
Answered ==
  /\ phase[0] = "sent" /\ down[p] = <<>>
  /\ IF n[0] + 1 < nexchanges
     THEN Goto(0, "exchange", n[0] + 1) /\ UNCHANGED <<p, fit>>
     ELSE IF p + 1 < nprocs
     THEN Goto(0, "enter", 0) /\ p' = p + 1 /\ UNCHANGED fit
     ELSE /\ Goto(0, NextFit(0), 0)
          /\ p' = 1
          /\ fit' = [fit EXCEPT ![0] = @ + 1]
  /\ UNCHANGED <<syncs, known, up, down, rtts, rtt, delays, offset>>

-----------------------------------------------------------------------------
(* The clients.                                                            *)

\* Mutant: the client does not keep the pair.
ClientEnterForgets(c) ==
  /\ phase[c] = "enter"
  /\ Goto(c, Entered(c, c, "echo"), 0)
  /\ offset' = [offset EXCEPT ![c] = {}]
  /\ UNCHANGED <<syncs, fit, p, known, up, down, rtts, rtt, delays>>

\* A pair that is not in the map gets an entry of zero there; the entry of a pair that
\* is in the map is overwritten before it is read.
ClientEnter(c) ==
  /\ phase[c] = "enter"
  /\ Goto(c, Entered(c, c, "echo"), 0)
  /\ known' = [known EXCEPT ![c] = @ \cup {c}]
  /\ offset' = [offset EXCEPT ![c] = {}]
  /\ UNCHANGED <<syncs, fit, p, up, down, rtts, rtt, delays>>

Echo(c) ==
  /\ phase[c] = "echo" /\ n[c] < RttRounds /\ down[c] # <<>>
  /\ down' = [down EXCEPT ![c] = Tail(@)]
  /\ up' = [up EXCEPT ![c] = Append(@, [kind |-> "pong", value |-> NoTrip])]
  /\ Goto(c, "echo", n[c] + 1)
  /\ UNCHANGED <<syncs, fit, p, known, rtts, rtt, delays, offset>>

TakeMean(c) ==
  /\ phase[c] = "echo" /\ n[c] = RttRounds /\ down[c] # <<>>
  /\ down' = [down EXCEPT ![c] = Tail(@)]
  /\ rtt' = [rtt EXCEPT ![c] = Head(down[c]).value]
  /\ Goto(c, "exchange", 0)
  /\ UNCHANGED <<syncs, fit, p, known, up, rtts, delays, offset>>

\* The client sends its time, synchronously; what it is answered comes after that.
Ask(c) ==
  /\ phase[c] = "exchange"
  /\ up' = [up EXCEPT ![c] = Append(@, [kind |-> "question", value |-> NoTrip])]
  /\ Goto(c, "sent", n[c])
  /\ UNCHANGED <<syncs, fit, p, known, down, rtts, rtt, delays, offset>>

\* The measurement that equals the median, if there is one.
Offset(c, all) ==
  {[delay |-> delay, rtt |-> rtt[c]] : delay \in {d \in ToSet(all) : 2 * d = Median(all)}}

\* The answer; the last one makes the offset, and the client goes on to the next
\* fit point.
TakeAnswer(c) ==
  /\ phase[c] = "sent" /\ up[c] = <<>> /\ down[c] # <<>>
  /\ down' = [down EXCEPT ![c] = Tail(@)]
  /\ \E delay \in MinDelay..MaxDelay :
       LET all == Inserted(delays[c], delay) IN
       IF n[c] + 1 < nexchanges
       THEN /\ delays' = [delays EXCEPT ![c] = all]
            /\ Goto(c, "exchange", n[c] + 1)
            /\ UNCHANGED <<fit, rtt, offset>>
       ELSE /\ delays' = [delays EXCEPT ![c] = <<>>]
            /\ offset' = [offset EXCEPT ![c] = Offset(c, all)]
            /\ rtt' = [rtt EXCEPT ![c] = NoTrip]
            /\ fit' = [fit EXCEPT ![c] = @ + 1]
            /\ Goto(c, NextFit(c), 0)
  /\ UNCHANGED <<syncs, p, known, up, rtts>>

-----------------------------------------------------------------------------
RootStep == Start(0) \/ RootEnter \/ Ping \/ Pong \/ SendMean \/ Answer \/ Answered
ClientStep(c) ==
  Start(c) \/ ClientEnter(c) \/ Echo(c) \/ TakeMean(c) \/ Ask(c) \/ TakeAnswer(c)

AllDone == \A r \in Rank : phase[r] = "idle" /\ syncs[r] = MaxSyncs
Stop == AllDone /\ UNCHANGED vars

Next == Stop \/ RootStep \/ \E c \in Client : ClientStep(c)

\* A rank whose call can return goes on.
Spec == Init /\ [][Next]_vars
          /\ WF_vars(RootStep) /\ \A c \in Client : WF_vars(ClientStep(c))

-----------------------------------------------------------------------------
(* Properties                                                              *)

\* What a message is for.
Wanted(r) == CASE phase[r] = "pong" -> {"pong"}
               [] phase[r] = "echo" -> IF n[r] < RttRounds THEN {"ping"} ELSE {"mean"}
               [] phase[r] = "exchange" /\ r = 0 -> {"question"}
               [] phase[r] = "sent" /\ r # 0 -> {"time"}
               [] OTHER -> {}

\* Each side looks the pair up in a map of its own, and no message says what it is:
\* the two maps lead both sides the same way, so that a side that receives gets what
\* it waits for, and a message is of the fit point and the synchronisation its
\* receiver is in.
SamePhase ==
  LET Together == fit[p] = fit[0] /\ syncs[p] = syncs[0]
  IN  /\ down[p] # <<>> /\ Wanted(p) # {} => Head(down[p]).kind \in Wanted(p) /\ Together
      /\ up[p] # <<>> /\ Wanted(0) # {} => Head(up[p]).kind \in Wanted(0) /\ Together
      /\ \A c \in Client : Len(up[c]) + Len(down[c]) <= 1

\* The error of an offset is between lo and hi; the mean makes it a fraction.
Within(off, lo, hi) ==
  LET k == 2 * off.rtt.count
      error == k * off.delay - off.rtt.sum
  IN  k * lo <= error /\ error <= k * hi

\* Every measurement yields an offset, corrected by the mean of at least one round trip
\* where it is corrected, and it is off by at most what the delays of two messages differ
\* by, however many warm-ups, cut-offs and medians went into it; the first one of a pair,
\* in its first synchronisation, is not corrected and off by the delay of one message.
OffsetWithinDelays ==
  \A c \in Client : fit[c] > 0 /\ phase[c] \in {"enter", "idle"} =>
    /\ offset[c] # {}
    /\ \A off \in offset[c] :
         /\ off.rtt.count > 0
         /\ IF syncs[c] = 1 /\ fit[c] = 1 THEN Within(off, MinDelay, MaxDelay)
            ELSE Within(off, MinDelay - MaxDelay, MaxDelay - MinDelay)

\* Every rank gets all its fit points, in every synchronisation.
Termination == <>AllDone
=============================================================================
