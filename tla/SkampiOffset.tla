---------------------------- MODULE SkampiOffset ----------------------------
(***************************************************************************)
(* SKaMPIClockOffsetAlg::measure_offset, message by message: a reference   *)
(* and a client exchange clock readings and each narrows a bracket around  *)
(* the difference of the two clocks.  The same pair measures Len(Refs)     *)
(* times in a row, as repeated synchronisations do, so what one            *)
(* measurement leaves behind (the hash of ping-pong times, messages) is    *)
(* there when the next one starts.                                         *)
(*                                                                         *)
(* A clock is true time plus a constant skew; time is an integer.  A       *)
(* reading taken right after a receive or right before a send belongs to   *)
(* the same action: any time that passes between the two calls is time     *)
(* the message spends in flight.                                           *)
(***************************************************************************)
EXTENDS Integers, Sequences

CONSTANTS
  Skew,                 \* Skew[p]: what p's clock shows at true time 0
  Refs,                 \* Refs[m]: the reference rank of measurement m
  Minimum_ping_pongs,
  Number_ping_pongs,
  MaxTime               \* bound on true time

Rank == {0, 1}
Other(p) == 1 - p

\* Clocks are never negative: a negative message is the stop sign.
ASSUME SkewAssumption == Skew \in [Rank -> Nat]
ASSUME RefsAssumption == Refs \in Seq(Rank)
ASSUME PingPongAssumption ==
  Minimum_ping_pongs \in Int /\ Number_ping_pongs \in Int
ASSUME MaxTimeAssumption == MaxTime \in Nat

VARIABLES
  now,      \* true time
  net,      \* net[p]: messages on their way to p, in MPI's order
  k,        \* k[p]: the measurement p is in, or has last been in
  pc,       \* pc[p]: the receive p waits in
  own,      \* own[p]: p's last clock reading: s_now (or s_last), t_now (or t_last)
  tdMin,    \* the bracket td_min, td_max, in p's own direction (other minus own)
  tdMax,
  i,        \* the round counter of the loop
  ppmt,     \* ping_pong_min_time
  cache,    \* cache[p]: p's hash entry for the pair, {} when it has none
  result    \* result[p]: the last ClockOffset returned, its offset doubled

vars == <<now, net, k, pc, own, tdMin, tdMax, i, ppmt, cache, result>>
bracket == <<tdMin, tdMax>>

\* A message is a clock reading or the stop sign; m, the measurement that sent
\* it, is for the properties only: MPI carries the number v alone.
Invalid == -1
Message(p, v) == [m |-> k[p], v |-> v]

Clock(p) == now + Skew[p]
Larger(a, b)  == IF a >= b THEN a ELSE b
Smaller(a, b) == IF a <= b THEN a ELSE b

Send(p, v) == net' = [net EXCEPT ![Other(p)] = Append(@, Message(p, v))]

\* p takes its next message and answers with v.
RecvSend(p, v) ==
  net' = [net EXCEPT ![p] = Tail(@), ![Other(p)] = Append(@, Message(p, v))]

Recv(p) == net' = [net EXCEPT ![p] = Tail(@)]
Waiting(p, place) == pc[p] = place /\ net[p] # <<>>
Got(p) == Head(net[p]).v

IsRef(p) == Refs[k[p]] = p
NextIsRef(p) == Refs[k[p] + 1] = p

Init ==
  /\ now = 0
  /\ net = [p \in Rank |-> <<>>]
  /\ k = [p \in Rank |-> 0]
  /\ pc = [p \in Rank |-> "idle"]
  /\ own = [p \in Rank |-> 0]
  /\ tdMin = [p \in Rank |-> 0]
  /\ tdMax = [p \in Rank |-> 0]
  /\ i = [p \in Rank |-> 0]
  /\ ppmt = [p \in Rank |-> 0]
  /\ cache = [p \in Rank |-> {}]
  /\ result = [p \in Rank |-> [stamp |-> 0, off2 |-> 0]]

-----------------------------------------------------------------------------
(* The hash of ping-pong times.  The key names the pair with the smaller   *)
(* rank first, so both roles of a rank share the entry.                    *)

\* An entry that is found is not used, one that is not found reads as 0.0
\* (operator[] creates it).
LookupTime(p) == IF cache[p] # {} THEN -1 ELSE 0

Lookup(p) ==
  /\ ppmt' = [ppmt EXCEPT ![p] = LookupTime(p)]
  /\ cache' = [cache EXCEPT ![p] = IF @ = {} THEN {0} ELSE @]

\* Mutant: the minimum is taken with a time that is not known yet.
StoredMinimum(p) == Smaller(ppmt[p], tdMax[p] - tdMin[p])

StoredTime(p) ==
  LET width == tdMax[p] - tdMin[p]
  IN  IF ppmt[p] < 0 THEN width ELSE Smaller(ppmt[p], width)

-----------------------------------------------------------------------------
(* One exchange, the same on both sides: p hears the other clock read v    *)
(* after its own previous reading and before its present one.              *)

\* Mutant: the newer of p's readings where the older one belongs.
TightenMaxNewer(p, v) == Smaller(tdMax[p], v - Clock(p))

TightenMin(p, v) == Larger(tdMin[p], v - Clock(p))
TightenMax(p, v) == Smaller(tdMax[p], v - own[p])

Exchange(p, v) ==
  /\ own' = [own EXCEPT ![p] = Clock(p)]
  /\ tdMin' = [tdMin EXCEPT ![p] = TightenMin(p, v)]
  /\ tdMax' = [tdMax EXCEPT ![p] = TightenMax(p, v)]

\* The last round trip was within 110% of the known minimum.
EarlyStop(p) ==
  /\ ppmt[p] >= 0
  /\ i[p] >= Minimum_ping_pongs
  /\ 10 * (Clock(p) - own[p]) < 11 * ppmt[p]

-----------------------------------------------------------------------------
(* The reference.                                                          *)

RefEnter(p) ==
  /\ pc[p] = "idle" /\ k[p] < Len(Refs) /\ NextIsRef(p)
  /\ k' = [k EXCEPT ![p] = @ + 1]
  /\ pc' = [pc EXCEPT ![p] = "refHandshake"]
  /\ Lookup(p)
  /\ own' = [own EXCEPT ![p] = Clock(p)]
  /\ net' = [net EXCEPT ![Other(p)] =
               Append(@, [m |-> k[p] + 1, v |-> Clock(p)])]
  /\ UNCHANGED <<now, bracket, i, result>>

RefHandshake(p) ==
  /\ Waiting(p, "refHandshake")
  /\ RecvSend(p, Clock(p))
  /\ own' = [own EXCEPT ![p] = Clock(p)]
  /\ tdMin' = [tdMin EXCEPT ![p] = Got(p) - Clock(p)]
  /\ tdMax' = [tdMax EXCEPT ![p] = Got(p) - own[p]]
  /\ i' = [i EXCEPT ![p] = 1]
  /\ pc' = [pc EXCEPT ![p] = "refLoop"]
  /\ UNCHANGED <<now, k, ppmt, cache, result>>

\* Mutant: the counter is tested before the round is counted.
RoundsDoneLate(p) == i[p] >= Number_ping_pongs

\* The round the reference is in is its last one.
RoundsDone(p) == i[p] + 1 >= Number_ping_pongs

\* Mutant: the reference leaves after the last round without an answer.
RefRoundSilent(p) ==
  /\ Waiting(p, "refLoop")
  /\ LET last == RoundsDone(p)
     IN  /\ Exchange(p, Got(p))
         /\ IF last THEN Recv(p) ELSE RecvSend(p, Clock(p))
         /\ pc' = [pc EXCEPT ![p] = IF last THEN "finish" ELSE @]
         /\ i' = [i EXCEPT ![p] = @ + 1]
  /\ UNCHANGED <<now, k, ppmt, cache, result>>

\* One pass of the loop: leave on the client's stop sign; otherwise take the
\* exchange and answer with the stop sign (early stop, or Number_ping_pongs
\* rounds done) or with s_now.
RefRound(p) ==
  /\ Waiting(p, "refLoop")
  /\ IF Got(p) < 0
     THEN /\ Recv(p)
          /\ pc' = [pc EXCEPT ![p] = "finish"]
          /\ UNCHANGED <<own, bracket, i>>
     ELSE LET last == EarlyStop(p) \/ RoundsDone(p)
          IN  /\ Exchange(p, Got(p))
              /\ RecvSend(p, IF last THEN Invalid ELSE Clock(p))
              /\ pc' = [pc EXCEPT ![p] = IF last THEN "finish" ELSE @]
              /\ i' = [i EXCEPT ![p] = IF EarlyStop(p) THEN @ ELSE @ + 1]
  /\ UNCHANGED <<now, k, ppmt, cache, result>>

-----------------------------------------------------------------------------
(* The client.  Its first two exchanges are the handshake.                 *)

ClientEnter(p) ==
  /\ pc[p] = "idle" /\ k[p] < Len(Refs) /\ ~NextIsRef(p)
  /\ k' = [k EXCEPT ![p] = @ + 1]
  /\ pc' = [pc EXCEPT ![p] = "clientHandshake"]
  /\ Lookup(p)
  /\ UNCHANGED <<now, net, own, bracket, i, result>>

\* td_min starts as s_last - t_last; the code forms it after the next receive,
\* from the same two values.
ClientHandshake(p) ==
  /\ Waiting(p, "clientHandshake")
  /\ RecvSend(p, Clock(p))
  /\ own' = [own EXCEPT ![p] = Clock(p)]
  /\ tdMin' = [tdMin EXCEPT ![p] = Got(p) - Clock(p)]
  /\ pc' = [pc EXCEPT ![p] = "clientHandshake2"]
  /\ UNCHANGED <<now, k, tdMax, i, ppmt, cache, result>>

ClientHandshake2(p) ==
  /\ Waiting(p, "clientHandshake2")
  /\ RecvSend(p, Clock(p))
  /\ own' = [own EXCEPT ![p] = Clock(p)]
  /\ tdMin' = [tdMin EXCEPT ![p] = TightenMin(p, Got(p))]
  /\ tdMax' = [tdMax EXCEPT ![p] = Got(p) - own[p]]
  /\ i' = [i EXCEPT ![p] = 1]
  /\ pc' = [pc EXCEPT ![p] = "clientLoop"]
  /\ UNCHANGED <<now, k, ppmt, cache, result>>

\* Mutant: the client answers first and tests for the stop sign afterwards.
ClientRoundAnswers(p) ==
  /\ Waiting(p, "clientLoop")
  /\ RecvSend(p, Clock(p))
  /\ own' = [own EXCEPT ![p] = Clock(p)]
  /\ IF Got(p) < 0
     THEN pc' = [pc EXCEPT ![p] = "finish"] /\ UNCHANGED <<bracket, i>>
     ELSE /\ tdMin' = [tdMin EXCEPT ![p] = TightenMin(p, Got(p))]
          /\ tdMax' = [tdMax EXCEPT ![p] = TightenMax(p, Got(p))]
          /\ i' = [i EXCEPT ![p] = @ + 1]
          /\ UNCHANGED pc
  /\ UNCHANGED <<now, k, ppmt, cache, result>>

\* One pass of the loop up to the next send.  t_now is read before the test
\* for the stop sign.
ClientRound(p) ==
  /\ Waiting(p, "clientLoop")
  /\ IF Got(p) < 0
     THEN /\ Recv(p)
          /\ own' = [own EXCEPT ![p] = Clock(p)]
          /\ pc' = [pc EXCEPT ![p] = "finish"]
          /\ UNCHANGED <<bracket, i>>
     ELSE /\ Exchange(p, Got(p))
          /\ RecvSend(p, IF EarlyStop(p) THEN Invalid ELSE Clock(p))
          /\ pc' = [pc EXCEPT ![p] = IF EarlyStop(p) THEN "finish" ELSE @]
          /\ i' = [i EXCEPT ![p] = IF EarlyStop(p) THEN @ ELSE @ + 1]
  /\ UNCHANGED <<now, k, ppmt, cache, result>>

-----------------------------------------------------------------------------
(* Both sides: remember the ping-pong time and return the offset, client   *)
(* minus reference on either side.                                         *)

\* Mutant: each side keeps its own direction.
Offset2Unsigned(p) == tdMin[p] + tdMax[p]

Offset2(p) == IF IsRef(p) THEN tdMin[p] + tdMax[p] ELSE -(tdMin[p] + tdMax[p])

Finish(p) ==
  /\ pc[p] = "finish"
  /\ cache' = [cache EXCEPT ![p] = {StoredTime(p)}]
  /\ result' = [result EXCEPT ![p] = [stamp |-> Clock(p), off2 |-> Offset2(p)]]
  /\ pc' = [pc EXCEPT ![p] = "idle"]
  /\ UNCHANGED <<now, net, k, own, bracket, i, ppmt>>

-----------------------------------------------------------------------------
Step(p) ==
  \/ RefEnter(p)
  \/ RefHandshake(p)
  \/ RefRound(p)
  \/ ClientEnter(p)
  \/ ClientHandshake(p)
  \/ ClientHandshake2(p)
  \/ ClientRound(p)
  \/ Finish(p)

Tick ==
  /\ now < MaxTime
  /\ now' = now + 1
  /\ UNCHANGED <<net, k, pc, own, bracket, i, ppmt, cache, result>>

AllDone == \A p \in Rank : pc[p] = "idle" /\ k[p] = Len(Refs)
Stop == AllDone /\ UNCHANGED vars

Next == Tick \/ Stop \/ \E p \in Rank : Step(p)

\* A process goes on when its receive has a message; time owes nothing.
Spec == Init /\ [][Next]_vars /\ \A p \in Rank : WF_vars(Step(p))

-----------------------------------------------------------------------------
(* Properties                                                              *)

Place == {"idle", "refHandshake", "refLoop", "clientHandshake",
          "clientHandshake2", "clientLoop", "finish"}
Msg == [m : Nat, v : Int]

\* Types of the locals, the channels and the hash of measure_offset.  A ping-pong
\* time in the hash is never negative: a negative one means "not known yet".
TypeOK ==
  /\ now \in 0..MaxTime
  /\ net \in [Rank -> Seq(Msg)]
  /\ k \in [Rank -> 0..Len(Refs)]
  /\ pc \in [Rank -> Place]
  /\ own \in [Rank -> Int]
  /\ tdMin \in [Rank -> Int]
  /\ tdMax \in [Rank -> Int]
  /\ i \in [Rank -> Nat]
  /\ ppmt \in [Rank -> Int]
  /\ cache \in [Rank -> SUBSET Nat]
  /\ result \in [Rank -> [stamp : Int, off2 : Int]]

\* The difference of the clocks that p's bracket is about.
Difference(p) == Skew[Other(p)] - Skew[p]
HasBracket(p) == pc[p] \in {"refLoop", "clientLoop", "finish"}

\* Whatever the delays of the messages, the bracket either side keeps holds the
\* true difference of the clocks: each td_min and td_max pairs readings in the
\* order they were taken, also when the pair measures again.
BracketSound ==
  \A p \in Rank : HasBracket(p) =>
    tdMin[p] <= Difference(p) /\ Difference(p) <= tdMax[p]

\* The offset a measurement returns is client minus reference on both sides and
\* is off by no more than half the width of the bracket it is formed from.
OffsetAccurate ==
  [][\A p \in Rank : Finish(p) =>
       LET client == IF IsRef(p) THEN Other(p) ELSE p
           error == result'[p].off2 - 2 * (Skew[client] - Skew[Other(client)])
           width == tdMax[p] - tdMin[p]
       IN  -width <= error /\ error <= width]_vars

\* Where the two sides can stand with respect to each other, with all that is
\* then in flight between them.
InLoop(p) == pc[p] \in {"refLoop", "clientLoop"}
Out(p) == pc[p] \in {"idle", "finish"}
Reading(p) == Message(p, own[p])
TrueTime(p) == own[p] - Skew[p]

Apart(p, q) ==
  /\ k[p] = k[q] /\ Out(p) /\ Out(q)
  /\ net[p] = <<>> /\ net[q] = <<>>

RefAhead(p, q) ==
  /\ k[p] = k[q] + 1 /\ pc[p] = "refHandshake" /\ net[p] = <<>>
  /\ \/ Out(q) /\ net[q] = <<Reading(p)>>
     \/ InLoop(q) /\ net[q] = <<Message(q, Invalid), Reading(p)>>

ClientAhead(p, q) ==
  /\ k[p] = k[q] + 1 /\ pc[p] = "clientHandshake" /\ net[p] = <<>>
  /\ \/ Out(q) /\ net[q] = <<>>
     \/ InLoop(q) /\ net[q] = <<Message(q, Invalid)>>

Greeting(p, q) ==
  /\ k[p] = k[q] /\ pc[p] = "refHandshake"
  /\ \/ /\ pc[q] = "clientHandshake"
        /\ net[q] = <<Reading(p)>> /\ net[p] = <<>>
     \/ /\ pc[q] = "clientHandshake2"
        /\ net[p] = <<Reading(q)>> /\ net[q] = <<>>
        /\ TrueTime(p) <= TrueTime(q)

Looping(p, q) ==
  /\ k[p] = k[q] /\ pc[p] = "refLoop"
  /\ \/ /\ pc[q] \in {"clientHandshake2", "clientLoop"}
        /\ net[q] = <<Reading(p)>> /\ net[p] = <<>>
        /\ TrueTime(q) <= TrueTime(p)
     \/ /\ pc[q] = "clientLoop"
        /\ net[p] = <<Reading(q)>> /\ net[q] = <<>>
        /\ TrueTime(p) <= TrueTime(q)

Leaving(p, q) ==
  /\ k[p] = k[q] /\ InLoop(p) /\ Out(q)
  /\ net[p] = <<Message(p, Invalid)>> /\ net[q] = <<>>

\* The two sides are never more than one measurement apart and take strict turns
\* in it: a side waits with nothing in flight only while the other is to move,
\* no message is left behind, and a reading in flight is younger than the last
\* reading of the side it goes to.
Lockstep ==
  \E p \in Rank : LET q == Other(p) IN
    \/ Apart(p, q)    \/ RefAhead(p, q) \/ ClientAhead(p, q)
    \/ Greeting(p, q) \/ Looping(p, q)  \/ Leaving(p, q)

\* A rank is in the half of the handshake and of the loop its role gives it.
InRole ==
  \A p \in Rank :
    /\ pc[p] # "idle" => k[p] >= 1
    /\ pc[p] \in {"refHandshake", "refLoop"} => IsRef(p)
    /\ pc[p] \in {"clientHandshake", "clientHandshake2", "clientLoop"} => ~IsRef(p)

\* Readings are of clocks, and never of the future.
Past == \A p \in Rank : own[p] >= 0 /\ TrueTime(p) <= now

\* The lower bound of the client's bracket is there one exchange earlier.
HalfBracket ==
  \A p \in Rank : pc[p] = "clientHandshake2" => tdMin[p] <= Difference(p)

\* The inductive invariant of the exchange.
IInv == TypeOK /\ Past /\ InRole /\ Lockstep /\ HalfBracket /\ BracketSound

\* No message of one measurement is taken by another: the next message a
\* waiting process receives was sent in the measurement it is in, although all
\* measurements of a pair use the same tag and one side may be a measurement
\* ahead of the other.
NoCrossTalk ==
  \A p \in Rank : pc[p] \notin {"idle", "finish"} /\ net[p] # <<>> =>
    Head(net[p]).m = k[p]

\* When both sides have left a measurement their counters fit together: the reference
\* has counted one round more, or as many when a short round trip has ended it on the
\* reference's side.  None has done more than Number_ping_pongs rounds, nor fewer than
\* Minimum_ping_pongs of as many as there are; whether the hash lets a known pair stop
\* early is left open.
RoundsAgree ==
  \A p \in Rank :
    LET q == Other(p)
        rounds == Larger(2, Number_ping_pongs)
    IN  Out(p) /\ Out(q) /\ k[p] = k[q] /\ k[p] > 0 /\ IsRef(p) =>
          /\ i[p] = i[q] + 1 \/ (i[p] = i[q] /\ i[p] < rounds)
          /\ i[p] <= rounds
          /\ i[q] >= Smaller(Minimum_ping_pongs, rounds - 1)

\* Every measurement ends on both sides, no matter how the messages are delayed.
Termination == <>AllDone

\* What the comment on ping_pong_min_time says: when a pair measures again, a
\* round trip within 110% of the minimum the hash holds ends the measurement as
\* soon as Minimum_ping_pongs rounds are done.
ReMeasureStopsEarly ==
  [][\A p \in Rank :
       /\ pc[p] \in {"refLoop", "clientLoop"} /\ own'[p] # own[p]
       /\ i[p] >= Minimum_ping_pongs
       /\ \E best \in cache[p] : 10 * (own'[p] - own[p]) < 11 * best
       => pc'[p] = "finish"]_vars

=============================================================================
