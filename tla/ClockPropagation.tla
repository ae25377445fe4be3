-------------------------- MODULE ClockPropagation --------------------------
(***************************************************************************)
(* ClockPropagationSync::synchronize_all_clocks: rank 0 flattens its clock *)
(* into a buffer and broadcasts it, every other rank rebuilds the clock    *)
(* over a base clock of its own.  A clock is a nest of models, outermost   *)
(* first; every model is a type id and its coefficients.                   *)
(*                                                                         *)
(* The buffer is an array of 4-byte cells: an int is one cell, a double    *)
(* two.  Broadcasts are a log: rank 0 does not wait for the others, who    *)
(* take the broadcasts in the order they were made.                        *)
(***************************************************************************)
EXTENDS Integers, Sequences

CONSTANTS
  nprocs,
  Nests,      \* the clocks rank 0 may come with
  MaxCopies   \* bound on the synchronisations in a row

Rank == 0..(nprocs - 1)

ASSUME nprocsAssumption == nprocs \in Nat /\ nprocs > 1
ASSUME MaxCopiesAssumption == MaxCopies \in Nat

VARIABLES
  syncs,      \* syncs[r]: the synchronisations r has begun
  origin,     \* origin[s]: rank 0's clock in synchronisation s
  log,        \* the broadcasts made so far
  taken,      \* taken[r]: how many of them r has taken
  pc,         \* pc[r]: where r is in synchronize_all_clocks
  buf,        \* buf[r]: the buffer r has received
  level,      \* level[r]: the loop counter i
  at,         \* at[r]: current_offset
  built       \* built[r]: the clock r builds (last_clock), or has been returned

copyVars == <<syncs, origin, log, taken, pc, buf, level, at, built>>

-----------------------------------------------------------------------------
(* Flattening.                                                             *)

Kinds == {"Offset", "LM"}
Garbage == "garbage"

\* get_flattened_this_clock_size_in_bytes
ThisSize(model) == 1 + 2 * Len(model.coefs)

\* Mutant: the outermost model only.
OuterSize(nest) == ThisSize(nest[1])

\* get_flattened_clock_size_in_bytes: this model and the one right below it.
FlattenedSize(nest) ==
  ThisSize(nest[1]) + (IF Len(nest) > 1 THEN ThisSize(nest[2]) ELSE 0)

\* The header says how many models there are.
BufferSize(nest) == FlattenedSize(nest) + 1

\* What flatten_clock moves end_pointer back by: a GlobalClockOffset uses the size
\* with the model below it.
MoveBack(nest) ==
  IF nest[1].kind = "Offset" THEN FlattenedSize(nest) ELSE ThisSize(nest[1])

\* Where the n-th model of the nest is written.
Place(nest, n) ==
  LET end[j \in 0..n] ==
        IF j = 0 THEN BufferSize(nest)
        ELSE end[j - 1] - MoveBack(SubSeq(nest, j, Len(nest)))
  IN  end[n]

Header(count) == [type |-> "header", value |-> count]
Type(kind) == [type |-> "id", value |-> kind]
Half(coef, half) == [type |-> half, value |-> coef]
Unwritten == [type |-> Garbage, value |-> Garbage]

\* The cells of one model.
Cells(model) ==
  [j \in 0..(ThisSize(model) - 1) |->
     IF j = 0 THEN Type(model.kind)
     ELSE Half(model.coefs[(j + 1) \div 2], IF j % 2 = 1 THEN "low" ELSE "high")]

Writers(nest, cell) ==
  {n \in 1..Len(nest) : cell - Place(nest, n) \in DOMAIN Cells(nest[n])}

\* The inner models are written later, the header last; what is written outside
\* the buffer is lost.
Flattened(nest) ==
  [cell \in 0..(BufferSize(nest) - 1) |->
     LET writers == Writers(nest, cell) IN
     IF cell = 0 THEN Header(Len(nest))
     ELSE IF writers = {} THEN Unwritten
     ELSE LET n == CHOOSE w \in writers : \A v \in writers : v <= w
          IN  Cells(nest[n])[cell - Place(nest, n)]]

-----------------------------------------------------------------------------
(* Rebuilding.                                                             *)

\* The int at a cell: a type id, or whatever the bytes happen to be.
ReadKinds(buffer, cell) ==
  IF cell \in DOMAIN buffer /\ buffer[cell].type = "id" THEN {buffer[cell].value}
  ELSE Kinds \cup {"invalid"}

\* The double at a cell.
ReadCoef(buffer, cell) ==
  IF {cell, cell + 1} \subseteq DOMAIN buffer
     /\ buffer[cell].type = "low" /\ buffer[cell + 1].type = "high"
  THEN buffer[cell].value
  ELSE Garbage

NCoefs(kind) == IF kind = "LM" THEN 2 ELSE 1

Decoded(buffer, cell, kind) ==
  [kind |-> kind,
   coefs |-> [j \in 1..NCoefs(kind) |-> ReadCoef(buffer, cell + 2 * j - 1)]]

-----------------------------------------------------------------------------
CopyInit ==
  /\ syncs = [r \in Rank |-> 0]
  /\ origin = <<>>
  /\ log = <<>>
  /\ taken = [r \in Rank |-> 0]
  /\ pc = [r \in Rank |-> "idle"]
  /\ buf = [r \in Rank |-> <<>>]
  /\ level = [r \in Rank |-> 0]
  /\ at = [r \in Rank |-> 0]
  /\ built = [r \in Rank |-> <<>>]

\* Mutant: rank 0 broadcasts its clock the first time only.
PropagateOnce ==
  /\ syncs[0] < MaxCopies
  /\ syncs' = [syncs EXCEPT ![0] = @ + 1]
  /\ \E nest \in Nests :
       /\ origin' = Append(origin, nest)
       /\ log' = IF syncs[0] > 0 THEN log
                 ELSE log \o <<BufferSize(nest), Flattened(nest)>>
       /\ built' = [built EXCEPT ![0] = nest]
  /\ UNCHANGED <<taken, pc, buf, level, at>>

\* Rank 0 broadcasts size and buffer, and keeps its own clock.
Propagate ==
  /\ syncs[0] < MaxCopies
  /\ syncs' = [syncs EXCEPT ![0] = @ + 1]
  /\ \E nest \in Nests :
       /\ origin' = Append(origin, nest)
       /\ log' = log \o <<BufferSize(nest), Flattened(nest)>>
       /\ built' = [built EXCEPT ![0] = nest]
  /\ UNCHANGED <<taken, pc, buf, level, at>>

\* The others enter and wait for the size, ...
Enter(r) ==
  /\ r # 0 /\ pc[r] = "idle" /\ syncs[r] < MaxCopies
  /\ syncs' = [syncs EXCEPT ![r] = @ + 1]
  /\ pc' = [pc EXCEPT ![r] = "size"]
  /\ UNCHANGED <<origin, log, taken, buf, level, at, built>>

\* ... allocate a buffer of that size, ...
TakeSize(r) ==
  /\ pc[r] = "size" /\ taken[r] < Len(log)
  /\ taken' = [taken EXCEPT ![r] = @ + 1]
  /\ buf' = [buf EXCEPT ![r] = [cell \in 0..(log[taken'[r]] - 1) |-> Unwritten]]
  /\ pc' = [pc EXCEPT ![r] = "buffer"]
  /\ UNCHANGED <<syncs, origin, log, level, at, built>>

\* ... receive the buffer and start over a new base clock.
TakeBuffer(r) ==
  /\ pc[r] = "buffer" /\ taken[r] < Len(log)
  /\ taken' = [taken EXCEPT ![r] = @ + 1]
  /\ buf' = [buf EXCEPT ![r] = [cell \in DOMAIN @ |-> log[taken'[r]][cell]]]
  /\ level' = [level EXCEPT ![r] = 0]
  /\ at' = [at EXCEPT ![r] = 1]
  /\ built' = [built EXCEPT ![r] = <<>>]
  /\ pc' = [pc EXCEPT ![r] = "rebuild"]
  /\ UNCHANGED <<syncs, origin, log>>

\* Mutant: each model goes below the ones before.
RebuildBelow(r) ==
  /\ pc[r] = "rebuild" /\ level[r] < buf[r][0].value
  /\ level' = [level EXCEPT ![r] = @ + 1]
  /\ \E kind \in ReadKinds(buf[r], at[r]) :
       /\ at' = [at EXCEPT ![r] = @ + 1 + 2 * NCoefs(kind)]
       /\ built' = [built EXCEPT ![r] = Append(@, Decoded(buf[r], at[r], kind))]
  /\ UNCHANGED <<syncs, origin, log, taken, pc, buf>>

\* One pass of the loop.  An unknown type id is reported and skipped.
Rebuild(r) ==
  /\ pc[r] = "rebuild" /\ level[r] < buf[r][0].value
  /\ level' = [level EXCEPT ![r] = @ + 1]
  /\ \E kind \in ReadKinds(buf[r], at[r]) :
       IF kind = "invalid"
       THEN at' = [at EXCEPT ![r] = @ + 1] /\ UNCHANGED built
       ELSE /\ at' = [at EXCEPT ![r] = @ + 1 + 2 * NCoefs(kind)]
            /\ built' = [built EXCEPT ![r] = <<Decoded(buf[r], at[r], kind)>> \o @]
  /\ UNCHANGED <<syncs, origin, log, taken, pc, buf>>

Return(r) ==
  /\ pc[r] = "rebuild" /\ level[r] = buf[r][0].value
  /\ pc' = [pc EXCEPT ![r] = "idle"]
  /\ UNCHANGED <<syncs, origin, log, taken, buf, level, at, built>>

Step(r) == Enter(r) \/ TakeSize(r) \/ TakeBuffer(r) \/ Rebuild(r) \/ Return(r)

AllDone == \A r \in Rank : pc[r] = "idle" /\ syncs[r] = MaxCopies
Stop == AllDone /\ UNCHANGED copyVars

CopyNext == Stop \/ Propagate \/ \E r \in Rank : Step(r)

\* A broadcast that has been made arrives.
CopySpec ==
  /\ CopyInit /\ [][CopyNext]_copyVars
  /\ WF_copyVars(Propagate) /\ \A r \in Rank : WF_copyVars(Step(r))

-----------------------------------------------------------------------------
(* Properties                                                              *)

\* All that rank 0 writes of a clock is inside the buffer, behind the header, and
\* nothing is written over: sizes are computed by one function, places by another.
BufferFits ==
  \A s \in 1..Len(origin) :
    LET nest == origin[s] IN
    /\ \A n \in 1..Len(nest) :
         /\ Place(nest, n) >= 1
         /\ Place(nest, n) + ThisSize(nest[n]) <= BufferSize(nest)
    /\ \A cell \in 1..(BufferSize(nest) - 1) : \E n \in 1..Len(nest) :
         Writers(nest, cell) = {n}

\* Every rank is returned the clock rank 0 had in the same synchronisation, also
\* when rank 0 is synchronisations ahead: same models, same coefficients, same
\* nesting.
SameAsRoot ==
  \A r \in Rank :
    pc[r] = "idle" /\ syncs[r] > 0 => built[r] = origin[syncs[r]]

\* Every synchronisation ends on every rank.
Termination == <>AllDone

\* What the comment of the class says: the rank 0 with the correct clock propagates
\* that model to all others.
PropagatesModel == SameAsRoot
=============================================================================
