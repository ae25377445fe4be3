------------------------------- MODULE HCATree -------------------------------
(***************************************************************************)
(* Who measures with whom: the binomial tree that HCA3, HCA3O and, in the  *)
(* opposite order of rounds, HCA and HCA2 build over the ranks             *)
(* 0..nprocs-1.  Every rank works out its own partner from its own rank.   *)
(***************************************************************************)
EXTENDS Integers, FiniteSets

my_pow_2[exp \in Nat] == IF exp = 0 THEN 1 ELSE 2 * my_pow_2[exp - 1]

\* floor(log2(n))
NRounds(n) == CHOOSE i \in 0..n : my_pow_2[i] <= n /\ n < my_pow_2[i + 1]
MaxPowerTwo(n) == my_pow_2[NRounds(n)]

\* Mutant: the upper half of a running group leads the lower one.
RoundCallSwapped(n, i, r) ==
  LET running == my_pow_2[i]
      half == my_pow_2[i - 1]
  IN  IF r >= MaxPowerTwo(n) THEN {}
      ELSE IF r % running = 0    THEN {<<r + half, r>>}
      ELSE IF r % running = half THEN {<<r, r - half>>}
      ELSE {}

\* The call <<reference, client>> rank r makes in round i > 0, {} when it has
\* none: the ranks below the largest power of two pair up with the rank half a
\* running power away.
RoundCall(n, i, r) ==
  LET running == my_pow_2[i]
      half == my_pow_2[i - 1]
  IN  IF r >= MaxPowerTwo(n) THEN {}
      ELSE IF r % running = 0    THEN {<<r, r + half>>}
      ELSE IF r % running = half THEN {<<r - half, r>>}
      ELSE {}

\* Mutant: one rank too many looks for a client beyond the power of two.
LastCallOffByOne(n, r) ==
  LET max == MaxPowerTwo(n)
  IN  IF r >= max          THEN {<<r - max, r>>}
      ELSE IF r <= n - max THEN {<<r, r + max>>}
      ELSE {}

\* Mutant: the ranks that are left over follow one another.
LastCallChain(n, r) == IF r >= MaxPowerTwo(n) THEN {<<r - 1, r>>} ELSE {}

\* The call in the round that attaches the ranks from the largest power of two on.
LastCall(n, r) ==
  LET max == MaxPowerTwo(n)
  IN  IF r >= max         THEN {<<r - max, r>>}
      ELSE IF r < n - max THEN {<<r, r + max>>}
      ELSE {}

\* Round 0 stands for the last one.
Call(n, i, r) == IF i > 0 THEN RoundCall(n, i, r) ELSE LastCall(n, r)

-----------------------------------------------------------------------------
(* The tree that comes out of it, for the properties.                      *)

ClientRounds(n, r) == {i \in 0..NRounds(n) : \E call \in Call(n, i, r) : call[2] = r}
LearnRound(n, r) == CHOOSE i \in ClientRounds(n, r) : TRUE
ParentOf(n, r) == (CHOOSE call \in Call(n, LearnRound(n, r), r) : TRUE)[1]
DepthOf(n, r) == LET d[s \in 0..(n - 1)] == IF s = 0 THEN 0 ELSE d[ParentOf(n, s)] + 1
                 IN  d[r]
=============================================================================
