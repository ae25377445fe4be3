------------------------------ MODULE SyncTree ------------------------------
(***************************************************************************)
(* What a synchronisation promises: in every synchronisation a rank takes  *)
(* its clock from its parent's clock of the same synchronisation, adding   *)
(* at most the error of one offset measurement.                            *)
(***************************************************************************)
EXTENDS Integers

CONSTANTS
  TreeRank, Root,
  Parent,     \* Parent[r]: the rank r takes its clock from
  Depth,      \* Depth[r]: the level of r in the tree
  MaxError,   \* bound on the error of one measurement
  MaxSyncs    \* bound on the number of synchronisations

ASSUME RootAssumption == Root \in TreeRank
ASSUME ParentAssumption == Parent \in [TreeRank \ {Root} -> TreeRank]
ASSUME DepthAssumption ==
  /\ Depth \in [TreeRank -> Nat]
  /\ Depth[Root] = 0
  /\ \A r \in TreeRank \ {Root} : Depth[r] = Depth[Parent[r]] + 1
ASSUME MaxErrorAssumption == MaxError \in Nat
ASSUME MaxSyncsAssumption == MaxSyncs \in Nat

VARIABLES
  gen,  \* gen[r]: how many synchronisations r has taken a clock in
  err   \* err[r]: how far r's clock is from the root's

treeVars == <<gen, err>>

Children(p) == {c \in TreeRank \ {Root} : Parent[c] = p}
Served(p) == \A c \in Children(p) : gen[c] = gen[p]

TreeInit == gen = [r \in TreeRank |-> 0] /\ err = [r \in TreeRank |-> 0]

\* The root's clock is the reference of the next synchronisation.
Lead ==
  /\ gen[Root] < MaxSyncs /\ Served(Root)
  /\ gen' = [gen EXCEPT ![Root] = @ + 1]
  /\ UNCHANGED err

\* Mutant: r does not wait for its children.
AdoptUnserved(r) ==
  /\ gen[Parent[r]] = gen[r] + 1
  /\ gen' = [gen EXCEPT ![r] = @ + 1]
  /\ \E e \in -MaxError..MaxError :
       err' = [err EXCEPT ![r] = err[Parent[r]] + e]

\* Mutant: r adds a measurement to the clock it had before.
AdoptStale(r) ==
  /\ gen[Parent[r]] = gen[r] + 1 /\ Served(r)
  /\ gen' = [gen EXCEPT ![r] = @ + 1]
  /\ \E e \in -MaxError..MaxError : err' = [err EXCEPT ![r] = @ + e]

\* Mutant: r takes a clock again it has already.
AdoptAgain(r) ==
  /\ gen[Parent[r]] >= gen[r] /\ Served(r)
  /\ gen' = [gen EXCEPT ![r] = @ + 1]
  /\ \E e \in -MaxError..MaxError :
       err' = [err EXCEPT ![r] = err[Parent[r]] + e]

\* r takes its clock from its parent, once it has served the synchronisation
\* before to its own children.
Adopt(r) ==
  /\ gen[Parent[r]] = gen[r] + 1 /\ Served(r)
  /\ gen' = [gen EXCEPT ![r] = @ + 1]
  /\ \E e \in -MaxError..MaxError :
       err' = [err EXCEPT ![r] = err[Parent[r]] + e]

TreeNext == Lead \/ \E r \in TreeRank \ {Root} : Adopt(r)

TreeSpec == TreeInit /\ [][TreeNext]_treeVars

\* Numbers of synchronisations and errors.
TypeOK == gen \in [TreeRank -> 0..MaxSyncs] /\ err \in [TreeRank -> Int]

\* A clock is off by at most one measurement's error for each level of the tree,
\* also between ranks that are in different synchronisations.
Accurate ==
  \A r \in TreeRank : -(Depth[r] * MaxError) <= err[r] /\ err[r] <= Depth[r] * MaxError

\* No rank is ever more than one synchronisation behind the rank it takes its
\* clock from, and never ahead of it.
InStep ==
  \A r \in TreeRank \ {Root} : gen[r] \in {gen[Parent[r]], gen[Parent[r]] - 1}
=============================================================================
