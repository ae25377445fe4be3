-------------------------- MODULE HierarchyProofs --------------------------
(***************************************************************************)
(* The synchronisation over levels for any number of ranks, wherever they  *)
(* run and whatever sound algorithms the levels are given; and, before     *)
(* that, what merged models and models over models show.                   *)
(***************************************************************************)
EXTENDS Hierarchy, ScheduleProofs, SequenceTheorems

-----------------------------------------------------------------------------
(* Merging models                                                          *)

\* The products of the two ways to read the first clock off the third's agree.
LEMMA Expansion ==
  ASSUME NEW s1 \in Int, NEW i1 \in Int, NEW s2 \in Int, NEW i2 \in Int, NEW x \in Int
  PROVE  x - (x * (s1 + s2 - s1 * s2) + (i1 + i2 - i2 * s1))
           = (x - (x * s2 + i2)) - ((x - (x * s2 + i2)) * s1 + i1)
<1>1. x * (s1 + s2 - s1 * s2) = x * s1 + x * s2 - x * (s1 * s2)
  OBVIOUS
<1>2. (x - (x * s2 + i2)) * s1 = x * s1 - (x * s2) * s1 - i2 * s1
  OBVIOUS
<1>3. (x * s2) * s1 = x * (s1 * s2)
  OBVIOUS
<1> DEFINE a == x * s1
           b == x * s2
           c == x * (s1 * s2)
           d == i2 * s1
<1>4. a \in Int /\ b \in Int /\ c \in Int /\ d \in Int
  OBVIOUS
<1>5. x * (s1 + s2 - s1 * s2) = a + b - c
      /\ (x - (x * s2 + i2)) * s1 = a - c - d
  BY <1>1, <1>2, <1>3
<1> QED
  BY <1>4, <1>5

\* Three clocks in a chain, the third's against the second's by inner, the second's
\* against the first's by outer: at every reading the merged model gives what the two
\* models give one after the other, so that rank 0 may hand a rank the merged model
\* instead of the chain it stands for.
THEOREM Merging ==
  ASSUME NEW outer \in LinModel, NEW inner \in LinModel, NEW t \in Int
  PROVE  Normalized(Merged(outer, inner), t) = Normalized(outer, Normalized(inner, t))
<1>1. /\ outer.slope \in Int /\ outer.intercept \in Int
      /\ inner.slope \in Int /\ inner.intercept \in Int
  BY DEF LinModel
<1>2. /\ Merged(outer, inner).slope
           = outer.slope + inner.slope - outer.slope * inner.slope
      /\ Merged(outer, inner).intercept
           = outer.intercept + inner.intercept - inner.intercept * outer.slope
  BY DEF Merged
<1> QED
  BY <1>1, <1>2, Expansion DEF Normalized

-----------------------------------------------------------------------------
(* Models over models                                                      *)

\* The function by which Shown goes through a nest.
Through(f, nest, x) ==
  f = [k \in 1..(Len(nest) + 1) |->
         IF k > Len(nest) THEN x ELSE Normalized(nest[k], f[k + 1])]

\* It exists, is the only one, and ends in a number.
WellShown(nest) ==
  \A x \in Int : \E f :
    Through(f, nest, x) /\ f[1] \in Int /\ \A g : Through(g, nest, x) => g = f

FlatModel == [kind : Kind, slope : {0}, intercept : Int]
Nests == {nest \in Seq(FlatModel) : WellShown(nest)}

LEMMA ShownThrough ==
  ASSUME NEW nest, NEW x \in Int, WellShown(nest)
  PROVE  /\ Shown(nest, x) \in Int
         /\ \A f : Through(f, nest, x) => Shown(nest, x) = f[1]
<1> DEFINE h == CHOOSE f : Through(f, nest, x)
<1>1. PICK f : Through(f, nest, x) /\ f[1] \in Int /\ \A g : Through(g, nest, x) => g = f
  BY DEF WellShown
<1>2. Through(h, nest, x)
  BY <1>1
<1>3. h = f
  BY <1>1, <1>2
<1>4. Shown(nest, x) = h[1]
  BY DEF Shown, Through
<1> HIDE DEF h
<1> QED BY <1>1, <1>3, <1>4

LEMMA NothingShown == <<>> \in Nests /\ \A x \in Int : Shown(<<>>, x) = x
<1>1. ASSUME NEW x \in Int
      PROVE  /\ Through([k \in 1..1 |-> x], <<>>, x)
             /\ \A g : Through(g, <<>>, x) => g = [k \in 1..1 |-> x]
  <2>1. Len(<<>>) = 0
    OBVIOUS
  <2>2. ASSUME NEW f PROVE Through(f, <<>>, x) <=> f = [k \in 1..1 |-> x]
    <3>1. [k \in 1..(Len(<<>>) + 1) |->
             IF k > Len(<<>>) THEN x ELSE Normalized((<<>>)[k], f[k + 1])]
            = [k \in 1..1 |-> x]
      BY <2>1
    <3> QED BY <3>1 DEF Through
  <2> QED BY <2>2
<1>2. WellShown(<<>>)
  BY <1>1 DEF WellShown
<1> QED BY <1>1, <1>2, ShownThrough DEF Nests

\* A model over a nest takes its offset off what the nest shows.
LEMMA ShownOver ==
  ASSUME NEW m \in FlatModel, NEW nest \in Nests
  PROVE  /\ <<m>> \o nest \in Nests
         /\ Len(<<m>> \o nest) = Len(nest) + 1 /\ (<<m>> \o nest)[1] = m
         /\ \A x \in Int : /\ Shown(nest, x) \in Int
                           /\ Shown(<<m>> \o nest, x) = Shown(nest, x) - m.intercept
<1> DEFINE over == <<m>> \o nest
<1>0. nest \in Seq(FlatModel) /\ WellShown(nest) /\ <<m>> \in Seq(FlatModel)
  BY DEF Nests
<1>1. /\ over \in Seq(FlatModel) /\ Len(over) = Len(nest) + 1 /\ over[1] = m
      /\ \A k \in 1..Len(nest) : over[k + 1] = nest[k]
      /\ Len(nest) \in Nat
  BY <1>0
<1>2. m.slope = 0 /\ m.intercept \in Int
  BY DEF FlatModel
<1> HIDE DEF over
<1>3. ASSUME NEW x \in Int, NEW f, Through(f, nest, x), f[1] \in Int,
             \A g : Through(g, nest, x) => g = f
      PROVE  LET fo == [k \in 1..(Len(over) + 1) |->
                          IF k = 1 THEN f[1] - m.intercept ELSE f[k - 1]]
             IN  Through(fo, over, x) /\ \A g : Through(g, over, x) => g = fo
  <2> DEFINE fo == [k \in 1..(Len(over) + 1) |->
                      IF k = 1 THEN f[1] - m.intercept ELSE f[k - 1]]
  <2>1. Normalized(m, f[1]) = f[1] - m.intercept
    BY <1>2, <1>3 DEF Normalized
  <2>2. f = [k \in 1..(Len(nest) + 1) |->
               IF k > Len(nest) THEN x ELSE Normalized(nest[k], f[k + 1])]
    BY <1>3 DEF Through
  <2>3. ASSUME NEW k \in 1..(Len(over) + 1)
        PROVE  fo[k] = IF k > Len(over) THEN x ELSE Normalized(over[k], fo[k + 1])
    <3>1. CASE k = 1
      <4>1. fo[1] = f[1] - m.intercept /\ fo[2] = f[1]
        BY <1>1
      <4> QED BY <1>1, <2>1, <3>1, <4>1
    <3>2. CASE k # 1
      <4>1. k - 1 \in 1..(Len(nest) + 1) /\ fo[k] = f[k - 1]
        BY <1>1, <3>2
      <4>2. f[k - 1] = IF k - 1 > Len(nest) THEN x ELSE Normalized(nest[k - 1], f[k])
        BY <2>2, <4>1
      <4>3. CASE k > Len(over)
        BY <1>1, <4>1, <4>2, <4>3
      <4>4. CASE ~(k > Len(over))
        <5>1. k + 1 \in 1..(Len(over) + 1) /\ fo[k + 1] = f[k] /\ k - 1 \in 1..Len(nest)
          BY <1>1, <3>2, <4>4
        <5>2. over[k] = nest[k - 1]
          BY <1>1, <5>1
        <5> QED BY <1>1, <4>1, <4>2, <4>4, <5>1, <5>2
      <4> QED BY <4>3, <4>4
    <3> QED BY <3>1, <3>2
  <2>4. Through(fo, over, x)
    BY <2>3 DEF Through
  <2>5. ASSUME NEW g, Through(g, over, x) PROVE g = fo
    <3>1. g = [k \in 1..(Len(over) + 1) |->
                 IF k > Len(over) THEN x ELSE Normalized(over[k], g[k + 1])]
      BY <2>5 DEF Through
    <3> DEFINE t == [k \in 1..(Len(nest) + 1) |-> g[k + 1]]
    <3>2. ASSUME NEW k \in 1..(Len(nest) + 1)
          PROVE  t[k] = IF k > Len(nest) THEN x ELSE Normalized(nest[k], t[k + 1])
      <4>1. k + 1 \in 1..(Len(over) + 1)
        BY <1>1
      <4>2. g[k + 1] = IF k + 1 > Len(over) THEN x ELSE Normalized(over[k + 1], g[k + 2])
        BY <3>1, <4>1
      <4>3. CASE k > Len(nest)
        BY <1>1, <4>2, <4>3
      <4>4. CASE ~(k > Len(nest))
        <5>1. t[k + 1] = g[k + 2] /\ over[k + 1] = nest[k]
          BY <1>1, <4>4
        <5> QED BY <1>1, <4>2, <4>4, <5>1
      <4> QED BY <4>3, <4>4
    <3>3. Through(t, nest, x)
      BY <3>2 DEF Through
    <3>4. t = f
      BY <1>3, <3>3
    <3>5. \A k \in 2..(Len(over) + 1) : g[k] = f[k - 1]
      BY <1>1, <3>4
    <3>6. g[1] = f[1] - m.intercept
      <4>1. g[1] = Normalized(over[1], g[2])
        BY <1>1, <3>1
      <4>2. g[2] = f[1]
        BY <1>1, <3>5
      <4> QED BY <1>1, <2>1, <4>1, <4>2
    <3>7. g = [k \in 1..(Len(over) + 1) |-> g[k]]
      <4> DEFINE e(k) == IF k > Len(over) THEN x ELSE Normalized(over[k], g[k + 1])
      <4>1. g = [k \in 1..(Len(over) + 1) |-> e(k)]
        BY <3>1
      <4> HIDE DEF e
      <4> QED BY <4>1
    <3>8. \A k \in 1..(Len(over) + 1) : g[k] = fo[k]
      BY <1>1, <3>5, <3>6
    <3> QED BY <3>7, <3>8
  <2> QED BY <2>4, <2>5
<1>4. ASSUME NEW x \in Int
      PROVE  \E fo : /\ Through(fo, over, x) /\ fo[1] \in Int
                     /\ \A g : Through(g, over, x) => g = fo
                     /\ Shown(nest, x) \in Int /\ fo[1] = Shown(nest, x) - m.intercept
  <2>1. PICK f : Through(f, nest, x) /\ f[1] \in Int /\ \A g : Through(g, nest, x) => g = f
    BY <1>0 DEF WellShown
  <2>2. Shown(nest, x) = f[1]
    BY <1>0, <2>1, ShownThrough
  <2> DEFINE fo == [k \in 1..(Len(over) + 1) |->
                      IF k = 1 THEN f[1] - m.intercept ELSE f[k - 1]]
  <2>3. Through(fo, over, x) /\ \A g : Through(g, over, x) => g = fo
    BY <1>3, <2>1
  <2>4. fo[1] = f[1] - m.intercept
    BY <1>1
  <2> HIDE DEF fo
  <2> QED BY <1>2, <2>1, <2>2, <2>3, <2>4
<1>5. WellShown(over)
  BY <1>4 DEF WellShown
<1>6. ASSUME NEW x \in Int
      PROVE  Shown(nest, x) \in Int /\ Shown(over, x) = Shown(nest, x) - m.intercept
  BY <1>4, <1>5, ShownThrough
<1> QED BY <1>1, <1>5, <1>6 DEF Nests, over

-----------------------------------------------------------------------------
(* Settings                                                                *)

\* The level at which r takes its clock, if there is one, and who gives it.
Att(set, r) == Attached(Levels(set, r), r)
Giver(set, r, l) == Leader(Levels(set, r)[l])
Leads(set, r, l) == Levels(set, r)[l] # {} /\ r = Giver(set, r, l)

LEMMA SettingFacts ==
  ASSUME NEW set \in Settings
  PROVE  /\ Sound(set) /\ set.three \in BOOLEAN /\ set.skew \in [Rank -> Int]
         /\ NLevels(set) = NLevelsOf(set.three) /\ NLevels(set) \in {2, 3}
         /\ Len(set.algs) = NLevels(set) /\ \A l \in 1..NLevels(set) : set.algs[l] \in Kind
         /\ DOMAIN set.node = Rank /\ Ranked(set.node) /\ 0 \in Rank
         /\ \A r : Levels(set, r) = LevelsIn(set.three, set.node, set.binding, r)
<1>1. set \in Setting /\ Sound(set)
  BY SettingsAssumption
<1>2. /\ set.three \in BOOLEAN /\ set.skew \in [Rank -> Int] /\ set.node \in [Rank -> Nat]
      /\ set.algs \in Seq(Kind)
  BY <1>1 DEF Setting
<1>3. 0 \in Rank /\ Rank \subseteq Nat
  BY nprocsAssumption DEF Rank
<1>4. DOMAIN set.node = Rank /\ Ranked(set.node)
  BY <1>2, <1>3 DEF Ranked
<1>5. NLevels(set) = NLevelsOf(set.three) /\ NLevels(set) \in {2, 3}
  BY <1>2 DEF NLevels, NLevelsOf
<1>6. Len(set.algs) = NLevels(set)
  BY <1>1 DEF Sound
<1>7. \A l \in 1..NLevels(set) : set.algs[l] \in Kind
  BY <1>2, <1>6
<1>8. \A r : Levels(set, r) = LevelsIn(set.three, set.node, set.binding, r)
  BY DEF Levels, LevelsIn
<1> QED BY <1>1, <1>2, <1>3, <1>4, <1>5, <1>6, <1>7, <1>8

\* What the levels are to a rank.
LEMMA LevelFacts ==
  ASSUME NEW set \in Settings, NEW r \in Rank
  PROVE  /\ DOMAIN Levels(set, r) = 1..NLevels(set)
         /\ Att(set, r) = {l \in 1..NLevels(set) : Levels(set, r)[l] # {} /\ r # Giver(set, r, l)}
         /\ Att(set, 0) = {}
         /\ r # 0 => \E l \in 1..NLevels(set) : Att(set, r) = {l}
         /\ \A l \in 1..NLevels(set) :
              /\ Levels(set, r)[l] # {} => r \in Levels(set, r)[l]
              /\ Levels(set, r)[l] \subseteq Rank
              /\ Leads(set, r, l) => \A k \in Att(set, r) : k < l
         /\ \A l \in Att(set, r) :
              /\ Giver(set, r, l) \in Rank /\ Giver(set, r, l) \in Levels(set, r)[l]
              /\ Leads(set, Giver(set, r, l), l)
<1> DEFINE nodes == set.node
           In(s) == LevelsIn(set.three, set.node, set.binding, s)
<1>1. /\ set.three \in BOOLEAN /\ Ranked(nodes) /\ DOMAIN nodes = Rank /\ r \in DOMAIN nodes
      /\ 0 \in DOMAIN nodes /\ NLevels(set) = NLevelsOf(set.three)
      /\ \A s : Levels(set, s) = In(s)
  BY SettingFacts
<1>2. DOMAIN Levels(set, r) = 1..NLevels(set)
  BY <1>1, LevelDomain
<1>3. Att(set, r) = {l \in 1..NLevels(set) : Levels(set, r)[l] # {} /\ r # Giver(set, r, l)}
  BY <1>2 DEF Att, Attached, Giver
<1>4. Attached(In(0), 0) = {} /\ Att(set, 0) = {}
  <2>1. Attached(In(0), 0) = {}
    BY <1>1, AttachedOnce
  <2> QED BY <1>1, <2>1 DEF Att
<1>5. ASSUME r # 0 PROVE \E l \in 1..NLevels(set) : Att(set, r) = {l}
  <2>1. \E l \in 1..NLevelsOf(set.three) : Attached(In(r), r) = {l}
    BY <1>1, <1>5, AttachedOnce
  <2>2. Att(set, r) = Attached(In(r), r)
    BY <1>1 DEF Att
  <2> QED BY <1>1, <2>1, <2>2
<1>6. ASSUME NEW l \in 1..NLevels(set)
      PROVE  /\ Levels(set, r)[l] # {} => r \in Levels(set, r)[l]
             /\ Levels(set, r)[l] \subseteq Rank
  <2>1. \A s \in In(r)[l] : r \in In(r)[l] /\ s \in DOMAIN nodes
    BY <1>1, LevelMembers
  <2>2. Levels(set, r)[l] = In(r)[l]
    BY <1>1
  <2> HIDE DEF In, nodes
  <2> QED BY <1>1, <2>1, <2>2
<1>7. ASSUME NEW l \in 1..NLevels(set), Leads(set, r, l)
      PROVE  \A k \in Att(set, r) : k < l
  <2>1. Levels(set, r) = In(r) /\ l \in 1..NLevelsOf(set.three)
    BY <1>1
  <2>2. In(r)[l] # {} /\ r = Leader(In(r)[l])
    BY <1>7, <2>1 DEF Leads, Giver
  <2>3. \A k \in Attached(In(r), r) : k < l
    BY <1>1, <2>1, <2>2, LeadersAreSettled
  <2> QED BY <2>1, <2>3 DEF Att
<1>8. ASSUME NEW l \in Att(set, r)
      PROVE  /\ Giver(set, r, l) \in Rank /\ Giver(set, r, l) \in Levels(set, r)[l]
             /\ Leads(set, Giver(set, r, l), l)
  <2> DEFINE leader == Leader(In(r)[l])
  <2>1. Levels(set, r) = In(r) /\ Levels(set, leader) = In(leader) /\ leader = Giver(set, r, l)
    BY <1>1 DEF Giver
  <2>2. l \in Attached(In(r), r)
    BY <1>8, <2>1 DEF Att
  <2>3. leader \in DOMAIN nodes /\ leader \in In(r)[l] /\ In(leader)[l] = In(r)[l]
    BY <1>1, <2>2, LeaderOfLevel
  <2>4. leader = Leader(In(leader)[l]) /\ In(leader)[l] # {}
    BY <2>3
  <2> HIDE DEF leader, In, nodes
  <2>5. Leads(set, leader, l)
    BY <2>1, <2>4 DEF Leads, Giver
  <2> QED BY <1>1, <2>1, <2>3, <2>5
<1> QED BY <1>2, <1>3, <1>4, <1>5, <1>6, <1>7, <1>8

-----------------------------------------------------------------------------
(* The levels of measurement above a rank                                  *)

AttLevel(set, r) == CHOOSE l \in 1..NLevels(set) : Att(set, r) = {l}
Parent(set, r) == Giver(set, r, AttLevel(set, r))
Cost(set, l) == IF set.algs[l] = "prop" THEN 0 ELSE 1

\* There are at most three of them.
HopsTo(set, r) ==
  LET p1 == Parent(set, r)
      p2 == Parent(set, p1)
      c(s) == Cost(set, AttLevel(set, s))
  IN  IF r = 0 THEN 0
      ELSE IF p1 = 0 THEN c(r)
      ELSE IF p2 = 0 THEN c(r) + c(p1)
      ELSE c(r) + (c(p1) + c(p2))

LEMMA OneAbove ==
  ASSUME NEW set \in Settings, NEW r \in Rank, r # 0
  PROVE  /\ AttLevel(set, r) \in 1..NLevels(set) /\ Att(set, r) = {AttLevel(set, r)}
         /\ Parent(set, r) \in Rank
         /\ Parent(set, r) # 0 => AttLevel(set, Parent(set, r)) < AttLevel(set, r)
<1>1. AttLevel(set, r) \in 1..NLevels(set) /\ Att(set, r) = {AttLevel(set, r)}
  BY LevelFacts DEF AttLevel
<1>2. Parent(set, r) \in Rank /\ Leads(set, Parent(set, r), AttLevel(set, r))
  BY <1>1, LevelFacts DEF Parent
<1>3. ASSUME Parent(set, r) # 0 PROVE AttLevel(set, Parent(set, r)) < AttLevel(set, r)
  <2>1. Att(set, Parent(set, r)) = {AttLevel(set, Parent(set, r))}
    BY <1>2, <1>3, LevelFacts DEF AttLevel
  <2> QED BY <1>1, <1>2, <2>1, LevelFacts
<1> QED BY <1>1, <1>2, <1>3

LEMMA HopsStep ==
  ASSUME NEW set \in Settings, NEW r \in Rank
  PROVE  /\ HopsTo(set, r) \in Nat /\ HopsTo(set, 0) = 0
         /\ r # 0 => HopsTo(set, r) = HopsTo(set, Parent(set, r)) + Cost(set, AttLevel(set, r))
<1> DEFINE p1 == Parent(set, r)
           p2 == Parent(set, p1)
           p3 == Parent(set, p2)
           c(s) == Cost(set, AttLevel(set, s))
<1>1. \A s : c(s) \in {0, 1}
  BY DEF Cost
<1>2. NLevels(set) \in {2, 3}
  BY SettingFacts
<1>3. r # 0 => p1 \in Rank /\ AttLevel(set, r) \in 1..NLevels(set)
               /\ (p1 # 0 => AttLevel(set, p1) < AttLevel(set, r))
  BY OneAbove
<1>4. r # 0 /\ p1 # 0 => p2 \in Rank /\ AttLevel(set, p1) \in 1..NLevels(set)
                           /\ (p2 # 0 => AttLevel(set, p2) < AttLevel(set, p1))
  BY <1>3, OneAbove
<1>5. r # 0 /\ p1 # 0 /\ p2 # 0 => AttLevel(set, p2) \in 1..NLevels(set)
                           /\ (p3 # 0 => AttLevel(set, p3) < AttLevel(set, p2) /\ p3 \in Rank)
  BY <1>4, OneAbove
<1>6. r # 0 /\ p1 # 0 /\ p2 # 0 => p3 = 0
  <2>1. r # 0 /\ p1 # 0 /\ p2 # 0 /\ p3 # 0 => AttLevel(set, p3) \in 1..NLevels(set)
    BY <1>5, OneAbove
  <2> QED BY <1>2, <1>3, <1>4, <1>5, <2>1
<1>7. /\ HopsTo(set, r) = IF r = 0 THEN 0 ELSE IF p1 = 0 THEN c(r)
                          ELSE IF p2 = 0 THEN c(r) + c(p1) ELSE c(r) + (c(p1) + c(p2))
      /\ HopsTo(set, p1) = IF p1 = 0 THEN 0 ELSE IF p2 = 0 THEN c(p1)
                          ELSE IF p3 = 0 THEN c(p1) + c(p2)
                          ELSE c(p1) + (c(p2) + c(p3))
      /\ HopsTo(set, 0) = 0
  BY DEF HopsTo
<1> HIDE DEF p1, p2, p3, c
<1>8. HopsTo(set, r) \in Nat
  BY <1>1, <1>7
<1>9. r # 0 => HopsTo(set, r) = HopsTo(set, p1) + c(r)
  BY <1>1, <1>6, <1>7
<1> QED BY <1>7, <1>8, <1>9 DEF p1, c

-----------------------------------------------------------------------------
(* The inductive invariant                                                 *)

\* r's clock, a nest, is off from rank 0's by what was measured in between.
Acc(set, r, nest) ==
  Shown(nest, set.skew[r]) - set.skew[0]
    \in -(HopsTo(set, r) * MaxError)..(HopsTo(set, r) * MaxError)

\* The clock a rank comes to a level with: its base clock at first, one model over it
\* at the second, and at the third another one if it has measured at the second.
Measures(set, r, l) == set.algs[l] # "prop" /\ Cardinality(Levels(set, r)[l]) > 1
Fits(set, r, l, nest) ==
  /\ l = 1 => nest = <<>>
  /\ l = 2 => Len(nest) = 1
  /\ l = 3 => IF Measures(set, r, 2) THEN Len(nest) = 2 /\ nest[1].kind = set.algs[2]
                                      ELSE Len(nest) = 1

Types ==
  /\ setting \in Settings
  /\ pc \in [Rank -> {"idle", "split", "level"}]
  /\ syncs \in [Rank -> Nat] /\ splits \in [Rank -> Nat] /\ level \in [Rank -> Nat]
  /\ clock \in [Rank -> Nests] /\ global \in [Rank -> Nests]
  /\ given \in [Rank -> [1..NLevels(setting) -> Seq(Nests)]]
  /\ \A r \in Rank : pc[r] = "level" => level[r] \in 1..NLevels(setting)

\* A rank that is past the level it takes its clock at has an accurate one.
ClockInv(r) ==
  /\ pc[r] # "idle" => syncs[r] > 0
  /\ pc[r] = "split" => clock[r] = <<>>
  /\ pc[r] = "level" =>
       /\ Fits(setting, r, level[r], clock[r])
       /\ (\A l \in Att(setting, r) : l < level[r]) => Acc(setting, r, clock[r])
  /\ pc[r] = "idle" /\ syncs[r] > 0 => Acc(setting, r, global[r])

GivenInv(r) ==
  \A l \in 1..NLevels(setting) : \A k \in DOMAIN given[r][l] :
    /\ Fits(setting, r, l, given[r][l][k])
    /\ Leads(setting, r, l) => Acc(setting, r, given[r][l][k])

\* How many clocks r has taken at level l, or seen go by.
Taken(r, l) ==
  IF pc[r] = "idle" \/ (pc[r] = "level" /\ l < level[r]) THEN syncs[r] ELSE syncs[r] - 1
SettledInv(r) ==
  \A l \in Att(setting, r) : Taken(r, l) <= Len(given[Giver(setting, r, l)][l])

IInv == Types /\ \A r \in Rank : ClockInv(r) /\ GivenInv(r) /\ SettledInv(r)

-----------------------------------------------------------------------------
(* Steps                                                                   *)

LEMMA Mine ==
  ASSUME Types, NEW r \in Rank
  PROVE  /\ MyLevels(r) = Levels(setting, r) /\ Last = NLevels(setting)
         /\ setting \in Settings /\ syncs[r] \in Nat /\ level[r] \in Nat
         /\ clock[r] \in Nests /\ global[r] \in Nests
         /\ \A l \in 1..NLevels(setting) : given[r][l] \in Seq(Nests)
         /\ pc[r] = "level" =>
              /\ level[r] \in 1..NLevels(setting)
              /\ Comm(r) = Levels(setting, r)[level[r]]
BY DEF Types, MyLevels, Table, Last, Comm

\* What r has is as it was.
Same(r) ==
  /\ pc'[r] = pc[r] /\ syncs'[r] = syncs[r] /\ level'[r] = level[r]
  /\ clock'[r] = clock[r] /\ global'[r] = global[r]

LEMMA Untouched ==
  ASSUME NEW r \in Rank, setting' = setting, Same(r), ClockInv(r)
  PROVE  ClockInv(r)'
BY DEF Same, ClockInv

LEMMA GivenUntouched ==
  ASSUME NEW r \in Rank, setting' = setting, given'[r] = given[r], GivenInv(r)
  PROVE  GivenInv(r)'
BY DEF GivenInv

\* Clocks are only added to those that are given.
Grown ==
  \A r \in Rank : \A l \in 1..NLevels(setting) : Len(given[r][l]) <= Len(given'[r][l])

LEMMA StillSettled ==
  ASSUME NEW r \in Rank, Types, Types', setting' = setting, Grown, SettledInv(r),
         \A l \in Att(setting, r) : \/ Taken(r, l)' <= Taken(r, l)
                                   \/ Taken(r, l)' <= Len(given[Giver(setting, r, l)][l])
  PROVE  SettledInv(r)'
<1> SUFFICES ASSUME NEW l \in Att(setting, r)
             PROVE  Taken(r, l)' <= Len(given'[Giver(setting, r, l)][l])
  BY DEF SettledInv
<1>1. setting \in Settings /\ syncs[r] \in Nat /\ syncs'[r] \in Nat
  BY DEF Types
<1>2. Giver(setting, r, l) \in Rank /\ l \in 1..NLevels(setting)
  BY <1>1, LevelFacts
<1> DEFINE before == given[Giver(setting, r, l)][l]
           after == given'[Giver(setting, r, l)][l]
<1>3. before \in Seq(Nests) /\ after \in Seq(Nests)
  <2>1. given \in [Rank -> [1..NLevels(setting) -> Seq(Nests)]]
    BY DEF Types
  <2>2. given' \in [Rank -> [1..NLevels(setting) -> Seq(Nests)]]
    BY DEF Types
  <2> QED BY <1>2, <2>1, <2>2
<1>4. Len(before) \in Nat /\ Len(after) \in Nat /\ Len(before) <= Len(after)
  BY <1>2, <1>3 DEF Grown
<1>5. Taken(r, l) \in Int /\ Taken(r, l)' \in Int
  BY <1>1 DEF Taken
<1>6. Taken(r, l) <= Len(before)
  BY DEF SettledInv
<1> HIDE DEF before, after
<1>7. Taken(r, l)' <= Len(before)
  <2>1. CASE Taken(r, l)' <= Taken(r, l)
    BY <1>4, <1>5, <1>6, <2>1
  <2>2. CASE Taken(r, l)' <= Len(before)
    BY <2>2
  <2> QED BY <2>1, <2>2 DEF before
<1> QED BY <1>4, <1>5, <1>7 DEF after

\* A rank that has taken or passed a level goes on with the given clock.
LEMMA Advanced ==
  ASSUME IInv, NEW r \in Rank, NEW nest \in Nests, setting' = setting, syncs' = syncs,
         splits' = splits, pc[r] = "level", Advance(r, nest),
         level[r] < NLevels(setting) => Fits(setting, r, level[r] + 1, nest),
         (\A l \in Att(setting, r) : l <= level[r]) => Acc(setting, r, nest),
         given' \in [Rank -> [1..NLevels(setting) -> Seq(Nests)]], Grown,
         \A s \in Rank : GivenInv(s)',
         level[r] \in Att(setting, r)
           => syncs[r] <= Len(given[Giver(setting, r, level[r])][level[r]])
  PROVE  IInv'
<1>1. Types /\ setting \in Settings /\ level[r] \in 1..NLevels(setting) /\ syncs[r] \in Nat
      /\ NLevels(setting) \in {2, 3} /\ Last = NLevels(setting)
  BY Mine, SettingFacts DEF IInv
<1>2. /\ clock' = [clock EXCEPT ![r] = nest]
      /\ \/ /\ level[r] < NLevels(setting)
            /\ level' = [level EXCEPT ![r] = @ + 1] /\ pc' = pc /\ global' = global
         \/ /\ level[r] = NLevels(setting)
            /\ level' = [level EXCEPT ![r] = 0] /\ pc' = [pc EXCEPT ![r] = "idle"]
            /\ global' = [global EXCEPT ![r] = nest]
  BY <1>1 DEF Advance
<1>3. Types'
  <2>1. clock' \in [Rank -> Nests] /\ global' \in [Rank -> Nests]
    BY <1>1, <1>2 DEF Types
  <2>2. pc' \in [Rank -> {"idle", "split", "level"}]
    BY <1>1, <1>2 DEF Types
  <2>3. level' \in [Rank -> Nat]
    <3>1. level[r] + 1 \in Nat /\ 0 \in Nat /\ level \in [Rank -> Nat]
      BY <1>1 DEF Types
    <3> QED BY <1>2, <3>1
  <2>4. ASSUME NEW s \in Rank, pc'[s] = "level" PROVE level'[s] \in 1..NLevels(setting)
    <3>1. CASE s = r
      <4>1. level[r] < NLevels(setting) /\ level'[r] = level[r] + 1
        BY <1>1, <1>2, <2>4, <3>1 DEF Types
      <4> QED BY <1>1, <3>1, <4>1
    <3>2. CASE s # r
      <4>1. level'[s] = level[s] /\ pc'[s] = pc[s]
        BY <1>1, <1>2, <3>2 DEF Types
      <4> QED BY <1>1, <2>4, <4>1 DEF Types
    <3> QED BY <3>1, <3>2
  <2>5. setting' \in Settings /\ syncs' \in [Rank -> Nat] /\ splits' \in [Rank -> Nat]
    BY <1>1 DEF Types
  <2> QED BY <2>1, <2>2, <2>3, <2>4, <2>5 DEF Types
<1>4. \A s \in Rank \ {r} : Same(s)
  BY <1>1, <1>2 DEF Same, Types
<1>5. /\ clock'[r] = nest /\ syncs'[r] = syncs[r]
      /\ \/ level[r] < NLevels(setting) /\ level'[r] = level[r] + 1 /\ pc'[r] = "level"
         \/ level[r] = NLevels(setting) /\ pc'[r] = "idle" /\ global'[r] = nest
  BY <1>1, <1>2 DEF Types
<1>6. Att(setting, r) \subseteq 1..NLevels(setting)
  BY <1>1, LevelFacts
<1>7. ClockInv(r)'
  <2>1. CASE level[r] < NLevels(setting) /\ level'[r] = level[r] + 1 /\ pc'[r] = "level"
    <3>1. (\A l \in Att(setting, r) : l < level[r] + 1) => Acc(setting, r, nest)
      BY <1>1, <1>6
    <3> QED BY <1>5, <2>1, <3>1 DEF ClockInv, IInv
  <2>2. CASE level[r] = NLevels(setting) /\ pc'[r] = "idle" /\ global'[r] = nest
    <3>1. Acc(setting, r, nest)
      BY <1>1, <1>6, <2>2
    <3> QED BY <2>2, <3>1 DEF ClockInv
  <2> QED BY <1>5, <2>1, <2>2
<1>8. \A s \in Rank : ClockInv(s)'
  BY <1>4, <1>7, Untouched DEF IInv
<1>9. ASSUME NEW l \in Att(setting, r)
      PROVE  \/ Taken(r, l)' <= Taken(r, l)
             \/ Taken(r, l)' <= Len(given[Giver(setting, r, l)][l])
  <2>1. CASE l = level[r]
    <3>1. Taken(r, l)' = syncs[r]
      BY <1>1, <1>5, <2>1 DEF Taken
    <3> QED BY <2>1, <3>1
  <2>2. CASE l < level[r]
    <3>1. Taken(r, l) = syncs[r] /\ Taken(r, l)' = syncs[r]
      BY <1>1, <1>5, <1>6, <2>2 DEF Taken
    <3> QED BY <1>1, <3>1
  <2>3. CASE l > level[r]
    <3>1. Taken(r, l) = syncs[r] - 1 /\ Taken(r, l)' = syncs[r] - 1
      BY <1>1, <1>5, <1>6, <2>3 DEF Taken
    <3> QED BY <1>1, <3>1
  <2> QED BY <1>1, <1>6, <2>1, <2>2, <2>3
<1>10. SettledInv(r)'
  BY <1>1, <1>3, <1>9, StillSettled DEF IInv
<1>11. ASSUME NEW s \in Rank \ {r} PROVE SettledInv(s)'
  <2>1. \A l \in Att(setting, s) : Taken(s, l)' = Taken(s, l) /\ Taken(s, l) \in Int
    BY <1>1, <1>4 DEF Taken, Same, Types
  <2> QED BY <1>1, <1>3, <2>1, StillSettled DEF IInv
<1> QED BY <1>3, <1>8, <1>10, <1>11 DEF IInv

\* The clock of rank 0 shows its own time, with whatever it is measured at nothing.
LEMMA RootAccurate ==
  ASSUME NEW set \in Settings, NEW r \in Rank, Att(set, r) = {}
  PROVE  r = 0 /\ Acc(set, r, <<>>)
<1>1. r = 0
  BY LevelFacts
<1>2. HopsTo(set, 0) = 0 /\ set.skew[0] \in Int
  BY SettingFacts, HopsStep
<1>3. Shown(<<>>, set.skew[0]) = set.skew[0]
  BY <1>2, NothingShown
<1> QED BY <1>1, <1>2, <1>3, BoundsAssumption DEF Acc

\* A synchronisation or its next split begins.
LEMMA Beginning ==
  ASSUME IInv, NEW r \in Rank, setting' = setting, global' = global, given' = given,
         SplitOrSync(r), clock' = [clock EXCEPT ![r] = <<>>],
         \/ pc[r] = "idle" /\ syncs' = [syncs EXCEPT ![r] = @ + 1]
         \/ pc[r] = "split" /\ syncs' = syncs
  PROVE  IInv'
<1>1. Types /\ setting \in Settings /\ syncs[r] \in Nat /\ NLevels(setting) \in {2, 3}
      /\ splits \in [Rank -> Nat] /\ level \in [Rank -> Nat] /\ splits[r] + 1 \in Nat
  BY SettingFacts DEF IInv, Types
<1>2. /\ syncs'[r] \in Nat /\ syncs'[r] > 0 /\ clock'[r] = <<>>
      /\ \/ pc[r] = "idle" /\ syncs'[r] = syncs[r] + 1
         \/ pc[r] = "split" /\ syncs'[r] = syncs[r]
      /\ \/ pc'[r] = "split"
         \/ pc'[r] = "level" /\ level'[r] = 1
      /\ \A s \in Rank \ {r} : Same(s)
  <2>1. syncs'[r] \in Nat /\ syncs'[r] > 0
    BY <1>1 DEF IInv, ClockInv, Types
  <2>2. /\ clock'[r] = <<>>
        /\ \/ pc[r] = "idle" /\ syncs'[r] = syncs[r] + 1
           \/ pc[r] = "split" /\ syncs'[r] = syncs[r]
        /\ \/ pc'[r] = "split"
           \/ pc'[r] = "level" /\ level'[r] = 1
    BY <1>1 DEF Types, SplitOrSync
  <2>3. \A s \in Rank \ {r} : Same(s)
    BY <1>1 DEF Types, SplitOrSync, Same
  <2> QED BY <2>1, <2>2, <2>3
<1>3. Types'
  <2>1. clock' \in [Rank -> Nests] /\ global' \in [Rank -> Nests]
        /\ given' \in [Rank -> [1..NLevels(setting) -> Seq(Nests)]] /\ setting' \in Settings
    BY <1>1, NothingShown DEF Types
  <2>2. syncs' \in [Rank -> Nat]
    <3>1. syncs[r] + 1 \in Nat /\ syncs \in [Rank -> Nat]
      BY <1>1 DEF Types
    <3> QED BY <3>1
  <2>3. splits' \in [Rank -> Nat] /\ level' \in [Rank -> Nat]
    BY <1>1 DEF SplitOrSync
  <2>4. pc' \in [Rank -> {"idle", "split", "level"}]
    BY <1>1 DEF SplitOrSync, Types
  <2>5. \A s \in Rank : pc'[s] = "level" => level'[s] \in 1..NLevels(setting)
    <3>1. \A s \in Rank \ {r} : pc'[s] = "level" => level'[s] \in 1..NLevels(setting)
      BY <1>1, <1>2 DEF Types, Same
    <3>2. pc'[r] = "level" => level'[r] \in 1..NLevels(setting)
      BY <1>1, <1>2
    <3> QED BY <3>1, <3>2
  <2> QED BY <2>1, <2>2, <2>3, <2>4, <2>5 DEF Types
<1>4. ClockInv(r)'
  <2>1. (\A l \in Att(setting, r) : l < 1) => Acc(setting, r, <<>>)
    BY <1>1, RootAccurate, LevelFacts
  <2>2. Fits(setting, r, 1, <<>>)
    BY DEF Fits
  <2> QED BY <1>2, <2>1, <2>2 DEF ClockInv
<1>5. \A s \in Rank : ClockInv(s)' /\ GivenInv(s)'
  BY <1>2, <1>4, Untouched, GivenUntouched DEF IInv
<1>6. Grown
  BY <1>1 DEF Grown, Types
<1>7. \A l \in Att(setting, r) : Taken(r, l)' <= Taken(r, l)
  <2> SUFFICES ASSUME NEW l \in Att(setting, r) PROVE Taken(r, l)' <= Taken(r, l)
    OBVIOUS
  <2>1. l >= 1 /\ l \in Nat
    BY <1>1, LevelFacts
  <2> QED BY <1>1, <1>2, <2>1 DEF Taken
<1>8. \A s \in Rank \ {r} : \A l \in Att(setting, s) : Taken(s, l)' <= Taken(s, l)
  BY <1>1, <1>2 DEF Taken, Same, Types
<1>9. \A s \in Rank : SettledInv(s)'
  BY <1>1, <1>3, <1>6, <1>7, <1>8, StillSettled DEF IInv
<1> QED BY <1>3, <1>5, <1>9 DEF IInv

LEMMA StartInv ==
  ASSUME IInv, NEW r \in Rank, Start(r), setting' = setting
  PROVE  IInv'
BY Beginning DEF Start

LEMMA SplitInv ==
  ASSUME IInv, NEW r \in Rank, Split(r), setting' = setting
  PROVE  IInv'
<1>1. clock = [clock EXCEPT ![r] = <<>>]
  BY DEF Split, IInv, Types, ClockInv
<1> QED BY <1>1, Beginning DEF Split

\* A communicator of a rank that takes no clock in it is its own alone, or led by it.
LEMMA Alone ==
  ASSUME NEW set \in Settings, NEW r \in Rank, NEW l \in 1..NLevels(set),
         Cardinality(Levels(set, r)[l]) <= 1
  PROVE  l \notin Att(set, r)
<1> DEFINE comm == Levels(set, r)[l]
<1> SUFFICES ASSUME l \in Att(set, r) PROVE FALSE
  OBVIOUS
<1>1. r \in comm /\ Giver(set, r, l) \in comm /\ r # Giver(set, r, l) /\ comm \subseteq Rank
  BY LevelFacts
<1>2. IsFiniteSet(Rank)
  BY nprocsAssumption, FS_Interval DEF Rank
<1>3. IsFiniteSet(comm)
  BY <1>1, <1>2, FS_Subset
<1> HIDE DEF comm
<1>4. Cardinality(comm) \in Nat
  BY <1>3, FS_CardinalityType
<1>5. Cardinality(comm) \in {0, 1}
  BY <1>4 DEF comm
<1>6. comm = {} \/ \E x : comm = {x}
  BY <1>3, <1>5, FS_EmptySet, FS_Singleton
<1> QED BY <1>1, <1>6

\* A model of offset zero over a clock.
LEMMA ModelOver ==
  ASSUME NEW kind \in Kind, NEW offset \in Int, NEW nest \in Nests
  PROVE  /\ <<Model(kind, offset)>> \o nest \in Nests
         /\ Len(<<Model(kind, offset)>> \o nest) = Len(nest) + 1
         /\ (<<Model(kind, offset)>> \o nest)[1].kind = kind
         /\ \A x \in Int : /\ Shown(nest, x) \in Int
                           /\ Shown(<<Model(kind, offset)>> \o nest, x) = Shown(nest, x) - offset
<1> DEFINE m == Model(kind, offset)
<1>1. m \in FlatModel /\ m.kind = kind /\ m.intercept = offset
  BY DEF Model, FlatModel
<1> HIDE DEF m
<1>2. <<m>> \o nest \in Nests /\ Len(<<m>> \o nest) = Len(nest) + 1 /\ (<<m>> \o nest)[1] = m
      /\ \A x \in Int : /\ Shown(nest, x) \in Int
                        /\ Shown(<<m>> \o nest, x) = Shown(nest, x) - m.intercept
  BY <1>1, ShownOver
<1> QED BY <1>1, <1>2 DEF m

\* One more model over a clock that fits a level, or none where nothing is measured,
\* when the clock may be another rank's.
LEMMA StillFits ==
  ASSUME NEW set \in Settings, NEW l \in 1..NLevels(set), l < NLevels(set), NEW nest \in Nests,
         NEW r, NEW s, NEW after,
         Fits(set, s, l, nest),
         \/ after = nest /\ l # 1 /\ ~Measures(set, r, l)
         \/ /\ Len(after) = Len(nest) + 1
            /\ l = 1 \/ (after[1].kind = set.algs[l] /\ Measures(set, r, l))
  PROVE  Fits(set, r, l + 1, after)
<1>1. l \in {1, 2} /\ nest \in Seq(FlatModel)
  BY SettingFacts DEF Nests
<1>2. l = 1 => Len(nest) = 0
  BY DEF Fits
<1>3. l = 2 => Len(nest) = 1
  BY DEF Fits
<1>4. CASE l = 1
  BY <1>2, <1>4 DEF Fits
<1>5. CASE l = 2
  <2>1. CASE after = nest /\ ~Measures(set, r, l)
    BY <1>3, <1>5, <2>1 DEF Fits
  <2>2. CASE Len(after) = Len(nest) + 1 /\ after[1].kind = set.algs[2] /\ Measures(set, r, 2)
    <3>1. Len(after) = 2
      <4>1. Len(nest) = 1 /\ Len(after) = Len(nest) + 1
        BY <1>3, <1>5, <2>2, Zenon
      <4> QED BY <4>1
    <3> QED BY <1>5, <2>2, <3>1 DEF Fits
  <2> QED BY <1>5, <2>1, <2>2
<1> QED BY <1>1, <1>4, <1>5

LEMMA PassInv ==
  ASSUME IInv, NEW r \in Rank, Pass(r), setting' = setting
  PROVE  IInv'
<1> DEFINE nest == IF level[r] = 1 THEN <<Model(DummyKind(r), 0)>> ELSE clock[r]
<1>1. /\ setting \in Settings /\ pc[r] = "level" /\ level[r] \in 1..NLevels(setting)
      /\ Comm(r) = Levels(setting, r)[level[r]] /\ clock[r] \in Nests
      /\ Cardinality(Comm(r)) <= 1 /\ Advance(r, nest)
      /\ syncs' = syncs /\ splits' = splits /\ given' = given
  BY Mine DEF Pass, IInv
<1>2. level[r] \notin Att(setting, r)
  BY <1>1, Alone
<1>3. Att(setting, r) \subseteq 1..NLevels(setting)
  BY <1>1, LevelFacts
<1>4. /\ Fits(setting, r, level[r], clock[r])
      /\ (\A l \in Att(setting, r) : l < level[r]) => Acc(setting, r, clock[r])
  BY <1>1 DEF IInv, ClockInv
<1>5. (\A l \in Att(setting, r) : l <= level[r]) => Acc(setting, r, clock[r])
  BY <1>1, <1>2, <1>3, <1>4, SettingFacts
<1>6. /\ nest \in Nests
      /\ level[r] < NLevels(setting) => Fits(setting, r, level[r] + 1, nest)
      /\ Acc(setting, r, clock[r]) => Acc(setting, r, nest)
  <2>1. CASE level[r] = 1
    <3>1. clock[r] = <<>>
      BY <1>4, <2>1 DEF Fits
    <3>2. DummyKind(r) \in Kind
      BY <1>1, <2>1, SettingFacts DEF DummyKind, Alg, Kind
    <3>3. <<Model(DummyKind(r), 0)>> \o <<>> = nest
      <4>1. <<Model(DummyKind(r), 0)>> \in Seq({Model(DummyKind(r), 0)})
        OBVIOUS
      <4>2. <<Model(DummyKind(r), 0)>> \o <<>> = <<Model(DummyKind(r), 0)>>
        BY <4>1, EmptySeq, ConcatEmptySeq
      <4> QED BY <2>1, <4>2
    <3>4. /\ nest \in Nests /\ Len(nest) = Len(<<>>) + 1
          /\ \A x \in Int : Shown(<<>>, x) \in Int /\ Shown(nest, x) = Shown(<<>>, x) - 0
      <4> DEFINE over == <<Model(DummyKind(r), 0)>> \o <<>>
      <4>1. <<>> \in Nests /\ 0 \in Int
        BY NothingShown
      <4>2. /\ over \in Nests /\ Len(over) = Len(<<>>) + 1
            /\ \A x \in Int : Shown(<<>>, x) \in Int /\ Shown(over, x) = Shown(<<>>, x) - 0
        BY <3>2, <4>1, ModelOver
      <4>3. over = nest
        BY <3>3
      <4> HIDE DEF over, nest
      <4> QED BY <4>2, <4>3
    <3> HIDE DEF nest
    <3>5. level[r] < NLevels(setting) => Fits(setting, r, level[r] + 1, nest)
      BY <1>1, <1>4, <2>1, <3>1, <3>4, StillFits
    <3>6. setting.skew[r] \in Int
      BY <1>1, SettingFacts
    <3>7. Shown(nest, setting.skew[r]) = Shown(clock[r], setting.skew[r])
      BY <3>1, <3>4, <3>6
    <3> QED BY <3>4, <3>5, <3>7 DEF Acc
  <2>2. CASE level[r] # 1
    <3>1. nest = clock[r]
      BY <2>2
    <3> HIDE DEF nest
    <3>2. ~Measures(setting, r, level[r])
      <4>1. Cardinality(Levels(setting, r)[level[r]]) <= 1
        BY <1>1
      <4>2. Cardinality(Levels(setting, r)[level[r]]) \in Int
        <5>1. Levels(setting, r)[level[r]] \subseteq Rank
          BY <1>1, LevelFacts
        <5>2. IsFiniteSet(Rank)
          BY nprocsAssumption, FS_Interval DEF Rank
        <5> QED BY <5>1, <5>2, FS_Subset, FS_CardinalityType
      <4> QED BY <4>1, <4>2 DEF Measures
    <3> QED BY <1>1, <1>4, <2>2, <3>1, <3>2, StillFits
  <2> QED BY <2>1, <2>2
<1>7. given' \in [Rank -> [1..NLevels(setting) -> Seq(Nests)]] /\ Grown
  BY <1>1 DEF IInv, Types, Grown
<1>8. \A s \in Rank : GivenInv(s)'
  BY <1>1, GivenUntouched DEF IInv
<1> HIDE DEF nest
<1> QED BY <1>1, <1>2, <1>5, <1>6, <1>7, <1>8, Advanced

LEMMA LeadInv ==
  ASSUME IInv, NEW r \in Rank, Lead(r), setting' = setting
  PROVE  IInv'
<1> DEFINE nest == Leading(r)
           l == level[r]
<1>1. /\ setting \in Settings /\ pc[r] = "level" /\ l \in 1..NLevels(setting)
      /\ Comm(r) = Levels(setting, r)[l] /\ clock[r] \in Nests
      /\ Cardinality(Comm(r)) > 1 /\ r = Leader(Comm(r)) /\ Advance(r, nest)
      /\ syncs' = syncs /\ splits' = splits
      /\ given' = [given EXCEPT ![r][l] = Append(@, clock[r])]
  <2>1. Comm(r) # {}
    <3>1. Cardinality(Comm(r)) # 0
      BY DEF Lead
    <3> QED BY <3>1, FS_EmptySet
  <2>2. pc[r] = "level"
    BY <2>1 DEF Comm
  <2> QED BY <2>2, Mine DEF Lead, IInv
<1>2. Leads(setting, r, l)
  <2>1. Comm(r) # {}
    <3>1. Cardinality(Comm(r)) # 0
      BY <1>1
    <3> QED BY <3>1, FS_EmptySet
  <2> QED BY <1>1, <2>1 DEF Leads, Giver
<1>3. (\A k \in Att(setting, r) : k < l) /\ Att(setting, r) \subseteq 1..NLevels(setting)
  BY <1>1, <1>2, LevelFacts
<1>4. Fits(setting, r, l, clock[r]) /\ Acc(setting, r, clock[r])
  BY <1>1, <1>3 DEF IInv, ClockInv
<1>5. Sound(setting) /\ setting.algs[l] \in Kind /\ setting.skew[r] \in Int
  BY <1>1, SettingFacts
<1>6. /\ nest \in Nests
      /\ l < NLevels(setting) => Fits(setting, r, l + 1, nest)
      /\ Acc(setting, r, nest)
  <2>1. CASE Alg(r) = "prop"
    <3>1. nest = clock[r] /\ l # 1 /\ ~Measures(setting, r, l)
      BY <1>1, <1>5, <2>1 DEF Leading, Alg, Sound, Measures
    <3> HIDE DEF nest
    <3> QED BY <1>1, <1>4, <3>1, StillFits
  <2>2. CASE Alg(r) # "prop"
    <3>1. nest = <<Model(setting.algs[l], 0)>> \o clock[r] /\ Measures(setting, r, l)
      BY <1>1, <2>2 DEF Leading, Alg, Measures
    <3> HIDE DEF nest
    <3>2. /\ nest \in Nests /\ Len(nest) = Len(clock[r]) + 1
          /\ nest[1].kind = setting.algs[l]
          /\ Shown(clock[r], setting.skew[r]) \in Int
          /\ Shown(nest, setting.skew[r]) = Shown(clock[r], setting.skew[r]) - 0
      <4> DEFINE over == <<Model(setting.algs[l], 0)>> \o clock[r]
      <4>1. /\ over \in Nests /\ Len(over) = Len(clock[r]) + 1
            /\ over[1].kind = setting.algs[l]
            /\ \A x \in Int : /\ Shown(clock[r], x) \in Int
                              /\ Shown(over, x) = Shown(clock[r], x) - 0
        <5>1. setting.algs[l] \in Kind /\ clock[r] \in Nests /\ 0 \in Int
          BY <1>1, <1>5
        <5> QED BY <5>1, ModelOver, Zenon
      <4> HIDE DEF over
      <4> QED BY <1>5, <3>1, <4>1 DEF over
    <3>3. l < NLevels(setting) => Fits(setting, r, l + 1, nest)
      BY <1>1, <1>4, <3>1, <3>2, StillFits
    <3>4. Shown(nest, setting.skew[r]) = Shown(clock[r], setting.skew[r])
      BY <3>2
    <3> QED BY <1>4, <3>2, <3>3, <3>4 DEF Acc
  <2> QED BY <2>1, <2>2
<1>7. given[r][l] \in Seq(Nests) /\ Append(given[r][l], clock[r]) \in Seq(Nests)
      /\ Len(Append(given[r][l], clock[r])) = Len(given[r][l]) + 1
      /\ Len(given[r][l]) \in Nat
      /\ given \in [Rank -> [1..NLevels(setting) -> Seq(Nests)]]
  <2>1. given \in [Rank -> [1..NLevels(setting) -> Seq(Nests)]]
    BY DEF IInv, Types
  <2>2. given[r][l] \in Seq(Nests)
    BY <1>1, <2>1
  <2> QED BY <1>1, <2>1, <2>2
<1>8. given' \in [Rank -> [1..NLevels(setting) -> Seq(Nests)]]
  BY <1>1, <1>7
<1>9. \A s \in Rank, k \in 1..NLevels(setting) :
        given'[s][k] = IF s = r /\ k = l THEN Append(given[r][l], clock[r]) ELSE given[s][k]
  BY <1>1, <1>7
<1>10. Grown
  <2> SUFFICES ASSUME NEW s \in Rank, NEW k \in 1..NLevels(setting)
               PROVE  Len(given[s][k]) <= Len(given'[s][k])
    BY DEF Grown
  <2>1. Len(given[s][k]) \in Nat
    <3>1. given[s][k] \in Seq(Nests)
      BY <1>7
    <3> QED BY <3>1
  <2>2. given'[s][k] \in {given[s][k], Append(given[r][l], clock[r])}
        /\ (given'[s][k] # given[s][k] => s = r /\ k = l)
    BY <1>9
  <2> QED BY <1>7, <2>1, <2>2
<1>11. ASSUME NEW s \in Rank PROVE GivenInv(s)'
  <2> SUFFICES ASSUME NEW k \in 1..NLevels(setting), NEW j \in DOMAIN given'[s][k]
               PROVE  /\ Fits(setting, s, k, given'[s][k][j])
                      /\ Leads(setting, s, k) => Acc(setting, s, given'[s][k][j])
    BY DEF GivenInv
  <2>1. GivenInv(s) /\ GivenInv(r)
    BY DEF IInv
  <2>2. CASE s = r /\ k = l
    <3>1. given'[s][k] = Append(given[r][l], clock[r])
      BY <1>9, <2>2
    <3>2. \/ j \in DOMAIN given[r][l] /\ given'[s][k][j] = given[r][l][j]
          \/ given'[s][k][j] = clock[r]
      BY <1>7, <3>1
    <3> QED BY <1>4, <2>1, <2>2, <3>2 DEF GivenInv
  <2>3. CASE ~(s = r /\ k = l)
    BY <1>9, <2>1, <2>3 DEF GivenInv
  <2> QED BY <2>2, <2>3
<1>12. l \notin Att(setting, r)
  BY <1>1, <1>3
<1> HIDE DEF nest
<1> QED BY <1>1, <1>6, <1>8, <1>10, <1>11, <1>12, Advanced

\* What the leader has given in this synchronisation.
LEMMA AdoptInv ==
  ASSUME IInv, NEW r \in Rank, Adopt(r), setting' = setting
  PROVE  IInv'
<1> DEFINE l == level[r]
           leader == Leader(Comm(r))
           theirs == given[leader][l][syncs[r]]
<1>1. /\ setting \in Settings /\ pc[r] = "level" /\ l \in 1..NLevels(setting)
      /\ Comm(r) = Levels(setting, r)[l] /\ clock[r] \in Nests /\ Comm(r) # {}
      /\ r # leader /\ syncs[r] \in Nat /\ syncs[r] > 0 /\ Cardinality(Comm(r)) > 1
      /\ Len(given[leader][l]) >= syncs[r] /\ Take(r, theirs)
      /\ syncs' = syncs /\ splits' = splits /\ given' = given
  <2>1. Comm(r) # {}
    <3>1. Cardinality(Comm(r)) # 0
      BY DEF Adopt
    <3> QED BY <3>1, FS_EmptySet
  <2>2. pc[r] = "level"
    BY <2>1 DEF Comm
  <2>3. /\ setting \in Settings /\ l \in 1..NLevels(setting) /\ clock[r] \in Nests
        /\ Comm(r) = Levels(setting, r)[l] /\ syncs[r] \in Nat
    BY <2>2, Mine DEF IInv
  <2>4. syncs[r] > 0
    BY <2>2 DEF IInv, ClockInv
  <2> QED BY <2>1, <2>2, <2>3, <2>4 DEF Adopt
<1>2. leader = Giver(setting, r, l) /\ l \in Att(setting, r)
  BY <1>1, LevelFacts DEF Giver
<1>3. /\ leader \in Rank /\ leader \in Levels(setting, r)[l] /\ Leads(setting, leader, l)
      /\ Att(setting, r) \subseteq 1..NLevels(setting)
  BY <1>1, <1>2, LevelFacts
<1>4. r # 0 /\ l = AttLevel(setting, r) /\ leader = Parent(setting, r)
  <2>1. r # 0
    BY <1>1, <1>2, LevelFacts
  <2>2. Att(setting, r) = {AttLevel(setting, r)}
    BY <1>1, <2>1, OneAbove
  <2> QED BY <1>2, <2>1, <2>2 DEF Parent
<1>5. /\ HopsTo(setting, r) = HopsTo(setting, leader) + Cost(setting, l)
      /\ HopsTo(setting, leader) \in Nat
  BY <1>1, <1>3, <1>4, HopsStep
<1>6. theirs \in Nests /\ Fits(setting, leader, l, theirs) /\ Acc(setting, leader, theirs)
  <2>1. given[leader][l] \in Seq(Nests)
    BY <1>1, <1>3, Mine DEF IInv
  <2>2. syncs[r] \in DOMAIN given[leader][l]
    BY <1>1, <2>1
  <2>3. GivenInv(leader)
    BY <1>3 DEF IInv
  <2>4. l \in 1..NLevels(setting)
    BY <1>1
  <2> HIDE DEF l, leader
  <2>5. theirs \in Nests
    BY <2>1, <2>2
  <2>6. /\ Fits(setting, leader, l, theirs)
        /\ Leads(setting, leader, l) => Acc(setting, leader, theirs)
    BY <2>2, <2>3, <2>4 DEF GivenInv
  <2> QED BY <1>3, <2>5, <2>6
<1>7. Fits(setting, r, l, clock[r])
  BY <1>1 DEF IInv, ClockInv
<1>8. /\ Sound(setting) /\ setting.algs[l] \in Kind /\ setting.skew[r] \in Int
      /\ setting.skew[leader] \in Int /\ setting.skew[0] \in Int /\ MaxError \in Nat
  BY <1>1, <1>3, SettingFacts, BoundsAssumption
<1>9. \E nest \in Nests :
        /\ Advance(r, nest) /\ Acc(setting, r, nest)
        /\ l < NLevels(setting) => Fits(setting, r, l + 1, nest)
  <2>1. CASE Alg(r) = "prop"
    <3>1. Advance(r, theirs)
      BY <1>1, <2>1 DEF Take
    <3>2. setting.algs[l] = "prop"
      BY <2>1 DEF Alg
    <3>3. l # 1 /\ setting.skew[leader] = setting.skew[r] /\ ~Measures(setting, r, l)
      BY <1>1, <1>3, <1>8, <3>2 DEF Sound, Measures
    <3>4. Cost(setting, l) = 0
      BY <3>2 DEF Cost
    <3> HIDE DEF theirs, leader, l
    <3>5. Acc(setting, r, theirs)
      BY <1>5, <1>6, <3>3, <3>4 DEF Acc
    <3>6. l < NLevels(setting) => Fits(setting, r, l + 1, theirs)
      BY <1>1, <1>6, <3>3, StillFits
    <3> QED BY <1>6, <3>1, <3>5, <3>6
  <2>2. CASE Alg(r) # "prop"
    <3>1. /\ setting.algs[l] # "prop" /\ Alg(r) = setting.algs[l]
          /\ Measures(setting, r, l)
      BY <1>1, <2>2 DEF Alg, Measures
    <3>2. PICK e \in -MaxError..MaxError :
            Advance(r, <<Model(Alg(r), Reading(r, clock[r]) - Reading(leader, theirs) + e)>>
                         \o clock[r])
      BY <1>1, <2>2 DEF Take
    <3> DEFINE mine == Reading(r, clock[r])
               its == Reading(leader, theirs)
               nest == <<Model(Alg(r), mine - its + e)>> \o clock[r]
    <3> HIDE DEF theirs, leader, l
    <3>3. mine \in Int /\ its \in Int /\ e \in Int /\ -MaxError <= e /\ e <= MaxError
      <4>1. mine = Shown(clock[r], setting.skew[r]) /\ its = Shown(theirs, setting.skew[leader])
        BY DEF Reading
      <4>2. WellShown(clock[r]) /\ WellShown(theirs)
        BY <1>1, <1>6 DEF Nests
      <4>3. Shown(clock[r], setting.skew[r]) \in Int /\ Shown(theirs, setting.skew[leader]) \in Int
        BY <1>8, <4>2, ShownThrough
      <4> QED BY <1>8, <4>1, <4>3
    <3>4. /\ nest \in Nests /\ Len(nest) = Len(clock[r]) + 1 /\ nest[1].kind = setting.algs[l]
          /\ Shown(nest, setting.skew[r]) = Shown(clock[r], setting.skew[r]) - (mine - its + e)
      <4>1. Alg(r) \in Kind /\ mine - its + e \in Int
        BY <1>8, <3>1, <3>3
      <4> DEFINE d == mine - its + e
      <4> HIDE DEF mine, its, d
      <4>2. /\ <<Model(Alg(r), d)>> \o clock[r] \in Nests
            /\ Len(<<Model(Alg(r), d)>> \o clock[r]) = Len(clock[r]) + 1
            /\ (<<Model(Alg(r), d)>> \o clock[r])[1].kind = Alg(r)
            /\ \A x \in Int : /\ Shown(clock[r], x) \in Int
                              /\ Shown(<<Model(Alg(r), d)>> \o clock[r], x) = Shown(clock[r], x) - d
        <5>1. Alg(r) \in Kind /\ d \in Int /\ clock[r] \in Nests
          BY <1>1, <4>1 DEF d
        <5> QED BY <5>1, ModelOver, Zenon
      <4>3. nest = <<Model(Alg(r), d)>> \o clock[r]
        BY DEF d
      <4> HIDE DEF nest
      <4> QED BY <1>8, <3>1, <4>2, <4>3 DEF d
    <3> HIDE DEF nest
    <3>5. Shown(nest, setting.skew[r]) = its - e
      BY <3>3, <3>4 DEF Reading
    <3>6. Acc(setting, r, nest)
      <4>1. its - setting.skew[0] \in -(HopsTo(setting, leader) * MaxError)
                                       ..(HopsTo(setting, leader) * MaxError)
        BY <1>6 DEF Acc, Reading
      <4>2. HopsTo(setting, r) * MaxError = HopsTo(setting, leader) * MaxError + MaxError
        <5>1. HopsTo(setting, r) = HopsTo(setting, leader) + 1
          BY <1>5, <3>1 DEF Cost
        <5> QED BY <1>5, <1>8, <5>1
      <4>3. HopsTo(setting, leader) * MaxError \in Int
        BY <1>5, <1>8
      <4> QED BY <1>8, <3>3, <3>5, <4>1, <4>2, <4>3 DEF Acc
    <3>7. l < NLevels(setting) => Fits(setting, r, l + 1, nest)
      BY <1>1, <1>7, <3>1, <3>4, StillFits
    <3>8. Advance(r, nest)
      BY <3>2 DEF nest
    <3> QED BY <3>4, <3>6, <3>7, <3>8
  <2> QED BY <2>1, <2>2
<1>10. given' \in [Rank -> [1..NLevels(setting) -> Seq(Nests)]] /\ Grown
  BY <1>1 DEF IInv, Types, Grown
<1>11. \A s \in Rank : GivenInv(s)'
  BY <1>1, GivenUntouched DEF IInv
<1> HIDE DEF theirs, leader
<1> QED BY <1>1, <1>2, <1>9, <1>10, <1>11, Advanced

LEMMA InitInv == Init => IInv
<1> SUFFICES ASSUME Init PROVE IInv
  OBVIOUS
<1>1. setting \in Settings /\ Last = NLevels(setting) /\ NLevels(setting) \in {2, 3}
  BY SettingFacts DEF Init, Last
<1>2. Types
  BY <1>1, NothingShown DEF Init, Types
<1>3. ASSUME NEW r \in Rank PROVE ClockInv(r) /\ GivenInv(r) /\ SettledInv(r)
  <2>1. \A l \in 1..NLevels(setting) : \A s \in Rank : given[s][l] = <<>>
    BY <1>1 DEF Init
  <2>2. ClockInv(r)
    BY DEF Init, ClockInv
  <2>3. GivenInv(r)
    BY <2>1 DEF GivenInv
  <2>4. SettledInv(r)
    <3>1. \A l \in Att(setting, r) : l \in 1..NLevels(setting) /\ Giver(setting, r, l) \in Rank
      BY <1>1, LevelFacts
    <3>2. \A l \in Att(setting, r) : Taken(r, l) = 0
      BY DEF Init, Taken
    <3> QED BY <2>1, <3>1, <3>2 DEF SettledInv
  <2> QED BY <2>2, <2>3, <2>4
<1> QED BY <1>2, <1>3 DEF IInv

LEMMA NextInv == IInv /\ [Next]_vars => IInv'
<1> SUFFICES ASSUME IInv, [Next]_vars PROVE IInv'
  OBVIOUS
<1>1. CASE UNCHANGED vars
  <2>1. Types' /\ Grown
    BY <1>1 DEF vars, IInv, Types, Grown
  <2>2. ASSUME NEW r \in Rank PROVE ClockInv(r)' /\ GivenInv(r)' /\ SettledInv(r)'
    <3>1. SettledInv(r)'
      BY <1>1 DEF vars, IInv, SettledInv, Taken
    <3> QED BY <1>1, <3>1, Untouched, GivenUntouched DEF vars, IInv, Same
  <2> QED BY <2>1, <2>2 DEF IInv
<1>2. ASSUME NEW r \in Rank, Step(r) PROVE IInv'
  BY <1>2, StartInv, SplitInv, PassInv, LeadInv, AdoptInv DEF Step
<1> QED BY <1>1, <1>2 DEF Next, Stop

LEMMA Invariance == Spec => []IInv
<1>1. Init => IInv
  BY InitInv
<1>2. IInv /\ [Next]_vars => IInv'
  BY NextInv
<1> QED BY <1>1, <1>2, PTL DEF Spec

-----------------------------------------------------------------------------
(* The theorems                                                            *)

\* SettledFromAbove for any number of ranks and synchronisations, wherever they run.
THEOREM SettledFirst == Spec => []SettledFromAbove
<1>1. IInv => SettledFromAbove
  <2> SUFFICES ASSUME IInv, NEW r \in Rank, pc[r] = "idle", NEW l \in Attachments(r)
               PROVE  Len(given[Leader(MyLevels(r)[l])][l]) >= syncs[r]
    BY DEF SettledFromAbove
  <2>1. /\ MyLevels(r) = Levels(setting, r) /\ l \in Att(setting, r) /\ syncs[r] \in Nat
        /\ setting \in Settings
    BY Mine DEF IInv, Attachments, Att
  <2>2. Taken(r, l) <= Len(given[Giver(setting, r, l)][l]) /\ Taken(r, l) = syncs[r]
    BY <2>1 DEF IInv, SettledInv, Taken
  <2>3. Giver(setting, r, l) \in Rank /\ l \in 1..NLevels(setting)
    BY <2>1, LevelFacts
  <2>4. Len(given[Giver(setting, r, l)][l]) \in Nat
    <3>1. given[Giver(setting, r, l)][l] \in Seq(Nests)
      BY <2>3, Mine DEF IInv
    <3> QED BY <3>1
  <2>5. Len(given[Giver(setting, r, l)][l]) >= syncs[r]
    BY <2>1, <2>2, <2>4
  <2> QED BY <2>1, <2>5 DEF Giver
<1> QED BY <1>1, Invariance, PTL

\* NestFits for every sound choice of algorithms, any number of ranks wherever they
\* run, and any number of synchronisations.
THEOREM PropagatedClocksFit == Spec => []NestFits
<1>1. IInv => NestFits
  <2> SUFFICES ASSUME IInv, NEW r \in Rank, NEW l \in 1..Last, setting.algs[l] = "prop",
                      NEW k \in DOMAIN given[r][l]
               PROVE  LET nest == given[r][l][k]
                          measured == {j \in 2..(l - 1) : MeasuresAt(r, j)}
                      IN  /\ Len(nest) = 1 + Cardinality(measured)
                          /\ Len(nest) = 1 \/ (Len(nest) = 2 /\ nest[1].kind = "LM")
    BY DEF NestFits
  <2> DEFINE nest == given[r][l][k]
             measured == {j \in 2..(l - 1) : MeasuresAt(r, j)}
  <2>1. setting \in Settings /\ Last = NLevels(setting) /\ NLevels(setting) \in {2, 3}
        /\ MyLevels(r) = Levels(setting, r)
    BY Mine, SettingFacts DEF IInv
  <2>2. l > 1 /\ \A j \in 2..(l - 1) : setting.algs[j] # "Offset"
    BY <2>1, SettingFacts DEF Sound
  <2>3. Fits(setting, r, l, nest)
    BY <2>1 DEF IInv, GivenInv
  <2>4. MeasuresAt(r, 2) <=> Measures(setting, r, 2)
    BY <2>1 DEF MeasuresAt, Measures
  <2>5. Cardinality({}) = 0 /\ Cardinality({2}) = 1
    BY FS_EmptySet, FS_Singleton
  <2>6. \/ Len(nest) = 1 /\ Cardinality(measured) = 0
        \/ Len(nest) = 2 /\ nest[1].kind = "LM" /\ Cardinality(measured) = 1
    <3> HIDE DEF nest
    <3>1. CASE l = 2
      <4>1. Len(nest) = 1
        BY <2>3, <3>1 DEF Fits
      <4>2. measured = {}
        BY <3>1
      <4> HIDE DEF measured
      <4> QED BY <2>5, <4>1, <4>2
    <3>2. CASE l = 3 /\ Measures(setting, r, 2)
      <4>1. setting.algs[2] = "LM"
        <5>1. setting.algs[2] \in Kind
          BY <2>1, SettingFacts
        <5> QED BY <2>2, <3>2, <5>1 DEF Kind, Measures
      <4>2. Len(nest) = 2 /\ nest[1].kind = "LM"
        BY <2>3, <3>2, <4>1 DEF Fits
      <4>3. measured = {2}
        BY <2>4, <3>2
      <4> HIDE DEF measured
      <4> QED BY <2>5, <4>2, <4>3
    <3>3. CASE l = 3 /\ ~Measures(setting, r, 2)
      <4>1. Len(nest) = 1
        BY <2>3, <3>3 DEF Fits
      <4>2. measured = {}
        BY <2>4, <3>3
      <4> HIDE DEF measured
      <4> QED BY <2>5, <4>1, <4>2
    <3> QED BY <2>1, <2>2, <3>1, <3>2, <3>3
  <2> HIDE DEF nest, measured
  <2>7. Len(nest) = 1 + Cardinality(measured)
        /\ (Len(nest) = 1 \/ (Len(nest) = 2 /\ nest[1].kind = "LM"))
    <3> DEFINE len == Len(nest)
               count == Cardinality(measured)
    <3>1. \/ len = 1 /\ count = 0
          \/ len = 2 /\ nest[1].kind = "LM" /\ count = 1
      BY <2>6
    <3> HIDE DEF len, count
    <3>2. len = 1 + count
      BY <3>1
    <3> QED BY <3>1, <3>2 DEF len, count
  <2> QED BY <2>7 DEF nest, measured
<1> QED BY <1>1, Invariance, PTL

\* The recursion of Hops has a solution, and it is HopsTo.
LEMMA HopsAre ==
  ASSUME Types, NEW r \in Rank
  PROVE  Hops(r) = HopsTo(setting, r)
<1> DEFINE next(h, s) ==
             IF Attachments(s) = {} THEN 0
             ELSE LET l == Min(Attachments(s))
                  IN  h[Leader(MyLevels(s)[l])] + (IF setting.algs[l] = "prop" THEN 0 ELSE 1)
           solves(h) == h = [s \in Rank |-> next(h, s)]
           hops == CHOOSE h : solves(h)
<1>1. setting \in Settings /\ 0 \in Rank /\ NLevels(setting) \in {2, 3}
  BY SettingFacts DEF Types
<1>2. ASSUME NEW h, NEW s \in Rank
      PROVE  /\ s = 0 => next(h, s) = 0
             /\ s # 0 => next(h, s) = h[Parent(setting, s)]
                                      + Cost(setting, AttLevel(setting, s))
  <2>1. Attachments(s) = Att(setting, s) /\ MyLevels(s) = Levels(setting, s)
    BY Mine DEF Attachments, Att
  <2>2. CASE s = 0
    BY <1>1, <2>1, <2>2, LevelFacts
  <2>3. CASE s # 0
    <3>1. Att(setting, s) = {AttLevel(setting, s)} /\ AttLevel(setting, s) \in 1..NLevels(setting)
      BY <1>1, <2>3, OneAbove
    <3>2. Min({AttLevel(setting, s)}) = AttLevel(setting, s)
      BY <3>1 DEF Min
    <3> QED BY <2>1, <2>3, <3>1, <3>2 DEF Parent, Giver, Cost
  <2> QED BY <2>2, <2>3
<1> HIDE DEF next
<1>3. \E h : solves(h)
  <2> DEFINE h == [s \in Rank |-> HopsTo(setting, s)]
  <2>1. ASSUME NEW s \in Rank PROVE HopsTo(setting, s) = next(h, s)
    <3>1. CASE s = 0
      BY <1>1, <1>2, <3>1, HopsStep
    <3>2. CASE s # 0
      <4>1. Parent(setting, s) \in Rank
        BY <1>1, <3>2, OneAbove
      <4>2. h[Parent(setting, s)] = HopsTo(setting, Parent(setting, s))
        BY <4>1
      <4> QED BY <1>1, <1>2, <3>2, <4>2, HopsStep
    <3> QED BY <3>1, <3>2
  <2>2. solves(h)
    BY <2>1
  <2> HIDE DEF h, solves
  <2> QED BY <2>2
<1>4. solves(hops)
  BY <1>3
<1>5. Hops(r) = hops[r]
  BY DEF Hops, next
<1> HIDE DEF hops
<1>6. ASSUME NEW s \in Rank
      PROVE  /\ s = 0 => hops[s] = HopsTo(setting, s)
             /\ s # 0 /\ hops[Parent(setting, s)] = HopsTo(setting, Parent(setting, s))
                  => hops[s] = HopsTo(setting, s)
  BY <1>1, <1>2, <1>4, HopsStep
<1>7. ASSUME NEW s \in Rank, s # 0
      PROVE  /\ Parent(setting, s) \in Rank
             /\ AttLevel(setting, s) \in 1..NLevels(setting)
             /\ Parent(setting, s) # 0 =>
                  AttLevel(setting, Parent(setting, s)) < AttLevel(setting, s)
  BY <1>1, <1>7, OneAbove
<1> DEFINE agree(s) == hops[s] = HopsTo(setting, s)
<1>8. ASSUME NEW s \in Rank, s # 0, Parent(setting, s) # 0 => agree(Parent(setting, s))
      PROVE  agree(s)
  <2>1. Parent(setting, s) \in Rank
    BY <1>7, <1>8
  <2>2. agree(Parent(setting, s))
    BY <1>6, <1>8, <2>1
  <2> QED BY <1>6, <1>8, <2>2
<1> HIDE DEF agree
<1>9. ASSUME NEW s \in Rank, s # 0, AttLevel(setting, s) <= 1 PROVE agree(s)
  <2>1. Parent(setting, s) = 0
    <3>1. ASSUME Parent(setting, s) # 0 PROVE FALSE
      <4>1. Parent(setting, s) \in Rank /\ AttLevel(setting, Parent(setting, s)) < AttLevel(setting, s)
        BY <1>7, <1>9, <3>1
      <4>2. AttLevel(setting, Parent(setting, s)) \in 1..NLevels(setting)
            /\ AttLevel(setting, s) \in 1..NLevels(setting)
        BY <1>7, <1>9, <3>1, <4>1
      <4> QED BY <1>1, <1>9, <4>1, <4>2
    <3> QED BY <3>1
  <2> QED BY <1>8, <1>9, <2>1
<1>10. ASSUME NEW s \in Rank, s # 0, AttLevel(setting, s) <= 2 PROVE agree(s)
  <2>1. ASSUME Parent(setting, s) # 0 PROVE agree(Parent(setting, s))
    <3>1. Parent(setting, s) \in Rank /\ AttLevel(setting, Parent(setting, s)) < AttLevel(setting, s)
      BY <1>7, <1>10, <2>1
    <3>2. AttLevel(setting, Parent(setting, s)) \in 1..NLevels(setting)
          /\ AttLevel(setting, s) \in 1..NLevels(setting)
      BY <1>7, <1>10, <2>1, <3>1
    <3>3. AttLevel(setting, Parent(setting, s)) <= 1
      BY <1>1, <1>10, <3>1, <3>2
    <3> QED BY <1>9, <2>1, <3>1, <3>3
  <2> QED BY <1>8, <1>10, <2>1
<1>11. ASSUME NEW s \in Rank, s # 0 PROVE agree(s)
  <2>1. ASSUME Parent(setting, s) # 0 PROVE agree(Parent(setting, s))
    <3>1. Parent(setting, s) \in Rank /\ AttLevel(setting, Parent(setting, s)) < AttLevel(setting, s)
      BY <1>7, <1>11, <2>1
    <3>2. AttLevel(setting, Parent(setting, s)) \in 1..NLevels(setting)
          /\ AttLevel(setting, s) \in 1..NLevels(setting)
      BY <1>7, <1>11, <2>1, <3>1
    <3>3. AttLevel(setting, Parent(setting, s)) <= 2
      BY <1>1, <3>1, <3>2
    <3> QED BY <1>10, <2>1, <3>1, <3>3
  <2> QED BY <1>8, <1>11, <2>1
<1> QED BY <1>5, <1>6, <1>11 DEF agree

\* GlobalAccurate for any number of ranks and nodes, any bindings and every sound choice
\* of algorithms: a level that measures adds at most MaxError to the error of the level
\* above, one that propagates adds nothing, so that every clock returned is off by no
\* more than MaxError for each measuring level between its rank and rank 0.
THEOREM AccurateOverLevels == Spec => []GlobalAccurate
<1>1. IInv => GlobalAccurate
  <2> SUFFICES ASSUME IInv, NEW r \in Rank, pc[r] = "idle", syncs[r] > 0
               PROVE  Reading(r, global[r]) - setting.skew[0]
                        \in -(Hops(r) * MaxError)..(Hops(r) * MaxError)
    BY DEF GlobalAccurate
  <2>1. Acc(setting, r, global[r])
    BY DEF IInv, ClockInv
  <2>2. Hops(r) = HopsTo(setting, r)
    BY HopsAre DEF IInv
  <2> QED BY <2>1, <2>2 DEF Acc, Reading
<1> QED BY <1>1, Invariance, PTL
=============================================================================
