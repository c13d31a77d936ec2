--------------------------- MODULE TaskLoopProofs ---------------------------
(***************************************************************************)
(* What TaskLoop keeps for every set of tasks, every answer of the         *)
(* planning model and every limit, with its proof; and before it what the  *)
(* planning rules (PlanRules) make of any answer: what Pick keeps of a     *)
(* sequence, where WithTests puts each step, and that the tests follow     *)
(* every code step of a plan that is not cut.                              *)
(***************************************************************************)
EXTENDS TaskLoop, TLAPS, FiniteSetTheorems, WellFoundedInduction

-----------------------------------------------------------------------------
(* The rank of a position in a set of positions *)

\* Positions of a sequence of length m.
Within(at, m) == m \in Nat /\ at \in SUBSET (1..m)

UpTo(at, i) == {j \in at : j <= i}
Rank(at, i) == Cardinality(UpTo(at, i))

\* Membership, one by one: the provers compare numbers, not sets of them.
LEMMA UpToIs ==
  ASSUME NEW m, NEW at, Within(at, m), NEW i \in Nat, NEW j
  PROVE  (j \in UpTo(at, i) <=> j \in at /\ j <= i) /\ (j \in at => j \in Nat /\ 1 <= j /\ j <= m)
<1>1. j \in UpTo(at, i) <=> j \in at /\ j <= i
  BY DEF UpTo
<1>2. j \in at => j \in Nat /\ 1 <= j /\ j <= m
  BY DEF Within
<1> QED BY <1>1, <1>2

\* One more position counts if it is in the set.
LEMMA RankStep ==
  ASSUME NEW m, NEW at, Within(at, m), NEW i \in Nat
  PROVE  /\ IsFiniteSet(at) /\ Cardinality(at) \in Nat /\ IsFiniteSet(UpTo(at, i)) /\ Rank(at, i) \in Nat
         /\ Rank(at, i + 1) = Rank(at, i) + IF i + 1 \in at THEN 1 ELSE 0
<1>0. 1 \in Int /\ m \in Int /\ at \in SUBSET (1..m)
  BY DEF Within
<1>1. IsFiniteSet(at) /\ Cardinality(at) \in Nat
  <2>1. IsFiniteSet(1..m)
    BY <1>0, FS_Interval
  <2> QED BY <1>0, <2>1, FS_Subset, FS_CardinalityType
<1>2. IsFiniteSet(UpTo(at, i)) /\ Rank(at, i) \in Nat
  <2>1. UpTo(at, i) \in SUBSET at
    BY DEF UpTo
  <2> QED BY <1>1, <2>1, FS_Subset, FS_CardinalityType DEF Rank
<1>3. CASE i + 1 \in at
  <2>1. UpTo(at, i + 1) = UpTo(at, i) \cup {i + 1} /\ i + 1 \notin UpTo(at, i)
    <3>1. \A j : j \in UpTo(at, i + 1) <=> j \in UpTo(at, i) \cup {i + 1}
      BY <1>3, UpToIs
    <3>2. i + 1 \notin UpTo(at, i)
      BY UpToIs
    <3> QED BY <3>1, <3>2
  <2> QED BY <1>1, <1>2, <1>3, <2>1, FS_AddElement DEF Rank
<1>4. CASE i + 1 \notin at
  <2>1. UpTo(at, i + 1) = UpTo(at, i)
    <3>1. \A j : j \in UpTo(at, i + 1) <=> j \in UpTo(at, i)
      BY <1>4, UpToIs
    <3> QED BY <3>1
  <2> QED BY <1>1, <1>2, <1>4, <2>1 DEF Rank
<1> QED BY <1>1, <1>2, <1>3, <1>4

LEMMA RankEnds ==
  ASSUME NEW m, NEW at, Within(at, m)
  PROVE  Rank(at, 0) = 0 /\ Rank(at, m) = Cardinality(at)
<1>3. 0 \in Nat /\ m \in Nat /\ \A j \in at : j \in Nat /\ j <= m
  BY DEF Within
<1>2. \A j : j \notin UpTo(at, 0) /\ (j \in UpTo(at, m) <=> j \in at)
  <2>1. ASSUME NEW j \in UpTo(at, 0) PROVE FALSE
    BY <1>3, UpToIs
  <2>2. ASSUME NEW j PROVE j \in UpTo(at, m) <=> j \in at
    BY <1>3, UpToIs
  <2> QED BY <2>1, <2>2
<1>1. UpTo(at, 0) = {} /\ UpTo(at, m) = at
  BY <1>2
<1> QED BY <1>1, FS_EmptySet DEF Rank

\* The rank grows with the position, at every member of the set.
LEMMA RankGrows ==
  ASSUME NEW m, NEW at, Within(at, m), NEW i \in Nat, NEW j \in Nat, i <= j
  PROVE  Rank(at, i) <= Rank(at, j) /\ (i < j /\ j \in at => Rank(at, i) < Rank(at, j))
<1>0. \A k \in UpTo(at, i) : k \in UpTo(at, j)
  BY UpToIs
<1>1. IsFiniteSet(UpTo(at, j)) /\ UpTo(at, i) \in SUBSET UpTo(at, j) /\ Rank(at, i) \in Nat /\ Rank(at, j) \in Nat
  BY <1>0, RankStep
<1>2. Rank(at, i) <= Rank(at, j) /\ (Rank(at, j) = Rank(at, i) => UpTo(at, j) = UpTo(at, i))
  BY <1>1, FS_Subset DEF Rank
<1>3. i < j /\ j \in at => j \in UpTo(at, j) /\ j \notin UpTo(at, i)
  BY DEF UpTo
<1> QED BY <1>1, <1>2, <1>3

\* The least of a set of numbers.
LEMMA LeastOne ==
  ASSUME NEW S \in SUBSET Nat, S # {}
  PROVE  \E n \in S : \A m \in S : n <= m
<1>1. PICK n \in S : \A m \in S : ~(<<m, n>> \in OpToRel(<, Nat))
  BY NatLessThanWellFounded, WFMin
<1> DEFINE Less == {p \in Nat \X Nat : p[1] < p[2]}
<1>2. OpToRel(<, Nat) = Less
  BY Zenon DEF OpToRel
<1>3. ASSUME NEW m \in S PROVE n <= m
  <2>1. <<m, n>> \notin Less
    BY <1>1, <1>2
  <2>2. <<m, n>> \in Nat \X Nat /\ <<m, n>>[1] = m /\ <<m, n>>[2] = n
    OBVIOUS
  <2> QED BY <2>1, <2>2
<1> QED BY <1>3

\* Every number up to the size of the set is the rank of one member.
LEMMA RankTaken ==
  ASSUME NEW m, NEW at, Within(at, m), NEW n \in 1..Cardinality(at)
  PROVE  \E i \in at : Rank(at, i) = n
<1>1. Cardinality(at) \in Nat /\ (\A i \in Nat : Rank(at, i) \in Nat) /\ m \in Nat /\ 0 \in Nat /\ n \in Nat /\ n >= 1
  <2>1. m \in Nat /\ 0 \in Nat
    BY DEF Within
  <2>2. Cardinality(at) \in Nat /\ (\A i \in Nat : Rank(at, i) \in Nat)
    BY <2>1, RankStep
  <2> QED BY <2>1, <2>2
<1> DEFINE S == {i \in Nat : Rank(at, i) >= n}
<1>2. m \in S
  BY <1>1, RankEnds
<1>3. PICK i \in S : \A j \in S : i <= j
  BY <1>2, LeastOne
<1>4. i # 0 /\ i \in Nat
  <2>1. i \in Nat /\ Rank(at, i) >= n /\ Rank(at, 0) = 0
    BY <1>1, RankEnds
  <2> QED BY <1>1, <2>1
<1>5. i - 1 \in Nat /\ ~(Rank(at, i - 1) >= n)
  BY <1>3, <1>4
<1>6. Rank(at, i) = Rank(at, i - 1) + IF i \in at THEN 1 ELSE 0
  <2>1. (i - 1) + 1 = i
    BY <1>4
  <2> QED BY <1>5, <2>1, RankStep
<1>7. Rank(at, i) >= n /\ n \in Nat /\ Rank(at, i - 1) \in Nat
  BY <1>1, <1>5
<1>8. i \in at /\ Rank(at, i) = n
  BY <1>5, <1>6, <1>7
<1> QED BY <1>8

LEMMA RankRange ==
  ASSUME NEW m, NEW at, Within(at, m), NEW i \in at
  PROVE  Rank(at, i) \in 1..Cardinality(at)
<1>1. 0 \in Nat /\ i \in Nat /\ 0 < i /\ i <= m /\ m \in Nat /\ 0 <= i
  BY DEF Within
<1>2. Rank(at, 0) < Rank(at, i) /\ Rank(at, i) <= Rank(at, m)
  BY <1>1, RankGrows
<1>3. Rank(at, i) \in Nat /\ Cardinality(at) \in Nat
  BY <1>1, RankStep
<1> QED BY <1>2, <1>3, RankEnds

\* Nth is the member of that rank, and no other.
LEMMA NthRank ==
  ASSUME NEW m, NEW at, Within(at, m)
  PROVE  /\ \A n \in 1..Cardinality(at) : Nth(at, n) \in at /\ Rank(at, Nth(at, n)) = n
         /\ \A i \in at : Nth(at, Rank(at, i)) = i
<1>1. ASSUME NEW n \in 1..Cardinality(at) PROVE Nth(at, n) \in at /\ Rank(at, Nth(at, n)) = n
  <2>1. \E i \in at : Rank(at, i) = n
    BY RankTaken
  <2>2. Nth(at, n) = CHOOSE i \in at : Rank(at, i) = n
    BY DEF Nth, Rank, UpTo
  <2> HIDE DEF Rank
  <2> QED BY ONLY <2>1, <2>2
<1>2. ASSUME NEW i \in at PROVE Nth(at, Rank(at, i)) = i
  <2>1. Nth(at, Rank(at, i)) \in at /\ Rank(at, Nth(at, Rank(at, i))) = Rank(at, i)
    BY <1>1, RankRange
  <2> PICK j : j = Nth(at, Rank(at, i))
    OBVIOUS
  <2>4. j \in at /\ Rank(at, j) = Rank(at, i) /\ i \in Nat /\ j \in Nat
    <3>1. j \in at /\ Rank(at, j) = Rank(at, i)
      BY <2>1
    <3>2. at \in SUBSET Nat
      BY DEF Within
    <3> QED BY <3>1, <3>2
  <2>2. i \in Nat /\ j \in Nat /\ j \in at /\ Rank(at, j) = Rank(at, i) /\ Rank(at, i) \in Nat
    BY <2>4, RankStep
  <2>3. ~(i < j) /\ ~(j < i)
    BY <2>2, RankGrows
  <2> QED BY <2>2, <2>3
<1> QED BY <1>1, <1>2

\* What is picked, and where it is put.
LEMMA PickIs ==
  ASSUME NEW S, NEW s \in Seq(S), NEW at \in SUBSET DOMAIN s
  PROVE  /\ Pick(s, at) \in Seq(S) /\ Len(Pick(s, at)) = Cardinality(at) /\ Cardinality(at) <= Len(s)
         /\ \A n \in 1..Cardinality(at) : Nth(at, n) \in at /\ Pick(s, at)[n] = s[Nth(at, n)]
         /\ \A i \in at : Rank(at, i) \in 1..Cardinality(at) /\ Pick(s, at)[Rank(at, i)] = s[i]
<1>6. Within(at, Len(s)) /\ Len(s) \in Nat /\ 0 \in Nat /\ at \in SUBSET (1..Len(s))
  BY DEF Within
<1>1. Cardinality(at) \in Nat
  BY <1>6, RankStep
<1>2. Cardinality(at) <= Len(s)
  <2>1. IsFiniteSet(1..Len(s)) /\ Cardinality(1..Len(s)) = Len(s)
    <3>1. 1 \in Int /\ Len(s) \in Int
      BY <1>6
    <3>2. IsFiniteSet(1..Len(s)) /\ Cardinality(1..Len(s)) = IF 1 > Len(s) THEN 0 ELSE Len(s) - 1 + 1
      BY ONLY <3>1, FS_Interval
    <3> QED BY <1>6, <3>2
  <2> QED BY <1>6, <2>1, FS_Subset
<1>3. \A n \in 1..Cardinality(at) : Nth(at, n) \in at /\ s[Nth(at, n)] \in S
  BY <1>6, NthRank
<1>4. /\ Pick(s, at) \in Seq(S) /\ Len(Pick(s, at)) = Cardinality(at)
      /\ \A n \in 1..Cardinality(at) : Pick(s, at)[n] = s[Nth(at, n)]
  BY <1>1, <1>3 DEF Pick
<1>5. \A i \in at : Rank(at, i) \in 1..Cardinality(at) /\ Nth(at, Rank(at, i)) = i
  BY <1>6, NthRank, RankRange
<1> QED BY <1>2, <1>3, <1>4, <1>5

\* The picked beginning of a sequence is that beginning.
LEMMA PickPrefix ==
  ASSUME NEW S, NEW s \in Seq(S), NEW n \in 0..Len(s)
  PROVE  Pick(s, 1..n) \in Seq(S) /\ Len(Pick(s, 1..n)) = n /\ \A i \in 1..n : Pick(s, 1..n)[i] = s[i]
<1>1. Cardinality(1..n) = n /\ 1..n \in SUBSET DOMAIN s
  BY FS_Interval
<1>2. ASSUME NEW i \in 1..n PROVE Rank(1..n, i) = i
  <2>1. UpTo(1..n, i) = 1..i
    BY DEF UpTo
  <2> QED BY <2>1, FS_Interval DEF Rank
<1> QED BY <1>1, <1>2, PickIs

-----------------------------------------------------------------------------
(* The tests woven into a plan *)

LEMMA CodesWithin ==
  ASSUME NEW S, NEW kinds \in Seq(S)
  PROVE  Within(Codes(kinds), Len(kinds))
  BY DEF Within, Codes

\* Where a step goes, by the rank of the code steps before it.
LEMMA PlaceIs ==
  ASSUME NEW S, NEW kinds \in Seq(S), NEW i \in DOMAIN kinds
  PROVE  /\ i - 1 \in Nat /\ Rank(Codes(kinds), i - 1) \in Nat /\ Place(kinds, i) = i + Rank(Codes(kinds), i - 1)
         /\ Rank(Codes(kinds), i) = Rank(Codes(kinds), i - 1) + IF i \in Codes(kinds) THEN 1 ELSE 0
<1>1. i \in Nat /\ i - 1 \in Nat /\ (i - 1) + 1 = i
  OBVIOUS
<1>2. Within(Codes(kinds), Len(kinds))
  BY CodesWithin
<1>3. {j \in Codes(kinds) : j < i} = UpTo(Codes(kinds), i - 1)
  <2>1. ASSUME NEW j \in Codes(kinds) PROVE j < i <=> j <= i - 1
    <3>1. j \in Nat
      BY DEF Codes
    <3> QED BY <1>1, <3>1
  <2>2. \A j : j \in UpTo(Codes(kinds), i - 1) <=> j \in Codes(kinds) /\ j <= i - 1
    BY DEF UpTo
  <2>3. \A j : j \in {k \in Codes(kinds) : k < i} <=> j \in Codes(kinds) /\ j < i
    OBVIOUS
  <2>4. \A j : j \in {k \in Codes(kinds) : k < i} <=> j \in UpTo(Codes(kinds), i - 1)
    BY <2>1, <2>2, <2>3
  <2> QED BY <2>4
<1>4. Place(kinds, i) = i + Rank(Codes(kinds), i - 1)
  BY <1>3 DEF Place, Rank
<1>5. /\ Rank(Codes(kinds), i - 1) \in Nat
      /\ Rank(Codes(kinds), (i - 1) + 1) = Rank(Codes(kinds), i - 1) + IF (i - 1) + 1 \in Codes(kinds) THEN 1 ELSE 0
  <2> PICK h \in Nat : h = i - 1
    BY <1>1
  <2>1. Rank(Codes(kinds), h) \in Nat /\ Rank(Codes(kinds), h + 1) = Rank(Codes(kinds), h) + IF h + 1 \in Codes(kinds) THEN 1 ELSE 0
    BY <1>2, RankStep
  <2> QED BY <2>1
<1> QED BY <1>1, <1>4, <1>5

\* Steps keep their order, and behind a code step a place is left.
LEMMA PlacesApart ==
  ASSUME NEW S, NEW kinds \in Seq(S), NEW i \in DOMAIN kinds
  PROVE  /\ Place(kinds, i) \in 1..(Len(kinds) + Cardinality(Codes(kinds)))
         /\ i \in Codes(kinds) => Place(kinds, i) + 1 \in 1..(Len(kinds) + Cardinality(Codes(kinds)))
         /\ \A j \in DOMAIN kinds : i < j =>
              Place(kinds, i) + (IF i \in Codes(kinds) THEN 2 ELSE 1) <= Place(kinds, j)
<1>1. Within(Codes(kinds), Len(kinds)) /\ Len(kinds) \in Nat /\ i \in Nat /\ i >= 1 /\ i <= Len(kinds)
  BY CodesWithin
<1>2. /\ Rank(Codes(kinds), i - 1) \in Nat /\ Place(kinds, i) = i + Rank(Codes(kinds), i - 1)
      /\ Rank(Codes(kinds), i) = Rank(Codes(kinds), i - 1) + IF i \in Codes(kinds) THEN 1 ELSE 0
  BY PlaceIs
<1>3. Rank(Codes(kinds), i) <= Cardinality(Codes(kinds)) /\ Cardinality(Codes(kinds)) \in Nat /\ Rank(Codes(kinds), i) \in Nat
  <2>1. Rank(Codes(kinds), Len(kinds)) = Cardinality(Codes(kinds))
    BY <1>1, RankEnds
  <2>2. Rank(Codes(kinds), i) <= Rank(Codes(kinds), Len(kinds))
    BY <1>1, RankGrows
  <2>3. Cardinality(Codes(kinds)) \in Nat /\ Rank(Codes(kinds), i) \in Nat
    BY <1>1, RankStep
  <2> QED BY <2>1, <2>2, <2>3
<1>4. ASSUME NEW j \in DOMAIN kinds, i < j
      PROVE  Place(kinds, i) + (IF i \in Codes(kinds) THEN 2 ELSE 1) <= Place(kinds, j)
  <2>1. j - 1 \in Nat /\ Rank(Codes(kinds), j - 1) \in Nat /\ Place(kinds, j) = j + Rank(Codes(kinds), j - 1)
    BY PlaceIs
  <2>2. i <= j - 1 /\ j \in Nat
    BY <1>1, <1>4
  <2>3. Rank(Codes(kinds), i) <= Rank(Codes(kinds), j - 1)
    BY <1>1, <2>1, <2>2, RankGrows
  <2> PICK a, b, c : a = Rank(Codes(kinds), i - 1) /\ b = Rank(Codes(kinds), i) /\ c = Rank(Codes(kinds), j - 1)
    OBVIOUS
  <2>4. /\ a \in Nat /\ b \in Nat /\ c \in Nat /\ i \in Nat /\ j \in Nat /\ b <= c /\ i <= j - 1
        /\ b = a + IF i \in Codes(kinds) THEN 1 ELSE 0
    BY <1>1, <1>2, <1>3, <2>1, <2>2, <2>3
  <2>5. i + a + (IF i \in Codes(kinds) THEN 2 ELSE 1) <= j + c
    BY ONLY <2>4
  <2> QED BY <1>2, <2>1, <2>5
<1>5. CASE i \in Codes(kinds)
  BY <1>1, <1>2, <1>3, <1>4, <1>5
<1>6. CASE i \notin Codes(kinds)
  BY <1>1, <1>2, <1>3, <1>4, <1>6
<1> QED BY <1>5, <1>6

\* Each step is in its place, and the tests are right behind every code step.
LEMMA WithTestsIs ==
  ASSUME NEW S, NEW kinds \in Seq(S)
  PROVE  /\ WithTests(kinds) \in Seq(S \cup {"test"})
         /\ Len(WithTests(kinds)) = Len(kinds) + Cardinality(Codes(kinds)) /\ Len(WithTests(kinds)) <= 2 * Len(kinds)
         /\ \A i \in DOMAIN kinds : WithTests(kinds)[Place(kinds, i)] = kinds[i]
         /\ \A i \in Codes(kinds) : WithTests(kinds)[Place(kinds, i) + 1] = "test"
         /\ \A p \in DOMAIN WithTests(kinds) :
              WithTests(kinds)[p] = "code" => p + 1 \in DOMAIN WithTests(kinds) /\ WithTests(kinds)[p + 1] = "test"
<1> DEFINE n == Len(kinds) + Cardinality(Codes(kinds))
           w(p) == IF \E i \in DOMAIN kinds : Place(kinds, i) = p
                   THEN kinds[CHOOSE i \in DOMAIN kinds : Place(kinds, i) = p] ELSE "test"
<1>1. /\ Len(kinds) \in Nat /\ Cardinality(Codes(kinds)) \in Nat /\ Cardinality(Codes(kinds)) <= Len(kinds)
      /\ Codes(kinds) \in SUBSET DOMAIN kinds
  <2>1. Codes(kinds) \in SUBSET DOMAIN kinds
    BY DEF Codes
  <2>2. Cardinality(Codes(kinds)) <= Len(kinds)
    BY <2>1, PickIs
  <2>3. Cardinality(Codes(kinds)) \in Nat
    BY CodesWithin, RankStep, 0 \in Nat
  <2> QED BY <2>1, <2>2, <2>3
<1>2. n \in Nat /\ n <= 2 * Len(kinds)
  BY <1>1
<1>3. WithTests(kinds) = [p \in 1..n |-> w(p)]
  BY DEF WithTests
<1>4. ASSUME NEW p PROVE w(p) \in S \cup {"test"}
  OBVIOUS
<1>5. ASSUME NEW i \in DOMAIN kinds
      PROVE  /\ Place(kinds, i) \in 1..n /\ w(Place(kinds, i)) = kinds[i]
             /\ i \in Codes(kinds) => Place(kinds, i) + 1 \in 1..n /\ w(Place(kinds, i) + 1) = "test"
  <2>1. /\ Place(kinds, i) \in 1..n
        /\ i \in Codes(kinds) => Place(kinds, i) + 1 \in 1..n
    BY PlacesApart
  <2>2. ASSUME NEW j \in DOMAIN kinds, j # i
        PROVE  Place(kinds, j) # Place(kinds, i) /\ (i \in Codes(kinds) => Place(kinds, j) # Place(kinds, i) + 1)
    <3>1. Place(kinds, i) \in Nat /\ Place(kinds, j) \in Nat /\ i \in Nat /\ j \in Nat
      BY <1>2, PlacesApart
    <3>2. CASE i < j
      <4>1. Place(kinds, i) + (IF i \in Codes(kinds) THEN 2 ELSE 1) <= Place(kinds, j)
        BY <3>2, PlacesApart
      <4> QED BY <3>1, <4>1
    <3>3. CASE j < i
      <4>1. Place(kinds, j) + (IF j \in Codes(kinds) THEN 2 ELSE 1) <= Place(kinds, i)
        BY <3>3, PlacesApart
      <4> QED BY <3>1, <4>1
    <3> QED BY <2>2, <3>1, <3>2, <3>3
  <2>3. (CHOOSE j \in DOMAIN kinds : Place(kinds, j) = Place(kinds, i)) = i
    BY <2>2
  <2>4. i \in Codes(kinds) => ~\E j \in DOMAIN kinds : Place(kinds, j) = Place(kinds, i) + 1
    <3>1. Place(kinds, i) \in Nat
      BY <1>2, <2>1
    <3> QED BY <2>2, <3>1
  <2> QED BY <2>1, <2>3, <2>4
<1> HIDE DEF n, w
<1>6. /\ WithTests(kinds) \in Seq(S \cup {"test"}) /\ Len(WithTests(kinds)) = n /\ DOMAIN WithTests(kinds) = 1..n
      /\ \A p \in 1..n : WithTests(kinds)[p] = w(p)
  BY <1>2, <1>3, <1>4
<1>7. ASSUME NEW p \in 1..n, w(p) = "code" PROVE p + 1 \in 1..n /\ w(p + 1) = "test"
  <2>1. PICK i \in DOMAIN kinds : Place(kinds, i) = p /\ kinds[i] = "code"
    <3>1. \E i \in DOMAIN kinds : Place(kinds, i) = p
      BY <1>7 DEF w
    <3> QED BY <1>5, <1>7, <3>1
  <2>2. i \in Codes(kinds)
    BY <2>1 DEF Codes
  <2> QED BY <1>5, <2>1, <2>2
<1>8. Len(WithTests(kinds)) = Len(kinds) + Cardinality(Codes(kinds))
  BY <1>6 DEF n
<1> QED BY <1>1, <1>2, <1>5, <1>6, <1>7, <1>8

-----------------------------------------------------------------------------
(* The whole plan *)

Placeables == {"local", "game_action", "code"}
PlanKinds == Placeables \cup {"test"} \cup TailKinds

\* What is kept of an answer may be placed by a model.
LEMMA CleanIs ==
  ASSUME NEW S, NEW answer \in Seq(S), NEW hasRepo
  PROVE  LET clean == Pick(answer, {i \in DOMAIN answer : Placeable(answer[i], hasRepo)}) IN
         clean \in Seq(Placeables) /\ Len(clean) <= Len(answer)
<1> DEFINE at == {i \in DOMAIN answer : Placeable(answer[i], hasRepo)}
           clean == Pick(answer, at)
<1>0. at \in SUBSET DOMAIN answer
  OBVIOUS
<1>3. \A i \in at : answer[i] \in Placeables
  BY DEF Placeable, Placeables
<1> HIDE DEF at
<1>1. /\ clean \in Seq(S) /\ Len(clean) = Cardinality(at) /\ Cardinality(at) <= Len(answer)
      /\ \A n \in 1..Cardinality(at) : Nth(at, n) \in at /\ clean[n] = answer[Nth(at, n)]
  BY <1>0, PickIs
<1> HIDE DEF clean
<1>2. \A n \in 1..Len(clean) : clean[n] \in Placeables
  BY <1>1, <1>3
<1>4. clean \in Seq(Placeables) /\ Len(clean) <= Len(answer)
  BY <1>1, <1>2
<1> QED BY <1>4 DEF at, clean

\* Every code step is right before a test, and a pull request has a test before it.
Tested(plan) ==
  /\ \A p \in DOMAIN plan : plan[p] = "code" => p + 1 \in DOMAIN plan /\ plan[p + 1] = "test"
  /\ \A p \in DOMAIN plan : plan[p] = "pr" => \E q \in DOMAIN plan : q < p /\ plan[q] = "test"

LEMMA ConcatIs ==
  ASSUME NEW S, NEW a \in Seq(S), NEW b \in Seq(S)
  PROVE  /\ a \o b \in Seq(S) /\ Len(a \o b) = Len(a) + Len(b) /\ DOMAIN (a \o b) = 1..(Len(a) + Len(b))
         /\ \A p \in 1..Len(a) : (a \o b)[p] = a[p]
         /\ \A p \in 1..Len(b) : (a \o b)[Len(a) + p] = b[p]
  OBVIOUS

\* The plan before it is cut: of the right kinds, tested, and no longer than twice
\* the answer and the tail.
LEMMA UncutIs ==
  ASSUME NEW clean \in Seq(Placeables)
  PROVE  LET body == WithTests(clean)
             plan == IF Contains(body, "code") THEN body \o PRTail ELSE body IN
         plan \in Seq(PlanKinds) /\ Len(plan) <= 2 * Len(clean) + Len(PRTail) /\ Tested(plan)
<1> DEFINE body == WithTests(clean)
           plan == IF Contains(body, "code") THEN body \o PRTail ELSE body
<1>1. /\ body \in Seq(Placeables \cup {"test"}) /\ Len(body) <= 2 * Len(clean)
      /\ \A p \in DOMAIN body : body[p] = "code" => p + 1 \in DOMAIN body /\ body[p + 1] = "test"
  BY WithTestsIs
<1> HIDE DEF body
<1>2. PRTail \in Seq(PlanKinds) /\ Len(PRTail) = 3 /\ PRTail[1] = "pr" /\ PRTail[2] = "review" /\ PRTail[3] = "ci"
  BY DEF PRTail, PlanKinds, TailKinds
<1>3. body \in Seq(PlanKinds) /\ (\A p \in DOMAIN body : body[p] # "pr") /\ Len(body) \in Nat /\ Len(clean) \in Nat
  <2>1. \A p \in DOMAIN body : body[p] \in Placeables \cup {"test"}
    BY <1>1
  <2> QED BY <1>1, <2>1 DEF PlanKinds, Placeables
<1>4. CASE Contains(body, "code")
  <2>1. plan = body \o PRTail
    BY <1>4
  <2> HIDE DEF plan
  <2>2. /\ plan \in Seq(PlanKinds) /\ Len(plan) = Len(body) + 3 /\ DOMAIN plan = 1..(Len(body) + 3)
        /\ \A p \in 1..Len(body) : plan[p] = body[p]
        /\ plan[Len(body) + 1] = "pr" /\ plan[Len(body) + 2] = "review" /\ plan[Len(body) + 3] = "ci"
    <3>1. 1 \in 1..Len(PRTail) /\ 2 \in 1..Len(PRTail) /\ 3 \in 1..Len(PRTail)
      BY <1>2
    <3>2. /\ plan \in Seq(PlanKinds) /\ Len(plan) = Len(body) + Len(PRTail) /\ DOMAIN plan = 1..(Len(body) + Len(PRTail))
          /\ \A p \in 1..Len(body) : plan[p] = body[p]
          /\ \A p \in 1..Len(PRTail) : plan[Len(body) + p] = PRTail[p]
      <4> PICK tail : tail = PRTail
        OBVIOUS
      <4>1. tail \in Seq(PlanKinds) /\ body \in Seq(PlanKinds)
        BY <1>2, <1>3
      <4>2. /\ body \o tail \in Seq(PlanKinds) /\ Len(body \o tail) = Len(body) + Len(tail) /\ DOMAIN (body \o tail) = 1..(Len(body) + Len(tail))
            /\ \A p \in 1..Len(body) : (body \o tail)[p] = body[p]
            /\ \A p \in 1..Len(tail) : (body \o tail)[Len(body) + p] = tail[p]
        BY <4>1, ConcatIs
      <4> QED BY <2>1, <4>2
    <3>3. plan[Len(body) + 1] = "pr" /\ plan[Len(body) + 2] = "review" /\ plan[Len(body) + 3] = "ci"
      BY <1>2, <3>1, <3>2
    <3> QED BY <1>2, <3>2, <3>3
  <2>3. PICK c \in DOMAIN body : body[c] = "code"
    BY <1>3, <1>4 DEF Contains
  <2>4. c + 1 \in 1..Len(body) /\ plan[c + 1] = "test"
    BY <1>1, <1>3, <2>2, <2>3
  <2>5. ASSUME NEW p \in DOMAIN plan, plan[p] = "code" PROVE p + 1 \in DOMAIN plan /\ plan[p + 1] = "test"
    <3>1. p \in 1..Len(body)
      <4>1. p \in 1..(Len(body) + 3) /\ Len(body) \in Nat
        BY <1>3, <2>2, <2>5
      <4>2. p # Len(body) + 1 /\ p # Len(body) + 2 /\ p # Len(body) + 3
        BY <2>2, <2>5
      <4> QED BY ONLY <4>1, <4>2
    <3>2. p + 1 \in 1..Len(body) /\ body[p + 1] = "test"
      BY <1>1, <1>3, <2>2, <2>5, <3>1
    <3> QED BY <1>3, <2>2, <3>2
  <2>6. ASSUME NEW p \in DOMAIN plan, plan[p] = "pr" PROVE \E q \in DOMAIN plan : q < p /\ plan[q] = "test"
    <3>1. p \in Nat /\ p > Len(body)
      BY <1>3, <2>2, <2>6
    <3> QED BY <1>3, <2>2, <2>4, <3>1
  <2>7. Tested(plan)
    BY <2>5, <2>6 DEF Tested
  <2>8. Len(plan) <= 2 * Len(clean) + Len(PRTail)
    BY <1>1, <1>2, <1>3, <2>2
  <2> QED BY <2>2, <2>7, <2>8 DEF plan, body
<1>5. CASE ~Contains(body, "code")
  <2>1. plan = body
    BY <1>5
  <2>2. Tested(body)
    BY <1>1, <1>3 DEF Tested
  <2>3. Len(body) <= 2 * Len(clean) + Len(PRTail)
    BY <1>1, <1>2, <1>3
  <2> QED BY <1>3, <2>1, <2>2, <2>3 DEF plan, body
<1> QED BY <1>4, <1>5

LEMMA FallbackIs ==
  ASSUME NEW hasRepo
  PROVE  FallbackPlan(hasRepo) \in Seq(PlanKinds) /\ FallbackPlan(hasRepo) # <<>> /\ Tested(FallbackPlan(hasRepo))
<1>1. CASE hasRepo
  <2>1. FallbackPlan(hasRepo) = <<"code", "test", "pr", "review", "ci">>
    <3> DEFINE a == <<"code", "test">>
               b == <<"pr", "review", "ci">>
               f == FallbackPlan(hasRepo)
    <3>1. f = a \o b
      BY <1>1 DEF FallbackPlan, PRTail
    <3>2. a \in Seq(PlanKinds) /\ b \in Seq(PlanKinds) /\ Len(a) = 2 /\ Len(b) = 3
      BY DEF PlanKinds, Placeables, TailKinds
    <3> HIDE DEF f
    <3>3. /\ f \in Seq(PlanKinds) /\ Len(f) = 5
          /\ f[1] = "code" /\ f[2] = "test" /\ f[3] = "pr" /\ f[4] = "review" /\ f[5] = "ci"
      BY <3>1, <3>2
    <3>4. f = <<"code", "test", "pr", "review", "ci">>
      BY <3>3
    <3> QED BY <3>4 DEF f
  <2> QED BY <2>1 DEF Tested, PlanKinds, Placeables, TailKinds
<1>2. CASE ~hasRepo
  <2>1. FallbackPlan(hasRepo) = <<"local">>
    BY <1>2 DEF FallbackPlan
  <2> QED BY <2>1 DEF Tested, PlanKinds, Placeables
<1> QED BY <1>1, <1>2

\* A plan that is cut still has steps of the plan's kinds only.
LEMMA ShortenIs ==
  ASSUME NEW S, NEW plan \in Seq(S), NEW maxSteps \in Nat
  PROVE  /\ Shorten(plan, maxSteps) \in Seq(S)
         /\ Len(plan) <= maxSteps => Shorten(plan, maxSteps) = plan
<1> DEFINE ends == {i \in DOMAIN plan : plan[i] \in TailKinds}
           body == Pick(plan, DOMAIN plan \ ends)
<1>1. ends \in SUBSET DOMAIN plan /\ DOMAIN plan \ ends \in SUBSET DOMAIN plan
  OBVIOUS
<1>2. body \in Seq(S) /\ Pick(plan, ends) \in Seq(S) /\ Len(body) = Cardinality(DOMAIN plan \ ends)
  BY <1>1, PickIs
<1>3. /\ IsFiniteSet(ends) /\ Cardinality(ends) \in Nat /\ IsFiniteSet(DOMAIN plan)
      /\ Cardinality(DOMAIN plan) = Len(plan)
  <2>1. Len(plan) \in Nat /\ DOMAIN plan = 1..Len(plan) /\ 1 \in Int /\ Len(plan) \in Int
    OBVIOUS
  <2>2. IsFiniteSet(1..Len(plan)) /\ Cardinality(1..Len(plan)) = IF 1 > Len(plan) THEN 0 ELSE Len(plan) - 1 + 1
    BY ONLY <2>1, FS_Interval
  <2>3. IsFiniteSet(ends)
    BY <1>1, <2>1, <2>2, FS_Subset
  <2> QED BY <2>1, <2>2, <2>3, FS_CardinalityType
<1>4. Len(plan) = Cardinality(ends) + Len(body) /\ Len(body) \in Nat
  <2>1. ends \cup (DOMAIN plan \ ends) = DOMAIN plan /\ ends \cap (DOMAIN plan \ ends) = {}
    BY <1>1
  <2>2. IsFiniteSet(DOMAIN plan \ ends)
    BY <1>1, <1>3, FS_Subset
  <2>3. Cardinality(DOMAIN plan) = Cardinality(ends) + Cardinality(DOMAIN plan \ ends) - Cardinality({})
    BY <1>3, <2>1, <2>2, FS_Union
  <2> QED BY <1>2, <1>3, <2>3, FS_EmptySet, FS_CardinalityType, <2>2
<1> HIDE DEF ends, body
<1>5. Len(plan) <= maxSteps => Shorten(plan, maxSteps) = plan
  BY DEF Shorten
<1>6. CASE ~(Len(plan) <= maxSteps)
  <2>1. Shorten(plan, maxSteps) = SubSeq(body, 1, maxSteps - Cardinality(ends)) \o Pick(plan, ends)
    BY <1>6 DEF Shorten, body, ends
  <2>2. maxSteps - Cardinality(ends) \in Int /\ maxSteps - Cardinality(ends) <= Len(body)
    BY <1>3, <1>4, <1>6
  <2>3. SubSeq(body, 1, maxSteps - Cardinality(ends)) \in Seq(S)
    BY <1>2, <2>2
  <2>4. Shorten(plan, maxSteps) \in Seq(S)
    <3> PICK a, b : a = SubSeq(body, 1, maxSteps - Cardinality(ends)) /\ b = Pick(plan, ends)
      OBVIOUS
    <3>1. a \in Seq(S) /\ b \in Seq(S)
      BY <1>2, <2>3
    <3>2. a \o b \in Seq(S)
      BY ONLY <3>1, ConcatIs
    <3> QED BY <2>1, <3>2
  <2> QED BY <1>6, <2>4
<1> QED BY <1>5, <1>6

LEMMA PlanForIs ==
  ASSUME NEW S, NEW answer \in Seq(S), NEW hasRepo, NEW maxSteps \in Nat
  PROVE  /\ PlanFor(answer, hasRepo, maxSteps) \in Seq(PlanKinds)
         /\ 2 * Len(answer) + Len(PRTail) <= maxSteps => Tested(PlanFor(answer, hasRepo, maxSteps))
<1> DEFINE clean == Pick(answer, {i \in DOMAIN answer : Placeable(answer[i], hasRepo)})
           body == WithTests(clean)
           plan == IF Contains(body, "code") THEN body \o PRTail ELSE body
<1>1. clean \in Seq(Placeables) /\ Len(clean) <= Len(answer)
  BY CleanIs
<1> HIDE DEF clean
<1>2. plan \in Seq(PlanKinds) /\ Len(plan) <= 2 * Len(clean) + Len(PRTail) /\ Tested(plan)
  BY <1>1, UncutIs
<1> HIDE DEF plan
<1>3. PlanFor(answer, hasRepo, maxSteps) = IF plan = <<>> THEN FallbackPlan(hasRepo) ELSE Shorten(plan, maxSteps)
  BY DEF PlanFor, NormalizePlan, plan, clean
<1>4. Shorten(plan, maxSteps) \in Seq(PlanKinds) /\ (Len(plan) <= maxSteps => Shorten(plan, maxSteps) = plan)
  BY <1>2, ShortenIs
<1>5. 2 * Len(answer) + Len(PRTail) <= maxSteps => Len(plan) <= maxSteps
  <2>1. Len(answer) \in Nat /\ Len(clean) \in Nat /\ Len(plan) \in Nat /\ Len(PRTail) \in Nat
    BY <1>1, <1>2 DEF PRTail
  <2> QED BY <1>1, <1>2, <2>1
<1> QED BY <1>2, <1>3, <1>4, <1>5, FallbackIs

\* Leaving denied actions out of a plan leaves its tests where they are.
LEMMA ReplansForIs ==
  ASSUME NEW S, NEW answer \in Seq(S), NEW hasRepo, NEW maxSteps \in Nat, NEW new \in ReplansFor(answer, hasRepo, maxSteps)
  PROVE  /\ new \in Seq(PlanKinds)
         /\ 2 * Len(answer) + Len(PRTail) <= maxSteps => Tested(new)
<1> DEFINE plan == PlanFor(answer, hasRepo, maxSteps)
<1>0. PICK denied \in SUBSET {i \in DOMAIN plan : plan[i] = "game_action"} : new = Pick(plan, DOMAIN plan \ denied)
  BY DEF ReplansFor
<1> DEFINE at == DOMAIN plan \ denied
<1>1. plan \in Seq(PlanKinds) /\ (2 * Len(answer) + Len(PRTail) <= maxSteps => Tested(plan))
  BY PlanForIs
<1> HIDE DEF plan
<1>3. at \in SUBSET DOMAIN plan /\ \A i \in DOMAIN plan : plan[i] # "game_action" => i \in at
  OBVIOUS
<1>2. new = Pick(plan, at)
  BY <1>0
<1>4. Within(at, Len(plan)) /\ Len(plan) \in Nat /\ DOMAIN plan = 1..Len(plan)
  BY <1>1, <1>3 DEF Within
<1> HIDE DEF at
<1>5. /\ new \in Seq(PlanKinds) /\ Len(new) = Cardinality(at)
      /\ \A n \in 1..Cardinality(at) : Nth(at, n) \in at /\ new[n] = plan[Nth(at, n)]
      /\ \A i \in at : Rank(at, i) \in 1..Cardinality(at) /\ new[Rank(at, i)] = plan[i]
  BY <1>1, <1>2, <1>3, PickIs
<1>6. \A n \in 1..Cardinality(at) : Nth(at, n) \in at /\ Rank(at, Nth(at, n)) = n
  BY <1>4, NthRank
<1>7. DOMAIN new = 1..Cardinality(at)
  BY <1>5
<1>8. ASSUME Tested(plan) PROVE Tested(new)
  <2>1. ASSUME NEW p \in DOMAIN new, new[p] = "code" PROVE p + 1 \in DOMAIN new /\ new[p + 1] = "test"
    <3> PICK i : i = Nth(at, p)
      OBVIOUS
    <3>1. i \in at /\ plan[i] = "code" /\ Rank(at, i) = p /\ i \in Nat
      BY <1>3, <1>4, <1>5, <1>6, <1>7, <2>1
    <3>2. i + 1 \in at /\ plan[i + 1] = "test"
      BY <1>3, <1>8, <3>1 DEF Tested
    <3>3. Rank(at, i + 1) = Rank(at, i) + 1
      BY <1>4, <3>1, <3>2, RankStep
    <3> QED BY <1>5, <1>7, <3>1, <3>2, <3>3
  <2>2. ASSUME NEW p \in DOMAIN new, new[p] = "pr" PROVE \E q \in DOMAIN new : q < p /\ new[q] = "test"
    <3> PICK i : i = Nth(at, p)
      OBVIOUS
    <3>1. i \in at /\ plan[i] = "pr" /\ Rank(at, i) = p /\ i \in Nat
      BY <1>3, <1>4, <1>5, <1>6, <1>7, <2>2
    <3>2. PICK q \in DOMAIN plan : q < i /\ plan[q] = "test"
      BY <1>3, <1>8, <3>1 DEF Tested
    <3>3. q \in at /\ q \in Nat /\ q <= i
      BY <1>3, <1>4, <3>1, <3>2
    <3>4. Rank(at, q) < Rank(at, i)
      BY <1>4, <3>1, <3>2, <3>3, RankGrows
    <3> QED BY <1>5, <1>7, <3>1, <3>2, <3>3, <3>4
  <2> QED BY <2>1, <2>2 DEF Tested
<1> QED BY <1>1, <1>5, <1>8

-----------------------------------------------------------------------------
\* "test, pr, review and ci steps are added automatically after code steps": in the
\* plan made of any answer of the model, and in any plan made after a denial, every
\* code step is right before a test and a pull request has a test before it, as
\* long as the plan need not be cut to local_steps_per_task.
THEOREM CodeIsTested ==
  ASSUME NEW S, NEW answer \in Seq(S), NEW hasRepo, NEW maxSteps \in Nat,
         2 * Len(answer) + Len(PRTail) <= maxSteps
  PROVE  Tested(PlanFor(answer, hasRepo, maxSteps)) /\ \A new \in ReplansFor(answer, hasRepo, maxSteps) : Tested(new)
  BY PlanForIs, ReplansForIs

-----------------------------------------------------------------------------
(* The inductive invariant *)

Finished(t, i) == steps[t][i].state \in {"done", "skipped"}
Pristine(t, i) == steps[t][i].state = "pending" /\ steps[t][i].ticket = 0
Before(t, i) == \A j \in DOMAIN steps[t] : j < i => Finished(t, j)
Behind(t, i) == \A j \in DOMAIN steps[t] : i < j => Pristine(t, j)

\* Nothing of the plan has been started and nothing was asked for it.
Fresh(t) == /\ \A i \in DOMAIN steps[t] : Pristine(t, i)
            /\ \A k \in DOMAIN tickets : tickets[k].task # t
            /\ ToSkip(t) = {}

\* The ticket k is one that step i may have asked for.
Fits(t, i, k) == /\ k \in DOMAIN tickets
                 /\ tickets[k].task = t /\ tickets[k].step \in {0, i}
                 /\ tickets[k].gate = "game" <=> steps[t][i].kind = "game_action"

\* The plan is worked off from the front: what lies behind an unfinished step
\* has not been touched.  A step's ticket is one it asked for.
PlanOK(t) ==
  \A i \in DOMAIN steps[t] :
    /\ ~Finished(t, i) => Behind(t, i)
    /\ steps[t][i].ticket # 0 => Fits(t, i, steps[t][i].ticket)

\* A cancel that is under way skips no step that others before it wait for.
RowOK(t) ==
  /\ task[t].state = "absent" => steps[t] = <<>> /\ cancel[t] = {}
  /\ \A i \in ToSkip(t) : i \in DOMAIN steps[t] /\ Before(t, i) /\ "cancel" \in OwnerMay
  /\ task[t].state = "queued" => Fresh(t)
  /\ task[t].state = "done" => \A i \in DOMAIN steps[t] : Finished(t, i)
  /\ task[t].attempts = MaxAttempts =>
       /\ task[t].state \in {"needs_owner", "cancelled"}
       /\ \A i \in DOMAIN steps[t] : steps[t][i].state # "waiting"

\* A task that a worker or the main thread is at.
InHand(t) == /\ alive /\ task[t].attempts < MaxAttempts
             /\ task[t].state \notin {"absent", "done"}

\* No request of t is for a step behind i, and none to push i has been edited after.
Reached(t, i) ==
  \A k \in DOMAIN tickets : tickets[k].task = t =>
    tickets[k].step <= i /\ (tickets[k].gate = "push" /\ tickets[k].step = i => ~tickets[k].stale)

\* Where work is going on: what is before it is over, behind it nothing is touched,
\* nothing was asked and nothing is left to be skipped.
AtFront(t, i) ==
  /\ i \in DOMAIN steps[t] /\ Before(t, i) /\ Behind(t, i)
  /\ \A j \in ToSkip(t) : j <= i

JobOK(t) ==
  /\ ~Active(t) => jobs[t].step = 0
  /\ Active(t) => InHand(t)
  /\ jobs[t].at \in {"plan", "planned"} => jobs[t].step = 0
  /\ jobs[t].at \in {"run", "cleared"} => jobs[t].step # 0
  /\ Active(t) /\ jobs[t].step = 0 => Fresh(t)
  /\ jobs[t].step # 0 =>
       /\ AtFront(t, jobs[t].step) /\ Reached(t, jobs[t].step)
       /\ steps[t][jobs[t].step].state = "running" \/ ("cancel" \in OwnerMay /\ steps[t][jobs[t].step].state = "skipped")
       /\ task[t].state # "queued"
       /\ jobs[t].at = "end" =>
            /\ jobs[t].out.status # "none"
            /\ jobs[t].out.status = "park" => Fits(t, jobs[t].step, jobs[t].out.ticket)
            /\ jobs[t].out.status = "split" => Kind(t) = "code"
  /\ \A i \in DOMAIN steps[t] : steps[t][i].state = "running" => ~alive \/ jobs[t].step = i

\* A request belongs to a step that all steps before it are done with.
TicketOK(k) ==
  LET t == tickets[k].task
      i == tickets[k].step IN
  /\ steps[t] # <<>>
  /\ tickets[k].gate # "code" => i # 0
  /\ i # 0 =>
       /\ i \in DOMAIN steps[t] /\ Before(t, i)
       /\ tickets[k].gate = "push" => steps[t][i].kind = "pr"
       /\ tickets[k].gate = "game" => steps[t][i].kind = "game_action"
       /\ tickets[k].gate = "push" /\ tickets[k].stale => Finished(t, i)

\* The state of its step once the main thread has made its first write, unless a
\* cancel has skipped it.
Written(at) ==
  CASE at = "done" -> {"done", "skipped"}
    [] at \in {"split", "skip", "supersede", "refused", "replan"} -> {"skipped"}
    [] at \in {"owner", "defer", "wait", "opened"} -> {"pending", "skipped"}
    [] at \in {"park", "polled"} -> {"waiting", "skipped"}
    [] at = "fail" -> {"failed", "skipped"}

MainOK ==
  /\ ~alive => main = Free /\ \A t \in Tasks : ~Active(t)
  /\ main.at = "free" => main = Free
  /\ main.at # "free" =>
       /\ main.task \in Tasks /\ ~Active(main.task) /\ InHand(main.task)
       /\ task[main.task].state # "queued" /\ steps[main.task] # <<>>
       /\ main.seen.state # "queued" /\ main.seen.attempts < MaxAttempts
  /\ main.at \notin {"free", "resume"} =>
       /\ AtFront(main.task, main.step)
       /\ steps[main.task][main.step].state \in Written(main.at)
       /\ \A k \in DOMAIN tickets : tickets[k].task = main.task => tickets[k].step <= main.step
  /\ main.at = "polled" =>
       /\ Fits(main.task, main.step, main.ticket)
       /\ \A k \in DOMAIN tickets :
            tickets[k].task = main.task /\ tickets[k].gate = "push" /\ tickets[k].step = main.step => ~tickets[k].stale
  /\ main.at = "replan" => steps[main.task][main.step].kind = "game_action"
  /\ main.at = "split" => steps[main.task][main.step].kind = "code"

\* A push that a worker is about to make was approved as it is.
PushOK(t) ==
  jobs[t].at = "cleared" /\ Gate(t) = "push" =>
    \E k \in Asked(t) : tickets[k].state = "approved"

IInv ==
  /\ TypeOK
  /\ \A t \in Tasks : PlanOK(t) /\ RowOK(t) /\ JobOK(t) /\ PushOK(t)
  /\ \A k \in DOMAIN tickets : TicketOK(k)
  /\ MainOK

-----------------------------------------------------------------------------
(* What is pushed has passed its tests, where no plan is cut *)

\* No answer of the planning model makes a plan that is too long.
PlansFit == \A a \in Answers : 2 * Len(a) + Len(PRTail) <= PlanSteps

IsTest(t, i) == i \in DOMAIN steps[t] /\ steps[t][i].kind = "test"

\* What edits the worktree is followed by the tests.
EditsCovered(t) ==
  \A c \in DOMAIN steps[t] :
    /\ steps[t][c].kind = "part" => IsTest(t, c + 1)
    /\ steps[t][c].kind = "code" =>
         IsTest(t, c + 1) \/ (c + 1 \in DOMAIN steps[t] /\ steps[t][c + 1].kind = "part")

\* An edited worktree has its tests before every push to come.
TestsAhead(t) ==
  ~tested[t] =>
    \A p \in DOMAIN steps[t] : steps[t][p].kind = "pr" /\ ~Finished(t, p) =>
      \E q \in DOMAIN steps[t] : q < p /\ IsTest(t, q) /\ ~Finished(t, q)

\* Nobody is asked about a test.
TestsUnasked(t) ==
  /\ \A q \in DOMAIN steps[t] : IsTest(t, q) => steps[t][q].ticket = 0 /\ steps[t][q].state # "waiting"
  /\ \A q \in ToSkip(t) : ~IsTest(t, q)

\* A test step is over when the tests passed, or others are put behind it.
TestEnds(t) ==
  jobs[t].at = "end" /\ jobs[t].step # 0 /\ Kind(t) = "test" =>
    /\ jobs[t].out.status \in {"owner", "fail", "done", "supersede"}
    /\ jobs[t].out.status = "done" => tested[t]
    /\ jobs[t].out.status = "supersede" =>
         IsTest(t, jobs[t].step + 2) /\ steps[t][jobs[t].step + 1].kind = "code"

\* A worker has a test step until it ends, and pushes what has passed its tests.
TestRuns(t) ==
  jobs[t].step # 0 => /\ Kind(t) = "test" => steps[t][jobs[t].step].state = "running"
                      /\ Kind(t) = "pr" => tested[t]

\* The answer about a push is looked up when the worktree has passed its tests.
PolledTested ==
  main.at = "polled" =>
    /\ steps[main.task][main.step].kind # "test"
    /\ steps[main.task][main.step].kind = "pr" => tested[main.task]

TestInv ==
  /\ \A t \in Tasks : EditsCovered(t) /\ TestsAhead(t) /\ TestsUnasked(t) /\ TestEnds(t) /\ TestRuns(t)
  /\ PolledTested

-----------------------------------------------------------------------------
(* A loop that is not killed, and an owner who takes nothing up again *)

LiveAction(k) == tickets[k].gate = "game" /\ tickets[k].heard /\ tickets[k].state # "denied"

\* A game action that was filed is not filed again: the worker that filed it has
\* ended, and later its step is over or waits.
HeldAt(t, i) ==
  IF jobs[t].step = i THEN jobs[t].at = "end" /\ jobs[t].out.status \in {"park", "done"}
  ELSE steps[t][i].state \in {"done", "skipped", "waiting"}
ActionHeld(k) == HeldAt(tickets[k].task, tickets[k].step)

\* A step that waits is not a candidate: its task waits with it or is cancelled.
WaitsInTask(t) ==
  \A i \in DOMAIN steps[t] : steps[t][i].state = "waiting" =>
    /\ steps[t][i].ticket # 0
    /\ task[t].state \in {"waiting", "cancelled"} \/ (main.task = t /\ main.at = "park")
ParksOnTicket(t) ==
  jobs[t].at = "end" /\ jobs[t].step # 0 /\ jobs[t].out.status = "park" => jobs[t].out.ticket # 0
RunsInWorker(t) == \A i \in DOMAIN steps[t] : steps[t][i].state = "running" => jobs[t].step = i

ActionInv ==
  /\ \A t \in Tasks : WaitsInTask(t) /\ ParksOnTicket(t) /\ RunsInWorker(t)
  /\ \A k \in DOMAIN tickets : LiveAction(k) => ActionHeld(k)
  /\ ActionOnce

\* A task waits for a step that waits, or the main thread is about to move it on.
WaitsForStep(t) ==
  task[t].state = "waiting" =>
    \/ \E i \in DOMAIN steps[t] : steps[t][i].state = "waiting"
    \/ main.task = t /\ main.at \in {"opened", "refused", "replan", "resume"}

\* The row that the main thread read before it polled is the row as it is.
MainReads ==
  /\ main.at \in {"replan", "resume"} => main.seen.state = task[main.task].state
  /\ main.at \in Statuses => task[main.task].state # "waiting"
  /\ main.at \in {"park", "polled"} => steps[main.task][main.step].state = "waiting"

WakeInv ==
  /\ \A t \in Tasks : WaitsForStep(t) /\ (Active(t) => task[t].state # "waiting")
  /\ MainReads
  /\ \A t \in Tasks : cancel[t] = {}

-----------------------------------------------------------------------------
(* Frames *)

TicketsKeep ==
  /\ DOMAIN tickets \subseteq DOMAIN tickets'
  /\ \A k \in DOMAIN tickets : /\ tickets'[k].task = tickets[k].task
                               /\ tickets'[k].step = tickets[k].step
                               /\ tickets'[k].gate = tickets[k].gate
                               /\ tickets'[k].heard = tickets[k].heard
                               /\ tickets[k].state # "pending" => tickets'[k].state = tickets[k].state
NoneNew(u) == \A k \in DOMAIN tickets' : tickets'[k].task = u => k \in DOMAIN tickets
NoneStale(u) == \A k \in DOMAIN tickets : tickets[k].task = u /\ tickets'[k].stale => tickets[k].stale

\* A plan that a step leaves alone stays in order, whatever is asked meanwhile.
LEMMA PlanFrame ==
  ASSUME NEW u \in Tasks, PlanOK(u), steps'[u] = steps[u], TicketsKeep
  PROVE  PlanOK(u)'
  BY DEF PlanOK, Finished, Behind, Pristine, Fits, TicketsKeep

LEMMA FreshFrame ==
  ASSUME NEW u \in Tasks, Fresh(u), steps'[u] = steps[u], TicketsKeep, NoneNew(u), cancel'[u] \subseteq cancel[u]
  PROVE  Fresh(u)'
<1>1. ToSkip(u)' = {}
  BY DEF Fresh, ToSkip
<1>2. (\A i \in DOMAIN steps[u] : Pristine(u, i))' /\ \A k \in DOMAIN tickets' : tickets'[k].task # u
  BY DEF Fresh, Pristine, TicketsKeep, NoneNew
<1> QED BY <1>1, <1>2 DEF Fresh

LEMMA SkipsFrame ==
  ASSUME NEW u \in Tasks, RowOK(u), steps'[u] = steps[u], cancel'[u] \subseteq cancel[u]
  PROVE  \A i \in ToSkip(u)' : i \in DOMAIN steps'[u] /\ Before(u, i)' /\ "cancel" \in OwnerMay
  BY DEF RowOK, ToSkip, Before, Finished

LEMMA RowFrame ==
  ASSUME NEW u \in Tasks, RowOK(u), steps'[u] = steps[u], TicketsKeep, NoneNew(u),
         task'[u].state = task[u].state, task'[u].attempts = task[u].attempts, cancel'[u] \subseteq cancel[u]
  PROVE  RowOK(u)'
<1>1. \A i \in ToSkip(u)' : i \in DOMAIN steps'[u] /\ Before(u, i)' /\ "cancel" \in OwnerMay
  BY SkipsFrame
<1>2. task'[u].state = "absent" => steps'[u] = <<>> /\ cancel'[u] = {}
  BY DEF RowOK
<1> QED BY <1>1, <1>2, FreshFrame DEF RowOK, Finished

LEMMA FrontFrame ==
  ASSUME NEW u \in Tasks, NEW i, AtFront(u, i), steps'[u] = steps[u], cancel'[u] \subseteq cancel[u]
  PROVE  /\ i \in DOMAIN steps'[u] /\ Before(u, i)' /\ Behind(u, i)' /\ \A j \in ToSkip(u)' : j <= i
         /\ jobs'[u].step = i => AtFront(u, jobs[u].step)'
         /\ main'.task = u /\ main'.step = i => AtFront(main.task, main.step)'
<1>1. i \in DOMAIN steps'[u] /\ Before(u, i)' /\ Behind(u, i)'
  BY DEF AtFront, Before, Behind, Finished, Pristine
<1>2. \A j \in ToSkip(u)' : j <= i
  BY DEF AtFront, ToSkip
<1>3. jobs'[u].step = i => AtFront(u, jobs[u].step)'
  BY <1>1, <1>2 DEF AtFront, Before, Behind
<1>4. main'.task = u /\ main'.step = i => AtFront(main.task, main.step)'
  BY <1>1, <1>2 DEF AtFront, Before, Behind, ToSkip
<1> QED BY <1>1, <1>2, <1>3, <1>4

LEMMA ReachedFrame ==
  ASSUME NEW u \in Tasks, NEW i, Reached(u, i), TicketsKeep, NoneNew(u), NoneStale(u)
  PROVE  Reached(u, i)' /\ (jobs'[u].step = i => Reached(u, jobs[u].step)')
<1>1. \A k \in DOMAIN tickets' : tickets'[k].task = u =>
        tickets'[k].step <= i /\ (tickets'[k].gate = "push" /\ tickets'[k].step = i => ~tickets'[k].stale)
  BY DEF Reached, TicketsKeep, NoneNew, NoneStale
<1> QED BY <1>1 DEF Reached

LEMMA JobFrame ==
  ASSUME NEW u \in Tasks, JobOK(u), steps'[u] = steps[u], jobs'[u] = jobs[u], TicketsKeep, NoneNew(u), NoneStale(u),
         alive' = alive, cancel'[u] \subseteq cancel[u],
         Active(u) => InHand(u)', jobs[u].step # 0 => task'[u].state # "queued"
  PROVE  JobOK(u)'
<1>1. Active(u)' <=> Active(u)
  BY DEF Active
<1>2. Kind(u)' = Kind(u)
  BY DEF Kind
<1>3. ASSUME NEW k PROVE Fits(u, jobs[u].step, k) => Fits(u, jobs[u].step, k)'
  BY DEF Fits, TicketsKeep
<1>4. AtFront(u, jobs[u].step) => AtFront(u, jobs[u].step)'
  BY FrontFrame
<1>5. Reached(u, jobs[u].step) => Reached(u, jobs[u].step)'
  BY ReachedFrame
<1> QED BY <1>1, <1>2, <1>3, <1>4, <1>5, FreshFrame DEF JobOK, Active

LEMMA HandFrame ==
  ASSUME NEW u \in Tasks, alive' = alive, task'[u].state = task[u].state, task'[u].attempts = task[u].attempts
  PROVE  InHand(u)' <=> InHand(u)
  BY DEF InHand

LEMMA TicketFrame ==
  ASSUME TypeOK, NEW k \in DOMAIN tickets, TicketOK(k), TicketsKeep, steps'[tickets[k].task] = steps[tickets[k].task],
         tickets'[k].stale => tickets[k].stale
  PROVE  TicketOK(k)'
  BY DEF TicketOK, TicketsKeep, Before, Finished

LEMMA PushFrame ==
  ASSUME NEW u \in Tasks, PushOK(u), TicketsKeep, steps'[u] = steps[u], jobs'[u] = jobs[u]
  PROVE  PushOK(u)'
<1>1. Kind(u)' = Kind(u)
  BY DEF Kind
<1>2. Gate(u)' = Gate(u) /\ Scope(u)' = Scope(u)
  BY <1>1 DEF Gate, Scope
<1>3. \A k \in Asked(u) : tickets[k].state = "approved" => k \in Asked(u)' /\ tickets'[k].state = "approved"
  BY <1>2 DEF Asked, TicketsKeep
<1> QED BY <1>2, <1>3 DEF PushOK

LEMMA OthersKeep ==
  ASSUME IInv, NEW u \in Tasks, steps'[u] = steps[u], jobs'[u] = jobs[u], task'[u] = task[u],
         TicketsKeep, NoneNew(u), NoneStale(u), alive' = alive, cancel'[u] \subseteq cancel[u]
  PROVE  PlanOK(u)' /\ RowOK(u)' /\ JobOK(u)' /\ PushOK(u)'
<1>1. PlanOK(u) /\ RowOK(u) /\ JobOK(u) /\ PushOK(u)
  BY DEF IInv
<1>2. Active(u) => InHand(u)'
  BY <1>1, HandFrame DEF JobOK
<1>3. jobs[u].step # 0 => task'[u].state # "queued"
  BY <1>1 DEF JobOK
<1> QED BY <1>1, <1>2, <1>3, PlanFrame, RowFrame, JobFrame, PushFrame

\* What the main thread has still to write is not disturbed by other tasks.
LEMMA MainFrame ==
  ASSUME MainOK, TypeOK, main' = main, alive' = alive, TicketsKeep,
         alive \/ \A u \in Tasks : Active(u)' => Active(u),
         main.at # "free" =>
           /\ steps'[main.task] = steps[main.task] /\ jobs'[main.task] = jobs[main.task] /\ InHand(main.task)' /\ task'[main.task].state # "queued"
           /\ NoneNew(main.task) /\ NoneStale(main.task) /\ cancel'[main.task] \subseteq cancel[main.task]
  PROVE  MainOK'
<1>1. main.at # "free" => main.task \in Tasks /\ ~Active(main.task)'
  BY DEF MainOK, Active
<1>2. ASSUME main.at \notin {"free", "resume"}
      PROVE  /\ (steps[main.task][main.step].state \in Written(main.at))'
             /\ AtFront(main.task, main.step)'
             /\ \A k \in DOMAIN tickets' : tickets'[k].task = main.task => tickets'[k].step <= main.step
  <2>1. /\ main' = main /\ steps'[main.task] = steps[main.task] /\ NoneNew(main.task) /\ main.task \in Tasks
        /\ steps[main.task][main.step].state \in Written(main.at)
        /\ AtFront(main.task, main.step) /\ cancel'[main.task] \subseteq cancel[main.task]
        /\ \A k \in DOMAIN tickets : tickets[k].task = main.task => tickets[k].step <= main.step
    BY <1>2 DEF MainOK
  <2>2. (steps[main.task][main.step].state \in Written(main.at))'
    BY ONLY <2>1 DEF Written
  <2>3. AtFront(main.task, main.step)'
    BY ONLY <2>1, FrontFrame
  <2>4. \A k \in DOMAIN tickets' : tickets'[k].task = main.task => tickets'[k].step <= main.step
    BY ONLY <2>1, TicketsKeep DEF TicketsKeep, NoneNew
  <2> QED BY ONLY <2>2, <2>3, <2>4
<1>3. main.at = "polled" =>
        /\ Fits(main.task, main.step, main.ticket)'
        /\ \A k \in DOMAIN tickets' :
            tickets'[k].task = main.task /\ tickets'[k].gate = "push" /\ tickets'[k].step = main.step => ~tickets'[k].stale
  BY DEF MainOK, Fits, TicketsKeep, NoneNew, NoneStale
<1>9. main.at # "free" => steps'[main.task] # <<>>
  BY DEF MainOK
<1>4. main.at = "replan" => steps'[main.task][main.step].kind = "game_action"
  BY DEF MainOK
<1>5. main.at = "split" => steps'[main.task][main.step].kind = "code"
  BY DEF MainOK
<1>6. ~alive => main = Free /\ \A t \in Tasks : ~Active(t)'
  BY DEF MainOK
<1>7. main.at # "free" => /\ InHand(main.task)' /\ task'[main.task].state # "queued"
                          /\ main.seen.state # "queued" /\ main.seen.attempts < MaxAttempts
  BY DEF MainOK
<1>8. main.at = "free" => main = Free
  BY DEF MainOK
<1> QED BY <1>1, <1>2, <1>3, <1>4, <1>5, <1>6, <1>7, <1>8, <1>9 DEF MainOK

LEMMA MainFreed ==
  ASSUME MainOK, alive, alive' = alive, main' = Free
  PROVE  MainOK'
  BY DEF MainOK, Free

LEMMA Constants ==
  /\ MaxAttempts \in Nat /\ MaxAttempts > 0 /\ MaxParallel \in Nat /\ MaxParallel > 0
  /\ ReviewRounds \in Nat /\ MaxRetries \in Nat /\ MaxStarts \in Nat /\ MaxLen \in Nat /\ MaxTickets \in Nat
  /\ PlanSteps \in Nat /\ NoTask \notin Tasks
  BY LoopAssumption

LEMMA InitHolds == Init => IInv
<1> SUFFICES ASSUME Init PROVE IInv
  OBVIOUS
<1>1. TypeOK
  <2>1. Absent \in TaskRow
    BY Constants DEF Absent, TaskRow, States
  <2>2. NoJob \in Job
    BY Constants DEF NoJob, NoOut, Job, Outcome, Statuses
  <2>3. Free \in Main
    BY Constants, <2>1 DEF Free, Main, MainPoint
  <2> QED BY <2>1, <2>2, <2>3, Constants DEF Init, TypeOK
<1>2. \A t \in Tasks : ~Active(t) /\ jobs[t].step = 0 /\ jobs[t].at = "none"
  BY DEF Init, Active, NoJob
<1>3. ASSUME NEW t \in Tasks PROVE PlanOK(t) /\ RowOK(t) /\ JobOK(t) /\ PushOK(t)
  <2>1. steps[t] = <<>> /\ task[t] = Absent /\ MaxAttempts > 0 /\ cancel[t] = {}
    BY Constants DEF Init
  <2> QED BY <1>2, <2>1 DEF PlanOK, RowOK, JobOK, PushOK, Absent, ToSkip
<1>4. MainOK
  BY <1>2 DEF MainOK, Init, Free
<1> QED BY <1>1, <1>3, <1>4 DEF IInv, Init

\* A write to one row of the tasks table.
LEMMA RowWrite ==
  ASSUME IInv, NEW t \in Tasks, NEW row \in TaskRow, task' = [task EXCEPT ![t] = row],
         UNCHANGED <<steps, tickets, jobs, alive>>, \A u \in Tasks : cancel'[u] \subseteq cancel[u],
         RowOK(t)', Active(t) => InHand(t)', jobs[t].step # 0 => row.state # "queued",
         TypeOK', MainOK'
  PROVE  IInv'
<1>1. task'[t] = row /\ \A u \in Tasks \ {t} : task'[u] = task[u]
  BY DEF IInv, TypeOK
<1>2. TicketsKeep /\ \A u \in Tasks : NoneNew(u) /\ NoneStale(u)
  BY DEF TicketsKeep, NoneNew, NoneStale
<1>3. ASSUME NEW u \in Tasks \ {t} PROVE PlanOK(u)' /\ RowOK(u)' /\ JobOK(u)' /\ PushOK(u)'
  BY <1>1, <1>2, OthersKeep
<1>4. PlanOK(t)' /\ JobOK(t)' /\ PushOK(t)'
  BY <1>1, <1>2, PlanFrame, JobFrame, PushFrame DEF IInv
<1>5. \A k \in DOMAIN tickets' : TicketOK(k)'
  BY <1>2, TicketFrame DEF IInv
<1> QED BY <1>3, <1>4, <1>5 DEF IInv

\* An owner's or the clock's write to a row, while the main thread may be between
\* two writes of its own.
LEMMA RowWriteOnly ==
  ASSUME IInv, NEW t \in Tasks, NEW row \in TaskRow, task' = [task EXCEPT ![t] = row],
         UNCHANGED <<steps, tickets, jobs, main, flags, alive, starts, tested>>,
         cancel' \in [Tasks -> SUBSET (0..MaxLen)], \A u \in Tasks : cancel'[u] \subseteq cancel[u], retries' \in 0..MaxRetries,
         RowOK(t)', Active(t) \/ main.task = t => InHand(t)',
         jobs[t].step # 0 \/ main.task = t => row.state # "queued"
  PROVE  IInv'
<1>1. task'[t] = row /\ \A u \in Tasks \ {t} : task'[u] = task[u]
  BY DEF IInv, TypeOK
<1>2. TypeOK'
  BY DEF IInv, TypeOK
<1>3. TicketsKeep /\ \A u \in Tasks : NoneNew(u) /\ NoneStale(u)
  BY DEF TicketsKeep, NoneNew, NoneStale
<1>4. \A u \in Tasks : Active(u)' => Active(u)
  BY DEF Active
<1>5. main.at # "free" => InHand(main.task)' /\ task'[main.task].state # "queued"
  <2>1. CASE main.task = t
    BY <2>1, <1>1
  <2>2. CASE main.at # "free" /\ main.task # t
    BY <2>2, <1>1, HandFrame DEF IInv, MainOK
  <2> QED BY <2>1, <2>2
<1>6. MainOK'
  <2>1. MainOK /\ TypeOK /\ (main.at # "free" => main.task \in Tasks)
    BY DEF IInv, MainOK
  <2>2. main.at # "free" =>
          /\ steps'[main.task] = steps[main.task] /\ jobs'[main.task] = jobs[main.task]
          /\ NoneNew(main.task) /\ NoneStale(main.task) /\ cancel'[main.task] \subseteq cancel[main.task]
    BY <1>3, <2>1
  <2> QED BY <1>3, <1>4, <1>5, <2>1, <2>2, MainFrame
<1> QED BY <1>2, <1>6, RowWrite

LEMMA NoneInHand ==
  ASSUME IInv, NEW t \in Tasks, task[t].state \in {"absent", "done"}
  PROVE  ~Active(t) /\ main.task # t
<1>1. ~Active(t)
  BY DEF IInv, JobOK, InHand
<1>2. ASSUME main.task = t PROVE FALSE
  <2>1. main.at # "free"
    BY <1>2, Constants DEF IInv, MainOK, Free
  <2> QED BY <1>2, <2>1 DEF IInv, MainOK, InHand
<1> QED BY <1>1, <1>2

LEMMA FinishNowKeeps ==
  ASSUME IInv, NEW t \in Tasks, FinishNow(t)
  PROVE  IInv'
<1>1. /\ main = Free /\ alive /\ ~Active(t) /\ Unfinished(t) = {} /\ task[t].state \in {"ready", "review"}
  BY DEF FinishNow, Candidate, Idle, IInv, MainOK
<1> DEFINE row == [task[t] EXCEPT !.state = "done"]
<1>2. row \in TaskRow /\ task' = [task EXCEPT ![t] = row] /\ row.state = "done" /\ row.attempts = task[t].attempts
  BY DEF FinishNow, SetTask, IInv, TypeOK, TaskRow, States
<1>3. \A i \in DOMAIN steps[t] : Finished(t, i)
  <2> SUFFICES ASSUME NEW i \in DOMAIN steps[t] PROVE Finished(t, i)
    OBVIOUS
  <2>1. steps[t][i] \in Step
    BY DEF IInv, TypeOK
  <2> QED BY <2>1, <1>1 DEF Unfinished, Finished, Step, StepStates
<1>4. RowOK(t)'
  <2>1. task'[t] = row
    BY <1>2 DEF IInv, TypeOK
  <2>2. task[t].attempts # MaxAttempts
    BY <1>1 DEF IInv, RowOK
  <2>3. \A i \in ToSkip(t)' : i \in DOMAIN steps'[t] /\ Before(t, i)' /\ "cancel" \in OwnerMay
    BY SkipsFrame DEF FinishNow, IInv
  <2> QED BY <2>1, <2>2, <2>3, <1>2, <1>3 DEF RowOK, FinishNow, Finished
<1>5. main.task # t
  BY <1>1, Constants DEF Free
<1>6. jobs[t].step = 0
  BY <1>1 DEF IInv, JobOK
<1> HIDE DEF row
<1>7. retries' \in 0..MaxRetries /\ cancel' = cancel /\ cancel \in [Tasks -> SUBSET (0..MaxLen)]
  BY DEF FinishNow, IInv, TypeOK
<1> QED BY <1>1, <1>2, <1>4, <1>5, <1>6, <1>7, RowWriteOnly DEF FinishNow

LEMMA AddTaskKeeps ==
  ASSUME IInv, NEW t \in Tasks, AddTask(t)
  PROVE  IInv'
<1> DEFINE row == [state |-> "queued", attempts |-> 0, due |-> TRUE]
<1>1. row \in TaskRow /\ row.state = "queued" /\ row.attempts = 0
  BY Constants DEF TaskRow, States
<1>2. task' = [task EXCEPT ![t] = row]
  BY DEF AddTask
<1> HIDE DEF row
<1>3. task'[t] = row
  BY <1>2 DEF IInv, TypeOK
<1>4. steps[t] = <<>> /\ ~Active(t) /\ main.task # t /\ jobs[t].step = 0
  BY NoneInHand DEF AddTask, IInv, RowOK, JobOK
<1>8. ToSkip(t) = {} /\ ToSkip(t)' = {}
  BY DEF ToSkip, AddTask, IInv, RowOK
<1>5. Fresh(t)
  BY <1>4, <1>8 DEF Fresh, IInv, TicketOK
<1>6. RowOK(t)'
  BY <1>1, <1>3, <1>4, <1>5, <1>8, Constants DEF RowOK, AddTask, Fresh, Pristine
<1>7. retries' \in 0..MaxRetries /\ cancel' = cancel /\ cancel \in [Tasks -> SUBSET (0..MaxLen)]
  BY DEF AddTask, IInv, TypeOK
<1> QED BY <1>1, <1>2, <1>4, <1>6, <1>7, RowWriteOnly DEF AddTask

LEMMA TimePassesKeeps ==
  ASSUME IInv, NEW t \in Tasks, TimePasses(t)
  PROVE  IInv'
<1> DEFINE row == [task[t] EXCEPT !.due = TRUE]
<1>1. row \in TaskRow /\ row.state = task[t].state /\ row.attempts = task[t].attempts
  BY DEF TaskRow, IInv, TypeOK
<1>2. task' = [task EXCEPT ![t] = row]
  BY DEF TimePasses
<1> HIDE DEF row
<1>3. task'[t] = row
  BY <1>2 DEF IInv, TypeOK
<1>4. RowOK(t)'
  <2>1. TicketsKeep /\ NoneNew(t) /\ NoneStale(t)
    BY DEF TimePasses, TicketsKeep, NoneNew, NoneStale
  <2> QED BY <2>1, <1>1, <1>3, RowFrame DEF TimePasses, IInv
<1>5. Active(t) \/ main.task = t => InHand(t)' /\ (jobs[t].step # 0 \/ main.task = t => row.state # "queued")
  BY <1>1, <1>3, Constants, HandFrame DEF TimePasses, IInv, MainOK, JobOK, Free
<1>6. jobs[t].step # 0 \/ main.task = t => row.state # "queued"
  BY <1>5 DEF IInv, JobOK
<1>7. retries' \in 0..MaxRetries /\ cancel' = cancel /\ cancel \in [Tasks -> SUBSET (0..MaxLen)]
  BY DEF TimePasses, IInv, TypeOK
<1> QED BY <1>1, <1>2, <1>4, <1>5, <1>6, <1>7, RowWriteOnly DEF TimePasses

LEMMA RetryKeeps ==
  ASSUME IInv, NEW t \in Tasks, Retry(t)
  PROVE  IInv'
<1> DEFINE row == [state |-> IF steps[t] = <<>> THEN "queued" ELSE "ready", attempts |-> 0, due |-> TRUE]
<1>1. row \in TaskRow /\ row.attempts = 0 /\ row.state \in {"queued", "ready"} /\ (row.state = "queued" <=> steps[t] = <<>>)
  BY Constants DEF TaskRow, States
<1>2. task' = [task EXCEPT ![t] = row]
  BY DEF Retry
<1> HIDE DEF row
<1>3. task'[t] = row
  BY <1>2 DEF IInv, TypeOK
<1>10. \A i \in ToSkip(t)' : i \in DOMAIN steps'[t] /\ Before(t, i)' /\ "cancel" \in OwnerMay
  BY SkipsFrame DEF Retry, IInv
<1>4. steps[t] = <<>> => Fresh(t) /\ ToSkip(t)' = {}
  <2> HAVE steps[t] = <<>>
  <2>1. ToSkip(t) = {} /\ ToSkip(t)' = {}
    BY <1>10 DEF IInv, RowOK, Retry
  <2> QED BY <2>1 DEF Fresh, IInv, TicketOK
<1>5. RowOK(t)'
  BY <1>1, <1>3, <1>4, <1>10, Constants DEF RowOK, Retry, Fresh, Pristine
<1>6. Active(t) \/ main.task = t => InHand(t)'
  BY <1>1, <1>3, Constants DEF Retry, IInv, MainOK, JobOK, InHand, Free
<1>7. jobs[t].step # 0 => row.state # "queued"
  BY <1>1 DEF IInv, JobOK, AtFront
<1>8. main.task = t => row.state # "queued"
  <2> SUFFICES ASSUME main.task = t, steps[t] = <<>> PROVE FALSE
    BY <1>1
  <2>1. main.at # "free"
    BY Constants DEF IInv, MainOK, Free
  <2> QED BY <2>1 DEF IInv, MainOK
<1>9. retries' \in 0..MaxRetries /\ cancel' = cancel /\ cancel \in [Tasks -> SUBSET (0..MaxLen)]
  BY Constants DEF Retry, IInv, TypeOK
<1> QED BY <1>1, <1>2, <1>5, <1>6, <1>7, <1>8, <1>9, RowWriteOnly DEF Retry

LEMMA CancelTaskKeeps ==
  ASSUME IInv, NEW t \in Tasks, CancelTask(t)
  PROVE  IInv'
<1> DEFINE row == [task[t] EXCEPT !.state = "cancelled"]
<1>1. row \in TaskRow /\ row.state = "cancelled" /\ row.attempts = task[t].attempts
  BY DEF TaskRow, States, IInv, TypeOK
<1>2. task' = [task EXCEPT ![t] = row]
  BY DEF CancelTask, SetTask
<1> HIDE DEF row
<1>3. task'[t] = row
  BY <1>2 DEF IInv, TypeOK
<1>0. cancel[t] = {0} /\ cancel' = [cancel EXCEPT ![t] = {}] /\ cancel \in [Tasks -> SUBSET (0..MaxLen)] /\ UNCHANGED steps
  BY DEF CancelTask, IInv, TypeOK
<1>7. cancel'[t] = {} /\ cancel' \in [Tasks -> SUBSET (0..MaxLen)] /\ \A u \in Tasks : cancel'[u] \subseteq cancel[u]
  BY <1>0
<1>8. ToSkip(t)' = {}
  BY <1>7 DEF ToSkip
<1>4. RowOK(t)'
  BY <1>1, <1>3, <1>7, <1>8 DEF RowOK, CancelTask, IInv
<1>5. Active(t) \/ main.task = t => InHand(t)'
  BY <1>1, <1>3, Constants DEF CancelTask, IInv, MainOK, JobOK, InHand, Free
<1>6. retries' \in 0..MaxRetries
  BY DEF CancelTask, IInv, TypeOK
<1> QED BY <1>1, <1>2, <1>4, <1>5, <1>6, <1>7, RowWriteOnly DEF CancelTask

\* The main thread's second write, and the end of what it was at.
LEMMA RowWriteLast ==
  ASSUME IInv, alive, NEW t \in Tasks, main.task = t,
         NEW row \in TaskRow, task' = [task EXCEPT ![t] = row], main' = Free,
         UNCHANGED <<steps, tickets, jobs, flags, alive, cancel, starts, retries, tested>>,
         RowOK(t)'
  PROVE  IInv'
<1>1. ~Active(t) /\ jobs[t].step = 0
  BY Constants DEF IInv, MainOK, JobOK, Free
<1>2. Free \in Main
  BY Constants DEF Free, Main, MainPoint, Absent, TaskRow, States
<1>3. TypeOK' /\ cancel' \subseteq cancel
  BY <1>2 DEF IInv, TypeOK
<1>4. MainOK'
  BY MainFreed DEF IInv
<1> QED BY <1>1, <1>3, <1>4, RowWrite

\* What the second write makes of the row: a task is given up at its limit only.
LEMMA SecondWriteRow ==
  ASSUME IInv, main.at \in Statuses \cup {"opened", "refused"}, main.at # "split",
         NEW row, row = SecondWrite(main.task, task[main.task])
  PROVE  /\ row \in TaskRow /\ row.state \notin {"absent", "queued"}
         /\ row.state = "done" => ~Left(main.task)
         /\ row.attempts = MaxAttempts => row.state = "needs_owner" /\ main.at \in {"fail", "supersede"}
<1> DEFINE old == task[main.task]
<1>1. /\ old \in TaskRow /\ old.state \notin {"absent", "queued", "done"} /\ old.attempts < MaxAttempts
      /\ main.seen \in TaskRow /\ main.seen.attempts < MaxAttempts /\ main.seen.state # "queued"
      /\ main.at # "none" /\ main.at # "free"
  BY DEF IInv, TypeOK, MainOK, Main, MainPoint, InHand, Statuses
<1> HIDE DEF old
<1>2. CASE main.at \in {"fail", "supersede"}
  <2>1. row = FailedRow(main.task, old)
    BY <1>2 DEF SecondWrite, old
  <2>2. main.seen.attempts + 1 \in 0..MaxAttempts
    BY <1>1, Constants DEF TaskRow
  <2>3. CASE main.seen.attempts + 1 >= MaxAttempts
    BY <1>1, <1>2, <2>1, <2>2, <2>3 DEF FailedRow, TaskRow, States
  <2>4. CASE ~(main.seen.attempts + 1 >= MaxAttempts)
    <3>1. row = [old EXCEPT !.attempts = main.seen.attempts + 1, !.due = FALSE]
      BY <2>1, <2>4 DEF FailedRow
    <3>2. row \in TaskRow /\ row.state = old.state /\ row.attempts = main.seen.attempts + 1
      BY <1>1, <2>2, <3>1 DEF TaskRow
    <3> QED BY <1>1, <2>2, <2>4, <3>2, Constants
  <2> QED BY <2>3, <2>4
<1>3. CASE main.at \notin {"fail", "supersede"}
  <2>1. row.attempts = old.attempts
    BY <1>1, <1>3 DEF SecondWrite, old, Statuses, TaskRow
  <2>2. row \in TaskRow /\ row.state \notin {"absent", "queued"}
    BY <1>1, <1>3 DEF SecondWrite, old, Statuses, TaskRow, States
  <2>3. row.state = "done" => ~Left(main.task)
    BY <1>1, <1>3 DEF SecondWrite, old, Statuses, TaskRow
  <2> QED BY <1>1, <2>1, <2>2, <2>3, Constants
<1> QED BY <1>2, <1>3

LEMMA AllFinished ==
  ASSUME TypeOK, NEW t \in Tasks, Unfinished(t) = {}
  PROVE  \A i \in DOMAIN steps[t] : Finished(t, i)
<1> SUFFICES ASSUME NEW i \in DOMAIN steps[t] PROVE Finished(t, i)
  OBVIOUS
<1>1. steps[t][i] \in Step
  BY DEF TypeOK
<1> QED BY <1>1 DEF Unfinished, Finished, Step, StepStates

LEMMA WriteTaskKeeps ==
  ASSUME IInv, WriteTask
  PROVE  IInv'
<1> PICK t : t = main.task
  OBVIOUS
<1> DEFINE row == SecondWrite(t, task[t])
<1>1. /\ row \in TaskRow /\ row.state \notin {"absent", "queued"}
      /\ row.state = "done" => ~Left(t)
      /\ row.attempts = MaxAttempts => row.state = "needs_owner" /\ main.at \in {"fail", "supersede"}
  BY SecondWriteRow DEF WriteTask
<1>2. task' = [task EXCEPT ![t] = row] /\ main.at # "free"
  BY DEF WriteTask, Statuses
<1>3. t \in Tasks
  BY <1>2 DEF IInv, MainOK
<1> HIDE DEF row
<1>4. task'[t] = row
  BY <1>2, <1>3 DEF IInv, TypeOK
<1>5. ~Left(t) => \A i \in DOMAIN steps[t] : Finished(t, i)
  BY <1>3, AllFinished DEF Left, IInv
<1>6. main.at \in {"fail", "supersede"} => \A i \in DOMAIN steps[t] : steps[t][i].state # "waiting"
  <2> SUFFICES ASSUME main.at \in {"fail", "supersede"}, NEW i \in DOMAIN steps[t]
               PROVE  steps[t][i].state # "waiting"
    OBVIOUS
  <2>1. /\ main.step \in DOMAIN steps[t] /\ steps[t][main.step].state \in {"failed", "skipped"}
        /\ Before(t, main.step) /\ Behind(t, main.step)
    BY DEF IInv, MainOK, Written, AtFront
  <2>2. i \in Nat /\ main.step \in Nat
    BY <1>3, <2>1 DEF IInv, TypeOK
  <2> QED BY <2>1, <2>2 DEF Before, Behind, Finished, Pristine
<1>8. \A i \in ToSkip(t)' : i \in DOMAIN steps'[t] /\ Before(t, i)' /\ "cancel" \in OwnerMay
  BY <1>3, SkipsFrame DEF WriteTask, IInv
<1>7. RowOK(t)'
  BY <1>1, <1>4, <1>5, <1>6, <1>8 DEF RowOK, WriteTask, Finished
<1> QED BY <1>1, <1>2, <1>3, <1>7, RowWriteLast DEF WriteTask

LEMMA ResumeKeeps ==
  ASSUME IInv, Resume
  PROVE  IInv'
<1> PICK t : t = main.task
  OBVIOUS
<1> DEFINE go == ~Blocked(t) /\ main.seen.state = "waiting"
           row == IF go THEN [task[t] EXCEPT !.state = "ready"] ELSE task[t]
<1>1. t \in Tasks /\ InHand(t)
  BY DEF IInv, MainOK, Resume
<1>2. row \in TaskRow /\ row.attempts = task[t].attempts /\ row.state \in {task[t].state, "ready"}
  <2>1. task[t] \in TaskRow
    BY <1>1 DEF IInv, TypeOK
  <2>2. /\ [task[t] EXCEPT !.state = "ready"] \in TaskRow
        /\ [task[t] EXCEPT !.state = "ready"].attempts = task[t].attempts
        /\ [task[t] EXCEPT !.state = "ready"].state = "ready"
    BY ONLY <2>1 DEF TaskRow, States
  <2> QED BY <2>1, <2>2
<1>3. task' = [task EXCEPT ![t] = row]
  BY <1>1 DEF Resume, SetTask, IInv, TypeOK
<1> HIDE DEF row
<1>4. task'[t] = row
  BY <1>1, <1>3 DEF IInv, TypeOK
<1>6. \A i \in ToSkip(t)' : i \in DOMAIN steps'[t] /\ Before(t, i)' /\ "cancel" \in OwnerMay
  BY <1>1, SkipsFrame DEF Resume, IInv
<1>5. RowOK(t)'
  BY Constants, <1>1, <1>2, <1>4, <1>6 DEF RowOK, Resume, IInv, MainOK, InHand, Free
<1> QED BY <1>1, <1>2, <1>3, <1>5, RowWriteLast DEF Resume

-----------------------------------------------------------------------------
(* Workers *)

\* A worker and the main thread are never at the same task.
LEMMA Apart ==
  ASSUME IInv, NEW t \in Tasks, Active(t)
  PROVE  main.task # t /\ alive /\ InHand(t)
  BY Constants DEF IInv, JobOK, MainOK, InHand, Free

\* What a worker of t does to its own job and to the tickets of t.
LEMMA WorkerKeeps ==
  ASSUME IInv, NEW t \in Tasks, alive, main.task # t, NEW j \in Job, jobs' = [jobs EXCEPT ![t] = j],
         UNCHANGED <<task, steps, main, alive, cancel>>, TypeOK',
         TicketsKeep, \A u \in Tasks \ {t} : NoneNew(u),
         \A k \in DOMAIN tickets : tickets'[k].stale => tickets[k].stale \/ tickets[k].task = t,
         \A k \in DOMAIN tickets' : (k \in DOMAIN tickets /\ (tickets'[k].stale => tickets[k].stale)) \/ TicketOK(k)',
         RowOK(t)', JobOK(t)', PushOK(t)'
  PROVE  IInv'
<1>1. jobs'[t] = j /\ \A u \in Tasks \ {t} : jobs'[u] = jobs[u]
  BY DEF IInv, TypeOK
<1>2. ASSUME NEW u \in Tasks \ {t} PROVE PlanOK(u)' /\ RowOK(u)' /\ JobOK(u)' /\ PushOK(u)'
  <2>1. NoneStale(u)
    BY DEF NoneStale
  <2> QED BY <1>1, <2>1, OthersKeep
<1>3. PlanOK(t)'
  BY PlanFrame DEF IInv
<1>4. \A k \in DOMAIN tickets' : TicketOK(k)'
  BY TicketFrame DEF IInv
<1>5. MainOK'
  <2>1. main.at # "free" =>
          /\ main.task \in Tasks /\ InHand(main.task)' /\ task'[main.task].state # "queued"
          /\ NoneNew(main.task) /\ NoneStale(main.task) /\ jobs'[main.task] = jobs[main.task]
    BY <1>1 DEF IInv, MainOK, InHand, NoneStale
  <2> QED BY <2>1, MainFrame DEF IInv
<1> QED BY <1>2, <1>3, <1>4, <1>5, RowOK(t)', JobOK(t)', PushOK(t)' DEF IInv

\* A worker that only moves on.
LEMMA WorkerMoves ==
  ASSUME IInv, NEW t \in Tasks, alive, main.task # t, NEW j \in Job, jobs' = [jobs EXCEPT ![t] = j],
         UNCHANGED <<task, steps, tickets, main, flags, alive, cancel, starts, retries>>,
         tested' \in [Tasks -> BOOLEAN],
         JobOK(t)', PushOK(t)'
  PROVE  IInv'
<1>1. TypeOK'
  BY DEF IInv, TypeOK
<1>2. TicketsKeep /\ \A u \in Tasks : NoneNew(u) /\ NoneStale(u)
  BY DEF TicketsKeep, NoneNew, NoneStale
<1>3. RowOK(t)'
  BY <1>2, RowFrame DEF IInv
<1> QED BY <1>1, <1>2, <1>3, WorkerKeeps

\* The outcome a worker leaves for the main thread.
LEMMA Ended ==
  ASSUME TypeOK, NEW t \in Tasks, NEW status \in Statuses, NEW k \in 0..MaxTickets, Ends(t, status, k)
  PROVE  /\ jobs'[t] \in Job /\ jobs' = [jobs EXCEPT ![t] = jobs'[t]]
         /\ jobs'[t].at = "end" /\ jobs'[t].step = jobs[t].step
         /\ jobs'[t].out = [status |-> status, ticket |-> k]
<1> DEFINE o == [status |-> status, ticket |-> k]
           j == [jobs[t] EXCEPT !.at = "end", !.out = o]
<1>1. jobs[t] \in Job /\ jobs \in [Tasks -> Job]
  BY DEF TypeOK
<1>2. o \in Outcome
  BY DEF Outcome
<1> HIDE DEF o
<1>3. j \in Job /\ j.at = "end" /\ j.step = jobs[t].step /\ j.out = o
  BY <1>1, <1>2 DEF Job
<1>4. jobs' = [jobs EXCEPT ![t] = j]
  BY <1>1 DEF Ends, o
<1> HIDE DEF j
<1>5. jobs'[t] = j
  BY <1>1, <1>4
<1> QED BY <1>3, <1>4, <1>5 DEF o

LEMMA Moved ==
  ASSUME TypeOK, NEW t \in Tasks, NEW p \in {"planned", "cleared", "end"}, jobs' = [jobs EXCEPT ![t].at = p]
  PROVE  /\ jobs'[t] \in Job /\ jobs' = [jobs EXCEPT ![t] = jobs'[t]]
         /\ jobs'[t].at = p /\ jobs'[t].step = jobs[t].step /\ jobs'[t].out = jobs[t].out
<1> DEFINE j == [jobs[t] EXCEPT !.at = p]
<1>1. jobs[t] \in Job /\ jobs \in [Tasks -> Job]
  BY DEF TypeOK
<1>2. j \in Job /\ j.at = p /\ j.step = jobs[t].step /\ j.out = jobs[t].out
  BY <1>1 DEF Job
<1>3. jobs' = [jobs EXCEPT ![t] = j]
  BY <1>1
<1> HIDE DEF j
<1>4. jobs'[t] = j
  BY <1>1, <1>3
<1> QED BY <1>2, <1>3, <1>4

\* A step that ends has not moved and has an outcome.
LEMMA EndedJob ==
  ASSUME IInv, NEW t \in Tasks, Active(t), jobs[t].step # 0, NEW status \in Statuses, NEW k,
         UNCHANGED <<task, steps, alive, cancel>>, Reached(t, jobs[t].step)',
         jobs'[t].at = "end", jobs'[t].step = jobs[t].step, jobs'[t].out = [status |-> status, ticket |-> k],
         status # "none",
         status = "park" => Fits(t, jobs[t].step, k)',
         status = "split" => Kind(t) = "code"
  PROVE  JobOK(t)' /\ PushOK(t)'
<1>1. PushOK(t)'
  BY DEF PushOK
<1>2. Active(t)' /\ InHand(t)' /\ jobs'[t].step = jobs[t].step /\ jobs'[t].at = "end"
  BY Apart DEF Active, InHand
<1>3. /\ AtFront(t, jobs[t].step) /\ task[t].state # "queued"
      /\ steps[t][jobs[t].step].state = "running" \/ ("cancel" \in OwnerMay /\ steps[t][jobs[t].step].state = "skipped")
      /\ \A i \in DOMAIN steps[t] : steps[t][i].state = "running" => ~alive \/ jobs[t].step = i
  BY DEF IInv, JobOK
<1>4. AtFront(t, jobs[t].step)'
  BY <1>2, <1>3, FrontFrame
<1>5. Kind(t)' = Kind(t)
  BY <1>2 DEF Kind
<1>6. status = "park" => Fits(t, jobs[t].step, k)'
  OBVIOUS
<1>7. jobs'[t].out.status = status /\ jobs'[t].out.ticket = k
  OBVIOUS
<1> QED BY <1>1, <1>2, <1>3, <1>4, <1>5, <1>6, <1>7 DEF JobOK

LEMMA ReturnKeeps ==
  ASSUME IInv, NEW t \in Tasks, NEW status \in Statuses, Active(t), jobs[t].step # 0,
         Ends(t, status, 0), status \notin {"none", "park"}, status = "split" => Kind(t) = "code",
         UNCHANGED loopVars, tested' \in [Tasks -> BOOLEAN]
  PROVE  IInv'
<1>1. 0 \in 0..MaxTickets /\ TypeOK
  BY Constants DEF IInv
<1>2. /\ jobs'[t] \in Job /\ jobs' = [jobs EXCEPT ![t] = jobs'[t]]
      /\ jobs'[t].at = "end" /\ jobs'[t].step = jobs[t].step /\ jobs'[t].out = [status |-> status, ticket |-> 0]
  BY <1>1, Ended
<1>3. TicketsKeep /\ NoneNew(t) /\ NoneStale(t) /\ UNCHANGED <<task, steps, alive, cancel>>
  BY DEF TicketsKeep, NoneNew, NoneStale, loopVars
<1>5. Reached(t, jobs[t].step)'
  BY <1>2, <1>3, ReachedFrame DEF IInv, JobOK
<1>4. JobOK(t)' /\ PushOK(t)'
  BY <1>2, <1>3, <1>5, EndedJob
<1> QED BY <1>2, <1>4, Apart, WorkerMoves DEF loopVars

LEMMA AtStep ==
  ASSUME IInv, NEW t \in Tasks, jobs[t].at \in {"run", "cleared"}
  PROVE  /\ Active(t) /\ jobs[t].step # 0 /\ jobs[t].step \in DOMAIN steps[t]
         /\ Before(t, jobs[t].step) /\ Behind(t, jobs[t].step) /\ task[t].state # "queued"
         /\ AtFront(t, jobs[t].step) /\ Reached(t, jobs[t].step)
         /\ steps[t][jobs[t].step].state = "running" \/ ("cancel" \in OwnerMay /\ steps[t][jobs[t].step].state = "skipped")
  BY DEF IInv, JobOK, Active, AtFront

LEMMA ReturnsStatuses ==
  ASSUME IInv, NEW t \in Tasks, jobs[t].at = "run", NEW status \in Returns(Kind(t))
  PROVE  status \in {"done", "defer", "fail", "owner", "skip", "wait"}
<1>1. steps[t][jobs[t].step] \in Step
  BY AtStep DEF IInv, TypeOK
<1>2. Kind(t) \in Kinds
  BY <1>1 DEF Kind, Step
<1> QED BY <1>2 DEF Returns, Kinds

LEMMA DispatchPlanKeeps ==
  ASSUME IInv, NEW t \in Tasks, DispatchPlan(t)
  PROVE  IInv'
<1> DEFINE j == [NoJob EXCEPT !.at = "plan"]
<1>1. j \in Job /\ j.at = "plan" /\ j.step = 0
  BY Constants DEF NoJob, NoOut, Job, Outcome, Statuses
<1>2. jobs' = [jobs EXCEPT ![t] = j]
  BY DEF DispatchPlan
<1> HIDE DEF j
<1>3. jobs'[t] = j
  BY <1>2 DEF IInv, TypeOK
<1>4. alive /\ main = Free /\ ~Active(t) /\ task[t].state = "queued"
  BY DEF DispatchPlan, Candidate, Idle, IInv, MainOK
<1>5. Fresh(t) /\ InHand(t)
  <2>1. RowOK(t) /\ task[t] \in TaskRow
    BY DEF IInv, TypeOK
  <2> QED BY <1>4, <2>1, Constants DEF RowOK, InHand, TaskRow
<1>6. Fresh(t)' /\ InHand(t)'
  BY <1>5 DEF DispatchPlan, loopVars, Fresh, Pristine, InHand, ToSkip
<1>7. JobOK(t)'
  BY <1>1, <1>3, <1>6 DEF JobOK, Active, Fresh, Pristine
<1>8. PushOK(t)'
  BY <1>1, <1>3 DEF PushOK
<1>9. main.task # t /\ tested' \in [Tasks -> BOOLEAN]
  BY <1>4, Constants DEF Free, IInv, TypeOK, DispatchPlan
<1> QED BY <1>1, <1>2, <1>4, <1>7, <1>8, <1>9, WorkerMoves DEF DispatchPlan, loopVars

LEMMA PlanRaisesKeeps ==
  ASSUME IInv, NEW t \in Tasks, PlanRaises(t)
  PROVE  IInv'
<1>1. Active(t) /\ jobs[t].step = 0 /\ Fresh(t)
  BY DEF PlanRaises, IInv, JobOK, Active
<1>2. /\ jobs'[t] \in Job /\ jobs' = [jobs EXCEPT ![t] = jobs'[t]]
      /\ jobs'[t].at = "end" /\ jobs'[t].step = 0
  BY <1>1, Moved DEF PlanRaises, IInv
<1>3. Fresh(t)' /\ InHand(t)' /\ Active(t)'
  BY <1>1, <1>2, Apart DEF PlanRaises, loopVars, Fresh, Pristine, InHand, Active, ToSkip
<1>4. JobOK(t)'
  BY <1>2, <1>3 DEF JobOK, Fresh, Pristine
<1>5. PushOK(t)'
  BY <1>2 DEF PushOK
<1>6. tested' \in [Tasks -> BOOLEAN]
  BY DEF IInv, TypeOK, PlanRaises
<1> QED BY <1>1, <1>2, <1>4, <1>5, <1>6, Apart, WorkerMoves DEF PlanRaises, loopVars

LEMMA StepReturnsKeeps ==
  ASSUME IInv, NEW t \in Tasks, NEW status \in Statuses, Return(t, status) \/ Push(t, status)
  PROVE  IInv'
<1>1. Active(t) /\ jobs[t].step # 0
  BY AtStep DEF Return, Push
<1>2. status \in {"done", "defer", "fail", "owner", "skip", "wait"}
  BY ReturnsStatuses DEF Return, Push
<1>3. tested' \in [Tasks -> BOOLEAN] /\ UNCHANGED loopVars /\ Ends(t, status, 0)
  BY DEF IInv, TypeOK, Return, Push
<1> QED BY <1>1, <1>2, <1>3, ReturnKeeps

LEMMA TestsPassKeeps ==
  ASSUME IInv, NEW t \in Tasks, TestsPass(t)
  PROVE  IInv'
<1>1. Active(t) /\ jobs[t].step # 0
  BY AtStep DEF TestsPass
<1>2. tested' \in [Tasks -> BOOLEAN]
  BY DEF IInv, TypeOK, TestsPass
<1> QED BY <1>1, <1>2, ReturnKeeps DEF TestsPass, Statuses

\* A worker that is let through: its request was approved.
LEMMA ClearedKeeps ==
  ASSUME IInv, NEW t \in Tasks, jobs[t].at = "run", jobs'[t].at = "cleared", jobs'[t].step = jobs[t].step,
         UNCHANGED <<task, steps, alive, cancel>>, Reached(t, jobs[t].step)'
  PROVE  JobOK(t)'
<1>1. /\ Active(t)' /\ InHand(t)' /\ jobs[t].step # 0 /\ task[t].state # "queued"
      /\ steps[t][jobs[t].step].state = "running" \/ ("cancel" \in OwnerMay /\ steps[t][jobs[t].step].state = "skipped")
  BY AtStep, Apart DEF Active, InHand
<1>3. AtFront(t, jobs[t].step)'
  BY AtStep, FrontFrame
<1>2. \A i \in DOMAIN steps[t] : steps[t][i].state = "running" => ~alive \/ jobs[t].step = i
  BY DEF IInv, JobOK
<1> QED BY <1>1, <1>2, <1>3 DEF JobOK

LEMMA GateAgainKeeps ==
  ASSUME IInv, NEW t \in Tasks, GateAgain(t)
  PROVE  IInv'
<1>1. PICK k \in Asked(t) :
        /\ \A i \in Asked(t) : i <= k
        /\ IF tickets[k].state = "approved" THEN jobs' = [jobs EXCEPT ![t].at = "cleared"] ELSE Ends(t, "park", k)
  BY DEF GateAgain
<1>2. Active(t) /\ jobs[t].step # 0 /\ jobs[t].at = "run" /\ Gate(t) # "none" /\ UNCHANGED loopVars /\ TypeOK
  BY AtStep DEF GateAgain, AtGate, IInv
<1>3. k \in DOMAIN tickets /\ k \in 0..MaxTickets /\ tickets[k].task = t /\ tickets[k].step = Scope(t) /\ tickets[k].gate = Gate(t)
  BY Constants DEF Asked, IInv, TypeOK
<1>4. tested' \in [Tasks -> BOOLEAN]
  BY <1>2 DEF TypeOK, GateAgain
<1>7. jobs'[t].step = jobs[t].step => Reached(t, jobs[t].step)'
  <2>1. TicketsKeep /\ NoneNew(t) /\ NoneStale(t) /\ Reached(t, jobs[t].step)
    BY <1>2, AtStep DEF TicketsKeep, NoneNew, NoneStale, loopVars
  <2> QED BY <2>1, ReachedFrame
<1>5. CASE tickets[k].state = "approved"
  <2>1. /\ jobs'[t] \in Job /\ jobs' = [jobs EXCEPT ![t] = jobs'[t]]
        /\ jobs'[t].at = "cleared" /\ jobs'[t].step = jobs[t].step
    BY <1>1, <1>2, <1>5, Moved
  <2>2. JobOK(t)'
    BY <1>2, <1>7, <2>1, ClearedKeeps DEF loopVars
  <2>3. PushOK(t)'
    <3>1. Kind(t)' = Kind(t)
      BY <1>2, <2>1 DEF Kind, loopVars
    <3>2. Gate(t)' = Gate(t) /\ Scope(t)' = Scope(t)
      BY <2>1, <3>1 DEF Gate, Scope
    <3>3. k \in Asked(t)'
      BY <1>2, <3>2 DEF Asked, loopVars
    <3> QED BY <1>2, <1>5, <3>3 DEF PushOK, loopVars
  <2> QED BY <1>2, <1>4, <2>1, <2>2, <2>3, Apart, WorkerMoves DEF loopVars
<1>6. CASE tickets[k].state # "approved"
  <2>1. /\ jobs'[t] \in Job /\ jobs' = [jobs EXCEPT ![t] = jobs'[t]]
        /\ jobs'[t].at = "end" /\ jobs'[t].step = jobs[t].step /\ jobs'[t].out = [status |-> "park", ticket |-> k]
    BY <1>1, <1>2, <1>3, <1>6, Ended DEF Statuses
  <2>2. Fits(t, jobs[t].step, k)'
    <3>1. tickets[k].gate = "game" <=> Kind(t) = "game_action"
      BY <1>2, <1>3 DEF Gate
    <3>2. tickets[k].step \in {0, jobs[t].step}
      BY <1>3 DEF Scope
    <3> QED BY <1>2, <1>3, <2>1, <3>1, <3>2 DEF Fits, loopVars, Kind
  <2>4. JobOK(t)' /\ PushOK(t)'
    BY <1>2, <1>7, <2>1, <2>2, EndedJob DEF loopVars, Statuses
  <2> QED BY <1>2, <1>4, <2>1, <2>4, Apart, WorkerMoves DEF loopVars
<1> QED BY <1>5, <1>6

\* A request that a worker files for the step it runs.
LEMMA Filed ==
  ASSUME IInv, NEW t \in Tasks, jobs[t].at = "run", NEW s, s = jobs[t].step, NEW k \in Ticket, Len(tickets) < MaxTickets,
         tickets' = Append(tickets, k), k.task = t, k.step \in {0, s}, ~k.stale,
         k.gate = "game" <=> Kind(t) = "game_action",
         k.gate = "push" => Kind(t) = "pr",
         k.gate # "code" => k.step # 0,
         UNCHANGED <<task, steps, cancel>>, NEW n, n = Len(tickets) + 1
  PROVE  /\ n \in 1..MaxTickets /\ tickets' \in Seq(Ticket) /\ Len(tickets') <= MaxTickets
         /\ DOMAIN tickets' = DOMAIN tickets \cup {n} /\ tickets'[n] = k /\ n \notin DOMAIN tickets
         /\ TicketsKeep /\ \A u \in Tasks \ {t} : NoneNew(u)
         /\ \A i \in DOMAIN tickets : tickets'[i] = tickets[i]
         /\ TicketOK(n)' /\ Fits(t, s, n)' /\ RowOK(t)' /\ (jobs'[t].step = s => Reached(t, jobs[t].step)')
<1>1. tickets \in Seq(Ticket) /\ Len(tickets) \in Nat /\ MaxTickets \in Nat
  BY Constants DEF IInv, TypeOK
<1>2. /\ n \in 1..MaxTickets /\ tickets' \in Seq(Ticket) /\ Len(tickets') <= MaxTickets
      /\ DOMAIN tickets' = DOMAIN tickets \cup {n} /\ tickets'[n] = k /\ n \notin DOMAIN tickets
      /\ \A i \in DOMAIN tickets : tickets'[i] = tickets[i]
  BY <1>1
<1>3. TicketsKeep /\ \A u \in Tasks \ {t} : NoneNew(u) /\ NoneStale(u)
  BY <1>2 DEF TicketsKeep, NoneNew, NoneStale
<1>4. /\ jobs[t].step \in DOMAIN steps[t] /\ Before(t, jobs[t].step) /\ task[t].state # "queued"
  BY AtStep
<1>5. TicketOK(n)'
  <2>1. steps[t] # <<>>
    BY <1>4
  <2>2. Before(t, s)'
    BY <1>4 DEF Before, Finished
  <2> QED BY <1>2, <1>4, <2>1, <2>2 DEF TicketOK, Kind
<1>6. Fits(t, s, n)'
  BY <1>2 DEF Fits, Kind
<1>7. RowOK(t)'
  BY <1>4 DEF RowOK, IInv, Finished, ToSkip, Before
<1>8. jobs'[t].step = s => Reached(t, jobs[t].step)'
  <2>1. Reached(t, s) /\ s \in Nat
    BY AtStep, Constants DEF IInv, TypeOK, Job
  <2>2. k.step <= s
    BY <2>1
  <2> QED BY <1>2, <2>1, <2>2 DEF Reached
<1> QED BY <1>2, <1>3, <1>5, <1>6, <1>7, <1>8

LEMMA StepInRange ==
  ASSUME IInv, NEW t \in Tasks
  PROVE  jobs[t].step \in 0..MaxLen
  BY DEF IInv, TypeOK, Job

\* A worker that ends, or is let through, with a request it has just filed.
LEMMA FiledKeeps ==
  ASSUME IInv, NEW t \in Tasks, jobs[t].at = "run", NEW s, s = jobs[t].step, NEW k \in Ticket, Len(tickets) < MaxTickets,
         tickets' = Append(tickets, k), k.task = t, k.step \in {0, s}, ~k.stale,
         k.gate = "game" <=> Kind(t) = "game_action",
         k.gate = "push" => Kind(t) = "pr",
         k.gate # "code" => k.step # 0,
         UNCHANGED <<task, steps, main, flags, alive, cancel, starts, retries, tested>>,
         \/ \E status \in {"park", "done", "fail", "owner"}, q \in 0..MaxTickets :
              Ends(t, status, q) /\ (status = "park" => q = Len(tickets) + 1)
         \/ /\ jobs' = [jobs EXCEPT ![t].at = "cleared"]
            /\ k.state = "approved" /\ k.gate = Gate(t) /\ k.step = Scope(t)
  PROVE  IInv'
<1> PICK n : n = Len(tickets) + 1
  OBVIOUS
<1>1. /\ n \in 1..MaxTickets /\ tickets' \in Seq(Ticket) /\ Len(tickets') <= MaxTickets
      /\ DOMAIN tickets' = DOMAIN tickets \cup {n} /\ tickets'[n] = k /\ n \notin DOMAIN tickets
      /\ TicketsKeep /\ \A u \in Tasks \ {t} : NoneNew(u)
      /\ \A i \in DOMAIN tickets : tickets'[i] = tickets[i]
      /\ TicketOK(n)' /\ Fits(t, s, n)' /\ RowOK(t)' /\ (jobs'[t].step = s => Reached(t, jobs[t].step)')
  BY Filed
<1>2. Active(t) /\ jobs[t].step # 0 /\ main.task # t /\ alive
  BY AtStep, Apart
<1>3. TypeOK /\ n \in 0..MaxTickets
  BY <1>1 DEF IInv
<1>4. jobs'[t] \in Job /\ jobs' = [jobs EXCEPT ![t] = jobs'[t]] /\ JobOK(t)' /\ PushOK(t)'
  <2>1. ASSUME NEW status \in {"park", "done", "fail", "owner"}, NEW q \in 0..MaxTickets,
               Ends(t, status, q), status = "park" => q = n
        PROVE  jobs'[t] \in Job /\ jobs' = [jobs EXCEPT ![t] = jobs'[t]] /\ JobOK(t)' /\ PushOK(t)'
    <3>1. status \in Statuses
      BY DEF Statuses
    <3>2. /\ jobs'[t] \in Job /\ jobs' = [jobs EXCEPT ![t] = jobs'[t]]
          /\ jobs'[t].at = "end" /\ jobs'[t].step = jobs[t].step /\ jobs'[t].out = [status |-> status, ticket |-> q]
      BY <1>3, <2>1, <3>1, Ended
    <3>3. (status = "park" => Fits(t, jobs[t].step, q)') /\ Reached(t, jobs[t].step)'
      BY <1>1, <2>1, <3>2
    <3> QED BY <1>1, <1>2, <3>1, <3>2, <3>3, EndedJob
  <2>2. ASSUME jobs' = [jobs EXCEPT ![t].at = "cleared"], k.state = "approved", k.gate = Gate(t), k.step = Scope(t)
        PROVE  jobs'[t] \in Job /\ jobs' = [jobs EXCEPT ![t] = jobs'[t]] /\ JobOK(t)' /\ PushOK(t)'
    <3>1. /\ jobs'[t] \in Job /\ jobs' = [jobs EXCEPT ![t] = jobs'[t]]
          /\ jobs'[t].at = "cleared" /\ jobs'[t].step = jobs[t].step
      BY <1>3, <2>2, Moved
    <3>2. JobOK(t)'
      BY <1>1, <3>1, ClearedKeeps
    <3>3. Kind(t)' = Kind(t)
      BY <3>1 DEF Kind
    <3>4. Gate(t)' = Gate(t) /\ Scope(t)' = Scope(t)
      BY <3>1, <3>3 DEF Gate, Scope
    <3>5. n \in Asked(t)'
      BY <1>1, <2>2, <3>4 DEF Asked
    <3>6. PushOK(t)'
      BY <1>1, <2>2, <3>5 DEF PushOK
    <3> QED BY <3>1, <3>2, <3>6
  <2> QED BY <2>1, <2>2
<1>5. TypeOK'
  BY <1>1, <1>3, <1>4 DEF TypeOK
<1>6. \A i \in DOMAIN tickets' : (i \in DOMAIN tickets /\ (tickets'[i].stale => tickets[i].stale)) \/ TicketOK(i)'
  BY <1>1
<1> QED BY <1>1, <1>2, <1>4, <1>5, <1>6, WorkerKeeps

LEMMA FileActionKeeps ==
  ASSUME IInv, NEW t \in Tasks, NEW s \in {"pending", "approved", "denied"}, NEW heard \in BOOLEAN, FileAction(t, s, heard)
  PROVE  IInv'
<1> DEFINE k == Filing("game", t, jobs[t].step, s, heard)
<1>1. k \in Ticket /\ k.task = t /\ k.step = jobs[t].step /\ ~k.stale /\ k.gate = "game"
  BY StepInRange DEF Ticket, Filing
<1>2. tickets' = Append(tickets, k) /\ Kind(t) = "game_action" /\ jobs[t].at = "run" /\ Len(tickets) < MaxTickets
  BY DEF FileAction
<1> HIDE DEF k
<1>3. jobs[t].step # 0
  BY <1>2, AtStep
<1>4. \E status \in {"park", "done", "fail", "owner"}, q \in 0..MaxTickets :
        Ends(t, status, q) /\ (status = "park" => q = Len(tickets) + 1)
  <2>1. 0 \in 0..MaxTickets /\ Len(tickets) + 1 \in 0..MaxTickets
    BY <1>2, Constants DEF IInv, TypeOK
  <2> QED BY <2>1 DEF FileAction
<1> QED BY <1>1, <1>2, <1>3, <1>4, FiledKeeps DEF FileAction

LEMMA GateNewKeeps ==
  ASSUME IInv, NEW t \in Tasks, NEW s \in {"pending", "approved", "denied"}, GateNew(t, s)
  PROVE  IInv'
<1> DEFINE k == Filing(Gate(t), t, Scope(t), s, TRUE)
<1>1. Gate(t) \in {"code", "push"} /\ jobs[t].at = "run" /\ jobs[t].step # 0
  BY AtStep DEF GateNew, AtGate, Gate
<1>2. Scope(t) \in {0, jobs[t].step} /\ (Gate(t) # "code" => Scope(t) = jobs[t].step)
  BY DEF Scope
<1>3. k \in Ticket /\ k.task = t /\ k.step = Scope(t) /\ ~k.stale /\ k.gate = Gate(t) /\ k.state = s
  BY <1>1, <1>2, StepInRange, Constants DEF Ticket, Filing
<1>4. tickets' = Append(tickets, k) /\ Len(tickets) < MaxTickets
  BY DEF GateNew
<1> HIDE DEF k
<1>5. (Gate(t) = "push" => Kind(t) = "pr") /\ Kind(t) # "game_action"
  BY <1>1 DEF Gate
<1>6. \/ jobs' = [jobs EXCEPT ![t].at = "cleared"] /\ k.state = "approved"
      \/ \E status \in {"park", "done", "fail", "owner"}, q \in 0..MaxTickets :
           Ends(t, status, q) /\ (status = "park" => q = Len(tickets) + 1)
  <2>1. 0 \in 0..MaxTickets /\ Len(tickets) + 1 \in 0..MaxTickets
    BY <1>4, Constants DEF IInv, TypeOK
  <2> QED BY <2>1, <1>3 DEF GateNew
<1> QED BY <1>1, <1>2, <1>3, <1>4, <1>5, <1>6, FiledKeeps DEF GateNew

\* The tickets of a coding session's task: what was asked to be pushed is stale.
LEMMA StaleTickets ==
  ASSUME IInv, NEW t \in Tasks, NEW status, CodeSession(t, status)
  PROVE  /\ tickets' \in Seq(Ticket) /\ Len(tickets') = Len(tickets) /\ DOMAIN tickets' = DOMAIN tickets
         /\ TicketsKeep /\ \A u \in Tasks : NoneNew(u)
         /\ \A k \in DOMAIN tickets : tickets'[k].stale => tickets[k].stale \/ (tickets[k].task = t /\ tickets[k].gate = "push")
<1> DEFINE T(k) == IF tickets[k].gate = "push" /\ tickets[k].task = t THEN [tickets[k] EXCEPT !.stale = TRUE] ELSE tickets[k]
<1>1. tickets \in Seq(Ticket) /\ tickets' = [k \in DOMAIN tickets |-> T(k)]
  BY DEF IInv, TypeOK, CodeSession
<1>2. ASSUME NEW k \in DOMAIN tickets
      PROVE  /\ T(k) \in Ticket /\ T(k).gate = tickets[k].gate /\ T(k).task = tickets[k].task
             /\ T(k).step = tickets[k].step /\ T(k).state = tickets[k].state /\ T(k).heard = tickets[k].heard
             /\ T(k).stale => tickets[k].stale \/ (tickets[k].task = t /\ tickets[k].gate = "push")
  <2>1. tickets[k] \in Ticket
    BY <1>1
  <2> QED BY <2>1 DEF Ticket
<1> HIDE DEF T
<1>3. \A k \in DOMAIN tickets : tickets'[k] = T(k)
  BY <1>1
<1>4. tickets' \in Seq(Ticket) /\ Len(tickets') = Len(tickets) /\ DOMAIN tickets' = DOMAIN tickets
  BY <1>1, <1>2
<1> QED BY <1>2, <1>3, <1>4 DEF TicketsKeep, NoneNew

LEMMA CodeSessionKeeps ==
  ASSUME IInv, NEW t \in Tasks, NEW status \in Statuses, CodeSession(t, status)
  PROVE  IInv'
<1>1. /\ tickets' \in Seq(Ticket) /\ Len(tickets') = Len(tickets) /\ DOMAIN tickets' = DOMAIN tickets
      /\ TicketsKeep /\ \A u \in Tasks : NoneNew(u)
      /\ \A k \in DOMAIN tickets : tickets'[k].stale => tickets[k].stale \/ (tickets[k].task = t /\ tickets[k].gate = "push")
  BY StaleTickets
<1>2. /\ Active(t) /\ jobs[t].step # 0 /\ main.task # t /\ alive
      /\ status \in {"done", "fail", "defer", "split"} /\ (status = "split" => Kind(t) = "code")
      /\ Kind(t) \in {"code", "part"} /\ TypeOK
  BY AtStep, Apart DEF CodeSession, Gate, IInv
<1>3. 0 \in 0..MaxTickets
  BY Constants
<1>4. /\ jobs'[t] \in Job /\ jobs' = [jobs EXCEPT ![t] = jobs'[t]]
      /\ jobs'[t].at = "end" /\ jobs'[t].step = jobs[t].step /\ jobs'[t].out = [status |-> status, ticket |-> 0]
  BY <1>2, <1>3, Ended DEF CodeSession
<1>11. Reached(t, jobs[t].step)'
  <2>1. Reached(t, jobs[t].step) /\ \A k \in DOMAIN tickets : TicketOK(k)
    BY AtStep DEF CodeSession, IInv
  <2>2. ASSUME NEW k \in DOMAIN tickets, tickets[k].task = t, tickets[k].gate = "push"
        PROVE  tickets[k].step # jobs[t].step
    BY <1>2, <2>1, <2>2 DEF TicketOK, Kind
  <2> QED BY <1>1, <1>4, <2>1, <2>2 DEF Reached, TicketsKeep
<1>5. JobOK(t)' /\ PushOK(t)'
  BY <1>1, <1>2, <1>4, <1>11, EndedJob DEF CodeSession
<1>6. TypeOK'
  BY <1>1, <1>2, <1>4 DEF TypeOK, CodeSession
<1>7. RowOK(t)'
  BY <1>1, RowFrame DEF CodeSession, IInv
<1>8. ASSUME NEW k \in DOMAIN tickets', ~(tickets'[k].stale => tickets[k].stale) PROVE TicketOK(k)'
  <2>1. tickets[k].task = t /\ tickets[k].gate = "push" /\ TicketOK(k)
    BY <1>1, <1>8 DEF IInv
  <2>2. PICK i : i = tickets[k].step
    OBVIOUS
  <2>3. i # 0 /\ i \in DOMAIN steps[t] /\ steps[t][i].kind = "pr" /\ Before(t, i) /\ steps[t] # <<>>
    BY <2>1, <2>2 DEF TicketOK
  <2>4. PICK c : c = jobs[t].step
    OBVIOUS
  <2>5. c \in DOMAIN steps[t] /\ Before(t, c) /\ Reached(t, c)
    BY <2>4, AtStep DEF CodeSession
  <2>6. i \in Nat /\ c \in Nat
    BY <2>3, <2>5, <1>2 DEF TypeOK
  <2>7. Finished(t, i)
    <3>1. c # i
      BY <2>3, <2>4, <1>2 DEF Kind
    <3>2. ~(c < i)
      BY <1>1, <1>8, <2>1, <2>2, <2>5, <2>6 DEF Reached
    <3> QED BY <2>3, <2>5, <2>6, <3>1, <3>2 DEF Before
  <2>8. tickets'[k].task = t /\ tickets'[k].step = i /\ tickets'[k].gate = "push"
    BY <1>1, <1>8, <2>1, <2>2 DEF TicketsKeep
  <2>9. UNCHANGED steps
    BY DEF CodeSession
  <2>10. Before(t, i)' /\ Finished(t, i)'
    BY <2>3, <2>7, <2>9 DEF Before, Finished
  <2> QED BY <2>3, <2>8, <2>9, <2>10 DEF TicketOK
<1>9. \A k \in DOMAIN tickets : tickets'[k].stale => tickets[k].stale \/ tickets[k].task = t
  BY <1>1
<1>10. \A k \in DOMAIN tickets' : (k \in DOMAIN tickets /\ (tickets'[k].stale => tickets[k].stale)) \/ TicketOK(k)'
  BY <1>1, <1>8
<1> QED BY <1>1, <1>2, <1>4, <1>5, <1>6, <1>7, <1>9, <1>10, WorkerKeeps DEF CodeSession

LEMMA PlannedKeeps ==
  ASSUME IInv, NEW t \in Tasks, Planned(t)
  PROVE  IInv'
<1>1. Active(t) /\ jobs[t].step = 0 /\ Fresh(t) /\ main.task # t /\ alive /\ InHand(t)
  BY Apart DEF Planned, IInv, JobOK, Active
<1> DEFINE row == [task[t] EXCEPT !.state = "ready"]
<1>2. row \in TaskRow /\ row.state = "ready" /\ row.attempts = task[t].attempts
  BY DEF TaskRow, States, IInv, TypeOK
<1>3. task' = [task EXCEPT ![t] = row]
  BY DEF Planned, SetTask
<1> HIDE DEF row
<1>4. task'[t] = row /\ \A u \in Tasks \ {t} : task'[u] = task[u]
  BY <1>3 DEF IInv, TypeOK
<1>5. /\ jobs'[t] \in Job /\ jobs' = [jobs EXCEPT ![t] = jobs'[t]]
      /\ jobs'[t].at = "end" /\ jobs'[t].step = 0
  BY <1>1, Moved DEF Planned, IInv
<1>6. \A u \in Tasks \ {t} : jobs'[u] = jobs[u]
  BY <1>5 DEF IInv, TypeOK
<1>7. TicketsKeep /\ \A u \in Tasks : NoneNew(u) /\ NoneStale(u)
  BY DEF TicketsKeep, NoneNew, NoneStale, Planned
<1>8. ASSUME NEW u \in Tasks \ {t} PROVE PlanOK(u)' /\ RowOK(u)' /\ JobOK(u)' /\ PushOK(u)'
  BY <1>4, <1>6, <1>7, OthersKeep DEF Planned
<1>9. PlanOK(t)'
  BY <1>7, PlanFrame DEF IInv, Planned
<1>10. InHand(t)' /\ Active(t)' /\ Fresh(t)'
  BY <1>1, <1>2, <1>4, <1>5, <1>7, FreshFrame DEF InHand, Active, Planned
<1>16. ToSkip(t)' = {}
  BY <1>10 DEF Fresh
<1>11. RowOK(t)'
  BY <1>1, <1>2, <1>4, <1>16, Constants DEF RowOK, InHand
<1>12. JobOK(t)' /\ PushOK(t)'
  BY <1>5, <1>10 DEF JobOK, PushOK, Fresh, Pristine
<1>13. \A k \in DOMAIN tickets' : TicketOK(k)'
  BY <1>7, TicketFrame DEF IInv, Planned
<1>14. MainOK'
  <2>1. main.at # "free" =>
          /\ main.task \in Tasks /\ InHand(main.task)' /\ task'[main.task].state # "queued"
          /\ NoneNew(main.task) /\ NoneStale(main.task) /\ cancel'[main.task] \subseteq cancel[main.task]
          /\ jobs'[main.task] = jobs[main.task] /\ steps'[main.task] = steps[main.task]
    BY <1>1, <1>4, <1>6, <1>7 DEF IInv, MainOK, InHand, Planned
  <2> QED BY <1>1, <1>7, <2>1, MainFrame DEF IInv, Planned
<1>15. TypeOK'
  BY <1>2, <1>3, <1>5 DEF IInv, TypeOK, Planned
<1> QED BY <1>8, <1>9, <1>11, <1>12, <1>13, <1>14, <1>15 DEF IInv

-----------------------------------------------------------------------------
(* Writes to one step *)

\* Step i of t becomes r; its kind stays.
Becomes(t, i, r) ==
  /\ steps' \in [Tasks -> Seq(Step)]
  /\ \A u \in Tasks : Len(steps'[u]) = Len(steps[u]) /\ DOMAIN steps'[u] = DOMAIN steps[u]
  /\ steps'[t][i] = r /\ r \in Step /\ r.kind = steps[t][i].kind
  /\ \A j \in DOMAIN steps[t] : j # i => steps'[t][j] = steps[t][j]
  /\ \A u \in Tasks : u # t => steps'[u] = steps[u]

LEMMA Writes ==
  ASSUME TypeOK, NEW t \in Tasks, NEW i \in DOMAIN steps[t], NEW r \in Step, r.kind = steps[t][i].kind,
         steps' = [steps EXCEPT ![t] = [steps[t] EXCEPT ![i] = r]]
  PROVE  Becomes(t, i, r)
<1>1. steps \in [Tasks -> Seq(Step)] /\ steps[t] \in Seq(Step)
  BY DEF TypeOK
<1> DEFINE s == [steps[t] EXCEPT ![i] = r]
<1>2. /\ s \in Seq(Step) /\ Len(s) = Len(steps[t]) /\ DOMAIN s = DOMAIN steps[t]
      /\ s[i] = r /\ \A j \in DOMAIN steps[t] : j # i => s[j] = steps[t][j]
  BY <1>1
<1> HIDE DEF s
<1>3. steps'[t] = s /\ \A u \in Tasks : u # t => steps'[u] = steps[u]
  BY <1>1 DEF s
<1>4. steps' \in [Tasks -> Seq(Step)]
  BY <1>1, <1>2 DEF s
<1> QED BY <1>2, <1>3, <1>4 DEF Becomes

\* SetStep writes the state only.
LEMMA SetStepBecomes ==
  ASSUME TypeOK, NEW t \in Tasks, NEW i \in DOMAIN steps[t], NEW s \in StepStates, SetStep(t, i, s)
  PROVE  /\ Becomes(t, i, steps'[t][i]) /\ steps'[t][i].state = s
         /\ steps'[t][i].ticket = steps[t][i].ticket /\ steps'[t][i].round = steps[t][i].round
<1>1. steps \in [Tasks -> Seq(Step)] /\ steps[t] \in Seq(Step) /\ steps[t][i] \in Step
  BY DEF TypeOK
<1> DEFINE r == [steps[t][i] EXCEPT !.state = s]
<1>2. r \in Step /\ r.kind = steps[t][i].kind /\ r.state = s /\ r.ticket = steps[t][i].ticket /\ r.round = steps[t][i].round
  BY <1>1 DEF Step
<1>3. steps' = [steps EXCEPT ![t] = [steps[t] EXCEPT ![i] = r]]
  BY <1>1 DEF SetStep
<1> HIDE DEF r
<1>4. Becomes(t, i, r)
  BY <1>2, <1>3, Writes
<1>5. steps'[t][i] = r
  BY <1>4 DEF Becomes
<1> QED BY <1>2, <1>4, <1>5

\* A step that is not over keeps back every request behind it, and its own
\* request to push is good.
LEMMA NotYet ==
  ASSUME IInv, NEW t \in Tasks, NEW i \in DOMAIN steps[t], ~Finished(t, i)
  PROVE  Reached(t, i)
<1> SUFFICES ASSUME NEW k \in DOMAIN tickets, tickets[k].task = t
             PROVE  tickets[k].step <= i /\ (tickets[k].gate = "push" /\ tickets[k].step = i => ~tickets[k].stale)
  BY DEF Reached
<1>1. TicketOK(k) /\ tickets[k] \in Ticket /\ i \in Nat /\ i > 0
  BY DEF IInv, TypeOK
<1>2. tickets[k].step \in Nat
  BY <1>1 DEF Ticket
<1> QED BY <1>1, <1>2 DEF TicketOK, Before

\* What a write to the step at the front of the plan leaves in order.
LEMMA FrontWrite ==
  ASSUME IInv, NEW t \in Tasks, NEW i \in DOMAIN steps[t], NEW r, Becomes(t, i, r),
         AtFront(t, i),
         r.ticket # 0 => r.ticket = steps[t][i].ticket \/ Fits(t, i, r.ticket),
         \/ r.state \in {"done", "skipped"}
         \/ Reached(t, i),
         UNCHANGED <<task, tickets, alive, cancel>>,
         \A u \in Tasks \ {t} : jobs'[u] = jobs[u]
  PROVE  /\ \A u \in Tasks : PlanOK(u)'
         /\ \A u \in Tasks \ {t} : RowOK(u)' /\ JobOK(u)' /\ PushOK(u)'
         /\ \A k \in DOMAIN tickets' : TicketOK(k)'
         /\ AtFront(t, i)' /\ \A q \in ToSkip(t)' : q \in DOMAIN steps'[t] /\ Before(t, q)' /\ "cancel" \in OwnerMay
<1>1. TicketsKeep /\ \A u \in Tasks : NoneNew(u) /\ NoneStale(u)
  BY DEF TicketsKeep, NoneNew, NoneStale
<1>2. ASSUME NEW u \in Tasks \ {t} PROVE PlanOK(u)' /\ RowOK(u)' /\ JobOK(u)' /\ PushOK(u)'
  BY <1>1, OthersKeep DEF Becomes
<1>3. i \in Nat /\ DOMAIN steps[t] \subseteq Nat /\ DOMAIN steps'[t] = DOMAIN steps[t]
  BY DEF IInv, TypeOK, Becomes
<1>4. Before(t, i)' /\ Behind(t, i)' /\ Before(t, i) /\ Behind(t, i)
  BY <1>3 DEF Before, Behind, Finished, Pristine, Becomes, AtFront
<1>7. ToSkip(t)' = ToSkip(t) /\ \A q \in ToSkip(t) : q <= i
  BY DEF ToSkip, AtFront
<1>8. ASSUME NEW q \in ToSkip(t) PROVE q \in DOMAIN steps'[t] /\ Before(t, q)' /\ "cancel" \in OwnerMay
  <2>1. q \in DOMAIN steps[t] /\ Before(t, q) /\ "cancel" \in OwnerMay /\ q <= i
    BY <1>7 DEF IInv, RowOK
  <2> QED BY <1>3, <2>1 DEF Before, Finished, Becomes
<1>9. AtFront(t, i)'
  BY <1>3, <1>4, <1>7 DEF AtFront
<1>5. PlanOK(t)'
  <2> SUFFICES ASSUME NEW j \in DOMAIN steps[t]
               PROVE  /\ ~Finished(t, j)' => Behind(t, j)'
                      /\ steps'[t][j].ticket # 0 => Fits(t, j, steps[t][j].ticket)'
    BY <1>3 DEF PlanOK
  <2>1. PlanOK(t)
    BY DEF IInv
  <2>2. ~Finished(t, j)' => Behind(t, j)'
    <3>1. CASE j < i
      BY <1>3, <1>4, <3>1 DEF Before
    <3>2. CASE j = i
      BY <1>4, <3>2
    <3>3. CASE j > i
      BY <1>3, <1>4, <3>3 DEF Behind
    <3> QED BY <1>3, <3>1, <3>2, <3>3
  <2>3. steps'[t][j].ticket # 0 => Fits(t, j, steps'[t][j].ticket)
    BY <2>1 DEF PlanOK, Becomes
  <2>4. steps'[t][j].kind = steps[t][j].kind
    BY DEF Becomes
  <2>5. steps'[t][j].ticket # 0 => Fits(t, j, steps[t][j].ticket)'
    BY <2>3, <2>4 DEF Fits
  <2> QED BY <2>2, <2>5
<1>6. ASSUME NEW k \in DOMAIN tickets' PROVE TicketOK(k)'
  <2>1. TicketOK(k) /\ tickets[k] \in Ticket
    BY DEF IInv, TypeOK
  <2>2. CASE tickets[k].task # t
    BY <1>1, <2>1, <2>2, TicketFrame DEF IInv, Becomes, Ticket
  <2>3. CASE tickets[k].task = t
    <3>1. PICK j : j = tickets[k].step
      OBVIOUS
    <3>2. j \in Nat /\ steps'[t] # <<>>
      BY <1>3, <2>1, <3>1 DEF Ticket
    <3>3. CASE j = 0
      BY <2>1, <2>3, <3>1, <3>2, <3>3 DEF TicketOK
    <3>4. CASE j # 0
      <4>1. j \in DOMAIN steps[t] /\ Before(t, j) /\ (tickets[k].gate = "push" /\ tickets[k].stale => Finished(t, j))
        BY <2>1, <2>3, <3>1, <3>4 DEF TicketOK
      <4>2. steps'[t][j].kind = steps[t][j].kind
        BY <4>1 DEF Becomes
      <4>3. Before(t, j)'
        BY <1>3, <2>3, <3>1, <3>2, <4>1 DEF Before, Finished, Becomes, Reached
      <4>4. tickets[k].gate = "push" /\ tickets[k].stale => Finished(t, j)'
        BY <2>3, <3>1, <4>1 DEF Finished, Becomes, Reached
      <4> QED BY <1>3, <2>1, <2>3, <3>1, <3>2, <4>1, <4>2, <4>3, <4>4 DEF TicketOK
    <3> QED BY <3>3, <3>4
  <2> QED BY <2>2, <2>3
<1> QED BY <1>2, <1>5, <1>6, <1>7, <1>8, <1>9

\* A cancel has nothing left behind a step that is not over.
LEMMA SkipsBehindNone ==
  ASSUME IInv, NEW t \in Tasks, NEW i \in DOMAIN steps[t], ~Finished(t, i)
  PROVE  \A q \in ToSkip(t) : q <= i
<1> SUFFICES ASSUME NEW q \in ToSkip(t) PROVE q <= i
  OBVIOUS
<1>1. q \in DOMAIN steps[t] /\ Before(t, q)
  BY DEF IInv, RowOK
<1>2. q \in Nat /\ i \in Nat
  BY <1>1 DEF IInv, TypeOK
<1> QED BY <1>1, <1>2 DEF Before

\* The next step of a task that nobody is at.
LEMMA NextIsFront ==
  ASSUME IInv, NEW t \in Tasks, NEW i \in DOMAIN steps[t], IsNext(t, i)
  PROVE  ~Finished(t, i) /\ Before(t, i) /\ Behind(t, i) /\ AtFront(t, i)
<1>1. ~Finished(t, i)
  BY DEF IsNext, Unfinished, Finished
<1>2. Behind(t, i)
  BY <1>1 DEF IInv, PlanOK
<1>3. ASSUME NEW j \in DOMAIN steps[t], j < i PROVE Finished(t, j)
  <2>1. steps[t][j] \in Step /\ i \in Nat /\ j \in Nat
    BY DEF IInv, TypeOK
  <2>2. j \notin Unfinished(t)
    BY <1>3, <2>1 DEF IsNext
  <2> QED BY <2>1, <2>2 DEF Unfinished, Finished, Step, StepStates
<1>4. \A q \in ToSkip(t) : q <= i
  BY <1>1, SkipsBehindNone
<1> QED BY <1>1, <1>2, <1>3, <1>4 DEF Before, AtFront

LEMMA CandidateFacts ==
  ASSUME IInv, NEW t \in Tasks, Candidate(t), task[t].state # "queued"
  PROVE  /\ main = Free /\ alive /\ ~Active(t) /\ jobs[t].step = 0 /\ main.task # t
         /\ task[t].state \in {"ready", "review"} /\ InHand(t) /\ task[t].attempts # MaxAttempts
         /\ \A i \in DOMAIN steps[t] : steps[t][i].state # "running"
<1>1. main = Free /\ alive /\ ~Active(t) /\ task[t].state \in {"ready", "review"}
  BY DEF Candidate, Idle, IInv, MainOK
<1>2. RowOK(t) /\ task[t] \in TaskRow /\ JobOK(t)
  BY DEF IInv, TypeOK
<1>3. InHand(t) /\ task[t].attempts # MaxAttempts
  BY <1>1, <1>2, Constants DEF RowOK, InHand, TaskRow
<1>4. main.task # t
  BY <1>1, Constants DEF Free
<1>5. ASSUME NEW i \in DOMAIN steps[t] PROVE steps[t][i].state # "running"
  <2>1. i # 0
    BY DEF IInv, TypeOK
  <2> QED BY <1>1, <1>2, <2>1 DEF JobOK
<1> QED BY <1>1, <1>2, <1>3, <1>4, <1>5 DEF JobOK

LEMMA DispatchStepKeeps ==
  ASSUME IInv, NEW t \in Tasks, NEW i \in DOMAIN steps[t], DispatchStep(t, i)
  PROVE  IInv'
<1>1. /\ main = Free /\ alive /\ ~Active(t) /\ jobs[t].step = 0 /\ main.task # t
      /\ task[t].state \in {"ready", "review"} /\ InHand(t) /\ task[t].attempts # MaxAttempts
      /\ \A j \in DOMAIN steps[t] : steps[t][j].state # "running"
  BY CandidateFacts DEF DispatchStep
<1>2. ~Finished(t, i) /\ AtFront(t, i) /\ Reached(t, i)
  BY NextIsFront, NotYet DEF DispatchStep
<1>3. TypeOK /\ i \in Nat /\ i > 0 /\ i <= MaxLen
  BY Constants DEF IInv, TypeOK
<1>4. Becomes(t, i, steps'[t][i]) /\ steps'[t][i].state = "running" /\ steps'[t][i].ticket = steps[t][i].ticket
  BY <1>3, SetStepBecomes DEF DispatchStep, StepStates
<1> DEFINE j == [NoJob EXCEPT !.at = "run", !.step = i]
<1>5. j \in Job /\ j.at = "run" /\ j.step = i
  <2>1. NoJob \in Job
    BY Constants DEF NoJob, NoOut, Job, Outcome, Statuses
  <2> DEFINE n == [NoJob EXCEPT !.at = "run"]
  <2>2. n \in Job /\ n.at = "run"
    BY <2>1 DEF Job
  <2>3. j = [n EXCEPT !.step = i]
    OBVIOUS
  <2> HIDE DEF j, n
  <2>4. i \in 0..MaxLen
    BY <1>3, Constants
  <2> QED BY <2>2, <2>3, <2>4 DEF Job
<1>6. jobs' = [jobs EXCEPT ![t] = j]
  BY DEF DispatchStep
<1> HIDE DEF j
<1>7. jobs'[t] = j /\ \A u \in Tasks \ {t} : jobs'[u] = jobs[u]
  BY <1>3, <1>6 DEF TypeOK
<1>8. /\ \A u \in Tasks : PlanOK(u)'
      /\ \A u \in Tasks \ {t} : RowOK(u)' /\ JobOK(u)' /\ PushOK(u)'
      /\ \A k \in DOMAIN tickets' : TicketOK(k)'
      /\ AtFront(t, i)' /\ \A q \in ToSkip(t)' : q \in DOMAIN steps'[t] /\ Before(t, q)' /\ "cancel" \in OwnerMay
  BY <1>2, <1>4, <1>7, FrontWrite DEF DispatchStep
<1>9. RowOK(t)'
  BY <1>1, <1>8 DEF RowOK, DispatchStep
<1>10. JobOK(t)'
  <2>1. InHand(t)' /\ Active(t)'
    BY <1>1, <1>5, <1>7 DEF InHand, Active, DispatchStep
  <2>2. i \in DOMAIN steps'[t] /\ \A k \in DOMAIN steps'[t] : steps'[t][k].state = "running" => k = i
    BY <1>1, <1>4 DEF Becomes
  <2>3. task'[t].state # "queued"
    BY <1>1 DEF DispatchStep
  <2>4. Reached(t, i)'
    BY <1>2 DEF Reached, DispatchStep
  <2> QED BY <1>3, <1>4, <1>5, <1>7, <1>8, <2>1, <2>2, <2>3, <2>4 DEF JobOK
<1>11. PushOK(t)'
  BY <1>5, <1>7 DEF PushOK
<1>12. MainOK'
  BY <1>1, MainFreed DEF IInv, DispatchStep
<1>13. TypeOK'
  BY <1>3, <1>4, <1>5, <1>6 DEF TypeOK, Becomes, DispatchStep
<1> QED BY <1>8, <1>9, <1>10, <1>11, <1>12, <1>13 DEF IInv

\* A write by the main thread to the step it is at, which it goes on from.
LEMMA MainWrites ==
  ASSUME IInv, NEW t \in Tasks, NEW i \in DOMAIN steps[t], NEW r, Becomes(t, i, r), TypeOK', MainOK',
         AtFront(t, i), r.state # "running",
         r.ticket # 0 => r.ticket = steps[t][i].ticket \/ Fits(t, i, r.ticket),
         \/ r.state \in {"done", "skipped"}
         \/ Reached(t, i),
         UNCHANGED <<task, tickets, alive, cancel>>,
         \A u \in Tasks \ {t} : jobs'[u] = jobs[u],
         ~Active(t)', jobs'[t].step = 0, InHand(t), task[t].state # "queued",
         \A j \in DOMAIN steps[t] : j # i => steps[t][j].state # "running"
  PROVE  IInv'
<1>1. /\ \A u \in Tasks : PlanOK(u)'
      /\ \A u \in Tasks \ {t} : RowOK(u)' /\ JobOK(u)' /\ PushOK(u)'
      /\ \A k \in DOMAIN tickets' : TicketOK(k)'
      /\ \A q \in ToSkip(t)' : q \in DOMAIN steps'[t] /\ Before(t, q)' /\ "cancel" \in OwnerMay
  BY FrontWrite
<1>2. RowOK(t)'
  BY <1>1, Constants DEF RowOK, InHand
<1>3. JobOK(t)'
  <2>1. \A j \in DOMAIN steps'[t] : steps'[t][j].state # "running"
    BY DEF Becomes
  <2> QED BY <2>1 DEF JobOK, Active
<1>4. PushOK(t)'
  BY DEF PushOK, Active
<1> QED BY <1>1, <1>2, <1>3, <1>4 DEF IInv

\* What the main thread takes up after its first write.
LEMMA MainTakesUp ==
  ASSUME TypeOK, NEW t \in Tasks, NEW i \in DOMAIN steps[t], NEW r, Becomes(t, i, r), AtFront(t, i)',
         main'.task = t, main'.step = i, main'.at \notin {"free", "polled"}, r.state \in Written(main'.at),
         main'.seen.state # "queued", main'.seen.attempts < MaxAttempts,
         InHand(t), ~Active(t)', UNCHANGED <<task, tickets, alive>>, task[t].state # "queued",
         Reached(t, i), main'.at = "replan" => steps[t][i].kind = "game_action",
         main'.at = "split" => steps[t][i].kind = "code"
  PROVE  MainOK'
<1>1. i \in DOMAIN steps'[t] /\ steps'[t][i] = r /\ steps'[t][i].kind = steps[t][i].kind /\ steps'[t] # <<>>
  BY DEF Becomes
<1>2. InHand(t)' /\ alive
  BY DEF InHand
<1>3. AtFront(main.task, main.step)'
  OBVIOUS
<1>6. \A k \in DOMAIN tickets' : tickets'[k].task = main'.task => tickets'[k].step <= main'.step
  BY DEF Reached
<1>4. (steps[main.task][main.step].state \in Written(main.at))'
  BY <1>1 DEF Written
<1>5. InHand(main.task)' /\ ~Active(main.task)'
  BY <1>2 DEF InHand, Active
<1> QED BY <1>1, <1>2, <1>3, <1>4, <1>5, <1>6 DEF MainOK

LEMMA DeferNowKeeps ==
  ASSUME IInv, NEW t \in Tasks, NEW i \in DOMAIN steps[t], DeferNow(t, i)
  PROVE  IInv'
<1>1. /\ main = Free /\ alive /\ ~Active(t) /\ jobs[t].step = 0 /\ main.task # t
      /\ task[t].state \in {"ready", "review"} /\ InHand(t) /\ task[t].attempts # MaxAttempts
      /\ \A j \in DOMAIN steps[t] : steps[t][j].state # "running"
  BY CandidateFacts DEF DeferNow
<1>2. ~Finished(t, i) /\ AtFront(t, i)
  BY NextIsFront DEF DeferNow
<1>3. TypeOK /\ i \in 0..MaxLen
  BY Constants DEF IInv, TypeOK
<1>4. Becomes(t, i, steps'[t][i]) /\ steps'[t][i].state = "pending" /\ steps'[t][i].ticket = steps[t][i].ticket
  BY <1>3, SetStepBecomes DEF DeferNow, StepStates
<1>5. /\ main'.at = "defer" /\ main'.task = t /\ main'.step = i /\ main'.seen = task[t] /\ main' \in Main
  BY <1>3, Constants DEF DeferNow, Main, MainPoint, Statuses, TypeOK
<1>6. Reached(t, i)
  BY <1>2, NotYet
<1>7. ~Active(t)' /\ jobs'[t].step = 0 /\ UNCHANGED <<task, tickets, alive, cancel, jobs>>
  BY <1>1 DEF DeferNow, Active
<1>8. AtFront(t, i)'
  BY <1>2, <1>4, <1>6, <1>7, FrontWrite
<1>9. MainOK'
  BY <1>1, <1>3, <1>4, <1>5, <1>6, <1>7, <1>8, MainTakesUp DEF Written, InHand
<1>10. TypeOK'
  BY <1>3, <1>4, <1>5 DEF TypeOK, Becomes, DeferNow
<1> QED BY <1>1, <1>2, <1>4, <1>6, <1>7, <1>9, <1>10, MainWrites

\* apply's first write, as a step of the plan.
LEMMA ReapWrites ==
  ASSUME IInv, NEW t \in Tasks, Reap(t), NEW i, i = jobs[t].step, i # 0
  PROVE  /\ Becomes(t, i, steps'[t][i]) /\ steps'[t][i].state = FirstWrite(jobs[t].out.status)
         /\ steps'[t][i].state \in Written(jobs[t].out.status) /\ steps'[t][i].state # "running"
         /\ steps'[t][i].ticket = IF jobs[t].out.status = "park" THEN jobs[t].out.ticket ELSE steps[t][i].ticket
<1>1. /\ i \in DOMAIN steps[t] /\ jobs[t].out.status # "none" /\ jobs[t] \in Job /\ TypeOK
  BY DEF Reap, IInv, JobOK, TypeOK, AtFront
<1> DEFINE s == FirstWrite(jobs[t].out.status)
           k == IF jobs[t].out.status = "park" THEN jobs[t].out.ticket ELSE steps[t][i].ticket
           q == [steps[t][i] EXCEPT !.state = s]
           r == [q EXCEPT !.ticket = k]
<1>2. steps \in [Tasks -> Seq(Step)] /\ steps[t] \in Seq(Step) /\ steps[t][i] \in Step
  BY <1>1 DEF TypeOK
<1>3. s \in StepStates \ {"running"} /\ s \in Written(jobs[t].out.status)
  BY <1>1 DEF FirstWrite, Written, Job, Outcome, Statuses, StepStates
<1>4. k \in 0..MaxTickets
  BY <1>1, <1>2 DEF Job, Outcome, Step
<1>5. steps' = [steps EXCEPT ![t] = [steps[t] EXCEPT ![i] = r]]
  <2>1. steps' = [steps EXCEPT ![t][i].state = s,
                                ![t][i].ticket = IF jobs[t].out.status = "park" THEN jobs[t].out.ticket ELSE @]
    BY DEF Reap
  <2> DEFINE f == [steps EXCEPT ![t][i].state = s]
  <2>2. f = [steps EXCEPT ![t] = [steps[t] EXCEPT ![i] = q]]
    BY <1>1, <1>2
  <2>3. f[t] = [steps[t] EXCEPT ![i] = q] /\ f[t][i] = q
    BY <1>1, <1>2, <2>2
  <2>4. q.ticket = steps[t][i].ticket
    BY <1>2 DEF Step
  <2>5. steps' = [f EXCEPT ![t][i].ticket = k]
    BY <2>1, <2>3, <2>4
  <2> HIDE DEF f, k, q
  <2>6. steps' = [f EXCEPT ![t] = [f[t] EXCEPT ![i] = [f[t][i] EXCEPT !.ticket = k]]]
    BY <2>5
  <2>7. steps' = [f EXCEPT ![t] = [steps[t] EXCEPT ![i] = r]]
    BY <2>3, <2>6
  <2> QED BY <2>2, <2>7
<1> HIDE DEF s, k
<1>6. q \in Step /\ q.state = s /\ q.kind = steps[t][i].kind
  BY <1>2, <1>3 DEF Step
<1> HIDE DEF q
<1>7. r \in Step /\ r.state = s /\ r.ticket = k /\ r.kind = steps[t][i].kind
  BY <1>4, <1>6 DEF Step
<1> HIDE DEF r
<1>8. Becomes(t, i, r)
  BY <1>1, <1>5, <1>7, Writes
<1>9. steps'[t][i] = r
  BY <1>8 DEF Becomes
<1> QED BY <1>3, <1>7, <1>8, <1>9 DEF s, k

LEMMA NoJobFacts == NoJob \in Job /\ NoJob.at = "none" /\ NoJob.step = 0
  BY Constants DEF NoJob, NoOut, Job, Outcome, Statuses

LEMMA ReapPlanKeeps ==
  ASSUME IInv, NEW t \in Tasks, Reap(t), jobs[t].step = 0
  PROVE  IInv'
<1>1. jobs' = [jobs EXCEPT ![t] = NoJob] /\ UNCHANGED <<task, steps, tickets, main, flags, alive, cancel, starts, retries, tested>>
  BY DEF Reap
<1>2. jobs'[t] = NoJob
  BY <1>1 DEF IInv, TypeOK
<1>3. Active(t) /\ Fresh(t) /\ main.task # t /\ alive
  BY Apart DEF Reap, Active, IInv, JobOK
<1>4. JobOK(t)'
  BY <1>1, <1>2, <1>3, NoJobFacts DEF JobOK, Active, Fresh, Pristine
<1>5. PushOK(t)'
  BY <1>2, NoJobFacts DEF PushOK
<1>6. tested' \in [Tasks -> BOOLEAN]
  BY <1>1 DEF IInv, TypeOK
<1> QED BY <1>1, <1>3, <1>4, <1>5, <1>6, NoJobFacts, WorkerMoves

LEMMA ReapStepKeeps ==
  ASSUME IInv, NEW t \in Tasks, Reap(t), jobs[t].step # 0
  PROVE  IInv'
<1> PICK i : i = jobs[t].step
  OBVIOUS
<1> PICK out : out = jobs[t].out
  OBVIOUS
<1>1. /\ i \in DOMAIN steps[t] /\ AtFront(t, i) /\ Reached(t, i) /\ task[t].state # "queued"
      /\ out.status # "none" /\ out \in Outcome
      /\ out.status = "park" => Fits(t, i, out.ticket)
      /\ out.status = "split" => steps[t][i].kind = "code"
      /\ \A j \in DOMAIN steps[t] : j # i => steps[t][j].state # "running"
  BY DEF Reap, Idle, IInv, JobOK, TypeOK, Job, Kind, AtFront
<1>2. InHand(t) /\ alive /\ TypeOK
  BY Apart DEF Reap, Active, IInv
<1>3. /\ Becomes(t, i, steps'[t][i]) /\ steps'[t][i].state \in Written(out.status) /\ steps'[t][i].state # "running"
      /\ steps'[t][i].ticket = IF out.status = "park" THEN out.ticket ELSE steps[t][i].ticket
  BY ReapWrites
<1>4. jobs' = [jobs EXCEPT ![t] = NoJob] /\ UNCHANGED <<task, tickets, flags, alive, cancel, starts, retries, tested>>
  BY DEF Reap
<1>5. jobs'[t] = NoJob /\ (\A u \in Tasks \ {t} : jobs'[u] = jobs[u]) /\ jobs' \in [Tasks -> Job]
  BY <1>2, <1>4, NoJobFacts DEF TypeOK
<1>6. ~Active(t)' /\ jobs'[t].step = 0
  BY <1>5, NoJobFacts DEF Active
<1>10. AtFront(t, i)'
  BY <1>1, <1>3, <1>4, <1>5, FrontWrite
<1>11. main' = [at |-> out.status, task |-> t, step |-> i, ticket |-> 0, seen |-> task[t]]
  BY DEF Reap
<1>12. main' \in Main
  BY <1>1, <1>2, <1>11, StepInRange, Constants DEF Main, MainPoint, TypeOK, Outcome
<1>13. out.status \notin {"free", "polled", "replan"}
  BY <1>1 DEF Outcome, Statuses
<1>14. MainOK'
  BY <1>1, <1>2, <1>3, <1>4, <1>6, <1>10, <1>11, <1>13, MainTakesUp DEF InHand
<1>15. TypeOK'
  BY <1>2, <1>3, <1>4, <1>5, <1>12 DEF TypeOK, Becomes
<1> QED BY <1>1, <1>2, <1>3, <1>4, <1>5, <1>6, <1>14, <1>15, MainWrites

LEMMA PollSeesKeeps ==
  ASSUME IInv, NEW t \in Tasks, NEW i \in DOMAIN steps[t], PollSees(t, i)
  PROVE  IInv'
<1>1. /\ main' = [at |-> "polled", task |-> t, step |-> i, ticket |-> steps[t][i].ticket, seen |-> Absent]
      /\ UNCHANGED <<task, steps, tickets, jobs, flags, alive, cancel, starts, retries, tested>>
      /\ alive /\ steps[t][i].state = "waiting" /\ steps[t][i].ticket # 0
  BY DEF PollSees, Idle
<1>2. TypeOK /\ steps[t][i] \in Step /\ i \in 0..MaxLen /\ i # 0
  BY Constants DEF IInv, TypeOK
<1>3. ~Finished(t, i) /\ Behind(t, i) /\ Fits(t, i, steps[t][i].ticket)
  BY <1>1 DEF Finished, IInv, PlanOK
<1>4. Before(t, i)
  <2> SUFFICES ASSUME NEW j \in DOMAIN steps[t], j < i, ~Finished(t, j) PROVE FALSE
    BY DEF Before
  <2>1. Behind(t, j)
    BY DEF IInv, PlanOK
  <2> QED BY <1>1, <2>1 DEF Behind, Pristine
<1>5. ~Active(t)
  <2> SUFFICES ASSUME Active(t) PROVE FALSE
    OBVIOUS
  <2>1. CASE jobs[t].step = 0
    BY <1>1, <2>1 DEF IInv, JobOK, Fresh, Pristine
  <2>2. CASE jobs[t].step # 0
    <3> PICK c : c = jobs[t].step
      OBVIOUS
    <3>1. c \in DOMAIN steps[t] /\ steps[t][c].state \in {"running", "skipped"} /\ Before(t, c) /\ Behind(t, c)
      BY <2>2 DEF IInv, JobOK, AtFront
    <3>2. c \in Nat /\ i \in Nat
      BY <3>1, <1>2 DEF TypeOK
    <3> QED BY <1>1, <1>3, <3>1, <3>2 DEF Before, Behind, Pristine
  <2> QED BY <2>1, <2>2
<1>6. InHand(t) /\ task[t].state # "queued"
  <2>1. RowOK(t) /\ task[t] \in TaskRow
    BY <1>2 DEF IInv, TypeOK
  <2>2. task[t].state \notin {"absent", "queued", "done"}
    BY <1>1, <1>3, <2>1 DEF RowOK, Fresh, Pristine
  <2> QED BY <1>1, <2>1, <2>2, Constants DEF RowOK, InHand, TaskRow
<1>7. Reached(t, i) /\ AtFront(t, i)
  BY <1>3, <1>4, NotYet, SkipsBehindNone DEF AtFront
<1>8. TicketsKeep /\ \A u \in Tasks : NoneNew(u) /\ NoneStale(u)
  BY <1>1 DEF TicketsKeep, NoneNew, NoneStale
<1>9. \A u \in Tasks : PlanOK(u)' /\ RowOK(u)' /\ JobOK(u)' /\ PushOK(u)'
  BY <1>1, <1>8, OthersKeep
<1>10. \A k \in DOMAIN tickets' : TicketOK(k)'
  BY <1>1, <1>8, TicketFrame DEF IInv
<1>11. Absent \in TaskRow /\ Absent.state # "queued" /\ Absent.attempts < MaxAttempts
  BY Constants DEF Absent, TaskRow, States
<1>12. MainOK'
  <2>1. AtFront(main.task, main.step)'
    BY <1>1, <1>7, FrontFrame
  <2>2. Fits(main.task, main.step, main.ticket)' /\ InHand(main.task)' /\ ~Active(main.task)'
    BY <1>1, <1>3, <1>5, <1>6 DEF Fits, InHand, Active
  <2>3. (steps[main.task][main.step].state \in Written(main.at))'
    BY <1>1 DEF Written
  <2>4. \A k \in DOMAIN tickets' : tickets'[k].task = main'.task =>
          tickets'[k].step <= main'.step /\ (tickets'[k].gate = "push" /\ tickets'[k].step = main'.step => ~tickets'[k].stale)
    BY <1>1, <1>7 DEF Reached
  <2> QED BY <1>1, <1>6, <1>11, <2>1, <2>2, <2>3, <2>4 DEF MainOK
<1>13. TypeOK'
  BY <1>1, <1>2, <1>11, Constants DEF TypeOK, Main, MainPoint, Step
<1> QED BY <1>9, <1>10, <1>12, <1>13 DEF IInv

\* poll_tickets' write, as a step of the plan.
LEMMA PollWrites ==
  ASSUME IInv, PollGate, NEW t, t = main.task, NEW i, i = main.step, t \in Tasks, i \in DOMAIN steps[t]
  PROVE  /\ Becomes(t, i, steps'[t][i]) /\ steps'[t][i].ticket = 0
         /\ steps'[t][i].state = IF tickets[main.ticket].state = "approved" THEN "pending" ELSE "skipped"
<1> DEFINE s == IF tickets[main.ticket].state = "approved" THEN "pending" ELSE "skipped"
           q == [steps[t][i] EXCEPT !.state = s]
           r == [q EXCEPT !.ticket = 0]
           f == [steps EXCEPT ![t][i].state = s]
<1>1. TypeOK /\ steps \in [Tasks -> Seq(Step)] /\ steps[t] \in Seq(Step) /\ steps[t][i] \in Step
  BY DEF IInv, TypeOK
<1>2. s \in StepStates
  BY DEF StepStates
<1>3. steps' = [f EXCEPT ![t][i].ticket = 0]
  BY DEF PollGate
<1> HIDE DEF s
<1>4. f = [steps EXCEPT ![t] = [steps[t] EXCEPT ![i] = q]]
  BY <1>1
<1>5. f[t] = [steps[t] EXCEPT ![i] = q] /\ f[t][i] = q
  BY <1>1, <1>4
<1>6. q \in Step /\ q.state = s /\ q.kind = steps[t][i].kind
  BY <1>1, <1>2 DEF Step
<1> HIDE DEF f, q
<1>7. steps' = [f EXCEPT ![t] = [f[t] EXCEPT ![i] = [f[t][i] EXCEPT !.ticket = 0]]]
  BY <1>3
<1>8. steps' = [steps EXCEPT ![t] = [steps[t] EXCEPT ![i] = r]]
  BY <1>4, <1>5, <1>7
<1>9. r \in Step /\ r.state = s /\ r.ticket = 0 /\ r.kind = steps[t][i].kind
  BY <1>6, Constants DEF Step
<1> HIDE DEF r
<1>10. Becomes(t, i, r)
  BY <1>1, <1>8, <1>9, Writes
<1>11. steps'[t][i] = r
  BY <1>10 DEF Becomes
<1> QED BY <1>9, <1>10, <1>11 DEF s

\* What the main thread is at, as the invariant gives it.
LEMMA AtMain ==
  ASSUME IInv, main.at \notin {"free", "resume"}, NEW t, t = main.task, NEW i, i = main.step
  PROVE  /\ t \in Tasks /\ i \in DOMAIN steps[t] /\ ~Active(t) /\ jobs[t].step = 0 /\ InHand(t) /\ alive
         /\ task[t].state # "queued" /\ task[t] \in TaskRow /\ task[t].attempts < MaxAttempts
         /\ AtFront(t, i) /\ Before(t, i) /\ Behind(t, i) /\ TypeOK
         /\ \A k \in DOMAIN tickets : tickets[k].task = t => tickets[k].step <= i
         /\ \A j \in DOMAIN steps[t] : steps[t][j].state # "running"
<1>1. /\ t \in Tasks /\ i \in DOMAIN steps[t] /\ ~Active(t) /\ InHand(t) /\ task[t].state # "queued"
      /\ AtFront(t, i) /\ Before(t, i) /\ Behind(t, i) /\ TypeOK
      /\ \A k \in DOMAIN tickets : tickets[k].task = t => tickets[k].step <= i
  BY DEF IInv, MainOK, AtFront
<1>2. JobOK(t) /\ task[t] \in TaskRow
  BY <1>1 DEF IInv, TypeOK
<1>3. \A j \in DOMAIN steps[t] : j # 0
  BY <1>1 DEF TypeOK
<1> QED BY <1>1, <1>2, <1>3 DEF JobOK, InHand

LEMMA PollGateKeeps ==
  ASSUME IInv, PollGate
  PROVE  IInv'
<1> PICK t : t = main.task
  OBVIOUS
<1> PICK i : i = main.step
  OBVIOUS
<1>1. main.at = "polled"
  BY DEF PollGate
<1>2. /\ t \in Tasks /\ i \in DOMAIN steps[t] /\ ~Active(t) /\ jobs[t].step = 0 /\ InHand(t) /\ alive
      /\ task[t].state # "queued" /\ task[t] \in TaskRow /\ task[t].attempts < MaxAttempts
      /\ AtFront(t, i) /\ TypeOK
      /\ \A k \in DOMAIN tickets : tickets[k].task = t => tickets[k].step <= i
      /\ \A j \in DOMAIN steps[t] : steps[t][j].state # "running"
  BY <1>1, AtMain
<1>3. Reached(t, i)
  BY <1>1, <1>2 DEF IInv, MainOK, Reached
<1> DEFINE yes == tickets[main.ticket].state = "approved"
<1>4. /\ Becomes(t, i, steps'[t][i]) /\ steps'[t][i].ticket = 0
      /\ steps'[t][i].state = IF yes THEN "pending" ELSE "skipped"
  BY <1>2, PollWrites
<1>5. UNCHANGED <<task, tickets, jobs, flags, alive, cancel, starts, retries, tested>>
  BY DEF PollGate
<1>6. main \in Main /\ main' = [main EXCEPT !.at = IF yes THEN "opened" ELSE "refused", !.seen = task[t]]
  BY <1>2 DEF PollGate, TypeOK
<1> HIDE DEF yes
<1>7. /\ main'.at = (IF yes THEN "opened" ELSE "refused") /\ main'.task = t /\ main'.step = i /\ main'.seen = task[t]
      /\ main' \in Main
  BY <1>2, <1>6 DEF Main, MainPoint
<1>8. AtFront(t, i)'
  BY <1>2, <1>3, <1>4, <1>5, FrontWrite
<1>9. ~Active(t)' /\ jobs'[t].step = 0
  BY <1>2, <1>5 DEF Active
<1>10. steps'[t][i].state \in Written(main'.at) /\ main'.at \in {"opened", "refused"} /\ steps'[t][i].state # "running"
  BY <1>4, <1>7 DEF Written
<1>11. MainOK'
  BY <1>2, <1>3, <1>4, <1>5, <1>7, <1>8, <1>9, <1>10, MainTakesUp
<1>12. TypeOK'
  BY <1>2, <1>4, <1>5, <1>7 DEF TypeOK, Becomes
<1> QED BY <1>2, <1>3, <1>4, <1>5, <1>9, <1>10, <1>11, <1>12, MainWrites

LEMMA PollGameKeeps ==
  ASSUME IInv, PollGame
  PROVE  IInv'
<1> PICK t : t = main.task
  OBVIOUS
<1> PICK i : i = main.step
  OBVIOUS
<1>1. main.at = "polled"
  BY DEF PollGame
<1>2. /\ t \in Tasks /\ i \in DOMAIN steps[t] /\ ~Active(t) /\ jobs[t].step = 0 /\ InHand(t) /\ alive
      /\ task[t].state # "queued" /\ task[t] \in TaskRow /\ task[t].attempts < MaxAttempts
      /\ AtFront(t, i) /\ TypeOK
      /\ \A k \in DOMAIN tickets : tickets[k].task = t => tickets[k].step <= i
      /\ \A j \in DOMAIN steps[t] : steps[t][j].state # "running"
  BY <1>1, AtMain
<1>3. steps[t][i].kind = "game_action" /\ Reached(t, i)
  BY <1>1, <1>2 DEF IInv, MainOK, Fits, PollGame, Reached
<1> DEFINE yes == tickets[main.ticket].state = "approved"
<1>4. SetStep(t, i, IF yes THEN "done" ELSE "skipped") /\ (IF yes THEN "done" ELSE "skipped") \in StepStates
  BY DEF PollGame, StepStates
<1>5. UNCHANGED <<task, tickets, jobs, flags, alive, cancel, starts, retries, tested>>
  BY DEF PollGame
<1>6. main \in Main /\ main' = [main EXCEPT !.at = IF yes THEN "resume" ELSE "replan", !.seen = task[t]]
  BY <1>2 DEF PollGame, TypeOK
<1> HIDE DEF yes
<1>7. /\ Becomes(t, i, steps'[t][i]) /\ steps'[t][i].ticket = steps[t][i].ticket
      /\ steps'[t][i].state = IF yes THEN "done" ELSE "skipped"
  BY <1>2, <1>4, SetStepBecomes
<1>8. /\ main'.at = (IF yes THEN "resume" ELSE "replan") /\ main'.task = t /\ main'.step = i /\ main'.seen = task[t]
      /\ main' \in Main
  BY <1>2, <1>6 DEF Main, MainPoint
<1>9. AtFront(t, i)'
  BY <1>2, <1>5, <1>7, FrontWrite
<1>10. ~Active(t)' /\ jobs'[t].step = 0
  BY <1>2, <1>5 DEF Active
<1>11. MainOK'
  <2>1. CASE yes
    <3>1. main'.at = "resume" /\ steps'[t] # <<>>
      BY <1>2, <1>7, <1>8, <2>1 DEF Becomes
    <3>2. InHand(main.task)' /\ ~Active(main.task)'
      BY <1>2, <1>5, <1>8 DEF InHand, Active
    <3> QED BY <1>2, <1>5, <1>8, <3>1, <3>2 DEF MainOK
  <2>2. CASE ~yes
    <3>1. main'.at = "replan" /\ steps'[t][i].state \in Written(main'.at)
      BY <1>7, <1>8, <2>2 DEF Written
    <3> QED BY <1>2, <1>3, <1>5, <1>7, <1>8, <1>9, <1>10, <3>1, MainTakesUp
  <2> QED BY <2>1, <2>2
<1>12. TypeOK'
  BY <1>2, <1>5, <1>7, <1>8 DEF TypeOK, Becomes
<1>13. steps'[t][i].state \in {"done", "skipped"}
  BY <1>7
<1> QED BY <1>2, <1>5, <1>7, <1>10, <1>11, <1>12, <1>13, MainWrites

-----------------------------------------------------------------------------
(* Writes to several steps at once *)

\* The running steps of a new process are put back, and a cancel skips what it read.
Relabelling ==
  /\ steps' \in [Tasks -> Seq(Step)]
  /\ \A u \in Tasks :
       /\ Len(steps'[u]) = Len(steps[u]) /\ DOMAIN steps'[u] = DOMAIN steps[u]
       /\ \A j \in DOMAIN steps[u] :
            /\ steps'[u][j].kind = steps[u][j].kind /\ steps'[u][j].ticket = steps[u][j].ticket
            /\ \/ steps'[u][j].state = steps[u][j].state
               \/ steps[u][j].state = "running" /\ steps'[u][j].state = "pending"
               \/ j \in ToSkip(u) /\ steps'[u][j].state = "skipped"

LEMMA RelabelPlan ==
  ASSUME IInv, Relabelling, UNCHANGED <<task, tickets>>, NEW u \in Tasks, cancel'[u] \subseteq cancel[u]
  PROVE  /\ PlanOK(u)' /\ (Fresh(u) => Fresh(u)')
         /\ \A i \in Nat : (Before(u, i) => Before(u, i)') /\ (AtFront(u, i) => AtFront(u, i)')
<1>1. DOMAIN steps'[u] = DOMAIN steps[u] /\ DOMAIN steps[u] \subseteq Nat
  BY DEF Relabelling, IInv, TypeOK
<1>2. ASSUME NEW j \in DOMAIN steps[u]
      PROVE  (Finished(u, j) => Finished(u, j)') /\ (Pristine(u, j) => Pristine(u, j)' \/ j \in ToSkip(u))
  BY DEF Relabelling, Finished, Pristine
<1>3. \A i \in Nat : Before(u, i) => Before(u, i)'
  BY <1>1, <1>2 DEF Before
<1>6. ASSUME NEW i \in Nat, Behind(u, i), \A q \in ToSkip(u) : q <= i PROVE Behind(u, i)'
  BY <1>1, <1>2, <1>6 DEF Behind
<1>7. ToSkip(u)' \subseteq ToSkip(u)
  BY DEF ToSkip
<1>8. \A i \in Nat : AtFront(u, i) => AtFront(u, i)'
  BY <1>1, <1>3, <1>6, <1>7 DEF AtFront
<1>4. Fresh(u) => Fresh(u)'
  BY <1>1, <1>2, <1>7 DEF Fresh
<1>5. ASSUME NEW i \in DOMAIN steps[u]
      PROVE  (~Finished(u, i)' => Behind(u, i)') /\ (steps'[u][i].ticket # 0 => Fits(u, i, steps[u][i].ticket)')
  <2>1. ~Finished(u, i)' => ~Finished(u, i)
    BY <1>2
  <2>2. i \in Nat /\ PlanOK(u)
    BY <1>1 DEF IInv
  <2>3. steps'[u][i].ticket = steps[u][i].ticket /\ steps'[u][i].kind = steps[u][i].kind
    BY DEF Relabelling
  <2>4. ~Finished(u, i)' => Behind(u, i)'
    BY <1>6, <2>1, <2>2, SkipsBehindNone DEF PlanOK
  <2> QED BY <2>2, <2>3, <2>4 DEF PlanOK, Fits
<1> QED BY <1>1, <1>3, <1>4, <1>5, <1>8 DEF PlanOK

LEMMA RelabelTickets ==
  ASSUME IInv, Relabelling, UNCHANGED <<task, tickets>>, \A u \in Tasks : cancel'[u] \subseteq cancel[u], NEW k \in DOMAIN tickets'
  PROVE  TicketOK(k)'
<1> PICK u : u = tickets[k].task
  OBVIOUS
<1> PICK i : i = tickets[k].step
  OBVIOUS
<1>0. k \in DOMAIN tickets /\ TicketOK(k) /\ tickets \in Seq(Ticket)
  BY DEF IInv, TypeOK
<1>1. TicketOK(k) /\ u \in Tasks /\ i \in Nat
  <2>1. tickets[k] \in Ticket
    BY <1>0
  <2> QED BY <1>0, <2>1 DEF Ticket
<1>2. steps'[u] \in Seq(Step) /\ steps[u] \in Seq(Step) /\ Len(steps'[u]) = Len(steps[u]) /\ DOMAIN steps'[u] = DOMAIN steps[u]
  BY <1>1 DEF Relabelling, IInv, TypeOK
<1>5. \A j \in DOMAIN steps[u] : steps'[u][j].kind = steps[u][j].kind /\ (Finished(u, j) => Finished(u, j)')
  BY <1>1 DEF Relabelling, Finished
<1>3. Before(u, i) => Before(u, i)'
  BY <1>1, RelabelPlan
<1>4. steps'[u] # <<>>
  <2>1. steps[u] # <<>>
    BY <1>1 DEF TicketOK
  <2> QED BY <1>2, <2>1
<1> QED BY <1>1, <1>2, <1>3, <1>4, <1>5 DEF TicketOK

LEMMA RelabelRow ==
  ASSUME IInv, Relabelling, UNCHANGED <<task, tickets>>, NEW u \in Tasks,
         cancel'[u] \subseteq cancel[u]
  PROVE  RowOK(u)'
<1>1. RowOK(u) /\ (Fresh(u) => Fresh(u)')
  BY RelabelPlan DEF IInv
<1>2. /\ DOMAIN steps'[u] = DOMAIN steps[u] /\ steps'[u] \in Seq(Step) /\ steps[u] \in Seq(Step)
      /\ \A j \in DOMAIN steps[u] : /\ Finished(u, j) => Finished(u, j)'
                                    /\ steps'[u][j].state = "waiting" => steps[u][j].state = "waiting"
  BY DEF Relabelling, Finished, IInv, TypeOK
<1>3. steps[u] = <<>> => steps'[u] = <<>>
  <2>1. steps'[u] \in Seq(Step) /\ Len(steps'[u]) = Len(steps[u])
    BY DEF Relabelling
  <2> QED BY <2>1
<1>4. \A i \in ToSkip(u)' : i \in DOMAIN steps'[u] /\ Before(u, i)' /\ "cancel" \in OwnerMay
  <2>1. ToSkip(u)' \subseteq ToSkip(u) /\ DOMAIN steps[u] \subseteq Nat
    BY <1>2 DEF ToSkip
  <2>2. \A i \in ToSkip(u) : i \in DOMAIN steps[u] /\ Before(u, i) /\ "cancel" \in OwnerMay
    BY <1>1 DEF RowOK
  <2> QED BY <1>2, <2>1, <2>2, RelabelPlan
<1>5. task'[u].state = "absent" => steps'[u] = <<>> /\ cancel'[u] = {}
  BY <1>1, <1>3 DEF RowOK
<1> QED BY <1>1, <1>2, <1>4, <1>5 DEF RowOK

\* A cancel reads the steps that wait.
LEMMA CancelReadsKeeps ==
  ASSUME IInv, NEW t \in Tasks, CancelReads(t)
  PROVE  IInv'
<1>1. /\ UNCHANGED <<task, steps, tickets, jobs, main, flags, alive, starts, retries, tested>>
      /\ "cancel" \in OwnerMay /\ task[t].state # "absent"
      /\ cancel' = [cancel EXCEPT ![t] = {0} \cup {i \in DOMAIN steps[t] : steps[t][i].state = "waiting"}]
  BY DEF CancelReads
<1>2. TypeOK /\ DOMAIN steps[t] \subseteq 1..MaxLen
  BY Constants DEF IInv, TypeOK
<1>3. cancel'[t] = {0} \cup {i \in DOMAIN steps[t] : steps[t][i].state = "waiting"} /\ \A u \in Tasks \ {t} : cancel'[u] = cancel[u]
  BY <1>1, <1>2 DEF TypeOK
<1>4. TypeOK'
  <2>1. cancel' \in [Tasks -> SUBSET (0..MaxLen)]
    BY <1>1, <1>2, Constants DEF TypeOK
  <2> QED BY <1>1, <1>2, <2>1 DEF TypeOK
<1>5. ASSUME NEW i \in ToSkip(t)' PROVE i \in DOMAIN steps[t] /\ steps[t][i].state = "waiting"
  BY <1>3 DEF ToSkip
<1>6. TicketsKeep /\ \A u \in Tasks : NoneNew(u) /\ NoneStale(u)
  BY <1>1 DEF TicketsKeep, NoneNew, NoneStale
<1>7. ASSUME NEW u \in Tasks \ {t} PROVE PlanOK(u)' /\ RowOK(u)' /\ JobOK(u)' /\ PushOK(u)'
  BY <1>1, <1>3, <1>6, OthersKeep
<1>8. PlanOK(t)' /\ PushOK(t)'
  BY <1>1, <1>6, PlanFrame, PushFrame DEF IInv
<1>9. ASSUME NEW i \in DOMAIN steps[t], steps[t][i].state = "waiting" PROVE Before(t, i)
  <2> SUFFICES ASSUME NEW j \in DOMAIN steps[t], j < i, ~Finished(t, j) PROVE FALSE
    BY DEF Before
  <2>1. Behind(t, j)
    BY DEF IInv, PlanOK
  <2> QED BY <1>9, <2>1 DEF Behind, Pristine
<1>10. Fresh(t) => Fresh(t)'
  <2> SUFFICES ASSUME Fresh(t) PROVE Fresh(t)'
    OBVIOUS
  <2>1. ToSkip(t)' = {}
    BY <1>5 DEF Fresh, Pristine
  <2> QED BY <1>1, <2>1 DEF Fresh, Pristine
<1>11. \A i \in ToSkip(t)' : i \in DOMAIN steps'[t] /\ Before(t, i)' /\ "cancel" \in OwnerMay
  BY <1>1, <1>5, <1>9 DEF Before, Finished
<1>12. RowOK(t)'
  BY <1>1, <1>10, <1>11 DEF RowOK, IInv, Finished
<1>13. ASSUME NEW c, AtFront(t, c) PROVE AtFront(t, c)'
  <2>1. c \in DOMAIN steps[t] /\ Before(t, c) /\ Behind(t, c)
    BY <1>13 DEF AtFront
  <2>2. ASSUME NEW q \in ToSkip(t)' PROVE q <= c
    <3>1. ~Pristine(t, q) /\ q \in DOMAIN steps[t]
      BY <1>5 DEF Pristine
    <3> QED BY <1>2, <2>1, <3>1 DEF Behind
  <2>3. c \in DOMAIN steps'[t] /\ Before(t, c)' /\ Behind(t, c)'
    BY <1>1, <2>1 DEF Before, Behind, Finished, Pristine
  <2> QED BY <2>2, <2>3 DEF AtFront
<1>14. JobOK(t)'
  <2>1. JobOK(t)
    BY DEF IInv
  <2>2. (Active(t)' <=> Active(t)) /\ (InHand(t)' <=> InHand(t)) /\ Kind(t)' = Kind(t)
    BY <1>1 DEF Active, InHand, Kind
  <2>3. AtFront(t, jobs[t].step) => AtFront(t, jobs[t].step)'
    BY <1>1, <1>13
  <2>4. Reached(t, jobs[t].step) => Reached(t, jobs[t].step)'
    BY <1>1, <1>6, ReachedFrame
  <2>5. \A k : Fits(t, jobs[t].step, k) => Fits(t, jobs[t].step, k)'
    BY <1>1 DEF Fits
  <2> QED BY <1>1, <1>10, <2>1, <2>2, <2>3, <2>4, <2>5 DEF JobOK
<1>15. MainOK'
  <2>1. MainOK
    BY DEF IInv
  <2>2. CASE main.at # "free" /\ main.task = t
    <3>1. AtFront(main.task, main.step) => AtFront(main.task, main.step)'
      BY <1>1, <1>13, <2>2
    <3>2. /\ Active(main.task)' <=> Active(main.task)
          /\ InHand(main.task)' <=> InHand(main.task)
          /\ (\A u \in Tasks : ~Active(u)) <=> (\A u \in Tasks : ~Active(u)')
          /\ Fits(main.task, main.step, main.ticket) => Fits(main.task, main.step, main.ticket)'
          /\ Written(main.at)' = Written(main.at)
      BY <1>1 DEF Active, InHand, Fits, Written
    <3> QED BY ONLY <1>1, <2>1, <2>2, <3>1, <3>2 DEF MainOK
  <2>3. CASE main.at = "free" \/ main.task # t
    <3>1. \A u \in Tasks : Active(u)' => Active(u)
      BY <1>1 DEF Active
    <3>2. main.at # "free" =>
            /\ main.task \in Tasks /\ InHand(main.task)' /\ task'[main.task].state # "queued"
            /\ cancel'[main.task] \subseteq cancel[main.task]
      BY <1>1, <1>3, <2>1, <2>3 DEF MainOK, InHand
    <3> QED BY <1>1, <1>2, <1>6, <2>1, <3>1, <3>2, MainFrame
  <2> QED BY <2>2, <2>3
<1>16. \A k \in DOMAIN tickets' : TicketOK(k)'
  BY <1>1, <1>6, TicketFrame DEF IInv
<1> QED BY <1>4, <1>7, <1>8, <1>12, <1>14, <1>15, <1>16 DEF IInv

\* The plan of t with one of these steps skipped.
LEMMA CancelRelabels ==
  ASSUME IInv, NEW t \in Tasks, NEW i \in ToSkip(t), CancelSkips(t, i)
  PROVE  /\ Relabelling /\ \A u \in Tasks \ {t} : steps'[u] = steps[u]
         /\ i \in DOMAIN steps[t] /\ steps'[t][i].state = "skipped" /\ "cancel" \in OwnerMay
         /\ \A j \in DOMAIN steps[t] \ {i} : steps'[t][j] = steps[t][j]
         /\ cancel' \in [Tasks -> SUBSET (0..MaxLen)] /\ cancel'[t] = cancel[t] \ {i}
         /\ \A u \in Tasks \ {t} : cancel'[u] = cancel[u]
<1>1. i \in DOMAIN steps[t] /\ "cancel" \in OwnerMay /\ TypeOK
  BY DEF IInv, RowOK
<1>2. /\ Becomes(t, i, steps'[t][i]) /\ steps'[t][i].state = "skipped"
      /\ steps'[t][i].ticket = steps[t][i].ticket
  BY <1>1, SetStepBecomes DEF CancelSkips, StepStates
<1>3. Relabelling
  BY <1>2 DEF Becomes, Relabelling
<1>4. cancel \in [Tasks -> SUBSET (0..MaxLen)] /\ cancel' = [cancel EXCEPT ![t] = cancel[t] \ {i}]
  BY <1>1 DEF CancelSkips, TypeOK
<1>5. cancel' \in [Tasks -> SUBSET (0..MaxLen)] /\ cancel'[t] = cancel[t] \ {i} /\ \A u \in Tasks \ {t} : cancel'[u] = cancel[u]
  BY <1>4
<1> QED BY <1>1, <1>2, <1>3, <1>5 DEF Becomes

LEMMA CancelSkipsKeeps ==
  ASSUME IInv, NEW t \in Tasks, NEW i \in ToSkip(t), CancelSkips(t, i)
  PROVE  IInv'
<1>1. /\ Relabelling /\ (\A u \in Tasks \ {t} : steps'[u] = steps[u])
      /\ "cancel" \in OwnerMay /\ \A j \in DOMAIN steps[t] : steps'[t][j] = steps[t][j] \/ (j = i /\ steps'[t][j].state = "skipped")
      /\ cancel' \in [Tasks -> SUBSET (0..MaxLen)] /\ \A u \in Tasks : cancel'[u] \subseteq cancel[u]
  BY CancelRelabels
<1>2. UNCHANGED <<task, tickets, jobs, main, flags, alive, starts, retries, tested>>
  BY DEF CancelSkips
<1>3. ASSUME NEW u \in Tasks PROVE RowOK(u)'
  BY <1>1, <1>2, RelabelRow
<1>4. ASSUME NEW u \in Tasks PROVE JobOK(u)'
  <2> PICK c : c = jobs[u].step
    OBVIOUS
  <2>1. JobOK(u) /\ (Fresh(u) => Fresh(u)') /\ (c \in Nat => (AtFront(u, c) => AtFront(u, c)'))
    BY <1>1, <1>2, RelabelPlan DEF IInv
  <2>2. c \in Nat
    BY StepInRange
  <2>3. /\ DOMAIN steps'[u] = DOMAIN steps[u]
        /\ \A j \in DOMAIN steps[u] : /\ steps'[u][j].kind = steps[u][j].kind
                                      /\ steps'[u][j].state = "running" => steps[u][j].state = "running"
                                      /\ steps'[u][j].state \in {steps[u][j].state, "skipped"}
    <3>1. DOMAIN steps'[u] = DOMAIN steps[u] /\ \A j \in DOMAIN steps[u] : steps'[u][j].kind = steps[u][j].kind
      BY <1>1 DEF Relabelling
    <3>2. CASE u = t
      BY <1>1, <3>1, <3>2
    <3>3. CASE u # t
      BY <1>1, <3>3
    <3> QED BY <3>1, <3>2, <3>3
  <2>4. (Active(u)' <=> Active(u)) /\ (InHand(u)' <=> InHand(u))
    BY <1>2 DEF Active, InHand
  <2>5. c \in DOMAIN steps[u] => Kind(u)' = Kind(u) /\ \A k : Fits(u, c, k) => Fits(u, c, k)'
    BY <1>2, <2>3 DEF Kind, Fits
  <2>6. AtFront(u, jobs[u].step) => AtFront(u, jobs[u].step)' /\ jobs[u].step \in DOMAIN steps[u]
    BY <1>2, <2>1, <2>2 DEF AtFront
  <2>8. Reached(u, jobs[u].step) => Reached(u, jobs[u].step)'
    BY <1>2 DEF Reached
  <2>9. jobs[u].step \in DOMAIN steps[u] =>
          steps'[u][jobs[u].step].state = steps[u][jobs[u].step].state \/ steps'[u][jobs[u].step].state = "skipped"
    BY <2>3
  <2>7. jobs[u].step \in DOMAIN steps[u] => \A k : Fits(u, jobs[u].step, k) => Fits(u, jobs[u].step, k)'
    BY <1>2, <2>5
  <2> QED BY <1>1, <1>2, <2>1, <2>3, <2>4, <2>5, <2>6, <2>7, <2>8, <2>9 DEF JobOK
<1>5. ASSUME NEW u \in Tasks PROVE PushOK(u)'
  <2> SUFFICES ASSUME jobs[u].at = "cleared", Gate(u)' = "push" PROVE PushOK(u)'
    BY <1>2 DEF PushOK
  <2>1. jobs[u].step \in DOMAIN steps[u]
    BY AtStep
  <2>2. Kind(u)' = Kind(u)
    BY <1>1, <1>2, <2>1 DEF Kind, Relabelling
  <2>3. Gate(u)' = Gate(u) /\ Scope(u)' = Scope(u)
    BY <1>2, <2>2 DEF Gate, Scope
  <2>4. Asked(u)' = Asked(u)
    BY <1>2, <2>3 DEF Asked
  <2> QED BY <1>2, <2>3, <2>4 DEF PushOK, IInv
<1>6. MainOK'
  <2>1. ~alive => main = Free /\ \A u \in Tasks : ~Active(u)'
    BY <1>2 DEF IInv, MainOK, Active
  <2>2. main.at # "free" =>
           /\ main.task \in Tasks /\ ~Active(main.task)' /\ InHand(main.task)' /\ task'[main.task].state # "queued"
           /\ steps'[main.task] # <<>> /\ main.seen.state # "queued" /\ main.seen.attempts < MaxAttempts
    <3> SUFFICES ASSUME main.at # "free" PROVE steps'[main.task] # <<>> /\ main.task \in Tasks
      BY <1>2 DEF IInv, MainOK, Active, InHand
    <3>1. main.task \in Tasks /\ steps[main.task] # <<>> /\ steps[main.task] \in Seq(Step)
      BY DEF IInv, MainOK, TypeOK
    <3>2. steps'[main.task] \in Seq(Step) /\ Len(steps'[main.task]) = Len(steps[main.task])
      BY <1>1, <3>1 DEF Relabelling
    <3> QED BY <3>1, <3>2
  <2>3. ASSUME main.at \notin {"free", "resume"}
        PROVE  /\ main.step \in DOMAIN steps'[main.task]
               /\ (steps[main.task][main.step].state \in Written(main.at))'
               /\ AtFront(main.task, main.step)'
               /\ steps'[main.task][main.step].kind = steps[main.task][main.step].kind
    <3> PICK u : u = main.task
      OBVIOUS
    <3> PICK m : m = main.step
      OBVIOUS
    <3>1. /\ u \in Tasks /\ m \in DOMAIN steps[u] /\ AtFront(u, m)
          /\ steps[u][m].state \in Written(main.at) /\ m \in Nat
      BY <2>3 DEF IInv, MainOK, TypeOK, AtFront
    <3>2. AtFront(u, m)'
      BY <1>1, <1>2, <3>1, RelabelPlan
    <3>3. main.at \in MainPoint
      BY DEF IInv, TypeOK, Main
    <3>4. "skipped" \in Written(main.at)
      <4>1. main.at \in {"done", "split", "skip", "supersede", "refused", "replan", "owner", "defer", "wait", "opened",
                         "park", "polled", "fail"}
        BY <2>3, <3>3 DEF MainPoint, Statuses
      <4>2. CASE main.at \in {"park", "polled"}
        BY <4>2 DEF Written
      <4>3. CASE main.at \in {"done", "fail", "owner", "defer", "wait", "opened"}
        BY <4>3 DEF Written
      <4>4. CASE main.at \in {"split", "skip", "supersede", "refused", "replan"}
        BY <4>4 DEF Written
      <4> QED BY <4>1, <4>2, <4>3, <4>4
    <3>5. steps'[u][m].state \in Written(main.at) /\ steps'[u][m].kind = steps[u][m].kind /\ m \in DOMAIN steps'[u]
      <4>1. steps'[u][m].kind = steps[u][m].kind /\ m \in DOMAIN steps'[u]
        BY <1>1, <3>1 DEF Relabelling
      <4>2. steps'[u][m].state \in {steps[u][m].state, "skipped"}
        BY <1>1, <3>1
      <4> QED BY <3>1, <3>4, <4>1, <4>2
    <3>6. Written(main.at)' = Written(main.at)
      BY <1>2
    <3> QED BY <1>2, <3>2, <3>5, <3>6
  <2>4. main.at = "polled" => Fits(main.task, main.step, main.ticket)'
    BY <1>2, <2>3 DEF IInv, MainOK, Fits
  <2> QED BY <1>2, <2>1, <2>2, <2>3, <2>4 DEF IInv, MainOK
<1>7. TypeOK'
  <2>1. steps' \in [Tasks -> Seq(Step)] /\ \A u \in Tasks : Len(steps'[u]) <= MaxLen
    BY <1>1, <1>2 DEF Relabelling, IInv, TypeOK
  <2> QED BY <1>1, <1>2, <2>1 DEF IInv, TypeOK
<1> QED BY <1>1, <1>2, <1>3, <1>4, <1>5, <1>6, <1>7, RelabelPlan, RelabelTickets DEF IInv

LEMMA StartRelabels ==
  ASSUME IInv, Start
  PROVE  /\ Relabelling
         /\ \A u \in Tasks : \A i \in DOMAIN steps[u] : steps'[u][i].state # "running"
<1> DEFINE C(u, i) == IF steps[u][i].state = "running" THEN [steps[u][i] EXCEPT !.state = "pending"] ELSE steps[u][i]
           S(u) == [i \in DOMAIN steps[u] |-> C(u, i)]
<1>1. steps \in [Tasks -> Seq(Step)]
  BY DEF IInv, TypeOK
<1>2. steps' = [u \in Tasks |-> S(u)]
  BY DEF Start
<1>3. ASSUME NEW u \in Tasks, NEW i \in DOMAIN steps[u]
      PROVE  /\ C(u, i) \in Step /\ C(u, i).kind = steps[u][i].kind /\ C(u, i).ticket = steps[u][i].ticket
             /\ \/ C(u, i).state = steps[u][i].state
                \/ steps[u][i].state = "running" /\ C(u, i).state = "pending"
             /\ C(u, i).state # "running"
  <2>1. steps[u][i] \in Step
    BY <1>1
  <2> QED BY <2>1 DEF Step, StepStates
<1> HIDE DEF C
<1>4. ASSUME NEW u \in Tasks
      PROVE  /\ S(u) \in Seq(Step) /\ Len(S(u)) = Len(steps[u]) /\ DOMAIN S(u) = DOMAIN steps[u]
             /\ \A i \in DOMAIN steps[u] : S(u)[i] = C(u, i)
  <2>1. steps[u] \in Seq(Step)
    BY <1>1
  <2> QED BY <2>1, <1>3
<1> HIDE DEF S
<1>5. steps' \in [Tasks -> Seq(Step)] /\ \A u \in Tasks : steps'[u] = S(u)
  BY <1>2, <1>4
<1>7. ASSUME NEW u \in Tasks
      PROVE /\ Len(steps'[u]) = Len(steps[u]) /\ DOMAIN steps'[u] = DOMAIN steps[u]
            /\ \A j \in DOMAIN steps[u] :
                 /\ steps'[u][j].kind = steps[u][j].kind /\ steps'[u][j].ticket = steps[u][j].ticket
                 /\ \/ steps'[u][j].state = steps[u][j].state
                    \/ steps[u][j].state = "running" /\ steps'[u][j].state = "pending"
                 /\ steps'[u][j].state # "running"
  BY <1>3, <1>4, <1>5
<1> QED BY <1>5, <1>7 DEF Relabelling

LEMMA NoJobsKeep ==
  ASSUME NEW u \in Tasks, ~Active(u)', jobs'[u].step = 0, \A i \in DOMAIN steps'[u] : steps'[u][i].state # "running" \/ ~alive'
  PROVE  JobOK(u)' /\ PushOK(u)'
  BY DEF JobOK, PushOK, Active

LEMMA StartKeeps ==
  ASSUME IInv, Start, starts < MaxStarts
  PROVE  IInv'
<1>1. Relabelling /\ \A u \in Tasks : \A i \in DOMAIN steps[u] : steps'[u][i].state # "running"
  BY StartRelabels
<1>2. UNCHANGED <<task, tickets, jobs, main, flags, cancel, retries, tested>> /\ alive' /\ starts' = starts + 1
  BY DEF Start
<1>3. main = Free /\ \A u \in Tasks : ~Active(u) /\ jobs[u].step = 0
  BY DEF Start, IInv, MainOK, JobOK
<1>4. ASSUME NEW u \in Tasks PROVE PlanOK(u)' /\ RowOK(u)' /\ JobOK(u)' /\ PushOK(u)'
  <2>1. PlanOK(u)' /\ RowOK(u)'
    BY <1>1, <1>2, RelabelPlan, RelabelRow
  <2>2. ~Active(u)' /\ jobs'[u].step = 0 /\ \A i \in DOMAIN steps'[u] : steps'[u][i].state # "running"
    BY <1>1, <1>2, <1>3 DEF Active, Relabelling
  <2> QED BY <2>1, <2>2, NoJobsKeep
<1>5. MainOK'
  BY <1>2, <1>3 DEF MainOK, Free
<1>6. TypeOK'
  <2>1. starts' \in 0..MaxStarts /\ flags' \subseteq {"paused", "stop"} /\ alive' \in BOOLEAN
    BY <1>2, Constants DEF IInv, TypeOK, Start
  <2>2. steps' \in [Tasks -> Seq(Step)] /\ \A u \in Tasks : Len(steps'[u]) <= MaxLen
    BY <1>1 DEF Relabelling, IInv, TypeOK
  <2> QED BY <1>2, <2>1, <2>2 DEF IInv, TypeOK
<1>7. \A k \in DOMAIN tickets' : TicketOK(k)'
  BY <1>1, <1>2, RelabelTickets
<1> QED BY <1>4, <1>5, <1>6, <1>7 DEF IInv

-----------------------------------------------------------------------------
(* The process, the flags and the answers *)

LEMMA HaltKeeps ==
  ASSUME IInv, Halt
  PROVE  IInv'
<1>1. UNCHANGED <<task, steps, tickets, jobs, main, cancel, starts, retries, tested>> /\ ~alive' /\ main = Free
      /\ \A u \in Tasks : ~Active(u)
  BY DEF Halt, Idle, IInv, MainOK
<1>2. TicketsKeep /\ \A u \in Tasks : NoneNew(u) /\ NoneStale(u) /\ PlanOK(u) /\ RowOK(u) /\ jobs[u].step = 0
  BY <1>1 DEF TicketsKeep, NoneNew, NoneStale, IInv, JobOK
<1>3. ASSUME NEW u \in Tasks PROVE PlanOK(u)' /\ RowOK(u)' /\ JobOK(u)' /\ PushOK(u)'
  <2>1. PlanOK(u)' /\ RowOK(u)'
    BY <1>1, <1>2, PlanFrame, RowFrame
  <2>2. ~Active(u)' /\ jobs'[u].step = 0
    BY <1>1, <1>2 DEF Active
  <2> QED BY <1>1, <2>1, <2>2, NoJobsKeep
<1>4. MainOK'
  BY <1>1 DEF MainOK, Active, Free
<1>5. TypeOK'
  BY <1>1 DEF Halt, IInv, TypeOK
<1>6. \A k \in DOMAIN tickets' : TicketOK(k)'
  BY <1>1, <1>2, TicketFrame DEF IInv
<1> QED BY <1>3, <1>4, <1>5, <1>6 DEF IInv

LEMMA CrashKeeps ==
  ASSUME IInv, Crash
  PROVE  IInv'
<1>1. UNCHANGED <<task, steps, tickets, cancel, starts, retries, tested>> /\ alive' = FALSE /\ flags' = {} /\ main' = Free
      /\ jobs' = [u \in Tasks |-> NoJob]
  BY DEF Crash
<1>2. TicketsKeep /\ \A u \in Tasks : NoneNew(u) /\ NoneStale(u) /\ PlanOK(u) /\ RowOK(u)
  BY <1>1 DEF TicketsKeep, NoneNew, NoneStale, IInv
<1>3. \A u \in Tasks : jobs'[u] = NoJob /\ ~Active(u)' /\ jobs'[u].step = 0
  BY <1>1 DEF Active, NoJob
<1>4. ASSUME NEW u \in Tasks PROVE PlanOK(u)' /\ RowOK(u)' /\ JobOK(u)' /\ PushOK(u)'
  <2>1. PlanOK(u)' /\ RowOK(u)'
    BY <1>1, <1>2, PlanFrame, RowFrame
  <2> QED BY <1>1, <1>3, <2>1, NoJobsKeep
<1>5. MainOK'
  BY <1>1, <1>3 DEF MainOK, Free
<1>6. TypeOK'
  <2>1. NoJob \in Job /\ Free \in Main
    BY Constants DEF NoJob, NoOut, Job, Outcome, Statuses, Free, Main, MainPoint, Absent, TaskRow, States
  <2> QED BY <1>1, <2>1 DEF IInv, TypeOK
<1>7. \A k \in DOMAIN tickets' : TicketOK(k)'
  BY <1>1, <1>2, TicketFrame DEF IInv
<1> QED BY <1>4, <1>5, <1>6, <1>7 DEF IInv

\* What touches neither a row, a plan nor a job.
LEMMA AsideKeeps ==
  ASSUME IInv, UNCHANGED <<task, steps, jobs, main, alive, cancel>>, TicketsKeep, \A u \in Tasks : NoneNew(u),
         DOMAIN tickets' = DOMAIN tickets, \A k \in DOMAIN tickets : tickets'[k].stale = tickets[k].stale, TypeOK'
  PROVE  IInv'
<1>4. \A u \in Tasks : NoneStale(u)
  BY DEF NoneStale
<1>1. \A u \in Tasks : PlanOK(u)' /\ RowOK(u)' /\ JobOK(u)' /\ PushOK(u)'
  BY <1>4, OthersKeep
<1>2. \A k \in DOMAIN tickets' : TicketOK(k)'
  BY TicketFrame DEF IInv
<1>3. MainOK'
  <2>1. \A u \in Tasks : Active(u)' => Active(u)
    BY DEF Active
  <2>2. main.at # "free" => main.task \in Tasks /\ InHand(main.task)' /\ task'[main.task].state # "queued"
    BY DEF IInv, MainOK, InHand
  <2> QED BY <1>4, <2>1, <2>2, MainFrame DEF IInv
<1> QED BY <1>1, <1>2, <1>3 DEF IInv

LEMMA AnswerKeeps ==
  ASSUME IInv, NEW k \in DOMAIN tickets, NEW v \in {"approved", "denied"}, Answer(k, v)
  PROVE  IInv'
<1> DEFINE x == [tickets[k] EXCEPT !.state = v]
<1>1. tickets \in Seq(Ticket) /\ tickets[k] \in Ticket /\ Len(tickets) <= MaxTickets
  BY DEF IInv, TypeOK
<1>2. /\ x \in Ticket /\ x.gate = tickets[k].gate /\ x.task = tickets[k].task /\ x.step = tickets[k].step
      /\ x.stale = tickets[k].stale
  BY <1>1 DEF Ticket
<1>3. tickets' = [tickets EXCEPT ![k] = x]
  BY <1>1 DEF Answer
<1> HIDE DEF x
<1>4. /\ tickets' \in Seq(Ticket) /\ Len(tickets') = Len(tickets) /\ DOMAIN tickets' = DOMAIN tickets
      /\ tickets'[k] = x /\ \A j \in DOMAIN tickets \ {k} : tickets'[j] = tickets[j]
  BY <1>1, <1>2, <1>3
<1>5. TicketsKeep /\ (\A u \in Tasks : NoneNew(u) /\ NoneStale(u)) /\ \A j \in DOMAIN tickets : tickets'[j].stale = tickets[j].stale
  BY <1>2, <1>4 DEF TicketsKeep, NoneNew, NoneStale, Answer
<1>6. UNCHANGED <<task, steps, jobs, main, flags, alive, cancel, starts, retries, tested>>
  BY DEF Answer
<1>7. TypeOK'
  BY <1>1, <1>4, <1>6 DEF IInv, TypeOK
<1> QED BY <1>4, <1>5, <1>6, <1>7, AsideKeeps

LEMMA SetFlagsKeeps ==
  ASSUME IInv, Pause \/ Unpause \/ Stop
  PROVE  IInv'
<1>1. UNCHANGED <<task, steps, tickets, jobs, main, alive, cancel, starts, retries, tested>> /\ flags' \subseteq {"paused", "stop"}
  BY DEF Pause, Unpause, Stop, SetFlags, IInv, TypeOK
<1>2. TypeOK'
  BY <1>1 DEF IInv, TypeOK
<1>3. TicketsKeep /\ \A u \in Tasks : NoneNew(u) /\ NoneStale(u)
  BY <1>1 DEF TicketsKeep, NoneNew, NoneStale
<1> QED BY <1>1, <1>2, <1>3, AsideKeeps

-----------------------------------------------------------------------------
(* Plans that are written anew from some step on *)

\* The first n steps of t stay, what is behind them is new.
Rewrites(t, n) ==
  /\ steps' \in [Tasks -> Seq(Step)] /\ \A u \in Tasks \ {t} : steps'[u] = steps[u]
  /\ n \in 0..Len(steps[t]) /\ n <= Len(steps'[t]) /\ Len(steps'[t]) <= MaxLen
  /\ \A j \in 1..n : steps'[t][j] = steps[t][j]
  /\ \A j \in DOMAIN steps'[t] : n < j => Pristine(t, j)'

LEMMA NewsIs ==
  ASSUME NEW kinds \in Seq(Kinds)
  PROVE  /\ News(kinds) \in Seq(Step) /\ Len(News(kinds)) = Len(kinds) /\ DOMAIN News(kinds) = DOMAIN kinds
         /\ \A i \in DOMAIN kinds : /\ News(kinds)[i].kind = kinds[i] /\ News(kinds)[i].state = "pending"
                                    /\ News(kinds)[i].ticket = 0
<1>1. ASSUME NEW k \in Kinds
      PROVE  New(k) \in Step /\ New(k).kind = k /\ New(k).state = "pending" /\ New(k).ticket = 0
  <2>1. (IF k = "review" THEN 1 ELSE 0) \in 0..(ReviewRounds + 1) /\ 0 \in 0..MaxTickets
    BY Constants
  <2> QED BY <2>1 DEF New, Step, StepStates
<1> HIDE DEF New
<1>2. \A i \in DOMAIN kinds : kinds[i] \in Kinds
  OBVIOUS
<1> QED BY <1>1, <1>2 DEF News

\* A sequence put into another behind its first i members.
Splice(s, i, new) == SubSeq(s, 1, i) \o new \o SubSeq(s, i + 1, Len(s))

\* What the sequence r holds when it is that of the members of S.
Spliced(S, r, s, i, new) ==
  /\ r \in Seq(S) /\ Len(r) = Len(s) + Len(new)
  /\ \A j \in 1..i : r[j] = s[j]
  /\ \A j \in (i + 1)..(i + Len(new)) : r[j] = new[j - i]
  /\ \A j \in (i + Len(new) + 1)..Len(r) : r[j] = s[j - Len(new)]

LEMMA SpliceIs ==
  ASSUME NEW S, NEW s \in Seq(S), NEW new \in Seq(S), NEW i \in 1..Len(s), NEW r, r = Splice(s, i, new)
  PROVE  Spliced(S, r, s, i, new)
<1>1. i \in Nat /\ Len(s) \in Nat /\ Len(new) \in Nat /\ 1 <= i /\ i <= Len(s)
  OBVIOUS
<1> PICK a : a = SubSeq(s, 1, i)
  OBVIOUS
<1> PICK b : b = SubSeq(s, i + 1, Len(s))
  OBVIOUS
<1>2. a \in Seq(S) /\ Len(a) = i /\ \A j \in 1..i : a[j] = s[j]
  BY <1>1
<1>3. b \in Seq(S) /\ Len(b) = Len(s) - i /\ \A j \in 1..(Len(s) - i) : b[j] = s[i + j]
  BY <1>1
<1> PICK c : c = a \o new
  OBVIOUS
<1>4. c \in Seq(S) /\ Len(c) = i + Len(new)
  BY <1>1, <1>2
<1>5. (\A j \in 1..i : c[j] = a[j]) /\ \A j \in 1..Len(new) : c[i + j] = new[j]
  BY <1>1, <1>2
<1>6. r = c \o b
  BY DEF Splice
<1>7. r \in Seq(S) /\ Len(r) = Len(s) + Len(new)
  <2>1. c \in Seq(S) /\ b \in Seq(S) /\ Len(c) = i + Len(new) /\ Len(b) = Len(s) - i
    BY <1>3, <1>4
  <2>2. r \in Seq(S) /\ Len(r) = Len(c) + Len(b)
    BY <1>6, <2>1
  <2> QED BY ONLY <1>1, <2>1, <2>2
<1>8. (\A j \in 1..Len(c) : r[j] = c[j]) /\ \A j \in 1..Len(b) : r[Len(c) + j] = b[j]
  <2>1. c \in Seq(S) /\ b \in Seq(S) /\ Len(c) \in Nat /\ Len(b) \in Nat
    BY <1>3, <1>4
  <2>2. ASSUME NEW j \in 1..Len(c) PROVE r[j] = c[j]
    BY <1>6, <2>1
  <2>3. ASSUME NEW j \in 1..Len(b) PROVE r[Len(c) + j] = b[j]
    BY <1>6, <2>1
  <2> QED BY <2>2, <2>3
<1>9. ASSUME NEW j \in 1..i PROVE r[j] = s[j]
  <2>1. j \in 1..Len(c)
    BY <1>1, <1>4
  <2> QED BY <1>2, <1>5, <1>8, <2>1
<1>10. ASSUME NEW j \in (i + 1)..(i + Len(new)) PROVE r[j] = new[j - i]
  <2>1. j \in 1..Len(c) /\ j - i \in 1..Len(new) /\ i + (j - i) = j
    BY <1>1, <1>4
  <2>2. c[i + (j - i)] = new[j - i]
    BY <1>5, <2>1
  <2> QED BY <1>8, <2>1, <2>2
<1>11. ASSUME NEW j \in (i + Len(new) + 1)..Len(r) PROVE r[j] = s[j - Len(new)]
  <2>1. j - Len(c) \in 1..Len(b) /\ Len(c) + (j - Len(c)) = j /\ i + (j - Len(c)) = j - Len(new)
    BY <1>1, <1>3, <1>4, <1>7
  <2>2. r[Len(c) + (j - Len(c))] = b[j - Len(c)] /\ b[j - Len(c)] = s[i + (j - Len(c))]
    BY <1>1, <1>3, <1>8, <2>1
  <2> QED BY <2>1, <2>2
<1> QED BY <1>7, <1>9, <1>10, <1>11 DEF Spliced

LEMMA InsertedIs ==
  ASSUME TypeOK, NEW t \in Tasks, NEW i \in DOMAIN steps[t], NEW new \in Seq(Step),
         \A j \in DOMAIN new : new[j].state = "pending" /\ new[j].ticket = 0,
         \A j \in DOMAIN steps[t] : i < j => Pristine(t, j), InsertAfter(t, i, new)
  PROVE  /\ Rewrites(t, i) /\ Len(steps'[t]) = Len(steps[t]) + Len(new)
         /\ \A j \in (i + 1)..(i + Len(new)) : steps'[t][j] = new[j - i]
         /\ \A j \in (i + Len(new) + 1)..Len(steps'[t]) : steps'[t][j] = steps[t][j - Len(new)]
<1> DEFINE s == steps[t]
           r == Inserted(t, i, new)
<1>1. s \in Seq(Step) /\ i \in 1..Len(s) /\ Len(s) \in Nat /\ i \in Nat /\ Len(new) \in Nat /\ steps \in [Tasks -> Seq(Step)]
  BY DEF TypeOK
<1>2. /\ Len(s) + Len(new) <= MaxLen /\ steps' = [steps EXCEPT ![t] = r]
  BY DEF InsertAfter
<1>8. /\ r \in Seq(Step) /\ Len(r) = Len(s) + Len(new)
      /\ \A j \in 1..i : r[j] = s[j]
      /\ \A j \in (i + 1)..(i + Len(new)) : r[j] = new[j - i]
      /\ \A j \in (i + Len(new) + 1)..Len(r) : r[j] = s[j - Len(new)]
  <2>1. r = Splice(s, i, new)
    BY DEF Inserted, Splice
  <2> HIDE DEF r, s
  <2>2. s \in Seq(Step) /\ i \in 1..Len(s) /\ new \in Seq(Step)
    BY <1>1
  <2>3. s \in Seq(Step) /\ new \in Seq(Step) /\ i \in 1..Len(s) /\ r = Splice(s, i, new)
    BY <2>1, <2>2
  <2>4. Spliced(Step, r, s, i, new)
    BY ONLY <2>3, SpliceIs
  <2> QED BY ONLY <2>4 DEF Spliced
<1> HIDE DEF r
<1>9. steps'[t] = r /\ (\A u \in Tasks \ {t} : steps'[u] = steps[u]) /\ steps' \in [Tasks -> Seq(Step)]
  BY <1>1, <1>2, <1>8
<1>10. ASSUME NEW j \in DOMAIN r, i < j PROVE r[j].state = "pending" /\ r[j].ticket = 0
  <2>1. j \in Nat /\ j <= Len(s) + Len(new)
    BY <1>8
  <2>2. CASE j <= i + Len(new)
    <3>1. j - i \in 1..Len(new) /\ j \in (i + 1)..(i + Len(new))
      BY <1>1, <1>10, <2>1, <2>2
    <3>2. r[j] = new[j - i]
      BY <1>8, <3>1
    <3> QED BY <3>1, <3>2
  <2>3. CASE j > i + Len(new)
    <3>1. j \in (i + Len(new) + 1)..Len(r) /\ i < j - Len(new) /\ j - Len(new) \in DOMAIN s
      BY <1>1, <1>8, <2>1, <2>3
    <3>2. r[j] = s[j - Len(new)]
      BY <1>8, <3>1
    <3>3. Pristine(t, j - Len(new))
      BY <3>1
    <3> QED BY <3>2, <3>3 DEF Pristine
  <2> QED BY <1>1, <2>1, <2>2, <2>3
<1>11. Rewrites(t, i)
  <2>1. \A j \in DOMAIN steps'[t] : i < j => Pristine(t, j)'
    BY <1>9, <1>10 DEF Pristine
  <2>2. i \in 0..Len(steps[t]) /\ i <= Len(steps'[t]) /\ Len(steps'[t]) <= MaxLen
    <3>1. Len(steps'[t]) = Len(s) + Len(new)
      BY <1>8, <1>9
    <3>2. Len(s) + Len(new) <= MaxLen
      BY <1>2
    <3> QED BY ONLY <1>1, <3>1, <3>2, Constants
  <2>3. \A j \in 1..i : steps'[t][j] = steps[t][j]
    BY <1>8, <1>9
  <2> QED BY <1>9, <2>1, <2>2, <2>3 DEF Rewrites
<1>12. Len(steps'[t]) = Len(steps[t]) + Len(new)
  BY <1>8, <1>9
<1> QED BY <1>8, <1>9, <1>11, <1>12

\* What a rewritten plan keeps: it is still worked off from the front, and the
\* requests of its first n steps still belong to them.
LEMMA RewriteKeeps ==
  ASSUME IInv, NEW t \in Tasks, NEW n \in Nat, Rewrites(t, n), UNCHANGED tickets,
         \A k \in DOMAIN tickets : tickets[k].task = t => tickets[k].step <= n
  PROVE  /\ PlanOK(t)' /\ \A i \in 1..n : Before(t, i) => Before(t, i)'
         /\ \A k \in DOMAIN tickets : tickets[k].task = t /\ steps'[t] # <<>> => TicketOK(k)'
<1>1. /\ steps[t] \in Seq(Step) /\ steps'[t] \in Seq(Step) /\ n <= Len(steps[t]) /\ n <= Len(steps'[t])
      /\ \A j \in 1..n : steps'[t][j] = steps[t][j]
      /\ \A j \in DOMAIN steps'[t] : n < j => Pristine(t, j)'
  BY DEF Rewrites, IInv, TypeOK
<1>2. ASSUME NEW i \in DOMAIN steps'[t]
      PROVE  (~Finished(t, i)' => Behind(t, i)') /\ (steps'[t][i].ticket # 0 => Fits(t, i, steps[t][i].ticket)' /\ steps'[t][i].ticket = steps[t][i].ticket)
  <2>1. i \in Nat /\ i >= 1
    BY <1>1
  <2>2. CASE i > n
    <3>1. \A j \in DOMAIN steps'[t] : i < j => Pristine(t, j)'
      BY <1>1, <2>1, <2>2
    <3> QED BY <1>1, <2>2, <3>1 DEF Behind, Pristine
  <2>3. CASE i <= n
    <3>1. i \in 1..n /\ i \in DOMAIN steps[t] /\ steps'[t][i] = steps[t][i]
      BY <1>1, <2>1, <2>3
    <3>2. /\ ~Finished(t, i) => Behind(t, i)
          /\ steps[t][i].ticket # 0 => Fits(t, i, steps[t][i].ticket)
      BY <3>1 DEF IInv, PlanOK
    <3>3. ASSUME Behind(t, i), NEW j \in DOMAIN steps'[t], i < j PROVE Pristine(t, j)'
      <4>1. CASE j > n
        BY <1>1, <3>3, <4>1
      <4>2. CASE j <= n
        <5>1. j \in 1..n /\ j \in DOMAIN steps[t]
          BY <1>1, <2>1, <3>3, <4>2
        <5> QED BY <1>1, <3>3, <5>1 DEF Behind, Pristine
      <4>3. j \in Nat
        BY <1>1
      <4> QED BY <4>1, <4>2, <4>3
    <3>4. Finished(t, i)' <=> Finished(t, i)
      BY <3>1 DEF Finished
    <3>5. Behind(t, i) => Behind(t, i)'
      BY <3>3 DEF Behind
    <3> QED BY <3>1, <3>2, <3>4, <3>5 DEF Fits
  <2> QED BY <2>1, <2>2, <2>3
<1>3. PlanOK(t)'
  BY <1>2 DEF PlanOK
<1>4. ASSUME NEW i \in 1..n, Before(t, i) PROVE Before(t, i)'
  <2> SUFFICES ASSUME NEW j \in DOMAIN steps'[t], j < i PROVE Finished(t, j)'
    BY DEF Before
  <2>1. j \in 1..n /\ j \in DOMAIN steps[t]
    BY <1>1
  <2> QED BY <1>1, <1>4, <2>1 DEF Before, Finished
<1>5. ASSUME NEW k \in DOMAIN tickets, tickets[k].task = t, steps'[t] # <<>> PROVE TicketOK(k)'
  <2> PICK i : i = tickets[k].step
    OBVIOUS
  <2>1. i \in Nat /\ TicketOK(k) /\ i <= n
    <3>1. tickets[k] \in Ticket /\ TicketOK(k)
      BY DEF IInv, TypeOK
    <3> QED BY <1>5, <3>1 DEF Ticket
  <2>2. i # 0 => i \in 1..n /\ i \in DOMAIN steps[t] /\ i \in DOMAIN steps'[t] /\ steps'[t][i] = steps[t][i]
    BY <1>1, <2>1
  <2>3. i # 0 => Before(t, i)'
    BY <1>4, <1>5, <2>1, <2>2 DEF TicketOK
  <2>4. i # 0 => (Finished(t, i)' <=> Finished(t, i))
    BY <2>2 DEF Finished
  <2> QED BY <1>5, <2>1, <2>2, <2>3, <2>4 DEF TicketOK
<1> QED BY <1>3, <1>4, <1>5

\* The row of the task whose plan is rewritten behind what is left to be skipped.
LEMMA RewriteRow ==
  ASSUME IInv, NEW t \in Tasks, NEW n \in Nat, Rewrites(t, n), UNCHANGED <<task, tickets, cancel>>,
         \A k \in DOMAIN tickets : tickets[k].task = t => tickets[k].step <= n,
         \A q \in ToSkip(t) : q <= n, InHand(t), task[t].state # "queued"
  PROVE  RowOK(t)'
<1>1. ASSUME NEW q \in ToSkip(t) PROVE q \in DOMAIN steps'[t] /\ Before(t, q)' /\ "cancel" \in OwnerMay
  <2>1. q \in DOMAIN steps[t] /\ Before(t, q) /\ "cancel" \in OwnerMay
    BY <1>1 DEF IInv, RowOK
  <2>2. q \in 1..n
    BY <2>1 DEF IInv, TypeOK
  <2>3. Before(t, q)'
    BY <2>1, <2>2, RewriteKeeps
  <2>4. q \in DOMAIN steps'[t]
    BY <2>2 DEF Rewrites
  <2> QED BY <2>1, <2>3, <2>4
<1>2. ToSkip(t)' = ToSkip(t)
  BY DEF ToSkip
<1>3. task[t].attempts # MaxAttempts
  <2>1. task[t] \in TaskRow
    BY DEF IInv, TypeOK
  <2> QED BY <2>1, Constants DEF InHand, TaskRow
<1> QED BY <1>1, <1>2, <1>3 DEF RowOK, InHand

\* The rest of the invariant, when a plan is rewritten.
LEMMA RewriteRest ==
  ASSUME IInv, NEW t \in Tasks, NEW n \in Nat, Rewrites(t, n), UNCHANGED <<task, tickets, alive, cancel, flags, starts, retries, tested>>,
         \A k \in DOMAIN tickets : tickets[k].task = t => tickets[k].step <= n,
         steps'[t] # <<>> \/ \A k \in DOMAIN tickets : tickets[k].task # t,
         \A u \in Tasks \ {t} : jobs'[u] = jobs[u], jobs' \in [Tasks -> Job], main' \in Main,
         RowOK(t)', JobOK(t)', PushOK(t)', MainOK'
  PROVE  IInv'
<1>1. TicketsKeep /\ \A u \in Tasks : NoneNew(u) /\ NoneStale(u)
  BY DEF TicketsKeep, NoneNew, NoneStale
<1>2. \A u \in Tasks \ {t} : steps'[u] = steps[u]
  BY DEF Rewrites
<1>3. ASSUME NEW u \in Tasks \ {t} PROVE PlanOK(u)' /\ RowOK(u)' /\ JobOK(u)' /\ PushOK(u)'
  BY <1>1, <1>2, OthersKeep
<1>4. PlanOK(t)' /\ \A k \in DOMAIN tickets : tickets[k].task = t => TicketOK(k)'
  BY RewriteKeeps
<1>5. ASSUME NEW k \in DOMAIN tickets, tickets[k].task # t PROVE TicketOK(k)'
  <2>1. tickets[k].task \in Tasks
    <3>1. tickets[k] \in Ticket
      BY DEF IInv, TypeOK
    <3> QED BY <3>1 DEF Ticket
  <2> QED BY <1>1, <1>2, <1>5, <2>1, TicketFrame DEF IInv
<1>6. TypeOK'
  BY <1>2 DEF Rewrites, IInv, TypeOK
<1>7. \A k \in DOMAIN tickets' : TicketOK(k)'
  BY <1>4, <1>5
<1> QED BY <1>3, <1>4, <1>6, <1>7 DEF IInv

\* Where a worker's step runs: what is behind it is untouched, and nothing was
\* asked for there.
LEMMA RunningIsFront ==
  ASSUME IInv, NEW t \in Tasks, jobs[t].at = "run"
  PROVE  /\ Behind(t, jobs[t].step)
         /\ \A k \in DOMAIN tickets : tickets[k].task = t => tickets[k].step <= jobs[t].step
         /\ \A q \in ToSkip(t) : q <= jobs[t].step
BY AtStep DEF Reached, AtFront

LEMMA FixPlanIs ==
  ASSUME IInv, NEW t \in Tasks, jobs[t].at = "run", Kind(t) \in {"test", "ci", "review"},
         Kind(t) = "review" => steps[t][jobs[t].step].round <= ReviewRounds
  PROVE  /\ FixPlan(t) \in Seq(Step)
         /\ \A j \in DOMAIN FixPlan(t) : FixPlan(t)[j].state = "pending" /\ FixPlan(t)[j].ticket = 0
         /\ Len(FixPlan(t)) = (IF Kind(t) = "test" THEN 2 ELSE 4)
         /\ FixPlan(t)[1].kind = "code" /\ FixPlan(t)[2].kind = "test"
         /\ Kind(t) # "test" => FixPlan(t)[3].kind = "pr" /\ FixPlan(t)[4].kind \in {"ci", "review"}
<1>1. CASE Kind(t) = "test"
  <2> PICK k : k = <<"code", "test">>
    OBVIOUS
  <2>1. k \in Seq(Kinds) /\ Len(k) = 2 /\ k[1] = "code" /\ k[2] = "test"
    BY DEF Kinds
  <2>2. FixPlan(t) = News(k)
    BY <1>1 DEF FixPlan
  <2>3. /\ News(k) \in Seq(Step) /\ Len(News(k)) = Len(k) /\ DOMAIN News(k) = DOMAIN k
        /\ \A i \in DOMAIN k : News(k)[i].kind = k[i] /\ News(k)[i].state = "pending" /\ News(k)[i].ticket = 0
    BY <2>1, NewsIs
  <2>4. 1 \in DOMAIN k /\ 2 \in DOMAIN k
    BY <2>1
  <2> QED BY <1>1, <2>1, <2>2, <2>3, <2>4
<1>2. CASE Kind(t) = "ci"
  <2> PICK k : k = <<"code", "test", "pr", "ci">>
    OBVIOUS
  <2>1. k \in Seq(Kinds) /\ Len(k) = 4 /\ k[1] = "code" /\ k[2] = "test" /\ k[3] = "pr" /\ k[4] = "ci"
    BY DEF Kinds
  <2>2. FixPlan(t) = News(k)
    BY <1>2 DEF FixPlan
  <2>3. /\ News(k) \in Seq(Step) /\ Len(News(k)) = Len(k) /\ DOMAIN News(k) = DOMAIN k
        /\ \A i \in DOMAIN k : News(k)[i].kind = k[i] /\ News(k)[i].state = "pending" /\ News(k)[i].ticket = 0
    BY <2>1, NewsIs
  <2>4. 1 \in DOMAIN k /\ 2 \in DOMAIN k /\ 3 \in DOMAIN k /\ 4 \in DOMAIN k
    BY <2>1
  <2> QED BY <1>2, <2>1, <2>2, <2>3, <2>4
<1>3. CASE Kind(t) = "review"
  <2> DEFINE r == [New("review") EXCEPT !.round = steps[t][jobs[t].step].round + 1]
             f == [i \in 1..4 |-> IF i = 4 THEN r ELSE New((<<"code", "test", "pr">>)[i])]
  <2>1. FixPlan(t) = f
    BY <1>3 DEF FixPlan
  <2>2. steps[t][jobs[t].step].round + 1 \in 0..(ReviewRounds + 1)
    <3>1. steps[t][jobs[t].step] \in Step
      BY AtStep DEF IInv, TypeOK
    <3>2. steps[t][jobs[t].step].round \in Nat
      BY <3>1, Constants DEF Step
    <3> QED BY <1>3, <3>2, Constants
  <2>3. \A k \in Kinds : New(k) \in Step /\ New(k).kind = k /\ New(k).state = "pending" /\ New(k).ticket = 0
    BY Constants DEF New, Step, StepStates
  <2>4. r \in Step /\ r.kind = "review" /\ r.state = "pending" /\ r.ticket = 0
    <3>1. New("review") \in Step /\ New("review").kind = "review" /\ New("review").state = "pending" /\ New("review").ticket = 0
      BY <2>3 DEF Kinds
    <3> QED BY <2>2, <3>1 DEF Step
  <2> HIDE DEF r
  <2>5. f[1] = New("code") /\ f[2] = New("test") /\ f[3] = New("pr") /\ f[4] = r /\ DOMAIN f = 1..4
    OBVIOUS
  <2> HIDE DEF f
  <2>6. \A i \in 1..4 : f[i] \in Step /\ f[i].state = "pending" /\ f[i].ticket = 0
    <3>1. {"code", "test", "pr"} \subseteq Kinds
      BY DEF Kinds
    <3> QED BY <2>3, <2>4, <2>5, <3>1
  <2>7. f \in Seq(Step) /\ Len(f) = 4
    <3>1. f = [i \in 1..4 |-> f[i]]
      BY DEF f
    <3> QED BY <2>6, <3>1
  <2>8. f[1].kind = "code" /\ f[2].kind = "test" /\ f[3].kind = "pr" /\ f[4].kind = "review"
    BY <2>3, <2>4, <2>5 DEF Kinds
  <2> QED BY <1>3, <2>1, <2>5, <2>6, <2>7, <2>8
<1> QED BY <1>1, <1>2, <1>3

LEMMA AskForWorkKeeps ==
  ASSUME IInv, NEW t \in Tasks, AskForWork(t)
  PROVE  IInv'
<1> PICK i : i = jobs[t].step
  OBVIOUS
<1> PICK new : new = FixPlan(t)
  OBVIOUS
<1>1. /\ Active(t) /\ i # 0 /\ i \in DOMAIN steps[t] /\ Before(t, i)
      /\ steps[t][i].state = "running" \/ ("cancel" \in OwnerMay /\ steps[t][i].state = "skipped")
      /\ task[t].state # "queued" /\ Behind(t, i) /\ i \in 1..Len(steps[t]) /\ i \in Nat
      /\ Reached(t, i) /\ \A q \in ToSkip(t) : q <= i
      /\ \A k \in DOMAIN tickets : tickets[k].task = t => tickets[k].step <= i
  <2>1. i \in DOMAIN steps[t] => i \in 1..Len(steps[t]) /\ i \in Nat
    BY DEF IInv, TypeOK
  <2> QED BY <2>1, AtStep, RunningIsFront DEF AskForWork
<1>2. new \in Seq(Step) /\ \A j \in DOMAIN new : new[j].state = "pending" /\ new[j].ticket = 0
  BY FixPlanIs DEF AskForWork
<1>3. Rewrites(t, i)
  <2>1. InsertAfter(t, i, new) /\ TypeOK /\ \A j \in DOMAIN steps[t] : i < j => Pristine(t, j)
    BY <1>1 DEF AskForWork, IInv, Behind
  <2> QED BY <1>1, <1>2, <2>1, InsertedIs
<1>4. UNCHANGED <<task, tickets, main, flags, alive, cancel, starts, retries, tested>>
  BY DEF AskForWork
<1> PICK status \in {"done", "supersede"} : status = IF Kind(t) = "review" THEN "done" ELSE "supersede"
  OBVIOUS
<1>5. /\ jobs'[t] \in Job /\ jobs' = [jobs EXCEPT ![t] = jobs'[t]]
      /\ jobs'[t].at = "end" /\ jobs'[t].step = i /\ jobs'[t].out = [status |-> status, ticket |-> 0]
  <2>1. Ends(t, status, 0) /\ status \in Statuses /\ 0 \in 0..MaxTickets /\ TypeOK
    BY Constants DEF AskForWork, IInv, Statuses
  <2> QED BY <2>1, Ended
<1>6. jobs' \in [Tasks -> Job] /\ \A u \in Tasks \ {t} : jobs'[u] = jobs[u]
  BY <1>5 DEF IInv, TypeOK
<1>7. /\ \A j \in 1..i : steps'[t][j] = steps[t][j]
      /\ \A j \in DOMAIN steps'[t] : i < j => Pristine(t, j)'
      /\ steps'[t] \in Seq(Step) /\ i \in DOMAIN steps'[t] /\ steps'[t] # <<>>
  BY <1>1, <1>3 DEF Rewrites
<1>8. main.task # t /\ alive /\ InHand(t)
  BY <1>1, Apart
<1>9. JobOK(t)'
  <2>1. Active(t)' /\ InHand(t)' /\ task'[t].state # "queued"
    BY <1>1, <1>4, <1>5, <1>8 DEF Active, InHand
  <2>2. /\ steps'[t][i].state = "running" \/ ("cancel" \in OwnerMay /\ steps'[t][i].state = "skipped")
        /\ Before(t, i)'
    BY <1>1, <1>3, <1>4, <1>7, RewriteKeeps
  <2>3. ASSUME NEW j \in DOMAIN steps'[t], steps'[t][j].state = "running" PROVE i = j
    <3>1. j \in Nat /\ j >= 1
      BY <1>7
    <3>2. CASE j > i
      BY <1>7, <2>3, <3>1, <3>2 DEF Pristine
    <3>3. CASE j <= i
      <4>1. j \in 1..i /\ j \in DOMAIN steps[t]
        BY <1>1, <3>1, <3>3
      <4>2. steps[t][j].state = "running"
        BY <1>7, <2>3, <4>1
      <4> QED BY <1>8, <4>1, <4>2 DEF IInv, JobOK
    <3> QED BY <1>1, <3>1, <3>2, <3>3
  <2>4. AtFront(t, jobs[t].step)'
    <3>1. Before(t, jobs[t].step)' /\ i = jobs'[t].step
      BY <1>5, <2>2
    <3>2. Behind(t, i)' /\ ToSkip(t)' = ToSkip(t)
      BY <1>4, <1>7 DEF Behind, ToSkip
    <3>3. Behind(t, jobs[t].step)'
      BY <3>1, <3>2
    <3> QED BY <1>1, <1>7, <3>1, <3>2, <3>3 DEF AtFront
  <2>5. Reached(t, jobs[t].step)'
    BY <1>1, <1>4, <1>5 DEF Reached
  <2>6. (jobs'[t].at = "end") /\ jobs'[t].out.status \notin {"none", "park", "split"}
    BY <1>5
  <2> QED BY <1>1, <1>5, <1>7, <2>1, <2>2, <2>3, <2>4, <2>5, <2>6 DEF JobOK
<1>10. PushOK(t)'
  BY <1>5 DEF PushOK
<1>11. RowOK(t)'
  BY <1>1, <1>3, <1>4, <1>8, RewriteRow
<1>12. MainOK'
  <2>1. main.at # "free" => /\ steps'[main.task] = steps[main.task] /\ jobs'[main.task] = jobs[main.task]
                            /\ InHand(main.task)' /\ task'[main.task].state # "queued" /\ main.task \in Tasks
    BY <1>3, <1>4, <1>6, <1>8 DEF IInv, MainOK, InHand, Rewrites
  <2>2. TicketsKeep /\ \A u \in Tasks : NoneNew(u) /\ NoneStale(u)
    BY <1>4 DEF TicketsKeep, NoneNew, NoneStale
  <2> QED BY <1>4, <1>8, <2>1, <2>2, MainFrame DEF IInv
<1>13. main' \in Main
  BY <1>4 DEF IInv, TypeOK
<1> QED BY <1>1, <1>3, <1>4, <1>6, <1>7, <1>9, <1>10, <1>11, <1>12, <1>13, RewriteRest

LEMMA PartsIs ==
  /\ Parts \in Seq(Step) /\ Len(Parts) = 4 /\ DOMAIN Parts = 1..4
  /\ \A j \in DOMAIN Parts : Parts[j].state = "pending" /\ Parts[j].ticket = 0
  /\ Parts[1].kind = "part" /\ Parts[2].kind = "test" /\ Parts[3].kind = "part" /\ Parts[4].kind = "test"
<1> PICK k : k = <<"part", "test", "part", "test">>
  OBVIOUS
<1>1. k \in Seq(Kinds) /\ Len(k) = 4 /\ k[1] = "part" /\ k[2] = "test" /\ k[3] = "part" /\ k[4] = "test"
  BY DEF Kinds
<1>2. Parts = News(k)
  BY DEF Parts
<1>3. /\ News(k) \in Seq(Step) /\ Len(News(k)) = Len(k) /\ DOMAIN News(k) = DOMAIN k
      /\ \A i \in DOMAIN k : News(k)[i].kind = k[i] /\ News(k)[i].state = "pending" /\ News(k)[i].ticket = 0
  BY <1>1, NewsIs
<1>4. DOMAIN k = 1..4 /\ 1 \in DOMAIN k /\ 2 \in DOMAIN k /\ 3 \in DOMAIN k /\ 4 \in DOMAIN k
  BY <1>1
<1> QED BY <1>1, <1>2, <1>3, <1>4

\* The main thread rewrites a plan that no worker is at, behind the step it is at.
LEMMA MainRewrites ==
  ASSUME IInv, main.at \notin {"free", "resume"}, NEW t, t = main.task, NEW n, n = main.step, Rewrites(t, n),
         UNCHANGED <<task, tickets, jobs, flags, alive, cancel, starts, retries, tested>>, main' \in Main, MainOK'
  PROVE  IInv'
<1>1. /\ t \in Tasks /\ n \in DOMAIN steps[t] /\ ~Active(t) /\ jobs[t].step = 0 /\ InHand(t) /\ alive
      /\ task[t].state # "queued" /\ task[t].attempts < MaxAttempts /\ TypeOK
      /\ \A k \in DOMAIN tickets : tickets[k].task = t => tickets[k].step <= n
      /\ \A j \in DOMAIN steps[t] : steps[t][j].state # "running"
      /\ \A q \in ToSkip(t) : q <= n
  BY AtMain DEF AtFront
<1>2. n \in Nat /\ n >= 1 /\ steps[t] \in Seq(Step) /\ task[t].attempts \in Nat
  <2>1. steps[t] \in Seq(Step) /\ task[t] \in TaskRow
    BY <1>1 DEF TypeOK
  <2> QED BY <1>1, <2>1, Constants DEF TaskRow
<1>3. /\ steps'[t] \in Seq(Step) /\ n <= Len(steps'[t]) /\ n <= Len(steps[t]) /\ steps'[t] # <<>>
      /\ \A j \in 1..n : steps'[t][j] = steps[t][j]
      /\ \A j \in DOMAIN steps'[t] : n < j => Pristine(t, j)'
  BY <1>1, <1>2 DEF Rewrites
<1>4. ASSUME NEW j \in DOMAIN steps'[t] PROVE steps'[t][j].state # "running"
  <2>1. j \in Nat /\ j >= 1
    BY <1>3
  <2>2. CASE j > n
    BY <1>2, <1>3, <2>1, <2>2 DEF Pristine
  <2>3. CASE j <= n
    <3>1. j \in 1..n /\ j \in DOMAIN steps[t]
      BY <1>2, <1>3, <2>1, <2>3
    <3> QED BY <1>1, <1>3, <3>1
  <2> QED BY <1>2, <2>1, <2>2, <2>3
<1>5. JobOK(t)' /\ PushOK(t)'
  <2>1. ~Active(t)' /\ jobs'[t].step = 0
    BY <1>1 DEF Active
  <2> QED BY <1>1, <1>4, <2>1, NoJobsKeep
<1>6. RowOK(t)'
  BY <1>1, <1>2, RewriteRow
<1>7. jobs' \in [Tasks -> Job] /\ \A u \in Tasks \ {t} : jobs'[u] = jobs[u]
  BY <1>1 DEF TypeOK
<1> QED BY <1>1, <1>2, <1>3, <1>5, <1>6, <1>7, RewriteRest

LEMMA WritePartsKeeps ==
  ASSUME IInv, WriteParts
  PROVE  IInv'
<1> PICK t : t = main.task
  OBVIOUS
<1> PICK n : n = main.step
  OBVIOUS
<1>1. main.at \notin {"free", "resume"} /\ main' = Free /\ alive
      /\ UNCHANGED <<task, tickets, jobs, flags, alive, cancel, starts, retries, tested>> /\ InsertAfter(t, n, Parts)
  BY DEF WriteParts
<1>2. t \in Tasks /\ n \in DOMAIN steps[t] /\ Behind(t, n) /\ TypeOK
  BY <1>1, AtMain
<1>3. Rewrites(t, n)
  BY <1>1, <1>2, PartsIs, InsertedIs DEF Behind
<1>4. main' \in Main /\ MainOK'
  <2>1. Free \in Main
    BY Constants DEF Free, Main, MainPoint, Absent, TaskRow, States
  <2> QED BY <1>1, <2>1, MainFreed DEF IInv
<1> QED BY <1>1, <1>3, <1>4, MainRewrites

\* set_plan: what is kept is the front of the plan, and the new steps are behind it.
LEMMA SetPlanIs ==
  ASSUME TypeOK, NEW t \in Tasks, NEW n \in 0..Len(steps[t]), NEW kinds \in Seq(Kinds), SetPlan(t, kinds),
         \A i \in DOMAIN steps[t] : Finished(t, i) <=> i <= n
  PROVE  /\ Rewrites(t, n) /\ Len(steps'[t]) = n + Len(kinds)
         /\ \A j \in (n + 1)..(n + Len(kinds)) : steps'[t][j].kind = kinds[j - n]
<1>1. steps[t] \in Seq(Step) /\ n \in Nat /\ Len(steps[t]) \in Nat /\ n <= Len(steps[t]) /\ Len(kinds) \in Nat
  BY DEF TypeOK
<1>2. {i \in DOMAIN steps[t] : steps[t][i].state \in {"done", "skipped"}} = 1..n
  <2>1. \A i : i \in {j \in DOMAIN steps[t] : steps[t][j].state \in {"done", "skipped"}} <=> i \in 1..n
    BY <1>1 DEF Finished
  <2> QED BY <2>1
<1> PICK kept : kept = Kept(t)
  OBVIOUS
<1> PICK new : new = News(kinds)
  OBVIOUS
<1>3. kept \in Seq(Step) /\ Len(kept) = n /\ \A i \in 1..n : kept[i] = steps[t][i]
  <2>1. kept = Pick(steps[t], 1..n)
    BY <1>2 DEF Kept
  <2> QED BY <1>1, <2>1, PickPrefix
<1>4. /\ new \in Seq(Step) /\ Len(new) = Len(kinds)
      /\ \A i \in DOMAIN kinds : new[i].kind = kinds[i] /\ new[i].state = "pending" /\ new[i].ticket = 0
  BY NewsIs
<1> PICK r : r = kept \o new
  OBVIOUS
<1>5. /\ r \in Seq(Step) /\ Len(r) = n + Len(kinds) /\ (\A p \in 1..n : r[p] = kept[p])
      /\ \A p \in 1..Len(kinds) : r[n + p] = new[p]
  <2>1. /\ kept \o new \in Seq(Step) /\ Len(kept \o new) = Len(kept) + Len(new)
        /\ \A p \in 1..Len(kept) : (kept \o new)[p] = kept[p]
        /\ \A p \in 1..Len(new) : (kept \o new)[Len(kept) + p] = new[p]
    BY <1>3, <1>4, ConcatIs
  <2> QED BY <1>3, <1>4, <2>1
<1>6. steps' = [steps EXCEPT ![t] = r] /\ n + Len(kinds) <= MaxLen
  BY <1>3, <1>4 DEF SetPlan
<1>7. steps'[t] = r /\ (\A u \in Tasks \ {t} : steps'[u] = steps[u]) /\ steps' \in [Tasks -> Seq(Step)]
  BY <1>5, <1>6 DEF TypeOK
<1>8. ASSUME NEW j \in (n + 1)..(n + Len(kinds))
      PROVE  r[j].kind = kinds[j - n] /\ r[j].state = "pending" /\ r[j].ticket = 0
  <2>1. j - n \in 1..Len(kinds) /\ n + (j - n) = j
    BY <1>1
  <2>2. r[n + (j - n)] = new[j - n]
    BY <1>5, <2>1
  <2>3. j - n \in DOMAIN kinds
    BY <2>1
  <2> QED BY <1>4, <2>1, <2>2, <2>3
<1>9. \A j \in DOMAIN steps'[t] : n < j => Pristine(t, j)'
  <2> SUFFICES ASSUME NEW j \in DOMAIN r, n < j PROVE Pristine(t, j)'
    BY <1>7
  <2>1. j \in (n + 1)..(n + Len(kinds))
    BY <1>1, <1>5
  <2> QED BY <1>7, <1>8, <2>1 DEF Pristine
<1>10. n <= Len(steps'[t]) /\ Len(steps'[t]) <= MaxLen /\ \A j \in 1..n : steps'[t][j] = steps[t][j]
  BY <1>1, <1>3, <1>5, <1>6, <1>7
<1>11. Rewrites(t, n)
  BY <1>7, <1>9, <1>10 DEF Rewrites
<1> QED BY <1>5, <1>7, <1>8, <1>11

\* What the planning model's answers come to are plans of the kinds of steps.
LEMMA AnswersPlan ==
  ASSUME NEW a \in Answers, NEW hasRepo
  PROVE  /\ PlanFor(a, hasRepo, PlanSteps) \in Seq(Kinds)
         /\ \A plan \in ReplansFor(a, hasRepo, PlanSteps) : plan \in Seq(Kinds)
<1>1. a \in Seq({"local", "code", "game_action"}) /\ PlanSteps \in Nat
  BY LoopAssumption
<1>2. PlanKinds \in SUBSET Kinds
  BY DEF PlanKinds, Placeables, TailKinds, Kinds
<1>3. PlanFor(a, hasRepo, PlanSteps) \in Seq(PlanKinds)
  BY <1>1, PlanForIs
<1>4. ASSUME NEW plan \in ReplansFor(a, hasRepo, PlanSteps) PROVE plan \in Seq(PlanKinds)
  BY <1>1, ReplansForIs
<1>5. \A s \in Seq(PlanKinds) : s \in Seq(Kinds)
  BY <1>2
<1> QED BY <1>3, <1>4, <1>5

LEMMA MakePlanKeeps ==
  ASSUME IInv, NEW t \in Tasks, MakePlan(t)
  PROVE  IInv'
<1>1. jobs[t].at = "plan" /\ jobs' = [jobs EXCEPT ![t].at = "planned"]
      /\ UNCHANGED <<task, tickets, main, flags, alive, cancel, starts, retries, tested>>
  BY DEF MakePlan
<1>2. Active(t) /\ jobs[t].step = 0 /\ Fresh(t) /\ InHand(t) /\ main.task # t /\ alive /\ TypeOK
  <2>1. Active(t)
    BY <1>1 DEF Active
  <2>2. TypeOK /\ JobOK(t)
    BY DEF IInv
  <2> QED BY <1>1, <2>1, <2>2, Apart DEF JobOK
<1> PICK kinds \in Seq(Kinds) : SetPlan(t, kinds)
  BY AnswersPlan DEF MakePlan
<1>3. Rewrites(t, 0)
  <2>1. steps[t] \in Seq(Step) /\ 0 \in 0..Len(steps[t])
    BY <1>2 DEF TypeOK
  <2>2. \A i \in DOMAIN steps[t] : Finished(t, i) <=> i <= 0
    BY <1>2, <2>1 DEF Fresh, Pristine, Finished
  <2> QED BY <1>2, <2>1, <2>2, SetPlanIs
<1>4. /\ steps'[t] \in Seq(Step) /\ \A j \in DOMAIN steps'[t] : Pristine(t, j)'
      /\ \A u \in Tasks \ {t} : steps'[u] = steps[u]
  BY <1>3 DEF Rewrites
<1>5. jobs'[t].at = "planned" /\ jobs'[t].step = 0 /\ jobs' \in [Tasks -> Job] /\ \A u \in Tasks \ {t} : jobs'[u] = jobs[u]
  <2>1. "planned" \in {"planned", "cleared", "end"}
    OBVIOUS
  <2>2. /\ jobs'[t] \in Job /\ jobs' = [jobs EXCEPT ![t] = jobs'[t]]
        /\ jobs'[t].at = "planned" /\ jobs'[t].step = jobs[t].step
    BY <1>1, <1>2, <2>1, Moved
  <2> QED BY <1>2, <2>2 DEF TypeOK
<1>6. Fresh(t)' /\ Active(t)' /\ InHand(t)'
  BY <1>1, <1>2, <1>4, <1>5 DEF Fresh, Active, InHand, ToSkip
<1>7. JobOK(t)' /\ PushOK(t)'
  <2>1. \A j \in DOMAIN steps'[t] : steps'[t][j].state # "running"
    BY <1>4 DEF Pristine
  <2> QED BY <1>5, <1>6, <2>1 DEF JobOK, PushOK
<1>8. RowOK(t)'
  <2>1. task[t].attempts < MaxAttempts /\ task[t].state \notin {"absent", "done"} /\ task[t].attempts \in Nat
    <3>1. task[t] \in TaskRow
      BY <1>2 DEF TypeOK
    <3> QED BY <1>2, <3>1, Constants DEF InHand, TaskRow
  <2> QED BY <1>1, <1>6, <2>1, Constants DEF RowOK, Fresh
<1>9. MainOK'
  <2>1. main.at # "free" => /\ steps'[main.task] = steps[main.task] /\ jobs'[main.task] = jobs[main.task]
                            /\ InHand(main.task)' /\ task'[main.task].state # "queued" /\ main.task \in Tasks
    BY <1>1, <1>2, <1>4, <1>5 DEF IInv, MainOK, InHand
  <2>2. TicketsKeep /\ \A u \in Tasks : NoneNew(u) /\ NoneStale(u)
    BY <1>1 DEF TicketsKeep, NoneNew, NoneStale
  <2> QED BY <1>1, <1>2, <2>1, <2>2, MainFrame DEF IInv
<1>10. \A k \in DOMAIN tickets : tickets[k].task # t
  BY <1>2 DEF Fresh
<1>11. main' \in Main
  BY <1>1, <1>2 DEF TypeOK
<1>12. 0 \in Nat
  OBVIOUS
<1> QED BY <1>1, <1>3, <1>5, <1>7, <1>8, <1>9, <1>10, <1>11, <1>12, RewriteRest

LEMMA ReplanKeeps ==
  ASSUME IInv, Replan
  PROVE  IInv'
<1> PICK t : t = main.task
  OBVIOUS
<1> PICK n : n = main.step
  OBVIOUS
<1>1. main.at = "replan" /\ main' = [main EXCEPT !.at = "resume"] /\ alive
      /\ UNCHANGED <<task, tickets, jobs, flags, alive, cancel, starts, retries, tested>>
  BY DEF Replan
<1>2. /\ t \in Tasks /\ n \in DOMAIN steps[t] /\ Before(t, n) /\ Behind(t, n) /\ TypeOK /\ Finished(t, n)
      /\ ~Active(t) /\ InHand(t) /\ task[t].state # "queued"
  <2>1. main.at \notin {"free", "resume"}
    BY <1>1
  <2>2. steps[t][n].state \in Written("replan")
    BY <1>1, <2>1 DEF IInv, MainOK
  <2> QED BY <2>1, <2>2, AtMain DEF Written, Finished
<1> PICK kinds \in Seq(Kinds) : SetPlan(t, kinds)
  <2>1. PICK a \in Answers : \E plan \in ReplansFor(a, t \in RepoTasks, PlanSteps) : SetPlan(t, plan)
    BY DEF Replan
  <2> QED BY <2>1, AnswersPlan
<1>3. Rewrites(t, n)
  <2>1. steps[t] \in Seq(Step) /\ n \in 0..Len(steps[t]) /\ n \in Nat
    BY <1>2 DEF TypeOK
  <2>2. ASSUME NEW i \in DOMAIN steps[t] PROVE Finished(t, i) <=> i <= n
    <3>1. i \in Nat
      BY <2>1
    <3>2. CASE i < n
      BY <1>2, <2>1, <3>1, <3>2 DEF Before
    <3>3. CASE i = n
      BY <1>2, <2>1, <3>3
    <3>4. CASE i > n
      BY <1>2, <2>1, <3>1, <3>4 DEF Behind, Pristine, Finished
    <3> QED BY <2>1, <3>1, <3>2, <3>3, <3>4
  <2> QED BY <1>2, <2>1, <2>2, SetPlanIs
<1>4. main \in Main /\ main' \in Main /\ main'.at = "resume" /\ main'.task = t /\ main'.seen = main.seen
  BY <1>1, <1>2 DEF TypeOK, Main, MainPoint
<1>5. MainOK'
  <2>1. steps'[t] # <<>>
    <3>1. steps'[t] \in Seq(Step) /\ n \in Nat /\ n >= 1 /\ n <= Len(steps'[t])
      BY <1>2, <1>3 DEF Rewrites, TypeOK
    <3> QED BY <3>1
  <2>2. main.seen.state # "queued" /\ main.seen.attempts < MaxAttempts
    BY <1>1 DEF IInv, MainOK
  <2>3. ~Active(t)' /\ InHand(t)'
    BY <1>1, <1>2 DEF Active, InHand
  <2> QED BY <1>1, <1>2, <1>4, <2>1, <2>2, <2>3 DEF MainOK
<1> QED BY <1>1, <1>3, <1>4, <1>5, MainRewrites

-----------------------------------------------------------------------------
(* Every step keeps the invariant *)

LEMMA WorkKeeps ==
  ASSUME IInv, NEW t \in Tasks, Work(t)
  PROVE  IInv' /\ UNCHANGED <<alive, starts>>
<1>1. CASE MakePlan(t)
  BY <1>1, MakePlanKeeps DEF MakePlan
<1>2. CASE PlanRaises(t)
  BY <1>2, PlanRaisesKeeps DEF PlanRaises, loopVars
<1>3. CASE Planned(t)
  BY <1>3, PlannedKeeps DEF Planned
<1>4. CASE GateAgain(t)
  BY <1>4, GateAgainKeeps DEF GateAgain, loopVars
<1>5. CASE TestsPass(t)
  BY <1>5, TestsPassKeeps DEF TestsPass, loopVars
<1>6. CASE AskForWork(t)
  BY <1>6, AskForWorkKeeps DEF AskForWork
<1>7. ASSUME NEW status \in Statuses, Return(t, status) \/ Push(t, status) PROVE IInv' /\ UNCHANGED <<alive, starts>>
  BY <1>7, StepReturnsKeeps DEF Return, Push, loopVars
<1>8. ASSUME NEW status \in Statuses, CodeSession(t, status) PROVE IInv' /\ UNCHANGED <<alive, starts>>
  BY <1>8, CodeSessionKeeps DEF CodeSession
<1>9. ASSUME NEW s \in {"pending", "approved", "denied"}, NEW heard \in BOOLEAN, FileAction(t, s, heard)
      PROVE  IInv' /\ UNCHANGED <<alive, starts>>
  BY <1>9, FileActionKeeps DEF FileAction
<1>10. ASSUME NEW s \in {"pending", "approved", "denied"}, GateNew(t, s) PROVE IInv' /\ UNCHANGED <<alive, starts>>
  BY <1>10, GateNewKeeps DEF GateNew
<1> QED BY <1>1, <1>2, <1>3, <1>4, <1>5, <1>6, <1>7, <1>8, <1>9, <1>10 DEF Work

LEMMA MainKeeps ==
  ASSUME IInv, Continue \/ \E t \in Tasks : Dispatch(t) \/ Reap(t) \/ Poll(t)
  PROVE  IInv' /\ UNCHANGED <<alive, starts>>
<1>1. CASE WriteTask
  BY <1>1, WriteTaskKeeps DEF WriteTask
<1>2. CASE WriteParts
  BY <1>2, WritePartsKeeps DEF WriteParts
<1>3. CASE PollGate
  BY <1>3, PollGateKeeps DEF PollGate
<1>4. CASE PollGame
  BY <1>4, PollGameKeeps DEF PollGame
<1>5. CASE Replan
  BY <1>5, ReplanKeeps DEF Replan
<1>6. CASE Resume
  BY <1>6, ResumeKeeps DEF Resume
<1>7. ASSUME NEW t \in Tasks, Dispatch(t) PROVE IInv' /\ UNCHANGED <<alive, starts>>
  <2>1. CASE DispatchPlan(t)
    BY <2>1, DispatchPlanKeeps DEF DispatchPlan, loopVars
  <2>2. CASE FinishNow(t)
    BY <2>2, FinishNowKeeps DEF FinishNow
  <2>3. ASSUME NEW i \in DOMAIN steps[t], DeferNow(t, i) PROVE IInv' /\ UNCHANGED <<alive, starts>>
    BY <2>3, DeferNowKeeps DEF DeferNow
  <2>4. ASSUME NEW i \in DOMAIN steps[t], DispatchStep(t, i) PROVE IInv' /\ UNCHANGED <<alive, starts>>
    BY <2>4, DispatchStepKeeps DEF DispatchStep
  <2> QED BY <1>7, <2>1, <2>2, <2>3, <2>4 DEF Dispatch
<1>8. ASSUME NEW t \in Tasks, Reap(t) PROVE IInv' /\ UNCHANGED <<alive, starts>>
  BY <1>8, ReapPlanKeeps, ReapStepKeeps DEF Reap
<1>9. ASSUME NEW t \in Tasks, Poll(t) PROVE IInv' /\ UNCHANGED <<alive, starts>>
  BY <1>9, PollSeesKeeps DEF Poll, PollSees
<1> QED BY <1>1, <1>2, <1>3, <1>4, <1>5, <1>6, <1>7, <1>8, <1>9 DEF Continue

LEMMA OwnerKeeps ==
  ASSUME IInv, Owner \/ \E t \in Tasks : TimePasses(t)
  PROVE  IInv' /\ UNCHANGED <<alive, starts>>
<1>1. ASSUME NEW t \in Tasks, TimePasses(t) PROVE IInv' /\ UNCHANGED <<alive, starts>>
  BY <1>1, TimePassesKeeps DEF TimePasses
<1>2. ASSUME NEW t \in Tasks, AddTask(t) PROVE IInv' /\ UNCHANGED <<alive, starts>>
  BY <1>2, AddTaskKeeps DEF AddTask
<1>3. ASSUME NEW t \in Tasks, Retry(t) PROVE IInv' /\ UNCHANGED <<alive, starts>>
  BY <1>3, RetryKeeps DEF Retry
<1>4. ASSUME NEW t \in Tasks, CancelReads(t) PROVE IInv' /\ UNCHANGED <<alive, starts>>
  BY <1>4, CancelReadsKeeps DEF CancelReads
<1>5. ASSUME NEW t \in Tasks, CancelTask(t) PROVE IInv' /\ UNCHANGED <<alive, starts>>
  BY <1>5, CancelTaskKeeps DEF CancelTask
<1>8. ASSUME NEW t \in Tasks, NEW i \in ToSkip(t), CancelSkips(t, i) PROVE IInv' /\ UNCHANGED <<alive, starts>>
  BY <1>8, CancelSkipsKeeps DEF CancelSkips
<1>6. ASSUME NEW k \in DOMAIN tickets, NEW v \in {"approved", "denied"}, Answer(k, v) PROVE IInv' /\ UNCHANGED <<alive, starts>>
  BY <1>6, AnswerKeeps DEF Answer
<1>7. CASE Pause \/ Unpause \/ Stop
  BY <1>7, SetFlagsKeeps DEF Pause, Unpause, Stop, SetFlags
<1> QED BY <1>1, <1>2, <1>3, <1>4, <1>5, <1>6, <1>7, <1>8 DEF Owner

LEMMA StutterKeeps ==
  ASSUME IInv, UNCHANGED vars
  PROVE  IInv' /\ UNCHANGED <<alive, starts>>
<1>1. UNCHANGED <<task, steps, tickets, jobs, main, flags, alive, cancel, starts, retries, tested>>
  BY DEF vars
<1>2. TypeOK'
  BY <1>1 DEF IInv, TypeOK
<1>3. TicketsKeep /\ \A u \in Tasks : NoneNew(u) /\ NoneStale(u)
  BY <1>1 DEF TicketsKeep, NoneNew, NoneStale
<1> QED BY <1>1, <1>2, <1>3, AsideKeeps

\* A process that has ended may be started again.
StartsOK == ~alive => starts < MaxStarts

LEMMA StepKeeps ==
  ASSUME IInv, StartsOK, [Next]_vars
  PROVE  IInv' /\ StartsOK'
<1>1. ASSUME NEW t \in Tasks, Work(t) PROVE IInv' /\ StartsOK'
  BY <1>1, WorkKeeps DEF StartsOK
<1>2. CASE Continue \/ \E t \in Tasks : Dispatch(t) \/ Reap(t) \/ Poll(t)
  BY <1>2, MainKeeps DEF StartsOK
<1>3. CASE Owner \/ \E t \in Tasks : TimePasses(t)
  BY <1>3, OwnerKeeps DEF StartsOK
<1>4. CASE Halt
  BY <1>4, HaltKeeps DEF Halt, StartsOK
<1>5. CASE Crash
  BY <1>5, CrashKeeps DEF Crash, StartsOK
<1>6. CASE Start
  BY <1>6, StartKeeps DEF Start, StartsOK
<1>7. CASE UNCHANGED vars
  BY <1>7, StutterKeeps DEF StartsOK
<1> QED BY <1>1, <1>2, <1>3, <1>4, <1>5, <1>6, <1>7 DEF Next

LEMMA InductiveInvariant == Spec => [](IInv /\ StartsOK)
<1>1. Init => IInv /\ StartsOK
  BY InitHolds DEF Init, StartsOK
<1>2. IInv /\ StartsOK /\ [Next]_vars => (IInv /\ StartsOK)'
  BY StepKeeps
<1> QED BY <1>1, <1>2, PTL DEF Spec

LEMMA IInvEnough == IInv => RunningHasWorker /\ PushedAsApproved /\ GivesUp /\ DoneIsFinished
<1> SUFFICES ASSUME IInv PROVE RunningHasWorker /\ PushedAsApproved /\ GivesUp /\ DoneIsFinished
  OBVIOUS
<1>1. RunningHasWorker
  <2> SUFFICES ASSUME alive, NEW t \in Tasks, NEW i \in DOMAIN steps[t]
               PROVE  LET has == jobs[t].step = i /\ Active(t) IN
                      /\ steps[t][i].state = "running" => has
                      /\ has => steps[t][i].state = "running" \/ ("cancel" \in OwnerMay /\ steps[t][i].state = "skipped")
    BY DEF RunningHasWorker
  <2>1. JobOK(t) /\ i # 0
    BY DEF IInv, TypeOK
  <2> QED BY <2>1 DEF JobOK
<1>2. PushedAsApproved
  <2> SUFFICES ASSUME NEW t \in Tasks, jobs[t].at = "cleared", Gate(t) = "push"
               PROVE  \E k \in Asked(t) : tickets[k].state = "approved" /\ ~tickets[k].stale
    BY DEF PushedAsApproved
  <2>1. PICK k \in Asked(t) : tickets[k].state = "approved"
    BY DEF IInv, PushOK
  <2>2. k \in DOMAIN tickets /\ tickets[k].gate = "push" /\ tickets[k].task = t /\ tickets[k].step = jobs[t].step
    BY DEF Asked, Scope
  <2>3. Reached(t, jobs[t].step)
    BY AtStep
  <2> QED BY <2>1, <2>2, <2>3 DEF Reached
<1>3. GivesUp
  BY DEF IInv, JobOK, InHand, GivesUp
<1>4. DoneIsFinished
  BY DEF IInv, RowOK, DoneIsFinished, Unfinished, Finished
<1> QED BY <1>1, <1>2, <1>3, <1>4

-----------------------------------------------------------------------------
(* The theorems that hold whatever is killed, retried or cancelled *)

\* The tables and what the threads hold are of their types: a plan, the tickets and
\* the attempts stay within their limits (runner.py and store.py).
THEOREM TypeCorrect == Spec => []TypeOK
<1>1. IInv => TypeOK
  BY DEF IInv
<1> QED BY <1>1, InductiveInvariant, PTL

\* A step is marked running only while a worker has it, and what a worker has is
\* running unless a cancel came late and skipped it (prepare, apply, recover, cancel).
THEOREM OneWorkerPerStep == Spec => []RunningHasWorker
BY IInvEnough, InductiveInvariant, PTL

\* What the pr step pushes is what the owner approved, not edited since (gate_step,
\* poll_gate).
THEOREM ApprovedAsPushed == Spec => []PushedAsApproved
BY IInvEnough, InductiveInvariant, PTL

\* No worker is at a task that failed max_attempts times (apply, candidates).
THEOREM LastAttempt == Spec => []GivesUp
BY IInvEnough, InductiveInvariant, PTL

\* A task is done only when nothing in its plan is left (prepare, apply).
THEOREM NothingLeft == Spec => []DoneIsFinished
BY IInvEnough, InductiveInvariant, PTL

-----------------------------------------------------------------------------
(* TestInv is kept: steps that leave every plan as it is *)

LEMMA RunsFrame ==
  ASSUME NEW u \in Tasks, TestRuns(u), jobs'[u].step \in {0, jobs[u].step}, tested'[u] = tested[u] \/ tested'[u],
         steps'[u] = steps[u] \/ steps'[u][jobs[u].step] = steps[u][jobs[u].step]
  PROVE  TestRuns(u)'
<1>1. CASE jobs'[u].step = 0
  BY <1>1 DEF TestRuns
<1>2. CASE jobs'[u].step # 0
  <2>1. jobs'[u].step = jobs[u].step /\ steps'[u][jobs'[u].step] = steps[u][jobs[u].step]
    BY <1>2
  <2>2. Kind(u)' = Kind(u)
    BY <2>1 DEF Kind
  <2> QED BY <1>2, <2>1, <2>2 DEF TestRuns
<1> QED BY <1>1, <1>2

\* No test is among what a cancel has left to skip.
LEMMA UnaskedFrame ==
  ASSUME NEW u \in Tasks, TestsUnasked(u), cancel'[u] \subseteq cancel[u], \A j \in ToSkip(u) : IsTest(u, j)' => IsTest(u, j)
  PROVE  \A q \in ToSkip(u)' : ~IsTest(u, q)'
  BY DEF TestsUnasked, ToSkip

LEMMA QuietKeeps ==
  ASSUME TestInv, UNCHANGED <<steps, tested>>, main' = main \/ main'.at # "polled",
         \A u \in Tasks : cancel'[u] \subseteq cancel[u],
         \A u \in Tasks : jobs'[u] = jobs[u] \/ (TestEnds(u)' /\ jobs'[u].step \in {0, jobs[u].step})
  PROVE  TestInv'
<1>1. ASSUME NEW u \in Tasks PROVE EditsCovered(u)' /\ TestsAhead(u)' /\ TestsUnasked(u)'
  <2>1. \A q \in ToSkip(u)' : ~IsTest(u, q)'
    BY UnaskedFrame DEF TestInv, IsTest
  <2> QED BY <2>1 DEF TestInv, EditsCovered, TestsAhead, TestsUnasked, IsTest, Finished
<1>4. ASSUME NEW u \in Tasks PROVE TestRuns(u)'
  BY RunsFrame DEF TestInv
<1>2. ASSUME NEW u \in Tasks PROVE TestEnds(u)'
  BY DEF TestInv, TestEnds, IsTest, Kind
<1>3. PolledTested'
  BY DEF TestInv, PolledTested
<1> QED BY <1>1, <1>2, <1>3, <1>4 DEF TestInv

\* A worker that moves on without an edit and without an outcome of the tests.
LEMMA WorkerQuiet ==
  ASSUME IInv, TestInv, NEW t \in Tasks, UNCHANGED <<steps, tested, main, cancel>>,
         \A u \in Tasks \ {t} : jobs'[u] = jobs[u],
         jobs'[t].step = jobs[t].step,
         jobs'[t].at # "end" \/ jobs[t].step = 0 \/ Kind(t) # "test" \/ jobs'[t].out.status \in {"owner", "fail"}
  PROVE  TestInv'
<1>1. Kind(t)' = Kind(t)
  BY DEF Kind
<1>2. TestEnds(t)'
  BY <1>1 DEF TestEnds
<1> QED BY <1>2, QuietKeeps

LEMMA ReturnsOfTest ==
  ASSUME NEW t, NEW status \in Returns(Kind(t)), Kind(t) = "test"
  PROVE  status \in {"owner", "fail"}
  BY DEF Returns

LEMMA GateNotTest ==
  ASSUME NEW t, Gate(t) # "none"
  PROVE  Kind(t) \in {"code", "part", "pr"}
  BY DEF Gate

LEMMA WorkerQuietKeeps ==
  ASSUME IInv, TestInv, NEW t \in Tasks,
         \/ PlanRaises(t) \/ Planned(t) \/ GateAgain(t) \/ DispatchPlan(t)
         \/ \E status \in Statuses : Return(t, status) \/ Push(t, status)
         \/ \E s \in {"pending", "approved", "denied"} : \E heard \in BOOLEAN : FileAction(t, s, heard)
         \/ \E s \in {"pending", "approved", "denied"} : GateNew(t, s)
  PROVE  TestInv'
<1>0. TypeOK /\ JobOK(t) /\ 0 \in 0..MaxTickets
  BY Constants DEF IInv
<1>1. CASE PlanRaises(t) \/ Planned(t)
  <2>1. /\ jobs' = [jobs EXCEPT ![t].at = "end"] /\ jobs[t].at \in {"plan", "planned"} /\ UNCHANGED <<steps, tested, main, cancel>>
    BY <1>1 DEF PlanRaises, Planned, loopVars
  <2>2. jobs' = [jobs EXCEPT ![t] = jobs'[t]] /\ jobs'[t].step = jobs[t].step
    BY <1>0, <2>1, Moved
  <2>3. \A u \in Tasks \ {t} : jobs'[u] = jobs[u]
    BY <1>0, <2>2 DEF TypeOK
  <2>4. jobs[t].step = 0
    BY <1>0, <2>1 DEF JobOK
  <2> QED BY <2>1, <2>2, <2>3, <2>4, WorkerQuiet
<1>2. CASE DispatchPlan(t)
  <2>1. jobs' = [jobs EXCEPT ![t] = [NoJob EXCEPT !.at = "plan"]] /\ UNCHANGED <<steps, tested, main, cancel>>
    BY <1>2 DEF DispatchPlan, loopVars
  <2>2. jobs'[t].at = "plan" /\ jobs'[t].step = 0 /\ \A u \in Tasks \ {t} : jobs'[u] = jobs[u]
    BY <1>0, <2>1 DEF TypeOK, NoJob
  <2>3. TestEnds(t)'
    BY <2>2 DEF TestEnds
  <2> QED BY <2>1, <2>2, <2>3, QuietKeeps
<1>3. ASSUME NEW status \in Statuses, NEW k \in 0..MaxTickets, Ends(t, status, k), UNCHANGED <<steps, tested, main, cancel>>,
             Kind(t) # "test" \/ status \in {"owner", "fail"}
      PROVE  TestInv'
  <2>1. /\ jobs' = [jobs EXCEPT ![t] = jobs'[t]] /\ jobs'[t].step = jobs[t].step
        /\ jobs'[t].out = [status |-> status, ticket |-> k]
    BY <1>0, <1>3, Ended
  <2>2. \A u \in Tasks \ {t} : jobs'[u] = jobs[u]
    BY <1>0, <2>1 DEF TypeOK
  <2> QED BY <1>3, <2>1, <2>2, WorkerQuiet
<1>4. ASSUME jobs' = [jobs EXCEPT ![t].at = "cleared"], UNCHANGED <<steps, tested, main, cancel>> PROVE TestInv'
  <2>1. jobs' = [jobs EXCEPT ![t] = jobs'[t]] /\ jobs'[t].step = jobs[t].step /\ jobs'[t].at = "cleared"
    BY <1>0, <1>4, Moved
  <2>2. \A u \in Tasks \ {t} : jobs'[u] = jobs[u]
    BY <1>0, <2>1 DEF TypeOK
  <2> QED BY <1>4, <2>1, <2>2, WorkerQuiet
<1>5. ASSUME NEW status \in Statuses, Return(t, status) \/ Push(t, status) PROVE TestInv'
  <2>1. Ends(t, status, 0) /\ UNCHANGED <<steps, tested, main, cancel>>
    BY <1>5 DEF Return, Push, loopVars
  <2>2. Kind(t) # "test" \/ status \in {"owner", "fail"}
    <3>1. Return(t, status) => status \in Returns(Kind(t))
      BY DEF Return
    <3>2. Push(t, status) => Gate(t) # "none"
      BY DEF Push
    <3> QED BY <1>5, <3>1, <3>2, ReturnsOfTest, GateNotTest
  <2> QED BY <1>0, <1>3, <2>1, <2>2
<1>6. CASE GateAgain(t)
  <2>1. Kind(t) # "test" /\ UNCHANGED <<steps, tested, main, cancel>>
    BY <1>6, GateNotTest DEF GateAgain, AtGate, loopVars
  <2>2. PICK k \in Asked(t) : \/ jobs' = [jobs EXCEPT ![t].at = "cleared"]
                             \/ Ends(t, "park", k)
    BY <1>6 DEF GateAgain
  <2>3. k \in 0..MaxTickets /\ "park" \in Statuses
    BY <1>0, Constants DEF Asked, TypeOK, Statuses
  <2> QED BY <1>3, <1>4, <2>1, <2>2, <2>3
<1>7. ASSUME NEW s \in {"pending", "approved", "denied"}, NEW heard \in BOOLEAN, FileAction(t, s, heard) PROVE TestInv'
  <2>1. Kind(t) = "game_action" /\ UNCHANGED <<steps, tested, main, cancel>> /\ Len(tickets) < MaxTickets
    BY <1>7 DEF FileAction
  <2>2. PICK status \in {"park", "done", "fail"}, k \in {0, Len(tickets) + 1} : Ends(t, status, k)
    BY <1>7 DEF FileAction
  <2>3. k \in 0..MaxTickets /\ status \in Statuses
    BY <1>0, <2>1, Constants DEF TypeOK, Statuses
  <2> QED BY <1>3, <2>1, <2>2, <2>3
<1>8. ASSUME NEW s \in {"pending", "approved", "denied"}, GateNew(t, s) PROVE TestInv'
  <2>1. Kind(t) # "test" /\ UNCHANGED <<steps, tested, main, cancel>> /\ Len(tickets) < MaxTickets
    BY <1>8, GateNotTest DEF GateNew, AtGate
  <2>2. jobs' = [jobs EXCEPT ![t].at = "cleared"] \/ Ends(t, "park", Len(tickets) + 1) \/ Ends(t, "owner", 0)
    BY <1>8 DEF GateNew
  <2>3. Len(tickets) + 1 \in 0..MaxTickets /\ "park" \in Statuses /\ "owner" \in Statuses
    BY <1>0, <2>1, Constants DEF TypeOK, Statuses
  <2>4. CASE jobs' = [jobs EXCEPT ![t].at = "cleared"]
    BY <1>4, <2>1, <2>4
  <2>5. CASE Ends(t, "park", Len(tickets) + 1)
    BY <1>3, <2>1, <2>3, <2>5
  <2>6. CASE Ends(t, "owner", 0)
    BY <1>0, <1>3, <2>1, <2>3, <2>6
  <2> QED BY <2>2, <2>4, <2>5, <2>6
<1> QED BY <1>1, <1>2, <1>5, <1>6, <1>7, <1>8

LEMMA OwnerQuietKeeps ==
  ASSUME IInv, TestInv,
         \/ WriteTask \/ Resume \/ Halt \/ Crash \/ Pause \/ Unpause \/ Stop \/ UNCHANGED vars
         \/ \E t \in Tasks : FinishNow(t) \/ TimePasses(t) \/ AddTask(t) \/ Retry(t) \/ CancelTask(t)
         \/ \E k \in DOMAIN tickets, v \in {"approved", "denied"} : Answer(k, v)
  PROVE  TestInv'
<1>1. CASE ~Crash
  <2>1. UNCHANGED <<steps, tested, jobs>> /\ (main' = main \/ main' = Free) /\ \A u \in Tasks : cancel'[u] \subseteq cancel[u]
    <3>1. ASSUME NEW t \in Tasks, CancelTask(t) PROVE \A u \in Tasks : cancel'[u] \subseteq cancel[u]
      BY <3>1 DEF CancelTask, IInv, TypeOK
    <3> QED BY <1>1, <3>1 DEF WriteTask, Resume, Halt, Pause, Unpause, Stop, SetFlags, vars, FinishNow, TimePasses, AddTask, Retry,
                CancelTask, Answer
  <2> QED BY <2>1, QuietKeeps DEF Free
<1>2. CASE Crash
  <2>1. UNCHANGED <<steps, tested, cancel>> /\ main' = Free /\ \A u \in Tasks : jobs'[u] = NoJob
    BY <1>2 DEF Crash
  <2>2. \A u \in Tasks : TestEnds(u)' /\ jobs'[u].step = 0
    BY <2>1 DEF TestEnds, NoJob
  <2> QED BY <2>1, <2>2, QuietKeeps DEF Free
<1> QED BY <1>1, <1>2

\* What is behind the front of a plan is not finished.
LEMMA CodeThenTest ==
  ASSUME IInv, TestInv, NEW t \in Tasks, NEW i \in DOMAIN steps[t], steps[t][i].kind \in {"code", "part"},
         Before(t, i), Behind(t, i), NEW p \in DOMAIN steps[t], steps[t][p].kind = "pr", ~Finished(t, p)
  PROVE  \E q \in DOMAIN steps[t] : q < p /\ IsTest(t, q) /\ ~Finished(t, q)
<1>1. i \in Nat /\ p \in Nat /\ i + 1 \in Nat /\ i + 2 \in Nat /\ (i + 1) + 1 = i + 2
  BY DEF IInv, TypeOK
<1>2. i < p
  <2>1. ~(p < i)
    BY DEF Before
  <2>2. p # i
    OBVIOUS
  <2> QED BY <1>1, <2>1, <2>2
<1>3. EditsCovered(t)
  BY DEF TestInv
<1>4. \A q \in DOMAIN steps[t] : i < q => ~Finished(t, q)
  BY DEF Behind, Pristine, Finished
<1>5. CASE IsTest(t, i + 1)
  <2>1. i + 1 # p /\ i + 1 \in DOMAIN steps[t]
    BY <1>5 DEF IsTest
  <2> QED BY <1>1, <1>2, <1>4, <1>5, <2>1
<1>6. CASE i + 1 \in DOMAIN steps[t] /\ steps[t][i + 1].kind = "part"
  <2>1. IsTest(t, i + 2)
    BY <1>1, <1>3, <1>6 DEF EditsCovered
  <2>2. i + 2 # p /\ i + 1 # p /\ i + 2 \in DOMAIN steps[t]
    BY <1>6, <2>1 DEF IsTest
  <2> QED BY <1>1, <1>2, <1>4, <2>1, <2>2
<1> QED BY <1>3, <1>5, <1>6 DEF EditsCovered

LEMMA TestsPassTested ==
  ASSUME IInv, TestInv, NEW t \in Tasks, TestsPass(t)
  PROVE  TestInv'
<1>1. /\ tested' = [tested EXCEPT ![t] = TRUE] /\ Ends(t, "done", 0) /\ UNCHANGED <<steps, main, cancel>> /\ TypeOK
      /\ main.task # t \/ main.at # "polled"
  <2>1. Active(t)
    BY DEF TestsPass, Active
  <2> QED BY <2>1, Apart DEF TestsPass, loopVars, IInv
<1>2. tested'[t] /\ \A u \in Tasks \ {t} : tested'[u] = tested[u]
  BY <1>1 DEF TypeOK
<1>3. /\ jobs'[t].step = jobs[t].step /\ jobs'[t].out = [status |-> "done", ticket |-> 0]
      /\ \A u \in Tasks \ {t} : jobs'[u] = jobs[u]
  <2>1. "done" \in Statuses /\ 0 \in 0..MaxTickets
    BY Constants DEF Statuses
  <2>2. /\ jobs' = [jobs EXCEPT ![t] = jobs'[t]] /\ jobs'[t].step = jobs[t].step
        /\ jobs'[t].out = [status |-> "done", ticket |-> 0]
    BY <1>1, <2>1, Ended
  <2> QED BY <1>1, <2>2 DEF TypeOK
<1>4. ASSUME NEW u \in Tasks PROVE EditsCovered(u)' /\ TestsAhead(u)' /\ TestsUnasked(u)' /\ TestRuns(u)'
  <2>1. \A q \in ToSkip(u)' : ~IsTest(u, q)'
    BY <1>1, UnaskedFrame DEF TestInv, IsTest
  <2>2. TestRuns(u)'
    BY <1>1, <1>2, <1>3, RunsFrame DEF TestInv
  <2> QED BY <1>1, <1>2, <2>1, <2>2 DEF TestInv, EditsCovered, TestsAhead, TestsUnasked, IsTest, Finished
<1>5. TestEnds(t)'
  BY <1>2, <1>3 DEF TestEnds
<1>6. ASSUME NEW u \in Tasks \ {t} PROVE TestEnds(u)'
  BY <1>1, <1>2, <1>3 DEF TestInv, TestEnds, IsTest, Kind
<1>7. PolledTested'
  <2>1. main.at = "polled" => main.task \in Tasks
    BY DEF IInv, MainOK
  <2> QED BY <1>1, <1>2, <2>1 DEF TestInv, PolledTested
<1> QED BY <1>4, <1>5, <1>6, <1>7 DEF TestInv

LEMMA CodeSessionTested ==
  ASSUME IInv, TestInv, NEW t \in Tasks, NEW status \in Statuses, CodeSession(t, status)
  PROVE  TestInv'
<1>1. /\ tested' = [tested EXCEPT ![t] = FALSE] /\ Ends(t, status, 0) /\ UNCHANGED <<steps, main, cancel>> /\ TypeOK
      /\ main.task # t /\ jobs[t].at = "cleared" /\ Kind(t) \in {"code", "part"}
  <2>1. Active(t) /\ Gate(t) = "code"
    BY DEF CodeSession, Active
  <2>2. Kind(t) \in {"code", "part"}
    BY <2>1 DEF Gate
  <2> QED BY <2>1, <2>2, Apart DEF CodeSession, IInv
<1>2. \A u \in Tasks \ {t} : tested'[u] = tested[u]
  BY <1>1 DEF TypeOK
<1>3. jobs'[t].step = jobs[t].step /\ \A u \in Tasks \ {t} : jobs'[u] = jobs[u]
  <2>1. 0 \in 0..MaxTickets
    BY Constants
  <2>2. jobs' = [jobs EXCEPT ![t] = jobs'[t]] /\ jobs'[t].step = jobs[t].step
    BY <1>1, <2>1, Ended
  <2> QED BY <1>1, <2>2 DEF TypeOK
<1>4. ASSUME NEW u \in Tasks PROVE EditsCovered(u)' /\ TestsUnasked(u)'
  <2>1. \A q \in ToSkip(u)' : ~IsTest(u, q)'
    BY <1>1, UnaskedFrame DEF TestInv, IsTest
  <2> QED BY <1>1, <2>1 DEF TestInv, EditsCovered, TestsUnasked, IsTest
<1>5. TestsAhead(t)'
  <2> PICK i : i = jobs[t].step
    OBVIOUS
  <2>1. i \in DOMAIN steps[t] /\ steps[t][i].kind \in {"code", "part"} /\ Before(t, i) /\ Behind(t, i)
    BY <1>1, AtStep DEF Kind
  <2>2. ASSUME NEW p \in DOMAIN steps[t], steps[t][p].kind = "pr", ~Finished(t, p)
        PROVE  \E q \in DOMAIN steps[t] : q < p /\ IsTest(t, q) /\ ~Finished(t, q)
    BY <2>1, <2>2, CodeThenTest
  <2> QED BY <1>1, <2>2 DEF TestsAhead, IsTest, Finished
<1>6. ASSUME NEW u \in Tasks \ {t} PROVE TestsAhead(u)' /\ TestEnds(u)' /\ TestRuns(u)'
  <2>1. TestRuns(u)'
    BY <1>1, <1>2, <1>3, RunsFrame DEF TestInv
  <2> QED BY <1>1, <1>2, <1>3, <2>1 DEF TestInv, TestsAhead, TestEnds, IsTest, Kind, Finished
<1>7. TestEnds(t)' /\ TestRuns(t)'
  <2>1. Kind(t)' = Kind(t)
    BY <1>1, <1>3 DEF Kind
  <2> QED BY <1>1, <2>1 DEF TestEnds, TestRuns
<1>8. PolledTested'
  <2>1. main.at = "polled" => main.task \in Tasks
    BY DEF IInv, MainOK
  <2> QED BY <1>1, <1>2, <2>1 DEF TestInv, PolledTested
<1> QED BY <1>4, <1>5, <1>6, <1>7, <1>8 DEF TestInv

-----------------------------------------------------------------------------
(* TestInv is kept: writes to the steps of a plan *)

\* A write to one step neither ends a test that is still called for nor takes up a
\* push again.
LEMMA WriteTested ==
  ASSUME IInv, TestInv, NEW t \in Tasks, NEW i \in DOMAIN steps[t], NEW r, Becomes(t, i, r), UNCHANGED <<tested, cancel>>,
         r.state = steps[t][i].state \/ r.state # "waiting" \/ steps[t][i].kind # "test",
         r.ticket = steps[t][i].ticket \/ r.ticket = 0 \/ steps[t][i].kind # "test",
         steps[t][i].kind = "pr" => r.state \in {"done", "skipped"} \/ ~Finished(t, i) \/ tested[t],
         \/ steps[t][i].kind # "test" \/ r.state \notin {"done", "skipped"} \/ Finished(t, i) \/ tested[t]
         \/ \A p \in DOMAIN steps[t] : steps[t][p].kind = "pr" /\ ~Finished(t, p) =>
              \E q \in DOMAIN steps[t] : q < p /\ q # i /\ IsTest(t, q) /\ ~Finished(t, q),
         \A u \in Tasks : TestRuns(u)' /\ (jobs'[u] = jobs[u] \/ jobs'[u].at # "end"),
         main'.at # "polled"
  PROVE  TestInv'
<1>1. /\ \A u \in Tasks : DOMAIN steps'[u] = DOMAIN steps[u] /\ \A j \in DOMAIN steps[u] : steps'[u][j].kind = steps[u][j].kind
      /\ \A u \in Tasks \ {t} : steps'[u] = steps[u]
      /\ \A j \in DOMAIN steps[t] \ {i} : steps'[t][j] = steps[t][j]
      /\ steps'[t][i] = r /\ r.kind = steps[t][i].kind
  BY DEF Becomes
<1>2. ASSUME NEW u \in Tasks, NEW j PROVE IsTest(u, j)' <=> IsTest(u, j)
  BY <1>1 DEF IsTest
<1>3. ASSUME NEW u \in Tasks PROVE EditsCovered(u)'
  <2>1. EditsCovered(u)
    BY DEF TestInv
  <2> QED BY <1>1, <1>2, <2>1 DEF EditsCovered
<1>9. ASSUME NEW u \in Tasks PROVE \A q \in ToSkip(u)' : ~IsTest(u, q)'
  BY <1>2, UnaskedFrame DEF TestInv
<1>4. ASSUME NEW u \in Tasks \ {t} PROVE TestsAhead(u)' /\ TestsUnasked(u)'
  BY <1>1, <1>2, <1>9 DEF TestInv, TestsAhead, TestsUnasked, Finished
<1>5. TestsUnasked(t)'
  <2>1. TestsUnasked(t)
    BY DEF TestInv
  <2>2. ASSUME NEW q \in DOMAIN steps[t], IsTest(t, q) PROVE steps'[t][q].ticket = 0 /\ steps'[t][q].state # "waiting"
    <3>1. CASE q # i
      BY <1>1, <2>1, <2>2, <3>1 DEF TestsUnasked
    <3>2. CASE q = i
      <4>1. steps[t][i].kind = "test" /\ steps[t][i].ticket = 0 /\ steps[t][i].state # "waiting"
        BY <2>1, <2>2, <3>2 DEF TestsUnasked, IsTest
      <4> QED BY <1>1, <3>2, <4>1
    <3> QED BY <3>1, <3>2
  <2> QED BY <1>1, <1>2, <1>9, <2>2 DEF TestsUnasked
<1>6. TestsAhead(t)'
  <2> SUFFICES ASSUME ~tested[t], NEW p \in DOMAIN steps[t], steps[t][p].kind = "pr", ~Finished(t, p)'
               PROVE  \E q \in DOMAIN steps[t] : q < p /\ IsTest(t, q)' /\ ~Finished(t, q)'
    BY <1>1 DEF TestsAhead
  <2>1. ~Finished(t, p)
    BY <1>1 DEF Finished
  <2>2. TestsAhead(t)
    BY DEF TestInv
  <2>3. CASE \A a \in DOMAIN steps[t] : steps[t][a].kind = "pr" /\ ~Finished(t, a) =>
               \E q \in DOMAIN steps[t] : q < a /\ q # i /\ IsTest(t, q) /\ ~Finished(t, q)
    <3>1. PICK q \in DOMAIN steps[t] : q < p /\ q # i /\ IsTest(t, q) /\ ~Finished(t, q)
      BY <2>1, <2>3
    <3> QED BY <1>1, <1>2, <3>1 DEF Finished
  <2>4. CASE steps[t][i].kind # "test" \/ r.state \notin {"done", "skipped"} \/ Finished(t, i)
    <3>1. PICK q \in DOMAIN steps[t] : q < p /\ IsTest(t, q) /\ ~Finished(t, q)
      BY <2>1, <2>2 DEF TestsAhead
    <3>2. q = i => r.state \notin {"done", "skipped"}
      BY <2>4, <3>1 DEF IsTest
    <3> QED BY <1>1, <1>2, <3>1, <3>2 DEF Finished
  <2> QED BY <2>3, <2>4
<1>7. ASSUME NEW u \in Tasks PROVE TestEnds(u)'
  <2>1. CASE jobs'[u] = jobs[u] /\ jobs[u].at = "end" /\ jobs[u].step # 0 /\ Kind(u)' = "test"
    <3> PICK j : j = jobs[u].step
      OBVIOUS
    <3>1. Kind(u)' = steps'[u][j].kind /\ Kind(u) = steps[u][j].kind
      BY <2>1 DEF Kind
    <3>2. ASSUME j \in DOMAIN steps[u] PROVE TestEnds(u)'
      <4>1. Kind(u) = "test"
        BY <1>1, <2>1, <3>1, <3>2
      <4>2. /\ jobs[u].out.status \in {"owner", "fail", "done", "supersede"}
            /\ jobs[u].out.status = "done" => tested[u]
            /\ jobs[u].out.status = "supersede" => IsTest(u, j + 2) /\ steps[u][j + 1].kind = "code"
        BY <2>1, <4>1 DEF TestInv, TestEnds
      <4>3. jobs[u].out.status = "supersede" => j + 1 \in DOMAIN steps[u]
        <5>1. steps[u] \in Seq(Step)
          BY DEF IInv, TypeOK
        <5> QED BY <3>2, <4>2, <5>1 DEF IsTest
      <4>4. jobs[u].out.status = "supersede" => IsTest(u, j + 2)' /\ steps'[u][j + 1].kind = "code"
        BY <1>1, <1>2, <4>2, <4>3
      <4> QED BY <2>1, <4>2, <4>4 DEF TestEnds
    <3>3. j \in DOMAIN steps[u]
      BY <2>1 DEF IInv, JobOK, AtFront
    <3> QED BY <3>2, <3>3
  <2>2. CASE ~(jobs'[u] = jobs[u] /\ jobs[u].at = "end" /\ jobs[u].step # 0 /\ Kind(u)' = "test")
    BY <2>2 DEF TestEnds
  <2> QED BY <2>1, <2>2
<1>8. PolledTested'
  BY DEF PolledTested
<1> QED BY <1>3, <1>4, <1>5, <1>6, <1>7, <1>8 DEF TestInv

\* A step that waits or runs has every test before it behind it.
LEMMA UnderWay ==
  ASSUME IInv, TestInv, NEW t \in Tasks, NEW i \in DOMAIN steps[t], steps[t][i].kind = "pr",
         steps[t][i].state \in {"waiting", "running"}
  PROVE  tested[t]
<1> SUFFICES ASSUME ~tested[t] PROVE FALSE
  OBVIOUS
<1>1. PICK q \in DOMAIN steps[t] : q < i /\ ~Finished(t, q)
  BY DEF TestInv, TestsAhead, Finished
<1>2. Behind(t, q)
  BY <1>1 DEF IInv, PlanOK
<1> QED BY <1>1, <1>2 DEF Behind, Pristine

LEMMA DispatchTested ==
  ASSUME IInv, TestInv, NEW t \in Tasks, NEW i \in DOMAIN steps[t], DispatchStep(t, i) \/ DeferNow(t, i)
  PROVE  TestInv'
<1>1. PICK s \in {"running", "pending"} : SetStep(t, i, s)
  BY DEF DispatchStep, DeferNow
<1>2. TypeOK /\ s \in StepStates
  BY DEF IInv, StepStates
<1> PICK r : r = steps'[t][i]
  OBVIOUS
<1>3. Becomes(t, i, r) /\ r.state = s /\ r.ticket = steps[t][i].ticket
  BY <1>1, <1>2, SetStepBecomes
<1>4. ~Finished(t, i) /\ Before(t, i)
  <2>1. IsNext(t, i)
    BY DEF DispatchStep, DeferNow
  <2> QED BY <2>1, NextIsFront
<1>5. UNCHANGED <<tested, cancel>> /\ main'.at # "polled" /\ \A u \in Tasks : jobs'[u] = jobs[u] \/ jobs'[u].at # "end"
  <2>1. CASE DispatchStep(t, i)
    <3>1. main' = main /\ main.at = "free" /\ jobs' = [jobs EXCEPT ![t] = [NoJob EXCEPT !.at = "run", !.step = i]] /\ UNCHANGED <<tested, cancel>>
      BY <2>1 DEF DispatchStep, Candidate, Idle
    <3>2. jobs'[t].at = "run" /\ \A u \in Tasks \ {t} : jobs'[u] = jobs[u]
      BY <1>2, <3>1 DEF TypeOK, NoJob
    <3> QED BY <3>1, <3>2
  <2>2. CASE DeferNow(t, i)
    BY <2>2 DEF DeferNow
  <2> QED BY <2>1, <2>2
<1>6. steps[t][i].kind = "pr" => tested[t]
  <2> SUFFICES ASSUME steps[t][i].kind = "pr", ~tested[t] PROVE FALSE
    OBVIOUS
  <2>1. PICK q \in DOMAIN steps[t] : q < i /\ ~Finished(t, q)
    BY <1>4 DEF TestInv, TestsAhead
  <2> QED BY <1>4, <2>1 DEF Before
<1>7. ~Active(t) /\ jobs[t].step = 0
  <2>1. ~Active(t)
    BY DEF DispatchStep, DeferNow, Candidate
  <2> QED BY <2>1 DEF IInv, JobOK
<1>8. steps'[t][i].kind = steps[t][i].kind /\ \A u \in Tasks \ {t} : steps'[u] = steps[u]
  BY <1>3 DEF Becomes
<1>9. \/ jobs' = jobs
      \/ s = "running" /\ jobs'[t].step = i /\ \A u \in Tasks \ {t} : jobs'[u] = jobs[u]
  <2>1. CASE DispatchStep(t, i)
    <3>1. jobs' = [jobs EXCEPT ![t] = [NoJob EXCEPT !.at = "run", !.step = i]] /\ SetStep(t, i, "running")
      BY <2>1 DEF DispatchStep
    <3>2. jobs'[t].step = i /\ \A u \in Tasks \ {t} : jobs'[u] = jobs[u]
      BY <1>2, <3>1 DEF TypeOK, NoJob
    <3>3. steps'[t][i].state = "running"
      <4>1. "running" \in StepStates
        BY DEF StepStates
      <4> QED BY <1>2, <3>1, <4>1, SetStepBecomes
    <3> QED BY <1>3, <3>2, <3>3
  <2>2. CASE DeferNow(t, i)
    BY <2>2 DEF DeferNow
  <2> QED BY <2>1, <2>2
<1>10. ASSUME NEW u \in Tasks PROVE TestRuns(u)'
  <2>1. CASE u # t
    <3>1. jobs'[u] = jobs[u] /\ steps'[u] = steps[u] /\ TestRuns(u)
      BY <1>8, <1>9, <2>1 DEF TestInv
    <3> QED BY <1>5, <3>1, RunsFrame
  <2>2. CASE u = t /\ jobs' = jobs
    BY <1>7, <2>2 DEF TestRuns
  <2>3. CASE u = t /\ jobs'[t].step = i /\ s = "running"
    <3>1. Kind(t)' = steps'[t][i].kind /\ steps'[t][jobs'[t].step].state = "running"
      BY <1>3, <2>3 DEF Kind
    <3> QED BY <1>5, <1>6, <1>8, <2>3, <3>1 DEF TestRuns
  <2> QED BY <1>9, <2>1, <2>2, <2>3
<1>11. s # "waiting" /\ s \notin {"done", "skipped"}
  OBVIOUS
<1> QED BY <1>3, <1>4, <1>5, <1>10, <1>11, WriteTested

LEMMA ReapTested ==
  ASSUME IInv, TestInv, NEW t \in Tasks, Reap(t)
  PROVE  TestInv'
<1>1. TypeOK /\ jobs' = [jobs EXCEPT ![t] = NoJob] /\ UNCHANGED <<tested, cancel>> /\ jobs[t].at = "end" /\ main.at = "free"
  BY DEF Reap, Idle, IInv
<1>2. jobs'[t] = NoJob /\ \A u \in Tasks \ {t} : jobs'[u] = jobs[u]
  BY <1>1 DEF TypeOK
<1>3. /\ \A u \in Tasks : jobs'[u] = jobs[u] \/ jobs'[u].at # "end"
      /\ jobs'[t].step = 0
  BY <1>2 DEF NoJob
<1>4. CASE jobs[t].step = 0
  <2>1. UNCHANGED <<steps, main>>
    BY <1>4 DEF Reap
  <2>2. TestEnds(t)'
    BY <1>2 DEF TestEnds, NoJob
  <2> QED BY <1>1, <1>2, <1>3, <2>1, <2>2, QuietKeeps
<1>5. CASE jobs[t].step # 0
  <2> PICK i : i = jobs[t].step
    OBVIOUS
  <2> PICK r : r = steps'[t][i]
    OBVIOUS
  <2> PICK status : status = jobs[t].out.status
    OBVIOUS
  <2>1. /\ Becomes(t, i, r) /\ r.state = FirstWrite(status)
        /\ r.ticket = IF status = "park" THEN jobs[t].out.ticket ELSE steps[t][i].ticket
    BY <1>5, ReapWrites
  <2>2. /\ i \in DOMAIN steps[t] /\ Before(t, i) /\ i \in Nat /\ Kind(t) = steps[t][i].kind
        /\ steps[t] \in Seq(Step)
    <3>1. i \in DOMAIN steps[t] /\ Before(t, i) /\ steps[t] \in Seq(Step)
      BY <1>1, <1>5 DEF IInv, JobOK, AtFront, TypeOK
    <3> QED BY <3>1 DEF Kind
  <2>3. Behind(t, i) /\ (steps[t][i].kind = "test" => ~Finished(t, i)) /\ (steps[t][i].kind = "pr" => tested[t])
    <3>1. Behind(t, i)
      BY <1>1, <1>5 DEF IInv, JobOK, AtFront
    <3>2. steps[t][i].kind = "test" => ~Finished(t, i)
      BY <1>5, <2>2 DEF TestInv, TestRuns, Finished
    <3>3. steps[t][i].kind = "pr" => tested[t]
      BY <1>5, <2>2 DEF TestInv, TestRuns
    <3> QED BY <3>1, <3>2, <3>3
  <2>4. main'.at # "polled"
    <3>1. main'.at = status /\ status \in Statuses
      BY <1>1, <1>5 DEF Reap, TypeOK, Job, Outcome
    <3> QED BY <3>1 DEF Statuses
  <2>5. steps[t][i].kind = "test" =>
          /\ status \in {"owner", "fail", "done", "supersede"} /\ (status = "done" => tested[t])
          /\ status = "supersede" => IsTest(t, i + 2) /\ steps[t][i + 1].kind = "code"
    BY <1>1, <1>5, <2>2 DEF TestInv, TestEnds
  <2>6. ASSUME steps[t][i].kind = "test", status = "supersede", NEW p \in DOMAIN steps[t], steps[t][p].kind = "pr", ~Finished(t, p)
        PROVE  \E q \in DOMAIN steps[t] : q < p /\ q # i /\ IsTest(t, q) /\ ~Finished(t, q)
    <3>1. IsTest(t, i + 2) /\ steps[t][i + 1].kind = "code" /\ i + 2 \in DOMAIN steps[t] /\ steps[t][i + 2].kind = "test"
      BY <2>5, <2>6 DEF IsTest
    <3>2. p \in Nat /\ ~(p < i)
      BY <2>2, <2>6 DEF Before
    <3>3. p # i /\ p # i + 1 /\ p # i + 2
      BY <2>6, <3>1
    <3>4. i + 2 < p /\ i < i + 2
      BY <2>2, <3>2, <3>3
    <3>5. ~Finished(t, i + 2)
      BY <2>3, <3>1, <3>4 DEF Behind, Pristine, Finished
    <3> PICK q : q = i + 2
      OBVIOUS
    <3>6. q \in DOMAIN steps[t] /\ q < p /\ q # i /\ IsTest(t, q) /\ ~Finished(t, q)
      BY <2>2, <3>1, <3>4, <3>5
    <3> QED BY <3>6
  <2>7. steps[t][i].kind = "test" /\ status # "supersede" => r.state \in {"pending", "failed"} \/ tested[t]
    BY <2>1, <2>5 DEF FirstWrite
  <2>8. steps[t][i].kind = "test" => r.state # "waiting" /\ r.ticket = steps[t][i].ticket
    BY <2>1, <2>5 DEF FirstWrite
  <2>9. \/ steps[t][i].kind # "test" \/ r.state \notin {"done", "skipped"} \/ Finished(t, i) \/ tested[t]
        \/ \A p \in DOMAIN steps[t] : steps[t][p].kind = "pr" /\ ~Finished(t, p) =>
              \E q \in DOMAIN steps[t] : q < p /\ q # i /\ IsTest(t, q) /\ ~Finished(t, q)
    BY <2>6, <2>7
  <2>10. ASSUME NEW u \in Tasks PROVE TestRuns(u)'
    <3>1. CASE u = t
      BY <1>3, <3>1 DEF TestRuns
    <3>2. CASE u # t
      <4>1. jobs'[u] = jobs[u] /\ steps'[u] = steps[u] /\ TestRuns(u)
        BY <1>2, <2>1, <3>2 DEF Becomes, TestInv
      <4> QED BY <1>1, <4>1, RunsFrame
    <3> QED BY <3>1, <3>2
  <2> HIDE DEF Becomes
  <2> QED BY <2>10, <1>1, <1>3, <2>1, <2>2, <2>3, <2>4, <2>8, <2>9, WriteTested
<1> QED BY <1>4, <1>5

LEMMA PollTested ==
  ASSUME IInv, TestInv, NEW t \in Tasks, NEW i \in DOMAIN steps[t], PollSees(t, i)
  PROVE  TestInv'
<1>1. /\ UNCHANGED <<steps, jobs, tested, cancel>> /\ main'.at = "polled" /\ main'.task = t /\ main'.step = i
      /\ steps[t][i].state = "waiting"
  BY DEF PollSees
<1>2. steps[t][i].kind # "test"
  BY <1>1 DEF TestInv, TestsUnasked, IsTest
<1>3. steps[t][i].kind = "pr" => tested[t]
  BY <1>1, UnderWay
<1>4. PolledTested'
  BY <1>1, <1>2, <1>3 DEF PolledTested
<1>5. ASSUME NEW u \in Tasks PROVE EditsCovered(u)' /\ TestsAhead(u)' /\ TestsUnasked(u)' /\ TestEnds(u)' /\ TestRuns(u)'
  <2>1. TestRuns(u)' /\ \A q \in ToSkip(u)' : ~IsTest(u, q)'
    BY <1>1, RunsFrame, UnaskedFrame DEF TestInv, IsTest
  <2> QED BY <1>1, <2>1 DEF TestInv, EditsCovered, TestsAhead, TestsUnasked, TestEnds, IsTest, Kind, Finished
<1> QED BY <1>4, <1>5 DEF TestInv

LEMMA AnswerTested ==
  ASSUME IInv, TestInv, PollGate \/ PollGame
  PROVE  TestInv'
<1> PICK t : t = main.task
  OBVIOUS
<1> PICK i : i = main.step
  OBVIOUS
<1> PICK r : r = steps'[t][i]
  OBVIOUS
<1>1. main.at = "polled" /\ UNCHANGED <<tested, jobs, cancel>>
  BY DEF PollGate, PollGame
<1>2. t \in Tasks /\ i \in DOMAIN steps[t] /\ TypeOK /\ jobs[t].step = 0
  BY <1>1, AtMain
<1>3. steps[t][i].kind # "test" /\ (steps[t][i].kind = "pr" => tested[t])
  BY <1>1 DEF TestInv, PolledTested
<1>4. main'.at # "polled"
  <2>1. main \in Main
    BY <1>2 DEF TypeOK
  <2> QED BY <2>1 DEF PollGate, PollGame, Main
<1>5. Becomes(t, i, r)
  <2>1. CASE PollGate
    BY <1>2, <2>1, PollWrites
  <2>2. CASE PollGame
    <3>1. PICK s \in {"done", "skipped"} : SetStep(t, i, s)
      BY <2>2 DEF PollGame
    <3>2. s \in StepStates
      BY DEF StepStates
    <3> QED BY <1>2, <3>1, <3>2, SetStepBecomes
  <2> QED BY <2>1, <2>2
<1>6. ASSUME NEW u \in Tasks PROVE TestRuns(u)'
  <2>1. CASE u = t
    BY <1>1, <1>2, <2>1 DEF TestRuns
  <2>2. CASE u # t
    <3>1. steps'[u] = steps[u] /\ TestRuns(u)
      BY <1>5, <2>2 DEF Becomes, TestInv
    <3> QED BY <1>1, <3>1, RunsFrame
  <2> QED BY <2>1, <2>2
<1> QED BY <1>1, <1>2, <1>3, <1>4, <1>5, <1>6, WriteTested

\* Steps that change their state only: what waits is skipped, or what ran is put
\* back.
LEMMA RelabelTested ==
  ASSUME IInv, TestInv, Relabelling, UNCHANGED <<jobs, main, tested>>,
         \A u \in Tasks : TestRuns(u)' /\ cancel'[u] \subseteq cancel[u]
  PROVE  TestInv'
<1>1. ASSUME NEW u \in Tasks
      PROVE  DOMAIN steps'[u] = DOMAIN steps[u] /\ \A j \in DOMAIN steps[u] : steps'[u][j].kind = steps[u][j].kind
  BY DEF Relabelling
<1>2. ASSUME NEW u \in Tasks, NEW j PROVE IsTest(u, j)' <=> IsTest(u, j)
  BY <1>1 DEF IsTest
<1>3. ASSUME NEW u \in Tasks PROVE EditsCovered(u)'
  <2>1. EditsCovered(u)
    BY DEF TestInv
  <2> QED BY <1>1, <1>2, <2>1 DEF EditsCovered
<1>4. ASSUME NEW u \in Tasks, NEW q \in DOMAIN steps[u], IsTest(u, q)
      PROVE  /\ steps'[u][q].ticket = 0 /\ steps'[u][q].state # "waiting"
             /\ ~Finished(u, q) => ~Finished(u, q)'
  <2>1. steps[u][q].ticket = 0 /\ steps[u][q].state # "waiting" /\ q \notin ToSkip(u)
    BY <1>4 DEF TestInv, TestsUnasked
  <2> QED BY <2>1 DEF Relabelling, Finished
<1>5. ASSUME NEW u \in Tasks, NEW p \in DOMAIN steps[u], ~Finished(u, p)' PROVE ~Finished(u, p)
  BY <1>5 DEF Relabelling, Finished
<1>6. ASSUME NEW u \in Tasks PROVE TestsUnasked(u)' /\ TestsAhead(u)'
  <2>1. TestsUnasked(u)'
    <3>1. \A q \in ToSkip(u)' : ~IsTest(u, q)'
      BY <1>2, UnaskedFrame DEF TestInv
    <3> QED BY <1>1, <1>2, <1>4, <3>1 DEF TestsUnasked
  <2>2. TestsAhead(u)'
    <3> SUFFICES ASSUME ~tested[u], NEW p \in DOMAIN steps[u], steps[u][p].kind = "pr", ~Finished(u, p)'
                 PROVE  \E q \in DOMAIN steps[u] : q < p /\ IsTest(u, q)' /\ ~Finished(u, q)'
      BY <1>1 DEF TestsAhead
    <3>1. PICK q \in DOMAIN steps[u] : q < p /\ IsTest(u, q) /\ ~Finished(u, q)
      BY <1>5 DEF TestInv, TestsAhead
    <3> QED BY <1>2, <1>4, <3>1
  <2> QED BY <2>1, <2>2
<1>7. ASSUME NEW u \in Tasks PROVE TestEnds(u)'
  <2> SUFFICES ASSUME jobs[u].at = "end", jobs[u].step # 0, Kind(u)' = "test" PROVE TestEnds(u)'
    BY DEF TestEnds
  <2> PICK j : j = jobs[u].step
    OBVIOUS
  <2>1. j \in DOMAIN steps[u] /\ steps[u] \in Seq(Step)
    BY DEF IInv, JobOK, AtFront, TypeOK
  <2>2. Kind(u) = "test"
    <3>1. Kind(u)' = steps'[u][j].kind /\ Kind(u) = steps[u][j].kind
      BY DEF Kind
    <3> QED BY <1>1, <2>1, <3>1
  <2>3. /\ jobs[u].out.status \in {"owner", "fail", "done", "supersede"}
        /\ jobs[u].out.status = "done" => tested[u]
        /\ jobs[u].out.status = "supersede" => IsTest(u, j + 2) /\ steps[u][j + 1].kind = "code"
    BY <2>2 DEF TestInv, TestEnds
  <2>4. jobs[u].out.status = "supersede" => j + 1 \in DOMAIN steps[u]
    BY <2>1, <2>3 DEF IsTest
  <2>5. jobs[u].out.status = "supersede" => IsTest(u, j + 2)' /\ steps'[u][j + 1].kind = "code"
    BY <1>1, <1>2, <2>3, <2>4
  <2> QED BY <2>3, <2>5 DEF TestEnds
<1>8. PolledTested'
  <2>1. main.at = "polled" => main.task \in Tasks /\ main.step \in DOMAIN steps[main.task]
    BY DEF IInv, MainOK, AtFront
  <2> QED BY <1>1, <2>1 DEF TestInv, PolledTested
<1> QED BY <1>3, <1>6, <1>7, <1>8 DEF TestInv

LEMMA StartTested ==
  ASSUME IInv, TestInv, Start
  PROVE  TestInv'
<1>1. Relabelling /\ UNCHANGED <<jobs, main, tested, cancel>> /\ ~alive
  BY StartRelabels DEF Start
<1>2. ASSUME NEW u \in Tasks PROVE TestRuns(u)'
  <2>1. jobs'[u].step = 0
    BY <1>1 DEF IInv, MainOK, JobOK
  <2> QED BY <2>1 DEF TestRuns
<1> QED BY <1>1, <1>2, RelabelTested

LEMMA CancelSkipsTested ==
  ASSUME IInv, TestInv, NEW t \in Tasks, NEW i \in ToSkip(t), CancelSkips(t, i)
  PROVE  TestInv'
<1>1. /\ Relabelling /\ (\A u \in Tasks \ {t} : steps'[u] = steps[u]) /\ UNCHANGED <<jobs, main, tested>>
      /\ \A j \in DOMAIN steps[t] \ {i} : steps'[t][j] = steps[t][j]
      /\ \A u \in Tasks : cancel'[u] \subseteq cancel[u]
  BY CancelRelabels DEF CancelSkips
<1>2. ASSUME NEW u \in Tasks \ {t} PROVE TestRuns(u)'
  BY <1>1, RunsFrame DEF TestInv
<1>3. TestRuns(t)'
  <2> SUFFICES ASSUME jobs[t].step # 0
               PROVE  /\ Kind(t)' = "test" => steps'[t][jobs[t].step].state = "running"
                      /\ Kind(t)' = "pr" => tested[t]
    BY <1>1 DEF TestRuns
  <2>1. jobs[t].step \in DOMAIN steps[t]
    BY DEF IInv, JobOK, AtFront
  <2>2. Kind(t)' = Kind(t) /\ Kind(t) = steps[t][jobs[t].step].kind
    BY <1>1, <2>1 DEF Kind, Relabelling
  <2>3. Kind(t) = "test" => jobs[t].step # i
    BY <2>1, <2>2 DEF TestInv, TestsUnasked, IsTest
  <2> QED BY <1>1, <2>1, <2>2, <2>3 DEF TestInv, TestRuns
<1> QED BY <1>1, <1>2, <1>3, RelabelTested

\* What waits is no test.
LEMMA CancelReadsTested ==
  ASSUME IInv, TestInv, NEW t \in Tasks, CancelReads(t)
  PROVE  TestInv'
<1>1. /\ UNCHANGED <<steps, jobs, main, tested>>
      /\ cancel' = [cancel EXCEPT ![t] = {0} \cup {i \in DOMAIN steps[t] : steps[t][i].state = "waiting"}]
  BY DEF CancelReads
<1>2. /\ \A u \in Tasks \ {t} : cancel'[u] = cancel[u]
      /\ cancel'[t] = {0} \cup {i \in DOMAIN steps[t] : steps[t][i].state = "waiting"}
  BY <1>1 DEF IInv, TypeOK
<1>3. ASSUME NEW u \in Tasks, NEW q \in ToSkip(u)' PROVE ~IsTest(u, q)'
  <2>1. CASE u = t
    <3>1. q \in DOMAIN steps[t] => steps[t][q].state = "waiting"
      BY <1>2, <1>3, <2>1 DEF ToSkip
    <3> QED BY <1>1, <2>1, <3>1 DEF TestInv, TestsUnasked, IsTest
  <2>2. CASE u # t
    BY <1>1, <1>2, <1>3, <2>2 DEF TestInv, TestsUnasked, IsTest, ToSkip
  <2> QED BY <2>1, <2>2
<1>4. ASSUME NEW u \in Tasks PROVE EditsCovered(u)' /\ TestsAhead(u)' /\ TestsUnasked(u)' /\ TestEnds(u)' /\ TestRuns(u)'
  <2>1. TestRuns(u)'
    BY <1>1, RunsFrame DEF TestInv
  <2> QED BY <1>1, <1>3, <2>1 DEF TestInv, EditsCovered, TestsAhead, TestsUnasked, TestEnds, IsTest, Kind, Finished
<1>5. PolledTested'
  BY <1>1 DEF TestInv, PolledTested
<1> QED BY <1>4, <1>5 DEF TestInv

-----------------------------------------------------------------------------
(* TestInv is kept: plans written anew from some step on *)

\* The new end of a plan is tested: it puts tests behind what edits and before
\* what pushes.
EndTested(t, n) ==
  /\ \A c \in DOMAIN steps[t] : c >= n =>
       /\ steps[t][c].kind = "part" => IsTest(t, c + 1)
       /\ steps[t][c].kind = "code" =>
            IsTest(t, c + 1) \/ (c + 1 \in DOMAIN steps[t] /\ steps[t][c + 1].kind = "part")
  /\ \A p \in DOMAIN steps[t] : n < p /\ steps[t][p].kind = "pr" =>
       \E q \in DOMAIN steps[t] : n < q /\ q < p /\ IsTest(t, q)

LEMMA RewriteTested ==
  ASSUME IInv, TestInv, NEW t \in Tasks, NEW n \in Nat, Rewrites(t, n), UNCHANGED <<tested, cancel>>, EndTested(t, n)',
         \A p \in 1..n : steps[t][p].kind = "pr" => Finished(t, p),
         \A u \in Tasks \ {t} : jobs'[u] = jobs[u],
         \A q \in ToSkip(t) : q <= n,
         TestEnds(t)', TestRuns(t)', PolledTested'
  PROVE  TestInv'
<1>1. /\ steps[t] \in Seq(Step) /\ steps'[t] \in Seq(Step) /\ n <= Len(steps[t]) /\ n <= Len(steps'[t])
      /\ \A j \in 1..n : steps'[t][j] = steps[t][j]
      /\ \A j \in DOMAIN steps'[t] : n < j => Pristine(t, j)'
      /\ \A u \in Tasks \ {t} : steps'[u] = steps[u]
  BY DEF Rewrites, IInv, TypeOK
<1>2. ASSUME NEW u \in Tasks \ {t}
      PROVE  EditsCovered(u)' /\ TestsAhead(u)' /\ TestsUnasked(u)' /\ TestEnds(u)' /\ TestRuns(u)'
  <2>1. TestRuns(u)' /\ \A q \in ToSkip(u)' : ~IsTest(u, q)'
    BY <1>1, RunsFrame, UnaskedFrame DEF TestInv, IsTest
  <2> QED BY <1>1, <2>1 DEF TestInv, EditsCovered, TestsAhead, TestsUnasked, TestEnds, IsTest, Kind, Finished
<1>3. ASSUME NEW j \in 1..n PROVE j \in DOMAIN steps[t] /\ j \in DOMAIN steps'[t] /\ j \in Nat /\ (IsTest(t, j)' <=> IsTest(t, j))
  BY <1>1 DEF IsTest
<1>4. EditsCovered(t)'
  <2> SUFFICES ASSUME NEW c \in DOMAIN steps'[t]
               PROVE  /\ steps'[t][c].kind = "part" => IsTest(t, c + 1)'
                      /\ steps'[t][c].kind = "code" =>
                           IsTest(t, c + 1)' \/ (c + 1 \in DOMAIN steps'[t] /\ steps'[t][c + 1].kind = "part")
    BY DEF EditsCovered
  <2>1. c \in Nat /\ c >= 1
    BY <1>1
  <2>2. CASE c >= n
    BY <2>2 DEF EndTested
  <2>3. CASE c < n
    <3>1. c \in 1..n /\ c + 1 \in 1..n
      BY <2>1, <2>3
    <3>2. EditsCovered(t)
      BY DEF TestInv
    <3> QED BY <1>1, <1>3, <3>1, <3>2 DEF EditsCovered
  <2> QED BY <2>1, <2>2, <2>3
<1>5. TestsUnasked(t)'
  <2>4. ASSUME NEW q \in ToSkip(t) PROVE ~IsTest(t, q)'
    <3>1. q \in DOMAIN steps[t] /\ q <= n
      BY DEF IInv, RowOK
    <3>2. q \in 1..n
      BY <1>1, <3>1
    <3> QED BY <1>3, <3>2 DEF TestInv, TestsUnasked
  <2>5. ToSkip(t)' = ToSkip(t)
    BY DEF ToSkip
  <2> SUFFICES ASSUME NEW q \in DOMAIN steps'[t], IsTest(t, q)' PROVE steps'[t][q].ticket = 0 /\ steps'[t][q].state # "waiting"
    BY <2>4, <2>5 DEF TestsUnasked
  <2>1. q \in Nat /\ q >= 1
    BY <1>1
  <2>2. CASE n < q
    BY <1>1, <2>2 DEF Pristine
  <2>3. CASE q <= n
    <3>1. q \in 1..n
      BY <2>1, <2>3
    <3> QED BY <1>1, <1>3, <3>1 DEF TestInv, TestsUnasked
  <2> QED BY <2>1, <2>2, <2>3
<1>6. TestsAhead(t)'
  <2> SUFFICES ASSUME NEW p \in DOMAIN steps'[t], steps'[t][p].kind = "pr", ~Finished(t, p)'
               PROVE  \E q \in DOMAIN steps'[t] : q < p /\ IsTest(t, q)' /\ ~Finished(t, q)'
    BY DEF TestsAhead
  <2>1. p \in Nat /\ p >= 1
    BY <1>1
  <2>2. ~(p <= n)
    <3> SUFFICES ASSUME p <= n PROVE FALSE
      OBVIOUS
    <3>1. p \in 1..n
      BY <2>1
    <3> QED BY <1>1, <3>1 DEF Finished
  <2>3. PICK q \in DOMAIN steps'[t] : n < q /\ q < p /\ IsTest(t, q)'
    BY <2>1, <2>2 DEF EndTested
  <2>4. ~Finished(t, q)'
    BY <1>1, <2>3 DEF Pristine, Finished
  <2> QED BY <2>3, <2>4
<1> QED BY <1>2, <1>4, <1>5, <1>6 DEF TestInv

\* Steps put into a plan: an edit and its tests, and then a push or one edit more.
LEMMA InsertTested ==
  ASSUME TypeOK, TestInv, NEW t \in Tasks, NEW i \in DOMAIN steps[t], NEW new \in Seq(Step),
         steps'[t] \in Seq(Step), Len(steps'[t]) = Len(steps[t]) + Len(new),
         \A j \in 1..i : steps'[t][j] = steps[t][j],
         \A j \in (i + 1)..(i + Len(new)) : steps'[t][j] = new[j - i],
         \A j \in (i + Len(new) + 1)..Len(steps'[t]) : steps'[t][j] = steps[t][j - Len(new)],
         Len(new) \in {2, 4}, new[1].kind \in {"code", "part"}, new[2].kind = "test",
         Len(new) = 4 => \/ new[3].kind = "pr" /\ new[4].kind \in {"ci", "review"}
                         \/ new[3].kind = "part" /\ new[4].kind = "test",
         steps[t][i].kind # "part", steps[t][i].kind = "code" => new[1].kind = "part"
  PROVE  EndTested(t, i)'
<1>0. i \in Nat /\ i >= 1 /\ i <= Len(steps[t]) /\ Len(steps[t]) \in Nat /\ Len(new) \in Nat
      /\ DOMAIN steps[t] = 1..Len(steps[t]) /\ DOMAIN steps'[t] = 1..(Len(steps[t]) + Len(new)) /\ i \in 1..i
  BY DEF TypeOK
<1>1. /\ steps'[t][i] = steps[t][i] /\ steps'[t][i + 1] = new[1] /\ steps'[t][i + 2] = new[2]
      /\ i + 1 \in DOMAIN steps'[t] /\ i + 2 \in DOMAIN steps'[t]
  <2>1. i + 1 \in (i + 1)..(i + Len(new)) /\ i + 2 \in (i + 1)..(i + Len(new)) /\ (i + 1) - i = 1 /\ (i + 2) - i = 2
    BY <1>0
  <2>2. steps'[t][i + 1] = new[(i + 1) - i] /\ steps'[t][i + 2] = new[(i + 2) - i]
    BY <2>1
  <2>3. steps'[t][i + 1] = new[1] /\ steps'[t][i + 2] = new[2]
    BY ONLY <2>1, <2>2
  <2>4. i + 1 \in DOMAIN steps'[t] /\ i + 2 \in DOMAIN steps'[t]
    <3>1. Len(new) >= 2
      OBVIOUS
    <3> QED BY ONLY <1>0, <3>1
  <2> QED BY <1>0, <2>3, <2>4
<1>2. Len(new) = 4 => /\ steps'[t][i + 3] = new[3] /\ steps'[t][i + 4] = new[4]
                      /\ i + 3 \in DOMAIN steps'[t] /\ i + 4 \in DOMAIN steps'[t]
  <2> SUFFICES ASSUME Len(new) = 4
               PROVE  /\ steps'[t][i + 3] = new[3] /\ steps'[t][i + 4] = new[4]
                      /\ i + 3 \in DOMAIN steps'[t] /\ i + 4 \in DOMAIN steps'[t]
    OBVIOUS
  <2>1. i + 3 \in (i + 1)..(i + Len(new)) /\ i + 4 \in (i + 1)..(i + Len(new)) /\ (i + 3) - i = 3 /\ (i + 4) - i = 4
    BY <1>0
  <2>2. steps'[t][i + 3] = new[(i + 3) - i] /\ steps'[t][i + 4] = new[(i + 4) - i]
    BY <2>1
  <2> QED BY <1>0, <2>1, <2>2
<1>3. IsTest(t, i + 2)'
  BY <1>1 DEF IsTest
<1>4. ASSUME NEW c \in DOMAIN steps'[t], c > i + Len(new)
      PROVE  /\ steps'[t][c].kind = "part" => IsTest(t, c + 1)'
             /\ steps'[t][c].kind = "code" =>
                  IsTest(t, c + 1)' \/ (c + 1 \in DOMAIN steps'[t] /\ steps'[t][c + 1].kind = "part")
  <2> PICK d : d = c - Len(new)
    OBVIOUS
  <2>1. c \in (i + Len(new) + 1)..Len(steps'[t]) /\ d \in DOMAIN steps[t] /\ c \in Nat /\ d \in Nat
    BY <1>0, <1>4
  <2>2. steps'[t][c] = steps[t][d]
    BY <2>1
  <2>3. d + 1 \in DOMAIN steps[t] => c + 1 \in DOMAIN steps'[t] /\ steps'[t][c + 1] = steps[t][d + 1]
    <3> SUFFICES ASSUME d + 1 \in DOMAIN steps[t] PROVE c + 1 \in DOMAIN steps'[t] /\ steps'[t][c + 1] = steps[t][d + 1]
      OBVIOUS
    <3>1. c + 1 \in (i + Len(new) + 1)..Len(steps'[t]) /\ (c + 1) - Len(new) = d + 1
      BY <1>0, <1>4, <2>1
    <3>2. steps'[t][c + 1] = steps[t][(c + 1) - Len(new)]
      BY <3>1
    <3> QED BY <1>0, <3>1, <3>2
  <2>4. EditsCovered(t)
    BY DEF TestInv
  <2>5. /\ steps[t][d].kind = "part" => IsTest(t, d + 1)
        /\ steps[t][d].kind = "code" =>
             IsTest(t, d + 1) \/ (d + 1 \in DOMAIN steps[t] /\ steps[t][d + 1].kind = "part")
    BY <2>1, <2>4 DEF EditsCovered
  <2>6. IsTest(t, d + 1) => IsTest(t, c + 1)'
    BY <2>3 DEF IsTest
  <2> QED BY <2>2, <2>3, <2>5, <2>6
<1>5. ASSUME NEW c \in DOMAIN steps'[t], c >= i
      PROVE  /\ steps'[t][c].kind = "part" => IsTest(t, c + 1)'
             /\ steps'[t][c].kind = "code" =>
                  IsTest(t, c + 1)' \/ (c + 1 \in DOMAIN steps'[t] /\ steps'[t][c + 1].kind = "part")
  <2>1. c \in Nat /\ (i + 1) + 1 = i + 2 /\ (i + 3) + 1 = i + 4
    BY <1>0
  <2>2. CASE c = i
    BY <1>1, <2>2
  <2>3. CASE c = i + 1
    BY <1>1, <1>3, <2>1, <2>3
  <2>4. CASE c = i + 2
    BY <1>1, <2>4
  <2>5. CASE Len(new) = 4 /\ c = i + 3
    <3>1. new[4].kind = "test" => IsTest(t, i + 4)'
      BY <1>2, <2>5 DEF IsTest
    <3> QED BY <1>2, <2>1, <2>5, <3>1
  <2>6. CASE Len(new) = 4 /\ c = i + 4
    BY <1>2, <2>6
  <2>7. c > i + Len(new) \/ c = i \/ c = i + 1 \/ c = i + 2 \/ (Len(new) = 4 /\ (c = i + 3 \/ c = i + 4))
    <3> PICK n : n = Len(new)
      OBVIOUS
    <3>1. n \in {2, 4} /\ c \in Nat /\ i \in Nat /\ c >= i
      BY <1>0, <1>5, <2>1
    <3>2. c > i + n \/ c = i \/ c = i + 1 \/ c = i + 2 \/ (n = 4 /\ (c = i + 3 \/ c = i + 4))
      BY ONLY <3>1
    <3> QED BY <3>2
  <2> QED BY <1>4, <2>2, <2>3, <2>4, <2>5, <2>6, <2>7
<1>6. ASSUME NEW p \in DOMAIN steps'[t], i < p, steps'[t][p].kind = "pr"
      PROVE  \E q \in DOMAIN steps'[t] : i < q /\ q < p /\ IsTest(t, q)'
  <2>1. p # i + 1 /\ p # i + 2 /\ p \in Nat
    <3>1. p # i + 1 /\ p # i + 2
      BY <1>1, <1>6
    <3>2. p \in Nat
      BY <1>0, <1>6
    <3> QED BY ONLY <3>1, <3>2
  <2>2. i + 2 < p /\ i < i + 2
    BY ONLY <1>0, <1>6, <2>1
  <2> QED BY <1>1, <1>3, <2>2
<1> QED BY <1>5, <1>6 DEF EndTested

\* A plan of the rules' making, put behind what is done.
LEMMA PlanTested ==
  ASSUME NEW t \in Tasks, NEW n \in Nat, NEW kinds \in Seq(PlanKinds), Tested(kinds),
         steps'[t] \in Seq(Step), Len(steps'[t]) = n + Len(kinds),
         \A j \in (n + 1)..(n + Len(kinds)) : steps'[t][j].kind = kinds[j - n],
         n # 0 => steps'[t][n].kind \notin {"code", "part"}
  PROVE  EndTested(t, n)'
<1>1. Len(kinds) \in Nat /\ DOMAIN kinds = 1..Len(kinds) /\ DOMAIN steps'[t] = 1..(n + Len(kinds))
  OBVIOUS
<1>2. ASSUME NEW j \in DOMAIN kinds PROVE j \in Nat /\ n + j \in DOMAIN steps'[t] /\ steps'[t][n + j].kind = kinds[j]
  <2>1. n + j \in (n + 1)..(n + Len(kinds)) /\ (n + j) - n = j
    BY <1>1
  <2>2. steps'[t][n + j].kind = kinds[(n + j) - n]
    BY <2>1
  <2> QED BY <1>1, <2>1, <2>2
<1>3. ASSUME NEW c \in DOMAIN steps'[t], n < c
      PROVE  c \in Nat /\ c - n \in DOMAIN kinds /\ steps'[t][c].kind = kinds[c - n] /\ kinds[c - n] \in PlanKinds
  <2>1. c \in (n + 1)..(n + Len(kinds)) /\ c - n \in DOMAIN kinds /\ c \in Nat
    BY <1>1, <1>3
  <2> QED BY <2>1
<1>4. ASSUME NEW c \in DOMAIN steps'[t], c >= n
      PROVE  steps'[t][c].kind # "part" /\ (steps'[t][c].kind = "code" => IsTest(t, c + 1)')
  <2>1. CASE c = n
    BY <1>1, <2>1
  <2>2. CASE n < c
    <3> PICK d : d = c - n
      OBVIOUS
    <3>1. d \in DOMAIN kinds /\ steps'[t][c].kind = kinds[d] /\ kinds[d] \in PlanKinds /\ n + (d + 1) = c + 1
      BY <1>1, <1>3, <2>2
    <3>2. kinds[d] = "code" => d + 1 \in DOMAIN kinds /\ kinds[d + 1] = "test"
      BY <3>1 DEF Tested
    <3>3. kinds[d] = "code" => c + 1 \in DOMAIN steps'[t] /\ steps'[t][c + 1].kind = "test"
      <4> SUFFICES ASSUME kinds[d] = "code" PROVE c + 1 \in DOMAIN steps'[t] /\ steps'[t][c + 1].kind = "test"
        OBVIOUS
      <4>1. n + (d + 1) \in DOMAIN steps'[t] /\ steps'[t][n + (d + 1)].kind = kinds[d + 1]
        BY <1>2, <3>2
      <4> QED BY <3>1, <3>2, <4>1
    <3> QED BY <3>1, <3>3 DEF IsTest, PlanKinds, Placeables, TailKinds
  <2> QED BY <1>1, <1>4, <2>1, <2>2
<1>5. ASSUME NEW p \in DOMAIN steps'[t], n < p, steps'[t][p].kind = "pr"
      PROVE  \E q \in DOMAIN steps'[t] : n < q /\ q < p /\ IsTest(t, q)'
  <2> PICK d : d = p - n
    OBVIOUS
  <2>1. d \in DOMAIN kinds /\ kinds[d] = "pr" /\ p \in Nat /\ d \in Nat
    BY <1>1, <1>3, <1>5
  <2>2. PICK e \in DOMAIN kinds : e < d /\ kinds[e] = "test"
    BY <2>1 DEF Tested
  <2>3. n + e \in DOMAIN steps'[t] /\ steps'[t][n + e].kind = "test" /\ e \in Nat /\ e >= 1
    BY <1>1, <1>2, <2>2
  <2> PICK q : q = n + e
    OBVIOUS
  <2>4. q \in DOMAIN steps'[t] /\ steps'[t][q].kind = "test" /\ n < q /\ q < p
    BY <2>1, <2>2, <2>3
  <2> QED BY <2>4 DEF IsTest
<1> QED BY <1>4, <1>5 DEF EndTested

LEMMA AskForWorkTested ==
  ASSUME IInv, TestInv, NEW t \in Tasks, AskForWork(t)
  PROVE  TestInv'
<1> PICK i : i = jobs[t].step
  OBVIOUS
<1> PICK new : new = FixPlan(t)
  OBVIOUS
<1>1. /\ Active(t) /\ i \in DOMAIN steps[t] /\ Before(t, i) /\ Behind(t, i) /\ \A q \in ToSkip(t) : q <= i
      /\ main.task # t /\ TypeOK /\ i \in Nat /\ Kind(t) = steps[t][i].kind /\ Kind(t) \in {"test", "ci", "review"}
  <2>1. /\ Active(t) /\ i \in DOMAIN steps[t] /\ Before(t, i) /\ Behind(t, i) /\ TypeOK
        /\ \A q \in ToSkip(t) : q <= i
    BY AtStep, RunningIsFront DEF AskForWork, IInv
  <2>2. steps[t] \in Seq(Step) /\ main.task # t
    BY <2>1, Apart DEF TypeOK
  <2> QED BY <2>1, <2>2 DEF AskForWork, Kind
<1>2. /\ new \in Seq(Step) /\ (\A j \in DOMAIN new : new[j].state = "pending" /\ new[j].ticket = 0)
      /\ Len(new) = (IF Kind(t) = "test" THEN 2 ELSE 4) /\ new[1].kind = "code" /\ new[2].kind = "test"
      /\ Kind(t) # "test" => new[3].kind = "pr" /\ new[4].kind \in {"ci", "review"}
  BY FixPlanIs DEF AskForWork
<1>3. /\ Rewrites(t, i) /\ Len(steps'[t]) = Len(steps[t]) + Len(new)
      /\ \A j \in (i + 1)..(i + Len(new)) : steps'[t][j] = new[j - i]
      /\ \A j \in (i + Len(new) + 1)..Len(steps'[t]) : steps'[t][j] = steps[t][j - Len(new)]
  <2>1. InsertAfter(t, i, new) /\ \A j \in DOMAIN steps[t] : i < j => Pristine(t, j)
    BY <1>1 DEF AskForWork, Behind
  <2> QED BY <1>1, <1>2, <2>1, InsertedIs
<1>4. steps'[t] \in Seq(Step) /\ (\A j \in 1..i : steps'[t][j] = steps[t][j]) /\ \A u \in Tasks \ {t} : steps'[u] = steps[u]
  BY <1>3 DEF Rewrites
<1>5. EndTested(t, i)'
  <2>1. Len(new) \in {2, 4} /\ new[1].kind \in {"code", "part"}
        /\ steps[t][i].kind # "part" /\ steps[t][i].kind # "code"
    BY <1>1, <1>2
  <2>2. Len(new) = 4 => new[3].kind = "pr" /\ new[4].kind \in {"ci", "review"}
    BY <1>2
  <2> QED BY <1>1, <1>2, <1>3, <1>4, <2>1, <2>2, InsertTested
<1>6. ASSUME NEW p \in 1..i, steps[t][p].kind = "pr" PROVE Finished(t, p)
  <2>1. p \in DOMAIN steps[t] /\ p # i /\ p <= i /\ p \in Nat
    <3>1. steps[t] \in Seq(Step)
      BY <1>1 DEF TypeOK
    <3> QED BY <1>1, <1>6, <3>1
  <2> QED BY <1>1, <2>1 DEF Before
<1> PICK status \in {"done", "supersede"} : status = IF Kind(t) = "review" THEN "done" ELSE "supersede"
  OBVIOUS
<1>7. /\ \A u \in Tasks \ {t} : jobs'[u] = jobs[u]
      /\ jobs'[t].step = i /\ jobs'[t].out.status = status
  <2>1. Ends(t, status, 0) /\ status \in Statuses /\ 0 \in 0..MaxTickets
    BY Constants DEF AskForWork, Statuses
  <2>2. /\ jobs' = [jobs EXCEPT ![t] = jobs'[t]] /\ jobs'[t].step = jobs[t].step
        /\ jobs'[t].out = [status |-> status, ticket |-> 0]
    BY <1>1, <2>1, Ended
  <2> QED BY <1>1, <2>2 DEF TypeOK
<1>8. TestEnds(t)' /\ TestRuns(t)'
  <2>1. Kind(t)' = Kind(t) /\ steps'[t][i] = steps[t][i]
    <3>1. steps'[t][i] = steps[t][i]
      <4>1. i \in 1..i
        <5>1. steps[t] \in Seq(Step)
          BY <1>1 DEF TypeOK
        <5> QED BY <1>1, <5>1
      <4> QED BY <1>4, <4>1
    <3> QED BY <1>1, <1>7, <3>1 DEF Kind
  <2>2. steps'[t][i + 1] = new[1] /\ steps'[t][i + 2] = new[2] /\ i + 2 \in DOMAIN steps'[t]
    <3>1. Len(new) >= 2 /\ Len(new) \in Nat
      BY <1>2
    <3>2. i + 1 \in (i + 1)..(i + Len(new)) /\ i + 2 \in (i + 1)..(i + Len(new)) /\ (i + 1) - i = 1 /\ (i + 2) - i = 2
      BY ONLY <1>1, <3>1
    <3>3. steps'[t][i + 1] = new[(i + 1) - i] /\ steps'[t][i + 2] = new[(i + 2) - i]
      BY <1>3, <3>2
    <3>4. steps'[t][i + 1] = new[1] /\ steps'[t][i + 2] = new[2]
      BY ONLY <3>2, <3>3
    <3>5. i + 2 \in DOMAIN steps'[t]
      <4>1. Len(steps[t]) \in Nat /\ i <= Len(steps[t]) /\ DOMAIN steps'[t] = 1..Len(steps'[t])
        BY <1>1, <1>4 DEF TypeOK
      <4> QED BY ONLY <1>1, <1>3, <3>1, <4>1
    <3> QED BY <3>4, <3>5
  <2>3. steps'[t][i + 1].kind = "code" /\ IsTest(t, i + 2)'
    BY <1>2, <2>2 DEF IsTest
  <2>4. Kind(t) = "test" => status = "supersede"
    OBVIOUS
  <2>5. TestRuns(t)'
    <3>1. UNCHANGED tested
      BY DEF AskForWork
    <3> QED BY <1>7, <2>1, <3>1, RunsFrame DEF TestInv
  <2> QED BY <1>7, <2>1, <2>3, <2>4, <2>5 DEF TestEnds
<1>9. PolledTested'
  <2>1. UNCHANGED <<main, tested>> /\ (main.at = "polled" => main.task \in Tasks)
    BY DEF AskForWork, IInv, MainOK
  <2> QED BY <1>1, <1>4, <2>1 DEF TestInv, PolledTested
<1>10. UNCHANGED <<tested, cancel>>
  BY DEF AskForWork
<1> QED BY <1>1, <1>3, <1>5, <1>6, <1>7, <1>8, <1>9, <1>10, RewriteTested

\* The main thread rewrites the plan of a task that no worker is at.
LEMMA MainTested ==
  ASSUME IInv, TestInv, main.at \notin {"free", "resume"}, NEW t, t = main.task, NEW n, n = main.step, Rewrites(t, n),
         steps[t][n].kind # "pr", UNCHANGED <<jobs, tested, cancel>>, main'.at # "polled", EndTested(t, n)'
  PROVE  TestInv'
<1>1. /\ t \in Tasks /\ n \in DOMAIN steps[t] /\ Before(t, n) /\ TypeOK /\ jobs[t].step = 0
      /\ \A q \in ToSkip(t) : q <= n
  BY AtMain DEF AtFront
<1>2. steps[t] \in Seq(Step) /\ n \in Nat
  BY <1>1 DEF TypeOK
<1>3. ASSUME NEW p \in 1..n, steps[t][p].kind = "pr" PROVE Finished(t, p)
  <2>1. p \in DOMAIN steps[t] /\ p # n /\ p <= n /\ p \in Nat
    BY <1>1, <1>2, <1>3
  <2> QED BY <1>1, <1>2, <2>1 DEF Before
<1>4. TestEnds(t)' /\ TestRuns(t)' /\ PolledTested'
  BY <1>1 DEF TestEnds, TestRuns, PolledTested
<1> QED BY <1>1, <1>2, <1>3, <1>4, RewriteTested

LEMMA WritePartsTested ==
  ASSUME IInv, TestInv, WriteParts
  PROVE  TestInv'
<1> PICK t : t = main.task
  OBVIOUS
<1> PICK n : n = main.step
  OBVIOUS
<1> PICK new : new = Parts
  OBVIOUS
<1>1. main.at = "split" /\ main' = Free /\ UNCHANGED <<jobs, tested, cancel>> /\ InsertAfter(t, n, new)
  BY DEF WriteParts
<1>2. t \in Tasks /\ n \in DOMAIN steps[t] /\ Behind(t, n) /\ TypeOK
  BY <1>1, AtMain
<1>3. steps[t][n].kind = "code"
  BY <1>1 DEF IInv, MainOK
<1>4. /\ new \in Seq(Step) /\ Len(new) = 4 /\ \A j \in DOMAIN new : new[j].state = "pending" /\ new[j].ticket = 0
      /\ new[1].kind = "part" /\ new[2].kind = "test" /\ new[3].kind = "part" /\ new[4].kind = "test"
  BY PartsIs
<1>5. /\ Rewrites(t, n) /\ Len(steps'[t]) = Len(steps[t]) + Len(new)
      /\ \A j \in (n + 1)..(n + Len(new)) : steps'[t][j] = new[j - n]
      /\ \A j \in (n + Len(new) + 1)..Len(steps'[t]) : steps'[t][j] = steps[t][j - Len(new)]
  <2>1. \A j \in DOMAIN steps[t] : n < j => Pristine(t, j)
    BY <1>2 DEF Behind
  <2> QED BY <1>1, <1>2, <1>4, <2>1, InsertedIs
<1>6. steps'[t] \in Seq(Step) /\ \A j \in 1..n : steps'[t][j] = steps[t][j]
  BY <1>2, <1>5 DEF Rewrites
<1>7. EndTested(t, n)'
  <2>1. Len(new) \in {2, 4} /\ new[1].kind \in {"code", "part"} /\ steps[t][n].kind # "part"
    BY <1>3, <1>4
  <2> QED BY <1>2, <1>4, <1>5, <1>6, <2>1, InsertTested
<1> QED BY <1>1, <1>3, <1>5, <1>7, MainTested DEF Free

\* Where no plan is cut, the planning model's answers come to tested plans.
LEMMA AnswersTested ==
  ASSUME PlansFit, NEW a \in Answers, NEW hasRepo
  PROVE  /\ PlanFor(a, hasRepo, PlanSteps) \in Seq(PlanKinds) /\ Tested(PlanFor(a, hasRepo, PlanSteps))
         /\ \A plan \in ReplansFor(a, hasRepo, PlanSteps) : plan \in Seq(PlanKinds) /\ Tested(plan)
<1>1. /\ a \in Seq({"local", "code", "game_action"}) /\ PlanSteps \in Nat /\ 2 * Len(a) + Len(PRTail) <= PlanSteps
  BY LoopAssumption DEF PlansFit
<1>2. PlanFor(a, hasRepo, PlanSteps) \in Seq(PlanKinds) /\ Tested(PlanFor(a, hasRepo, PlanSteps))
  BY <1>1, PlanForIs
<1>3. ASSUME NEW plan \in ReplansFor(a, hasRepo, PlanSteps) PROVE plan \in Seq(PlanKinds) /\ Tested(plan)
  BY <1>1, ReplansForIs
<1> QED BY <1>2, <1>3

LEMMA PlanKindsAreKinds ==
  ASSUME NEW s \in Seq(PlanKinds)
  PROVE  s \in Seq(Kinds)
<1>1. PlanKinds \in SUBSET Kinds
  BY DEF PlanKinds, Placeables, TailKinds, Kinds
<1> QED BY <1>1

LEMMA MakePlanTested ==
  ASSUME PlansFit, IInv, TestInv, NEW t \in Tasks, MakePlan(t)
  PROVE  TestInv'
<1>1. /\ jobs[t].at = "plan" /\ jobs' = [jobs EXCEPT ![t].at = "planned"] /\ UNCHANGED <<main, tested, cancel>>
  BY DEF MakePlan
<1>2. Fresh(t) /\ main.task # t /\ TypeOK /\ jobs[t].step = 0
  <2>1. Active(t)
    BY <1>1 DEF Active
  <2>2. TypeOK /\ JobOK(t)
    BY DEF IInv
  <2> QED BY <1>1, <2>1, <2>2, Apart DEF JobOK
<1> PICK kinds \in Seq(PlanKinds) : SetPlan(t, kinds) /\ Tested(kinds)
  BY AnswersTested DEF MakePlan
<1>3. /\ Rewrites(t, 0) /\ Len(steps'[t]) = 0 + Len(kinds)
      /\ \A j \in (0 + 1)..(0 + Len(kinds)) : steps'[t][j].kind = kinds[j - 0]
  <2>1. steps[t] \in Seq(Step) /\ 0 \in 0..Len(steps[t])
    BY <1>2 DEF TypeOK
  <2>2. \A i \in DOMAIN steps[t] : Finished(t, i) <=> i <= 0
    BY <1>2, <2>1 DEF Fresh, Pristine, Finished
  <2>3. kinds \in Seq(Kinds)
    BY PlanKindsAreKinds
  <2> PICK n : n = 0
    OBVIOUS
  <2>4. n \in 0..Len(steps[t]) /\ \A i \in DOMAIN steps[t] : Finished(t, i) <=> i <= n
    BY <2>1, <2>2
  <2>5. /\ Rewrites(t, n) /\ Len(steps'[t]) = n + Len(kinds)
        /\ \A j \in (n + 1)..(n + Len(kinds)) : steps'[t][j].kind = kinds[j - n]
    BY <1>2, <2>3, <2>4, SetPlanIs
  <2> QED BY <2>5
<1>4. steps'[t] \in Seq(Step) /\ \A u \in Tasks \ {t} : steps'[u] = steps[u]
  BY <1>3 DEF Rewrites
<1>5. EndTested(t, 0)'
  <2> PICK n : n = 0
    OBVIOUS
  <2>1. n \in Nat /\ Len(steps'[t]) = n + Len(kinds) /\ \A j \in (n + 1)..(n + Len(kinds)) : steps'[t][j].kind = kinds[j - n]
    BY <1>3
  <2>2. EndTested(t, n)'
    BY <1>4, <2>1, PlanTested
  <2> QED BY <2>2
<1>6. jobs'[t].at = "planned" /\ jobs'[t].step = 0 /\ \A u \in Tasks \ {t} : jobs'[u] = jobs[u]
  <2>1. jobs' = [jobs EXCEPT ![t] = jobs'[t]] /\ jobs'[t].at = "planned" /\ jobs'[t].step = jobs[t].step
    BY <1>1, <1>2, Moved
  <2> QED BY <1>2, <2>1 DEF TypeOK
<1>7. TestEnds(t)' /\ TestRuns(t)'
  BY <1>6 DEF TestEnds, TestRuns
<1>8. PolledTested'
  <2>1. main.at = "polled" => main.task \in Tasks
    BY DEF IInv, MainOK
  <2> QED BY <1>1, <1>2, <1>4, <2>1 DEF TestInv, PolledTested
<1>9. 0 \in Nat /\ (\A p \in 1..0 : FALSE) /\ \A q \in ToSkip(t) : q <= 0
  BY <1>2 DEF Fresh
<1> QED BY <1>1, <1>3, <1>5, <1>6, <1>7, <1>8, <1>9, RewriteTested

LEMMA ReplanTested ==
  ASSUME PlansFit, IInv, TestInv, Replan
  PROVE  TestInv'
<1> PICK t : t = main.task
  OBVIOUS
<1> PICK n : n = main.step
  OBVIOUS
<1>1. main.at = "replan" /\ main' = [main EXCEPT !.at = "resume"] /\ UNCHANGED <<jobs, tested, cancel>>
  BY DEF Replan
<1>2. t \in Tasks /\ n \in DOMAIN steps[t] /\ Before(t, n) /\ Behind(t, n) /\ TypeOK /\ Finished(t, n)
  <2>1. main.at \notin {"free", "resume"}
    BY <1>1
  <2>2. steps[t][n].state \in Written("replan")
    BY <1>1, <2>1 DEF IInv, MainOK
  <2> QED BY <2>1, <2>2, AtMain DEF Written, Finished
<1>3. steps[t][n].kind = "game_action"
  BY <1>1 DEF IInv, MainOK
<1> PICK kinds \in Seq(PlanKinds) : SetPlan(t, kinds) /\ Tested(kinds)
  <2>1. PICK a \in Answers : \E plan \in ReplansFor(a, t \in RepoTasks, PlanSteps) : SetPlan(t, plan)
    BY DEF Replan
  <2> QED BY <2>1, AnswersTested
<1>4. /\ Rewrites(t, n) /\ Len(steps'[t]) = n + Len(kinds) /\ n \in Nat /\ n >= 1
      /\ \A j \in (n + 1)..(n + Len(kinds)) : steps'[t][j].kind = kinds[j - n]
  <2>1. steps[t] \in Seq(Step) /\ n \in 0..Len(steps[t]) /\ n \in Nat /\ n >= 1
    BY <1>2 DEF TypeOK
  <2>2. ASSUME NEW i \in DOMAIN steps[t] PROVE Finished(t, i) <=> i <= n
    <3>1. i \in Nat
      BY <2>1
    <3>2. CASE i < n
      BY <1>2, <2>1, <3>1, <3>2 DEF Before
    <3>3. CASE i = n
      BY <1>2, <2>1, <3>3
    <3>4. CASE i > n
      BY <1>2, <2>1, <3>1, <3>4 DEF Behind, Pristine, Finished
    <3> QED BY <2>1, <3>1, <3>2, <3>3, <3>4
  <2>3. kinds \in Seq(Kinds)
    BY PlanKindsAreKinds
  <2> QED BY <1>2, <2>1, <2>2, <2>3, SetPlanIs
<1>5. steps'[t] \in Seq(Step) /\ steps'[t][n].kind = "game_action"
  <2>1. n \in 1..n /\ steps'[t] \in Seq(Step) /\ \A j \in 1..n : steps'[t][j] = steps[t][j]
    BY <1>2, <1>4 DEF Rewrites
  <2> QED BY <1>3, <2>1
<1>6. EndTested(t, n)'
  <2>1. steps'[t][n].kind \notin {"code", "part"}
    BY <1>5
  <2> QED BY <1>2, <1>4, <1>5, <2>1, PlanTested
<1>7. main'.at # "polled"
  BY <1>1, <1>2 DEF TypeOK, Main
<1> QED BY <1>1, <1>3, <1>4, <1>6, <1>7, MainTested

LEMMA TestStep ==
  ASSUME PlansFit, IInv, TestInv, [Next]_vars
  PROVE  TestInv'
<1>1. ASSUME NEW t \in Tasks, Dispatch(t) PROVE TestInv'
  BY <1>1, WorkerQuietKeeps, OwnerQuietKeeps, DispatchTested DEF Dispatch
<1>2. ASSUME NEW t \in Tasks, Work(t) PROVE TestInv'
  BY <1>2, WorkerQuietKeeps, MakePlanTested, TestsPassTested, AskForWorkTested, CodeSessionTested DEF Work
<1>3. ASSUME NEW t \in Tasks, Reap(t) \/ Poll(t) PROVE TestInv'
  BY <1>3, ReapTested, PollTested DEF Poll
<1>4. CASE Continue
  BY <1>4, OwnerQuietKeeps, WritePartsTested, AnswerTested, ReplanTested DEF Continue
<1>5. ASSUME NEW t \in Tasks, CancelReads(t) \/ \E i \in ToSkip(t) : CancelSkips(t, i) PROVE TestInv'
  BY <1>5, CancelReadsTested, CancelSkipsTested
<1>6. CASE Start
  BY <1>6, StartTested
<1>7. CASE Owner \/ Halt \/ Crash \/ UNCHANGED vars \/ \E t \in Tasks : TimePasses(t)
  BY <1>5, <1>7, OwnerQuietKeeps DEF Owner
<1> QED BY <1>1, <1>2, <1>3, <1>4, <1>6, <1>7 DEF Next

\* What is pushed has passed the repository's tests since it was last edited, where
\* no answer of the planning model makes a plan that local_steps_per_task cuts
\* (step_pr, passing_test, normalize_plan).
THEOREM PushedIsTested == PlansFit => (Spec => []TestedPush)
<1> SUFFICES ASSUME PlansFit PROVE Spec => []TestedPush
  OBVIOUS
<1>1. Init => TestInv
  <2> SUFFICES ASSUME Init PROVE TestInv
    OBVIOUS
  <2>1. ASSUME NEW t \in Tasks PROVE steps[t] = <<>> /\ jobs[t] = NoJob
    BY DEF Init
  <2>2. main = Free
    BY DEF Init
  <2> QED BY <2>1, <2>2 DEF TestInv, EditsCovered, TestsAhead, TestsUnasked, TestEnds, TestRuns, IsTest, PolledTested, NoJob, Free
<1>2. IInv /\ TestInv /\ [Next]_vars => TestInv'
  BY TestStep
<1>3. IInv /\ TestInv => TestedPush
  <2> SUFFICES ASSUME IInv, TestInv, NEW t \in Tasks, jobs[t].at = "cleared", Gate(t) = "push" PROVE tested[t]
    BY DEF TestedPush
  <2>1. jobs[t].step # 0 /\ Kind(t) = "pr"
    BY AtStep DEF Gate
  <2> QED BY <2>1 DEF TestInv, TestRuns
<1> QED BY <1>1, <1>2, <1>3, InductiveInvariant, PTL DEF Spec

-----------------------------------------------------------------------------
(* Game actions are carried out once: what each step leaves of ActionInv *)

\* A step over, or waiting, stays so, and an outcome that ends it or lets it wait is
\* not lost.
HeldStill(t, i) == HeldAt(t, i) => HeldAt(t, i)'

LEMMA LiveAt ==
  ASSUME IInv, NEW k \in DOMAIN tickets, LiveAction(k), NEW t, t = tickets[k].task, NEW i, i = tickets[k].step
  PROVE  t \in Tasks /\ i \in DOMAIN steps[t] /\ i # 0 /\ steps[t][i].kind = "game_action" /\ Before(t, i)
<1>1. tickets[k] \in Ticket /\ TicketOK(k)
  BY DEF IInv, TypeOK
<1> QED BY <1>1 DEF TicketOK, LiveAction, Ticket

LEMMA HeldFrame ==
  ASSUME IInv, ActionInv, TicketsKeep, NEW k \in DOMAIN tickets, LiveAction(k)',
         \A t \in Tasks : \A i \in DOMAIN steps[t] : steps[t][i].kind = "game_action" => HeldStill(t, i)
  PROVE  LiveAction(k) /\ ActionHeld(k)'
<1> PICK t : t = tickets[k].task
  OBVIOUS
<1> PICK i : i = tickets[k].step
  OBVIOUS
<1>1. LiveAction(k) /\ tickets'[k].task = t /\ tickets'[k].step = i
  BY DEF TicketsKeep, LiveAction
<1>2. t \in Tasks /\ i \in DOMAIN steps[t] /\ steps[t][i].kind = "game_action"
  BY <1>1, LiveAt
<1>3. HeldStill(t, i)
  BY <1>2
<1>4. ActionHeld(k)
  BY <1>1 DEF ActionInv
<1> QED BY <1>1, <1>3, <1>4 DEF ActionHeld, HeldStill

LEMMA ActionFrame ==
  ASSUME IInv, ActionInv, TicketsKeep, \A k \in DOMAIN tickets' : tickets'[k].gate = "game" => k \in DOMAIN tickets,
         \A t \in Tasks : \A i \in DOMAIN steps[t] : steps[t][i].kind = "game_action" => HeldStill(t, i),
         \A t \in Tasks : WaitsInTask(t)' /\ ParksOnTicket(t)' /\ RunsInWorker(t)'
  PROVE  ActionInv'
<1>1. \A k \in DOMAIN tickets' : LiveAction(k)' => k \in DOMAIN tickets /\ LiveAction(k) /\ ActionHeld(k)'
  BY HeldFrame DEF LiveAction
<1>2. ActionOnce'
  <2> SUFFICES ASSUME NEW j \in DOMAIN tickets', NEW k \in DOMAIN tickets', j < k,
                      tickets'[j].gate = "game", tickets'[k].gate = "game", tickets'[j].heard,
                      tickets'[j].task = tickets'[k].task, tickets'[j].step = tickets'[k].step
               PROVE  tickets'[j].state = "denied"
    BY DEF ActionOnce
  <2>1. j \in DOMAIN tickets /\ k \in DOMAIN tickets
    OBVIOUS
  <2>2. /\ tickets[j].task = tickets[k].task /\ tickets[j].step = tickets[k].step
        /\ tickets[j].gate = "game" /\ tickets[k].gate = "game" /\ tickets[j].heard
    BY <2>1 DEF TicketsKeep
  <2>3. tickets[j].state = "denied"
    BY <2>1, <2>2 DEF ActionInv, ActionOnce
  <2> QED BY <2>1, <2>3 DEF TicketsKeep
<1> QED BY <1>1, <1>2 DEF ActionInv

\* While the main thread is at a task for any other reason than a step that waits,
\* no step of it waits.
LEMMA NoneWaitsAtMain ==
  ASSUME IInv, main.at \notin {"free", "resume", "park", "polled"}, NEW j \in DOMAIN steps[main.task]
  PROVE  steps[main.task][j].state # "waiting"
<1> PICK t : t = main.task
  OBVIOUS
<1> PICK i : i = main.step
  OBVIOUS
<1>1. t \in Tasks /\ i \in DOMAIN steps[t] /\ Before(t, i) /\ Behind(t, i) /\ TypeOK
  BY AtMain
<1>2. steps[t][i].state # "waiting"
  <2>1. steps[t][i].state \in Written(main.at) /\ main.at \in MainPoint \ {"free", "resume", "park", "polled"}
    BY <1>1 DEF IInv, MainOK, TypeOK, Main
  <2> QED BY <2>1 DEF Written, MainPoint, Statuses
<1>3. j \in Nat /\ i \in Nat /\ j \in DOMAIN steps[t]
  BY <1>1 DEF TypeOK
<1>4. j < i => Finished(t, j)
  BY <1>1, <1>3 DEF Before
<1>5. i < j => Pristine(t, j)
  BY <1>1, <1>3 DEF Behind
<1> QED BY <1>2, <1>3, <1>4, <1>5 DEF Finished, Pristine

LEMMA RowsActions ==
  ASSUME IInv, ActionInv, UNCHANGED <<steps, tickets, jobs>>,
         \A t \in Tasks : \/ task'[t].state = task[t].state \/ task'[t].state \in {"waiting", "cancelled"}
                          \/ \A i \in DOMAIN steps[t] : steps[t][i].state # "waiting",
         main' = main \/ main.at # "park" \/ task'[main.task].state \in {"waiting", "cancelled"}
  PROVE  ActionInv'
<1>1. TicketsKeep /\ \A k \in DOMAIN tickets' : tickets'[k].gate = "game" => k \in DOMAIN tickets
  BY DEF TicketsKeep
<1>2. \A t \in Tasks : \A i \in DOMAIN steps[t] : HeldStill(t, i)
  BY DEF HeldStill, HeldAt
<1>3. ASSUME NEW t \in Tasks PROVE WaitsInTask(t)' /\ ParksOnTicket(t)' /\ RunsInWorker(t)'
  BY DEF ActionInv, WaitsInTask, ParksOnTicket, RunsInWorker
<1> QED BY <1>1, <1>2, <1>3, ActionFrame

LEMMA CandidateWaitsNot ==
  ASSUME IInv, ActionInv, NEW t \in Tasks, Candidate(t), NEW j \in DOMAIN steps[t]
  PROVE  steps[t][j].state # "waiting"
  BY DEF ActionInv, WaitsInTask, Candidate, Idle

LEMMA OwnerActions ==
  ASSUME IInv, ActionInv,
         \/ WriteTask \/ Resume \/ Halt \/ Pause \/ Unpause \/ Stop \/ UNCHANGED vars
         \/ \E t \in Tasks : FinishNow(t) \/ TimePasses(t) \/ AddTask(t) \/ CancelTask(t)
  PROVE  ActionInv'
<1>0. TypeOK
  BY DEF IInv
<1>1. CASE Halt \/ Pause \/ Unpause \/ Stop \/ UNCHANGED vars
  <2>1. UNCHANGED <<task, steps, tickets, jobs, main>>
    BY <1>1 DEF Halt, Pause, Unpause, Stop, SetFlags, vars
  <2> QED BY <2>1, RowsActions
<1>2. ASSUME NEW t \in Tasks, FinishNow(t) \/ TimePasses(t) \/ AddTask(t) \/ CancelTask(t) PROVE ActionInv'
  <2>1. UNCHANGED <<steps, tickets, jobs, main>> /\ \A u \in Tasks \ {t} : task'[u] = task[u]
    BY <1>0, <1>2 DEF FinishNow, TimePasses, AddTask, CancelTask, SetTask, TypeOK
  <2>2. CASE FinishNow(t)
    <3>1. \A i \in DOMAIN steps[t] : steps[t][i].state # "waiting"
      BY <2>2 DEF FinishNow, Unfinished
    <3> QED BY <2>1, <3>1, RowsActions
  <2>3. CASE TimePasses(t)
    <3>1. task[t] \in TaskRow /\ task'[t] = [task[t] EXCEPT !.due = TRUE]
      BY <1>0, <2>3 DEF TimePasses, TypeOK
    <3>2. task'[t].state = task[t].state
      BY <3>1 DEF TaskRow
    <3> QED BY <2>1, <3>2, RowsActions
  <2>4. CASE AddTask(t)
    <3>1. steps[t] = <<>>
      BY <2>4 DEF AddTask, IInv, RowOK
    <3> QED BY <2>1, <3>1, RowsActions
  <2>5. CASE CancelTask(t)
    <3>1. task[t] \in TaskRow /\ task'[t] = [task[t] EXCEPT !.state = "cancelled"]
      BY <1>0, <2>5 DEF CancelTask, SetTask, TypeOK
    <3>2. task'[t].state = "cancelled"
      BY <3>1 DEF TaskRow
    <3> QED BY <2>1, <3>2, RowsActions
  <2> QED BY <1>2, <2>2, <2>3, <2>4, <2>5
<1>3. CASE WriteTask
  <2> PICK t : t = main.task
    OBVIOUS
  <2>1. main.at \notin {"free", "resume", "polled"} /\ UNCHANGED <<steps, tickets, jobs>>
        /\ task' = [task EXCEPT ![t] = SecondWrite(t, task[t])]
    BY <1>3 DEF WriteTask, Statuses
  <2>2. t \in Tasks /\ task[t] \in TaskRow
    BY <2>1, AtMain
  <2>3. (\A u \in Tasks \ {t} : task'[u] = task[u]) /\ task'[t] = SecondWrite(t, task[t])
    BY <1>0, <2>1, <2>2 DEF TypeOK
  <2>4. main.at = "park" => task'[t].state = "waiting"
    BY <2>2, <2>3 DEF SecondWrite, TaskRow
  <2>5. main.at # "park" => \A j \in DOMAIN steps[t] : steps[t][j].state # "waiting"
    BY <2>1, NoneWaitsAtMain
  <2> QED BY <2>1, <2>3, <2>4, <2>5, RowsActions
<1>4. CASE Resume
  <2> PICK t : t = main.task
    OBVIOUS
  <2>1. UNCHANGED <<steps, tickets, jobs>> /\ main.at = "resume"
    BY <1>4 DEF Resume
  <2>2. t \in Tasks
    BY <2>1 DEF IInv, MainOK
  <2>3. CASE ~Blocked(t) /\ SetTask(t, "ready")
    <3>1. \A u \in Tasks \ {t} : task'[u] = task[u]
      BY <1>0, <2>2, <2>3 DEF SetTask, TypeOK
    <3>2. \A j \in DOMAIN steps[t] : steps[t][j].state # "waiting"
      BY <2>2, <2>3 DEF Blocked, ActionInv, WaitsInTask
    <3> QED BY <2>1, <3>1, <3>2, RowsActions
  <2>4. CASE UNCHANGED task
    BY <2>1, <2>4, RowsActions
  <2> QED BY <1>4, <2>3, <2>4 DEF Resume
<1> QED BY <1>1, <1>2, <1>3, <1>4

\* A worker that moves on and files nothing with the game.
LEMMA WorkerActions ==
  ASSUME IInv, ActionInv, NEW t \in Tasks, jobs[t].at # "end", UNCHANGED <<steps, main>>, TicketsKeep,
         \A k \in DOMAIN tickets' : tickets'[k].gate = "game" => k \in DOMAIN tickets,
         \A u \in Tasks : task'[u].state = task[u].state \/ \A i \in DOMAIN steps[u] : steps[u][i].state # "waiting",
         \A u \in Tasks \ {t} : jobs'[u] = jobs[u],
         jobs'[t].step = jobs[t].step, ParksOnTicket(t)'
  PROVE  ActionInv'
<1>1. ASSUME NEW u \in Tasks, NEW i \in DOMAIN steps[u] PROVE HeldStill(u, i)
  BY DEF HeldStill, HeldAt
<1>2. ASSUME NEW u \in Tasks PROVE WaitsInTask(u)' /\ RunsInWorker(u)'
  BY DEF ActionInv, WaitsInTask, RunsInWorker
<1>3. ASSUME NEW u \in Tasks PROVE ParksOnTicket(u)'
  BY DEF ActionInv, ParksOnTicket
<1> QED BY <1>1, <1>2, <1>3, ActionFrame

LEMMA WorkerStepsActions ==
  ASSUME IInv, ActionInv, NEW t \in Tasks,
         \/ PlanRaises(t) \/ Planned(t) \/ GateAgain(t) \/ TestsPass(t)
         \/ \E status \in Statuses : Return(t, status) \/ Push(t, status) \/ CodeSession(t, status)
         \/ \E s \in {"pending", "approved", "denied"} : GateNew(t, s)
  PROVE  ActionInv'
<1>0. TypeOK /\ JobOK(t) /\ 0 \in 0..MaxTickets
  BY Constants DEF IInv
<1>1. ASSUME NEW status \in Statuses, NEW k \in 0..MaxTickets, Ends(t, status, k), status = "park" => k # 0
      PROVE  (\A u \in Tasks \ {t} : jobs'[u] = jobs[u]) /\ jobs'[t].step = jobs[t].step /\ ParksOnTicket(t)'
  <2>1. /\ jobs' = [jobs EXCEPT ![t] = jobs'[t]] /\ jobs'[t].step = jobs[t].step
        /\ jobs'[t].out = [status |-> status, ticket |-> k]
    BY <1>0, <1>1, Ended
  <2>2. \A u \in Tasks \ {t} : jobs'[u] = jobs[u]
    BY <1>0, <2>1 DEF TypeOK
  <2> QED BY <1>1, <2>1, <2>2 DEF ParksOnTicket
<1>2. ASSUME NEW p \in {"cleared", "end"}, jobs' = [jobs EXCEPT ![t].at = p], p = "cleared" \/ jobs[t].step = 0
      PROVE  (\A u \in Tasks \ {t} : jobs'[u] = jobs[u]) /\ jobs'[t].step = jobs[t].step /\ ParksOnTicket(t)'
  <2>1. jobs' = [jobs EXCEPT ![t] = jobs'[t]] /\ jobs'[t].step = jobs[t].step /\ jobs'[t].at = p
    BY <1>0, <1>2, Moved
  <2>2. \A u \in Tasks \ {t} : jobs'[u] = jobs[u]
    BY <1>0, <2>1 DEF TypeOK
  <2> QED BY <1>2, <2>1, <2>2 DEF ParksOnTicket
<1>3. ASSUME UNCHANGED <<tickets, task>> \/ (UNCHANGED tickets /\ Planned(t)),
             UNCHANGED <<steps, main>>, jobs[t].at # "end",
             (\A u \in Tasks \ {t} : jobs'[u] = jobs[u]) /\ jobs'[t].step = jobs[t].step /\ ParksOnTicket(t)'
      PROVE  ActionInv'
  <2>1. TicketsKeep /\ \A k \in DOMAIN tickets' : tickets'[k].gate = "game" => k \in DOMAIN tickets
    BY <1>3 DEF TicketsKeep
  <2>2. ASSUME NEW u \in Tasks
        PROVE  task'[u].state = task[u].state \/ \A i \in DOMAIN steps[u] : steps[u][i].state # "waiting"
    <3>1. CASE Planned(t) /\ u = t
      <4>1. Fresh(t)
        BY <1>0, <3>1 DEF Planned, JobOK, Active
      <4> QED BY <3>1, <4>1 DEF Fresh, Pristine
    <3>2. CASE Planned(t) /\ u # t
      BY <1>0, <3>2 DEF Planned, SetTask, TypeOK
    <3> QED BY <1>3, <3>1, <3>2
  <2> QED BY <1>3, <2>1, <2>2, WorkerActions
<1>4. CASE PlanRaises(t) \/ Planned(t)
  <2>1. jobs[t].step = 0 /\ jobs' = [jobs EXCEPT ![t].at = "end"] /\ jobs[t].at # "end" /\ UNCHANGED <<steps, main, tickets>>
    BY <1>0, <1>4 DEF PlanRaises, Planned, loopVars, JobOK
  <2>2. UNCHANGED task \/ Planned(t)
    BY <1>4 DEF PlanRaises, loopVars
  <2> QED BY <1>2, <1>3, <2>1, <2>2
<1>5. CASE GateAgain(t)
  <2>1. jobs[t].at # "end" /\ UNCHANGED <<steps, main, tickets, task>>
    BY <1>5 DEF GateAgain, AtGate, loopVars
  <2>2. PICK k \in Asked(t) : jobs' = [jobs EXCEPT ![t].at = "cleared"] \/ Ends(t, "park", k)
    BY <1>5 DEF GateAgain
  <2>3. k \in 0..MaxTickets /\ "park" \in Statuses /\ k # 0
    BY <1>0, Constants DEF Asked, TypeOK, Statuses
  <2>4. (\A u \in Tasks \ {t} : jobs'[u] = jobs[u]) /\ jobs'[t].step = jobs[t].step /\ ParksOnTicket(t)'
    BY <1>1, <1>2, <2>2, <2>3
  <2> QED BY <1>3, <2>1, <2>4
<1>6. CASE TestsPass(t)
  <2>1. Ends(t, "done", 0) /\ jobs[t].at # "end" /\ UNCHANGED <<steps, main, tickets, task>> /\ "done" \in Statuses
    BY <1>6 DEF TestsPass, loopVars, Statuses
  <2>2. (\A u \in Tasks \ {t} : jobs'[u] = jobs[u]) /\ jobs'[t].step = jobs[t].step /\ ParksOnTicket(t)'
    BY <1>0, <1>1, <2>1
  <2> QED BY <1>3, <2>1, <2>2
<1>7. ASSUME NEW status \in Statuses, Return(t, status) \/ Push(t, status) PROVE ActionInv'
  <2>1. Ends(t, status, 0) /\ jobs[t].at # "end" /\ UNCHANGED <<steps, main, tickets, task>>
    BY <1>7 DEF Return, Push, loopVars
  <2>3. status # "park"
    <3>1. Return(t, status) => jobs[t].at = "run" /\ status \in Returns(Kind(t))
      BY DEF Return
    <3>2. Push(t, status) => status # "park"
      BY DEF Push
    <3> QED BY <1>7, <3>1, <3>2, ReturnsStatuses
  <2>2. (\A u \in Tasks \ {t} : jobs'[u] = jobs[u]) /\ jobs'[t].step = jobs[t].step /\ ParksOnTicket(t)'
    BY <1>0, <1>1, <2>1, <2>3
  <2> QED BY <1>3, <2>1, <2>2
<1>8. ASSUME NEW status \in Statuses, CodeSession(t, status) PROVE ActionInv'
  <2>1. Ends(t, status, 0) /\ jobs[t].at # "end" /\ UNCHANGED <<steps, main, task>> /\ status # "park"
    BY <1>8 DEF CodeSession
  <2>2. (\A u \in Tasks \ {t} : jobs'[u] = jobs[u]) /\ jobs'[t].step = jobs[t].step /\ ParksOnTicket(t)'
    BY <1>0, <1>1, <2>1
  <2>3. TicketsKeep /\ DOMAIN tickets' = DOMAIN tickets
    BY <1>8, StaleTickets
  <2> QED BY <2>1, <2>2, <2>3, WorkerActions
<1>9. ASSUME NEW s \in {"pending", "approved", "denied"}, GateNew(t, s) PROVE ActionInv'
  <2> DEFINE a == Filing(Gate(t), t, Scope(t), s, TRUE)
  <2>1. jobs[t].at # "end" /\ UNCHANGED <<steps, main, task>> /\ Len(tickets) < MaxTickets /\ tickets' = Append(tickets, a)
    BY <1>9 DEF GateNew, AtGate
  <2>2. a.gate # "game"
    BY DEF Gate, Filing
  <2> HIDE DEF a
  <2>3. jobs' = [jobs EXCEPT ![t].at = "cleared"] \/ Ends(t, "park", Len(tickets) + 1) \/ Ends(t, "owner", 0)
    BY <1>9 DEF GateNew
  <2>4. Len(tickets) + 1 \in 0..MaxTickets /\ Len(tickets) + 1 # 0 /\ {"park", "owner"} \subseteq Statuses
    BY <1>0, <2>1, Constants DEF TypeOK, Statuses
  <2>5. (\A u \in Tasks \ {t} : jobs'[u] = jobs[u]) /\ jobs'[t].step = jobs[t].step /\ ParksOnTicket(t)'
    BY <1>0, <1>1, <1>2, <2>3, <2>4
  <2>6. /\ DOMAIN tickets' = DOMAIN tickets \cup {Len(tickets) + 1} /\ tickets'[Len(tickets) + 1] = a
        /\ \A k \in DOMAIN tickets : tickets'[k] = tickets[k]
    <3>1. tickets \in Seq(Ticket)
      BY <1>0 DEF TypeOK
    <3> QED BY <2>1, <3>1
  <2>7. TicketsKeep /\ \A k \in DOMAIN tickets' : tickets'[k].gate = "game" => k \in DOMAIN tickets
    BY <2>2, <2>6 DEF TicketsKeep
  <2> QED BY <2>1, <2>5, <2>7, WorkerActions
<1> QED BY <1>4, <1>5, <1>6, <1>7, <1>8, <1>9

LEMMA AnswerActions ==
  ASSUME IInv, ActionInv, NEW k \in DOMAIN tickets, NEW v \in {"approved", "denied"}, Answer(k, v)
  PROVE  ActionInv'
<1>1. UNCHANGED <<task, steps, jobs, main>> /\ tickets' = [tickets EXCEPT ![k].state = v] /\ tickets[k].state = "pending"
  BY DEF Answer
<1>2. tickets \in Seq(Ticket) /\ tickets[k] \in Ticket
  BY DEF IInv, TypeOK
<1>3. /\ DOMAIN tickets' = DOMAIN tickets /\ (\A j \in DOMAIN tickets \ {k} : tickets'[j] = tickets[j])
      /\ tickets'[k] = [tickets[k] EXCEPT !.state = v]
  BY <1>1, <1>2
<1>4. TicketsKeep
  <2>1. tickets'[k].task = tickets[k].task /\ tickets'[k].step = tickets[k].step /\ tickets'[k].gate = tickets[k].gate
        /\ tickets'[k].heard = tickets[k].heard
    BY <1>2, <1>3 DEF Ticket
  <2> QED BY <1>1, <1>3, <2>1 DEF TicketsKeep
<1>5. \A u \in Tasks : \A i \in DOMAIN steps[u] : HeldStill(u, i)
  BY <1>1 DEF HeldStill, HeldAt
<1>6. ASSUME NEW u \in Tasks PROVE WaitsInTask(u)' /\ ParksOnTicket(u)' /\ RunsInWorker(u)'
  BY <1>1 DEF ActionInv, WaitsInTask, ParksOnTicket, RunsInWorker
<1> QED BY <1>3, <1>4, <1>5, <1>6, ActionFrame

LEMMA DispatchPlanActions ==
  ASSUME IInv, ActionInv, NEW t \in Tasks, DispatchPlan(t)
  PROVE  ActionInv'
<1>1. /\ jobs' = [jobs EXCEPT ![t] = [NoJob EXCEPT !.at = "plan"]] /\ UNCHANGED <<task, steps, main, tickets>>
      /\ jobs[t].at = "none" /\ jobs[t].step = 0 /\ TypeOK
  BY DEF DispatchPlan, loopVars, Candidate, Active, IInv, JobOK
<1>2. jobs'[t].at = "plan" /\ jobs'[t].step = 0 /\ \A u \in Tasks \ {t} : jobs'[u] = jobs[u]
  BY <1>1 DEF TypeOK, NoJob
<1>3. TicketsKeep
  BY <1>1 DEF TicketsKeep
<1>4. ParksOnTicket(t)'
  BY <1>2 DEF ParksOnTicket
<1>5. jobs[t].at # "end" /\ jobs'[t].step = jobs[t].step
  BY <1>1, <1>2
<1> QED BY <1>1, <1>2, <1>3, <1>4, <1>5, WorkerActions

\* Filing: a step that runs has no action filed that is not denied.
LEMMA FileActions ==
  ASSUME IInv, ActionInv, NEW t \in Tasks, NEW s \in {"pending", "approved", "denied"}, NEW heard \in BOOLEAN, FileAction(t, s, heard)
  PROVE  ActionInv'
<1> PICK i : i = jobs[t].step
  OBVIOUS
<1> PICK n : n = Len(tickets) + 1
  OBVIOUS
<1> DEFINE a == Filing("game", t, i, s, heard)
<1>1. /\ tickets' = Append(tickets, a) /\ Len(tickets) < MaxTickets /\ UNCHANGED <<task, steps, main>>
      /\ jobs[t].at = "run"
  BY DEF FileAction
<1>2. a.gate = "game" /\ a.task = t /\ a.step = i /\ a.state = s /\ a.heard = heard
  BY DEF Filing
<1> HIDE DEF a
<1> PICK status \in {"park", "done", "fail"} :
      status = IF heard THEN CASE s = "pending" -> "park" [] s = "approved" -> "done" [] s = "denied" -> "fail" ELSE "fail"
  OBVIOUS
<1> PICK q : q = IF heard THEN n ELSE 0
  OBVIOUS
<1>3. /\ (\A u \in Tasks \ {t} : jobs'[u] = jobs[u]) /\ jobs'[t].step = i /\ jobs'[t].at = "end"
      /\ jobs'[t].out.status = status /\ jobs'[t].out.ticket = q /\ n # 0
  <2>1. Ends(t, status, q) /\ status \in Statuses /\ TypeOK
    BY DEF FileAction, Statuses, IInv
  <2>2. q \in 0..MaxTickets /\ n # 0
    BY <1>1, <2>1, Constants DEF TypeOK
  <2>3. /\ jobs' = [jobs EXCEPT ![t] = jobs'[t]] /\ jobs'[t].step = jobs[t].step /\ jobs'[t].at = "end"
        /\ jobs'[t].out = [status |-> status, ticket |-> q]
    BY <2>1, <2>2, Ended
  <2> QED BY <2>1, <2>2, <2>3 DEF TypeOK
<1>4. /\ DOMAIN tickets' = DOMAIN tickets \cup {n} /\ tickets'[n] = a /\ n \notin DOMAIN tickets
      /\ \A k \in DOMAIN tickets : tickets'[k] = tickets[k]
  <2>1. tickets \in Seq(Ticket)
    BY DEF IInv, TypeOK
  <2> QED BY <1>1, <2>1
<1>6. ASSUME NEW k \in DOMAIN tickets, LiveAction(k)'
      PROVE  LiveAction(k) /\ ActionHeld(k)' /\ ~(tickets[k].task = t /\ tickets[k].step = i)
  <2>1. LiveAction(k)
    BY <1>4, <1>6 DEF LiveAction
  <2>2. ActionHeld(k)
    BY <2>1 DEF ActionInv
  <2>3. ~(tickets[k].task = t /\ tickets[k].step = i)
    BY <1>1, <2>2 DEF ActionHeld, HeldAt
  <2>4. tickets[k].task \in Tasks
    BY <2>1, LiveAt
  <2> QED BY <1>1, <1>3, <1>4, <2>1, <2>2, <2>3, <2>4 DEF ActionHeld, HeldAt
<1>7. LiveAction(n)' => ActionHeld(n)'
  <2>1. LiveAction(n)' => status \in {"park", "done"}
    BY <1>2, <1>4 DEF LiveAction
  <2> QED BY <1>2, <1>3, <1>4, <2>1 DEF ActionHeld, HeldAt
<1>8. ActionOnce'
  <2> SUFFICES ASSUME NEW j \in DOMAIN tickets', NEW k \in DOMAIN tickets', j < k,
                      tickets'[j].gate = "game", tickets'[k].gate = "game", tickets'[j].heard,
                      tickets'[j].task = tickets'[k].task, tickets'[j].step = tickets'[k].step
               PROVE  tickets'[j].state = "denied"
    BY DEF ActionOnce
  <2>1. j \in DOMAIN tickets /\ tickets'[j] = tickets[j]
    <3>1. tickets \in Seq(Ticket)
      BY DEF IInv, TypeOK
    <3> QED BY <1>4, <3>1
  <2>2. CASE k = n
    <3>1. tickets'[j].task = t /\ tickets'[j].step = i
      BY <1>2, <1>4, <2>2
    <3>2. ~LiveAction(j)'
      BY <1>6, <2>1, <3>1
    <3> QED BY <3>2 DEF LiveAction
  <2>3. CASE k \in DOMAIN tickets
    <3>1. tickets'[k] = tickets[k]
      BY <1>4, <2>3
    <3> QED BY <2>1, <2>3, <3>1 DEF ActionInv, ActionOnce
  <2> QED BY <1>4, <2>2, <2>3
<1>9. ASSUME NEW u \in Tasks PROVE WaitsInTask(u)' /\ ParksOnTicket(u)' /\ RunsInWorker(u)'
  <2>1. WaitsInTask(u)'
    BY <1>1 DEF ActionInv, WaitsInTask
  <2>2. RunsInWorker(u)'
    BY <1>1, <1>3 DEF ActionInv, RunsInWorker
  <2>3. ParksOnTicket(u)'
    <3>1. status = "park" => q # 0
      BY <1>3
    <3> QED BY <1>3, <3>1 DEF ActionInv, ParksOnTicket
  <2> QED BY <2>1, <2>2, <2>3
<1> QED BY <1>4, <1>6, <1>7, <1>8, <1>9 DEF ActionInv

\* A write to one step: a step that holds an action keeps it, and a step that
\* starts to wait has its ticket and the main thread at its task.
LEMMA WriteActions ==
  ASSUME IInv, ActionInv, NEW t \in Tasks, NEW i \in DOMAIN steps[t], NEW r, Becomes(t, i, r), UNCHANGED <<task, tickets>>,
         steps[t][i].kind = "game_action" => HeldStill(t, i),
         \A u \in Tasks \ {t} : jobs'[u] = jobs[u],
         jobs'[t] = jobs[t] \/ (jobs[t].step \in {0, i} /\ jobs'[t].at # "end" /\ jobs'[t].step \in {0, i}),
         main.at # "park",
         r.state = "waiting" => r.ticket # 0 /\ main'.task = t /\ main'.at = "park",
         r.state = "running" => jobs'[t].step = i
  PROVE  ActionInv'
<1>1. /\ \A u \in Tasks : DOMAIN steps'[u] = DOMAIN steps[u]
      /\ \A u \in Tasks \ {t} : steps'[u] = steps[u]
      /\ \A j \in DOMAIN steps[t] \ {i} : steps'[t][j] = steps[t][j]
      /\ steps'[t][i] = r
  BY DEF Becomes
<1>2. TicketsKeep /\ \A k \in DOMAIN tickets' : tickets'[k].gate = "game" => k \in DOMAIN tickets
  BY DEF TicketsKeep
<1>3. \A j \in DOMAIN steps[t] : j # 0
  <2>1. steps[t] \in Seq(Step)
    BY DEF IInv, TypeOK
  <2> QED BY <2>1
<1>4. ASSUME NEW u \in Tasks, NEW j \in DOMAIN steps[u], steps[u][j].kind = "game_action" PROVE HeldStill(u, j)
  <2>1. CASE u = t /\ j = i
    BY <1>4, <2>1
  <2>2. CASE u = t /\ j # i
    BY <1>1, <1>3, <2>2 DEF HeldStill, HeldAt
  <2>3. CASE u # t
    BY <1>1, <2>3 DEF HeldStill, HeldAt
  <2> QED BY <2>1, <2>2, <2>3
<1>5. ASSUME NEW u \in Tasks PROVE WaitsInTask(u)'
  <2> SUFFICES ASSUME NEW j \in DOMAIN steps[u], steps'[u][j].state = "waiting"
               PROVE  /\ steps'[u][j].ticket # 0
                      /\ task[u].state \in {"waiting", "cancelled"} \/ (main'.task = u /\ main'.at = "park")
    BY <1>1 DEF WaitsInTask
  <2>1. CASE u = t /\ j = i
    BY <1>1, <2>1
  <2>2. CASE u # t \/ j # i
    <3>1. steps'[u][j] = steps[u][j]
      BY <1>1, <2>2
    <3> QED BY <3>1 DEF ActionInv, WaitsInTask
  <2> QED BY <2>1, <2>2
<1>6. ASSUME NEW u \in Tasks PROVE ParksOnTicket(u)'
  BY DEF ActionInv, ParksOnTicket
<1>7. ASSUME NEW u \in Tasks PROVE RunsInWorker(u)'
  <2> SUFFICES ASSUME NEW j \in DOMAIN steps[u], steps'[u][j].state = "running" PROVE jobs'[u].step = j
    BY <1>1 DEF RunsInWorker
  <2>1. CASE u = t /\ j = i
    BY <1>1, <2>1
  <2>2. CASE u # t \/ j # i
    <3>1. steps'[u][j] = steps[u][j]
      BY <1>1, <2>2
    <3>2. jobs[u].step = j
      BY <3>1 DEF ActionInv, RunsInWorker
    <3> QED BY <1>3, <2>2, <3>2
  <2> QED BY <2>1, <2>2
<1> QED BY <1>2, <1>4, <1>5, <1>6, <1>7, ActionFrame

LEMMA DispatchActions ==
  ASSUME IInv, ActionInv, NEW t \in Tasks, NEW i \in DOMAIN steps[t], DispatchStep(t, i) \/ DeferNow(t, i)
  PROVE  ActionInv'
<1>1. /\ Candidate(t) /\ IsNext(t, i) /\ UNCHANGED <<task, tickets>> /\ main.at = "free"
      /\ TypeOK /\ jobs[t].at = "none" /\ jobs[t].step = 0
  BY DEF DispatchStep, DeferNow, Candidate, Idle, Active, IInv, JobOK
<1>2. PICK s \in {"running", "pending"} : SetStep(t, i, s) /\ (s = "running" => DispatchStep(t, i))
  BY DEF DispatchStep, DeferNow
<1> PICK r : r = steps'[t][i]
  OBVIOUS
<1>3. Becomes(t, i, r) /\ r.state = s
  BY <1>1, <1>2, SetStepBecomes DEF StepStates
<1>4. HeldStill(t, i)
  <2>1. ~Finished(t, i)
    BY <1>1, NextIsFront
  <2>2. steps[t][i].state # "waiting"
    BY <1>1, CandidateWaitsNot
  <2>3. steps[t] \in Seq(Step)
    BY <1>1 DEF TypeOK
  <2>4. i # 0
    BY <2>3
  <2> QED BY <1>1, <2>1, <2>2, <2>4 DEF HeldStill, HeldAt, Finished
<1>5. /\ \A u \in Tasks \ {t} : jobs'[u] = jobs[u]
      /\ jobs'[t] = jobs[t] \/ (jobs'[t].at # "end" /\ jobs'[t].step \in {0, i})
      /\ DispatchStep(t, i) => jobs'[t].step = i
  <2>1. CASE DispatchStep(t, i)
    <3>1. jobs' = [jobs EXCEPT ![t] = [NoJob EXCEPT !.at = "run", !.step = i]]
      BY <2>1 DEF DispatchStep
    <3>2. jobs'[t] = [NoJob EXCEPT !.at = "run", !.step = i] /\ \A u \in Tasks \ {t} : jobs'[u] = jobs[u]
      BY <1>1, <3>1 DEF TypeOK
    <3> QED BY <3>2 DEF NoJob
  <2>2. CASE ~DispatchStep(t, i)
    BY <2>2 DEF DeferNow
  <2> QED BY <2>1, <2>2
<1>6. r.state # "waiting" /\ (r.state = "running" => jobs'[t].step = i) /\ jobs[t].step \in {0, i} /\ main.at # "park"
  BY <1>1, <1>2, <1>3, <1>5
<1> HIDE DEF Becomes
<1> QED BY <1>1, <1>3, <1>4, <1>5, <1>6, WriteActions

LEMMA ReapActions ==
  ASSUME IInv, ActionInv, NEW t \in Tasks, Reap(t)
  PROVE  ActionInv'
<1>1. TypeOK /\ jobs' = [jobs EXCEPT ![t] = NoJob] /\ UNCHANGED <<task, tickets>> /\ jobs[t].at = "end" /\ main.at = "free"
  BY DEF Reap, Idle, IInv
<1>2. jobs'[t].at = "none" /\ jobs'[t].step = 0 /\ \A u \in Tasks \ {t} : jobs'[u] = jobs[u]
  BY <1>1 DEF TypeOK, NoJob
<1>4. CASE jobs[t].step = 0
  <2>1. UNCHANGED <<steps, main>>
    BY <1>4 DEF Reap
  <2>2. \A u \in Tasks : steps[u] \in Seq(Step)
    BY <1>1 DEF TypeOK
  <2>3. ASSUME NEW u \in Tasks, NEW j \in DOMAIN steps[u] PROVE HeldStill(u, j)
    <3>1. j # 0
      BY <2>2
    <3> QED BY <1>2, <1>4, <2>1, <3>1 DEF HeldStill, HeldAt
  <2>4. TicketsKeep
    BY <1>1 DEF TicketsKeep
  <2>5. ASSUME NEW u \in Tasks PROVE WaitsInTask(u)' /\ ParksOnTicket(u)' /\ RunsInWorker(u)'
    BY <1>1, <1>2, <1>4, <2>1 DEF ActionInv, WaitsInTask, ParksOnTicket, RunsInWorker
  <2> QED BY <1>1, <2>3, <2>4, <2>5, ActionFrame
<1>5. CASE jobs[t].step # 0
  <2> PICK i : i = jobs[t].step
    OBVIOUS
  <2> PICK r : r = steps'[t][i]
    OBVIOUS
  <2> PICK status : status = jobs[t].out.status
    OBVIOUS
  <2>1. /\ Becomes(t, i, r) /\ r.state = FirstWrite(status) /\ r.state # "running"
        /\ r.ticket = IF status = "park" THEN jobs[t].out.ticket ELSE steps[t][i].ticket
    BY <1>5, ReapWrites
  <2>2. i \in DOMAIN steps[t] /\ status # "none" /\ status \in Statuses
    BY <1>1, <1>5 DEF IInv, JobOK, AtFront, TypeOK, Job, Outcome
  <2>3. HeldStill(t, i)
    <3>1. HeldAt(t, i) => r.state \in {"waiting", "done"}
      BY <2>1 DEF HeldAt, FirstWrite
    <3> QED BY <1>2, <1>5, <2>1, <3>1 DEF HeldStill, HeldAt
  <2>4. r.state = "waiting" => status = "park"
    BY <2>1, <2>2 DEF FirstWrite, Statuses
  <2>5. main'.at = status /\ main'.task = t
    BY <1>5 DEF Reap
  <2>6. status = "park" => jobs[t].out.ticket # 0
    BY <1>1, <1>5 DEF ActionInv, ParksOnTicket
  <2>7. r.state = "waiting" => r.ticket # 0 /\ main'.task = t /\ main'.at = "park"
    BY <2>1, <2>4, <2>5, <2>6
  <2>8. jobs[t].step \in {0, i} /\ main.at # "park" /\ jobs'[t].at # "end" /\ jobs'[t].step \in {0, i}
    BY <1>1, <1>2
  <2> HIDE DEF Becomes
  <2> QED BY <1>1, <1>2, <2>1, <2>2, <2>3, <2>7, <2>8, WriteActions
<1> QED BY <1>4, <1>5

LEMMA PollActions ==
  ASSUME IInv, ActionInv,
         PollGate \/ PollGame \/ \E t \in Tasks : \E i \in DOMAIN steps[t] : PollSees(t, i)
  PROVE  ActionInv'
<1>1. ASSUME NEW t \in Tasks, NEW i \in DOMAIN steps[t], PollSees(t, i) PROVE ActionInv'
  <2>1. UNCHANGED <<steps, tickets, jobs, task>> /\ main.at # "park"
    BY <1>1 DEF PollSees, Idle
  <2> QED BY <2>1, RowsActions
<1>2. CASE PollGate \/ PollGame
  <2> PICK t : t = main.task
    OBVIOUS
  <2> PICK i : i = main.step
    OBVIOUS
  <2> PICK r : r = steps'[t][i]
    OBVIOUS
  <2>1. main.at = "polled" /\ UNCHANGED <<task, tickets, jobs>>
    BY <1>2 DEF PollGate, PollGame
  <2>2. t \in Tasks /\ i \in DOMAIN steps[t] /\ jobs[t].step = 0 /\ i # 0 /\ TypeOK /\ Fits(t, i, main.ticket)
    <3>1. t \in Tasks /\ i \in DOMAIN steps[t] /\ jobs[t].step = 0 /\ TypeOK
      BY <2>1, AtMain
    <3>2. steps[t] \in Seq(Step)
      BY <3>1 DEF TypeOK
    <3>3. i # 0
      BY <3>1, <3>2
    <3> QED BY <2>1, <3>1, <3>3 DEF IInv, MainOK
  <2>3. /\ Becomes(t, i, r) /\ r.state \in {"pending", "done", "skipped"}
        /\ steps[t][i].kind = "game_action" => r.state \in {"done", "skipped"}
    <3>1. CASE PollGate
      <4>1. steps[t][i].kind # "game_action"
        BY <2>2, <3>1 DEF Fits, PollGate
      <4> QED BY <2>2, <3>1, <4>1, PollWrites
    <3>2. CASE PollGame
      <4>1. PICK s \in {"done", "skipped"} : SetStep(t, i, s)
        BY <3>2 DEF PollGame
      <4>2. s \in StepStates
        BY DEF StepStates
      <4> QED BY <2>2, <4>1, <4>2, SetStepBecomes
    <3> QED BY <1>2, <3>1, <3>2
  <2>4. steps[t][i].kind = "game_action" => HeldStill(t, i)
    BY <2>1, <2>2, <2>3 DEF HeldStill, HeldAt
  <2>5. main.at # "park" /\ r.state # "waiting" /\ r.state # "running"
    BY <2>1, <2>3
  <2> HIDE DEF Becomes
  <2> QED BY <2>1, <2>2, <2>3, <2>4, <2>5, WriteActions
<1> QED BY <1>1, <1>2

LEMMA RelabelActions ==
  ASSUME IInv, ActionInv, Relabelling, UNCHANGED <<task, tickets, jobs, main>>
  PROVE  ActionInv'
<1>1. TicketsKeep
  BY DEF TicketsKeep
<1>2. ASSUME NEW u \in Tasks, NEW j \in DOMAIN steps[u] PROVE HeldStill(u, j)
  BY DEF Relabelling, HeldStill, HeldAt
<1>3. ASSUME NEW u \in Tasks PROVE WaitsInTask(u)' /\ ParksOnTicket(u)' /\ RunsInWorker(u)'
  <2>1. WaitsInTask(u) /\ ParksOnTicket(u) /\ RunsInWorker(u)
    BY DEF ActionInv
  <2>2. DOMAIN steps'[u] = DOMAIN steps[u]
    BY DEF Relabelling
  <2>3. ASSUME NEW j \in DOMAIN steps[u]
        PROVE  /\ steps'[u][j].ticket = steps[u][j].ticket
               /\ steps'[u][j].state \in {steps[u][j].state, "skipped", "pending"}
    BY DEF Relabelling
  <2>4. WaitsInTask(u)'
    BY <2>1, <2>2, <2>3 DEF WaitsInTask
  <2>5. ParksOnTicket(u)' /\ RunsInWorker(u)'
    BY <2>1, <2>2, <2>3 DEF ParksOnTicket, RunsInWorker
  <2> QED BY <2>4, <2>5
<1> QED BY <1>1, <1>2, <1>3, ActionFrame

\* The end of a plan written anew: the actions of the task are all filed for steps
\* before it.
LEMMA RewriteActions ==
  ASSUME IInv, ActionInv, NEW t \in Tasks, NEW n \in Nat, Rewrites(t, n), UNCHANGED <<task, tickets>>,
         \A k \in DOMAIN tickets : tickets[k].task = t => tickets[k].step <= n,
         \A u \in Tasks \ {t} : jobs'[u] = jobs[u],
         jobs'[t].step = jobs[t].step, jobs'[t] = jobs[t] \/ jobs[t].at # "end", ParksOnTicket(t)',
         main' = main \/ main.at # "park"
  PROVE  ActionInv'
<1>1. /\ steps[t] \in Seq(Step) /\ steps'[t] \in Seq(Step) /\ n <= Len(steps[t]) /\ n <= Len(steps'[t])
      /\ \A j \in 1..n : steps'[t][j] = steps[t][j]
      /\ \A j \in DOMAIN steps'[t] : n < j => Pristine(t, j)'
      /\ \A u \in Tasks \ {t} : steps'[u] = steps[u]
  BY DEF Rewrites, IInv, TypeOK
<1>2. ASSUME NEW j \in DOMAIN steps'[t] PROVE Pristine(t, j)' \/ (j \in DOMAIN steps[t] /\ steps'[t][j] = steps[t][j])
  <2>1. j \in Nat /\ j >= 1
    BY <1>1
  <2>2. CASE n < j
    BY <1>1, <2>2
  <2>3. CASE j <= n
    <3>1. j \in 1..n /\ j \in DOMAIN steps[t]
      BY <1>1, <2>1, <2>3
    <3> QED BY <1>1, <3>1
  <2> QED BY <2>1, <2>2, <2>3
<1>3. ASSUME NEW k \in DOMAIN tickets, LiveAction(k)' PROVE ActionHeld(k)'
  <2> PICK u : u = tickets[k].task
    OBVIOUS
  <2> PICK i : i = tickets[k].step
    OBVIOUS
  <2>1. LiveAction(k)
    BY <1>3 DEF LiveAction
  <2>2. u \in Tasks /\ i \in DOMAIN steps[u] /\ ActionHeld(k) /\ steps[u] \in Seq(Step)
    BY <2>1, LiveAt DEF ActionInv, IInv, TypeOK
  <2>3. steps'[u][i] = steps[u][i]
    <3>1. CASE u = t
      <4>1. i \in Nat /\ i >= 1
        BY <2>2
      <4>2. i <= n
        BY <3>1
      <4>3. i \in 1..n
        BY <4>1, <4>2
      <4> QED BY <1>1, <3>1, <4>3
    <3>2. CASE u # t
      BY <1>1, <2>2, <3>2
    <3> QED BY <3>1, <3>2
  <2>4. jobs'[u] = jobs[u] \/ jobs[u].at # "end"
    BY <2>2
  <2> QED BY <2>2, <2>3, <2>4 DEF ActionHeld, HeldAt
<1>4. ActionOnce'
  BY DEF ActionInv, ActionOnce
<1>5. ASSUME NEW u \in Tasks PROVE WaitsInTask(u)' /\ ParksOnTicket(u)' /\ RunsInWorker(u)'
  <2>1. CASE u # t
    BY <1>1, <2>1 DEF ActionInv, WaitsInTask, ParksOnTicket, RunsInWorker
  <2>2. CASE u = t
    <3>1. WaitsInTask(t)'
      BY <1>2 DEF ActionInv, WaitsInTask, Pristine
    <3>2. RunsInWorker(t)'
      BY <1>2 DEF ActionInv, RunsInWorker, Pristine
    <3> QED BY <2>2, <3>1, <3>2
  <2> QED BY <2>1, <2>2
<1> QED BY <1>3, <1>4, <1>5 DEF ActionInv

LEMMA MakePlanActions ==
  ASSUME IInv, ActionInv, NEW t \in Tasks, MakePlan(t)
  PROVE  ActionInv'
<1>1. /\ jobs[t].at = "plan" /\ jobs' = [jobs EXCEPT ![t].at = "planned"] /\ UNCHANGED <<main, task, tickets>>
  BY DEF MakePlan
<1>2. Fresh(t) /\ TypeOK
  BY <1>1 DEF IInv, JobOK, Active
<1> PICK n : n = 0
  OBVIOUS
<1>3. Rewrites(t, n)
  <2>1. PICK a \in Answers : SetPlan(t, PlanFor(a, t \in RepoTasks, PlanSteps))
    BY DEF MakePlan
  <2> PICK kinds : kinds = PlanFor(a, t \in RepoTasks, PlanSteps)
    OBVIOUS
  <2>2. kinds \in Seq(Kinds) /\ SetPlan(t, kinds)
    BY <2>1, AnswersPlan
  <2>3. steps[t] \in Seq(Step) /\ n \in 0..Len(steps[t])
    BY <1>2 DEF TypeOK
  <2>4. \A i \in DOMAIN steps[t] : Finished(t, i) <=> i <= n
    BY <1>2, <2>3 DEF Fresh, Pristine, Finished
  <2> QED BY <1>2, <2>2, <2>3, <2>4, SetPlanIs
<1>4. /\ jobs'[t].at = "planned" /\ jobs'[t].step = jobs[t].step /\ \A u \in Tasks \ {t} : jobs'[u] = jobs[u]
  <2>1. jobs' = [jobs EXCEPT ![t] = jobs'[t]] /\ jobs'[t].at = "planned" /\ jobs'[t].step = jobs[t].step
    BY <1>1, <1>2, Moved
  <2> QED BY <1>2, <2>1 DEF TypeOK
<1>5. ParksOnTicket(t)' /\ n \in Nat /\ jobs[t].at # "end"
  BY <1>1, <1>4 DEF ParksOnTicket
<1>6. \A k \in DOMAIN tickets : tickets[k].task = t => tickets[k].step <= n
  BY <1>2 DEF Fresh
<1> QED BY <1>1, <1>3, <1>4, <1>5, <1>6, RewriteActions

LEMMA AskForWorkActions ==
  ASSUME IInv, ActionInv, NEW t \in Tasks, AskForWork(t)
  PROVE  ActionInv'
<1> PICK i : i = jobs[t].step
  OBVIOUS
<1> PICK new : new = FixPlan(t)
  OBVIOUS
<1>1. /\ i \in DOMAIN steps[t] /\ Behind(t, i) /\ TypeOK /\ jobs[t].at = "run"
      /\ \A k \in DOMAIN tickets : tickets[k].task = t => tickets[k].step <= i
  BY AtStep, RunningIsFront DEF AskForWork, IInv
<1>2. /\ new \in Seq(Step) /\ (\A j \in DOMAIN new : new[j].state = "pending" /\ new[j].ticket = 0)
  BY FixPlanIs DEF AskForWork
<1>3. Rewrites(t, i) /\ i \in Nat
  <2>1. InsertAfter(t, i, new) /\ \A j \in DOMAIN steps[t] : i < j => Pristine(t, j)
    BY <1>1 DEF AskForWork, Behind
  <2>2. i \in Nat
    BY <1>1 DEF TypeOK
  <2> QED BY <1>1, <1>2, <2>1, <2>2, InsertedIs
<1> PICK status \in {"done", "supersede"} : status = IF Kind(t) = "review" THEN "done" ELSE "supersede"
  OBVIOUS
<1>4. /\ \A u \in Tasks \ {t} : jobs'[u] = jobs[u]
      /\ jobs'[t].step = jobs[t].step /\ jobs'[t].out.status = status
  <2>1. Ends(t, status, 0) /\ status \in Statuses /\ 0 \in 0..MaxTickets
    BY Constants DEF AskForWork, Statuses
  <2>2. /\ jobs' = [jobs EXCEPT ![t] = jobs'[t]] /\ jobs'[t].step = jobs[t].step
        /\ jobs'[t].out = [status |-> status, ticket |-> 0]
    BY <1>1, <2>1, Ended
  <2> QED BY <1>1, <2>2 DEF TypeOK
<1>5. ParksOnTicket(t)' /\ jobs[t].at # "end" /\ UNCHANGED <<main, task, tickets>>
  BY <1>1, <1>4 DEF ParksOnTicket, AskForWork
<1> QED BY <1>1, <1>3, <1>4, <1>5, RewriteActions

\* The main thread's rewrites: the parts of a split step, and the plan after an
\* action that was denied.
LEMMA MainRewritesActions ==
  ASSUME IInv, ActionInv, WriteParts \/ Replan
  PROVE  ActionInv'
<1> PICK t : t = main.task
  OBVIOUS
<1> PICK n : n = main.step
  OBVIOUS
<1>1. main.at \in {"split", "replan"} /\ UNCHANGED <<jobs, task, tickets>>
  BY DEF WriteParts, Replan
<1>2. /\ t \in Tasks /\ n \in DOMAIN steps[t] /\ Before(t, n) /\ Behind(t, n) /\ TypeOK
      /\ \A k \in DOMAIN tickets : tickets[k].task = t => tickets[k].step <= n
  BY <1>1, AtMain
<1>3. steps[t] \in Seq(Step) /\ n \in 0..Len(steps[t]) /\ n \in Nat
  BY <1>2 DEF TypeOK
<1>4. Rewrites(t, n)
  <2>1. CASE WriteParts
    <3> PICK new : new = Parts
      OBVIOUS
    <3>1. InsertAfter(t, n, new) /\ \A j \in DOMAIN steps[t] : n < j => Pristine(t, j)
      BY <1>2, <2>1 DEF WriteParts, Behind
    <3>2. new \in Seq(Step) /\ \A j \in DOMAIN new : new[j].state = "pending" /\ new[j].ticket = 0
      BY PartsIs
    <3> QED BY <1>2, <3>1, <3>2, InsertedIs
  <2>2. CASE Replan
    <3>1. PICK a \in Answers : \E plan \in ReplansFor(a, t \in RepoTasks, PlanSteps) : SetPlan(t, plan)
      BY <2>2 DEF Replan
    <3>2. PICK kinds \in ReplansFor(a, t \in RepoTasks, PlanSteps) : SetPlan(t, kinds)
      BY <3>1
    <3>3. kinds \in Seq(Kinds)
      BY AnswersPlan
    <3>4. Finished(t, n)
      <4>1. steps[t][n].state \in Written("replan")
        BY <2>2 DEF IInv, MainOK, Replan
      <4> QED BY <4>1 DEF Written, Finished
    <3>5. ASSUME NEW i \in DOMAIN steps[t] PROVE Finished(t, i) <=> i <= n
      <4>1. i \in Nat
        BY <1>3
      <4>2. CASE i < n
        BY <1>2, <1>3, <4>1, <4>2 DEF Before
      <4>3. CASE i = n
        BY <1>3, <3>4, <4>3
      <4>4. CASE i > n
        BY <1>2, <1>3, <4>1, <4>4 DEF Behind, Pristine, Finished
      <4> QED BY <1>3, <4>1, <4>2, <4>3, <4>4
    <3> QED BY <1>2, <1>3, <3>2, <3>3, <3>5, SetPlanIs
  <2> QED BY <2>1, <2>2
<1>5. ParksOnTicket(t)'
  BY <1>1, <1>2 DEF ActionInv, ParksOnTicket
<1>6. main.at # "park"
  BY <1>1
<1> QED BY <1>1, <1>2, <1>3, <1>4, <1>5, <1>6, RewriteActions

LEMMA ActionStep ==
  ASSUME ~MayCrash, "retry" \notin OwnerMay, IInv, ActionInv, [Next]_vars
  PROVE  ActionInv'
<1>1. ASSUME NEW t \in Tasks, Dispatch(t) PROVE ActionInv'
  BY <1>1, DispatchPlanActions, OwnerActions, DispatchActions DEF Dispatch
<1>2. ASSUME NEW t \in Tasks, Work(t) PROVE ActionInv'
  BY <1>2, WorkerStepsActions, MakePlanActions, AskForWorkActions, FileActions DEF Work
<1>3. ASSUME NEW t \in Tasks, Reap(t) \/ Poll(t) PROVE ActionInv'
  BY <1>3, ReapActions, PollActions DEF Poll
<1>4. CASE Continue
  BY <1>4, OwnerActions, MainRewritesActions, PollActions DEF Continue
<1>5. ASSUME NEW t \in Tasks, CancelReads(t) \/ \E i \in ToSkip(t) : CancelSkips(t, i) PROVE ActionInv'
  <2>1. CASE CancelReads(t)
    <3>1. UNCHANGED <<task, steps, tickets, jobs, main>>
      BY <2>1 DEF CancelReads
    <3> QED BY <3>1, RowsActions
  <2>2. ASSUME NEW i \in ToSkip(t), CancelSkips(t, i) PROVE ActionInv'
    <3>1. UNCHANGED <<task, tickets, jobs, main>>
      BY <2>2 DEF CancelSkips
    <3> QED BY <2>2, <3>1, CancelRelabels, RelabelActions
  <2> QED BY <1>5, <2>1, <2>2
<1>6. CASE Start
  <2>1. Relabelling /\ UNCHANGED <<task, tickets, jobs, main>>
    BY <1>6, StartRelabels DEF Start
  <2> QED BY <2>1, RelabelActions
<1>7. ~Crash /\ \A t \in Tasks : ~Retry(t)
  BY DEF Crash, Retry
<1>8. CASE Owner \/ Halt \/ UNCHANGED vars \/ \E t \in Tasks : TimePasses(t)
  BY <1>5, <1>7, <1>8, OwnerActions, AnswerActions DEF Owner
<1> QED BY <1>1, <1>2, <1>3, <1>4, <1>6, <1>7, <1>8 DEF Next

\* Once the loop has heard that an action of a step was filed, that step files no
\* other unless the player said no to it, as long as the loop is not killed and the
\* owner takes no task up again: a step that filed one waits for it, and is over when
\* it is answered (step_game_action, poll_tickets).
THEOREM ActionsOnce == ~MayCrash /\ "retry" \notin OwnerMay => (Spec => []ActionOnce)
<1> SUFFICES ASSUME ~MayCrash, "retry" \notin OwnerMay PROVE Spec => []ActionOnce
  OBVIOUS
<1>1. Init => ActionInv
  <2> SUFFICES ASSUME Init PROVE ActionInv
    OBVIOUS
  <2>1. ASSUME NEW t \in Tasks PROVE steps[t] = <<>> /\ jobs[t] = NoJob
    BY DEF Init
  <2>2. DOMAIN tickets = {}
    BY DEF Init
  <2> QED BY <2>1, <2>2 DEF ActionInv, WaitsInTask, ParksOnTicket, RunsInWorker, ActionOnce, NoJob
<1>2. IInv /\ ActionInv /\ [Next]_vars => ActionInv'
  BY ActionStep
<1>3. ActionInv => ActionOnce
  BY DEF ActionInv
<1> QED BY <1>1, <1>2, <1>3, InductiveInvariant, PTL DEF Spec

-----------------------------------------------------------------------------
(* A task that waits can be woken: what each step leaves of WakeInv *)

MovesOn == {"opened", "refused", "replan", "resume"}

\* Rows and workers change, and no task starts to wait.
LEMMA RowsWake ==
  ASSUME IInv, WakeInv, UNCHANGED <<steps, main, cancel>>,
         \A u \in Tasks : \/ task'[u].state = task[u].state
                          \/ task'[u].state # "waiting" /\ (main.task # u \/ main.at \notin {"replan", "resume"}),
         \A u \in Tasks : Active(u)' => Active(u) \/ task'[u].state # "waiting"
  PROVE  WakeInv'
<1>1. ASSUME NEW u \in Tasks PROVE WaitsForStep(u)' /\ (Active(u)' => task'[u].state # "waiting")
  BY DEF WakeInv, WaitsForStep
<1>2. MainReads'
  <2>1. main.at # "free" => main.task \in Tasks
    BY DEF IInv, MainOK
  <2>2. main.at \in Statuses => task'[main.task].state # "waiting"
    <3>1. main.at \in Statuses => main.at # "free"
      BY DEF Statuses
    <3> QED BY <2>1, <3>1 DEF WakeInv, MainReads
  <2> QED BY <2>1, <2>2 DEF WakeInv, MainReads
<1> QED BY <1>1, <1>2 DEF WakeInv

\* Steps and worker of one task change that does not wait.
LEMMA OneWake ==
  ASSUME IInv, WakeInv, NEW t \in Tasks, UNCHANGED <<task, cancel>>, task[t].state # "waiting",
         \A u \in Tasks \ {t} : steps'[u] = steps[u] /\ (Active(u)' => Active(u)),
         main' = main \/ main.at \notin MovesOn, MainReads'
  PROVE  WakeInv'
  BY DEF WakeInv, WaitsForStep, MovesOn

LEMMA WorkWake ==
  ASSUME IInv, WakeInv,
         \/ Halt \/ Pause \/ Unpause \/ Stop \/ UNCHANGED vars
         \/ \E k \in DOMAIN tickets, v \in {"approved", "denied"} : Answer(k, v)
         \/ \E t \in Tasks :
              \/ FinishNow(t) \/ TimePasses(t) \/ AddTask(t) \/ DispatchPlan(t)
              \/ PlanRaises(t) \/ Planned(t) \/ GateAgain(t) \/ TestsPass(t)
              \/ \E status \in Statuses : Return(t, status) \/ Push(t, status) \/ CodeSession(t, status)
              \/ \E s \in {"pending", "approved", "denied"} : GateNew(t, s)
              \/ \E s \in {"pending", "approved", "denied"}, heard \in BOOLEAN : FileAction(t, s, heard)
  PROVE  WakeInv'
<1>0. TypeOK
  BY DEF IInv
<1>1. CASE \/ Halt \/ Pause \/ Unpause \/ Stop \/ UNCHANGED vars
           \/ \E k \in DOMAIN tickets, v \in {"approved", "denied"} : Answer(k, v)
  <2>1. UNCHANGED <<task, steps, jobs, main, cancel>>
    BY <1>1 DEF Halt, Pause, Unpause, Stop, SetFlags, vars, Answer
  <2> QED BY <2>1, RowsWake DEF Active
<1>2. ASSUME NEW t \in Tasks, FinishNow(t) \/ TimePasses(t) \/ AddTask(t) PROVE WakeInv'
  <2>1. UNCHANGED <<steps, jobs, main, cancel>> /\ (\A u \in Tasks \ {t} : task'[u] = task[u]) /\ task[t] \in TaskRow
    BY <1>0, <1>2 DEF FinishNow, TimePasses, AddTask, SetTask, TypeOK
  <2>2. CASE FinishNow(t)
    <3>1. task'[t].state = "done" /\ main.at = "free"
      BY <1>0, <2>1, <2>2 DEF FinishNow, SetTask, TypeOK, TaskRow, Candidate, Idle
    <3> QED BY <2>1, <3>1, RowsWake DEF Active
  <2>3. CASE TimePasses(t)
    <3>1. task'[t].state = task[t].state
      BY <1>0, <2>1, <2>3 DEF TimePasses, TypeOK, TaskRow
    <3> QED BY <2>1, <3>1, RowsWake DEF Active
  <2>4. CASE AddTask(t)
    <3>1. task'[t].state = "queued"
      BY <1>0, <2>4 DEF AddTask, TypeOK
    <3>2. main.task # t \/ main.at \notin {"replan", "resume"}
      BY <2>4 DEF AddTask, IInv, MainOK, InHand
    <3> QED BY <2>1, <3>1, <3>2, RowsWake DEF Active
  <2> QED BY <1>2, <2>2, <2>3, <2>4
<1>3. ASSUME NEW t \in Tasks, DispatchPlan(t) PROVE WakeInv'
  <2>1. /\ UNCHANGED <<task, steps, main, cancel>> /\ jobs' = [jobs EXCEPT ![t] = [NoJob EXCEPT !.at = "plan"]]
        /\ task[t].state = "queued"
    BY <1>3 DEF DispatchPlan, loopVars
  <2>2. \A u \in Tasks \ {t} : jobs'[u] = jobs[u]
    BY <1>0, <2>1 DEF TypeOK
  <2> QED BY <2>1, <2>2, RowsWake DEF Active
<1>4. ASSUME NEW t \in Tasks, Planned(t) PROVE WakeInv'
  <2>1. /\ UNCHANGED <<steps, main, cancel>> /\ jobs' = [jobs EXCEPT ![t].at = "end"] /\ Active(t)
        /\ task' = [task EXCEPT ![t].state = "ready"]
    BY <1>4 DEF Planned, SetTask, Active
  <2>2. (\A u \in Tasks \ {t} : jobs'[u] = jobs[u] /\ task'[u] = task[u]) /\ task'[t].state = "ready"
    BY <1>0, <2>1 DEF TypeOK, TaskRow
  <2>3. main.task # t
    BY <2>1, Apart
  <2> QED BY <2>1, <2>2, <2>3, RowsWake DEF Active
<1>5. ASSUME NEW t \in Tasks, UNCHANGED <<task, steps, main, cancel>>, Active(t), \A u \in Tasks \ {t} : jobs'[u] = jobs[u]
      PROVE  WakeInv'
  BY <1>5, RowsWake DEF Active
<1>6. ASSUME NEW t \in Tasks,
             \/ PlanRaises(t) \/ GateAgain(t) \/ TestsPass(t)
             \/ \E status \in Statuses : Return(t, status) \/ Push(t, status) \/ CodeSession(t, status)
             \/ \E s \in {"pending", "approved", "denied"} : GateNew(t, s)
             \/ \E s \in {"pending", "approved", "denied"}, heard \in BOOLEAN : FileAction(t, s, heard)
      PROVE  WakeInv'
  <2>1. UNCHANGED <<task, steps, main, cancel>> /\ Active(t)
    BY <1>6 DEF PlanRaises, GateAgain, TestsPass, Return, Push, CodeSession, GateNew, FileAction, AtGate, loopVars, Active
  <2>2. \A u \in Tasks \ {t} : jobs'[u] = jobs[u]
    <3>1. jobs \in [Tasks -> Job]
      BY <1>0 DEF TypeOK
    <3> QED BY <1>6, <3>1 DEF PlanRaises, GateAgain, TestsPass, Return, Push, CodeSession, GateNew, FileAction, Ends
  <2> QED BY <1>5, <2>1, <2>2
<1> QED BY <1>1, <1>2, <1>3, <1>4, <1>6

\* What the main thread still writes: only a step that parks makes its task wait.
LEMMA WriteTaskWake ==
  ASSUME IInv, WakeInv, WriteTask
  PROVE  WakeInv'
<1> PICK t : t = main.task
  OBVIOUS
<1>1. /\ main.at \in (Statuses \ {"none"}) \cup {"opened", "refused"} /\ main.at # "split"
      /\ main' = Free /\ UNCHANGED <<steps, jobs, cancel>> /\ task' = [task EXCEPT ![t] = SecondWrite(t, task[t])]
  <2>1. main \in Main
    BY DEF IInv, TypeOK
  <2> QED BY <2>1 DEF WriteTask, Main, MainPoint
<1>2. t \in Tasks /\ task[t] \in TaskRow /\ ~Active(t) /\ TypeOK
  <2>1. main.at \notin {"free", "resume"}
    BY <1>1 DEF Statuses
  <2> QED BY <2>1, AtMain
<1>3. (\A u \in Tasks \ {t} : task'[u] = task[u]) /\ task'[t] = SecondWrite(t, task[t])
  BY <1>1, <1>2 DEF TypeOK
<1>4. main.at \in Statuses => task[t].state # "waiting"
  BY DEF WakeInv, MainReads
<1>5. task'[t].state = "waiting" => main.at = "park"
  <2>1. FailedRow(t, task[t]).state \in {"needs_owner", task[t].state}
    BY <1>2 DEF FailedRow, TaskRow
  <2>2. main.at \in Statuses => FailedRow(t, task[t]).state # "waiting"
    BY <1>4, <2>1
  <2>3. main.at \in {"done", "skip", "owner", "wait"} => SecondWrite(t, task[t]).state # "waiting"
    BY <1>2, <1>4 DEF SecondWrite, TaskRow, Statuses
  <2>4. main.at \in {"defer", "opened", "refused"} => SecondWrite(t, task[t]).state # "waiting"
    BY <1>2 DEF SecondWrite, TaskRow
  <2>5. main.at \in {"fail", "supersede"} => SecondWrite(t, task[t]).state # "waiting"
    <3> SUFFICES ASSUME main.at \in {"fail", "supersede"} PROVE SecondWrite(t, task[t]).state # "waiting"
      OBVIOUS
    <3>1. SecondWrite(t, task[t]) = FailedRow(t, task[t])
      BY DEF SecondWrite
    <3> QED BY <2>2, <3>1 DEF Statuses
  <2> HIDE DEF FailedRow
  <2> QED BY <1>1, <1>3, <2>3, <2>4, <2>5 DEF Statuses
<1>6. WaitsForStep(t)'
  <2>1. main.at = "park" => t \in Tasks /\ main.step \in DOMAIN steps[t] /\ steps[t][main.step].state = "waiting"
    <3>1. main.at = "park" => main.step \in DOMAIN steps[t]
      BY AtMain
    <3> QED BY <1>2, <3>1 DEF WakeInv, MainReads
  <2> QED BY <1>1, <1>5, <2>1 DEF WaitsForStep
<1>7. ASSUME NEW u \in Tasks \ {t} PROVE WaitsForStep(u)'
  BY <1>1, <1>3 DEF WakeInv, WaitsForStep
<1>8. MainReads'
  BY <1>1 DEF MainReads, Free, Statuses
<1>9. ASSUME NEW u \in Tasks PROVE Active(u)' => task'[u].state # "waiting"
  BY <1>1, <1>2, <1>3 DEF WakeInv, Active
<1> QED BY <1>1, <1>6, <1>7, <1>8, <1>9 DEF WakeInv

LEMMA ResumeWake ==
  ASSUME IInv, WakeInv, Resume
  PROVE  WakeInv'
<1> PICK t : t = main.task
  OBVIOUS
<1>1. /\ main.at = "resume" /\ main' = Free /\ UNCHANGED <<steps, jobs, cancel>>
      /\ IF ~Blocked(t) /\ main.seen.state = "waiting" THEN SetTask(t, "ready") ELSE UNCHANGED task
  BY DEF Resume
<1>2. t \in Tasks /\ ~Active(t) /\ TypeOK
  BY <1>1 DEF IInv, MainOK
<1>3. (\A u \in Tasks \ {t} : task'[u] = task[u]) /\ (task'[t].state = "waiting" => Blocked(t))
  <2>1. CASE SetTask(t, "ready")
    BY <1>2, <2>1 DEF SetTask, TypeOK, TaskRow
  <2>2. CASE ~(~Blocked(t) /\ main.seen.state = "waiting")
    <3>1. main.seen.state = task[t].state
      BY <1>1 DEF WakeInv, MainReads
    <3> QED BY <1>1, <2>2, <3>1
  <2> QED BY <1>1, <2>1, <2>2
<1>4. WaitsForStep(t)'
  BY <1>1, <1>3 DEF WaitsForStep, Blocked
<1>5. ASSUME NEW u \in Tasks \ {t} PROVE WaitsForStep(u)'
  BY <1>1, <1>3 DEF WakeInv, WaitsForStep
<1>6. MainReads'
  BY <1>1 DEF MainReads, Free, Statuses
<1>7. ASSUME NEW u \in Tasks PROVE Active(u)' => task'[u].state # "waiting"
  BY <1>1, <1>2, <1>3 DEF WakeInv, Active
<1> QED BY <1>1, <1>4, <1>5, <1>6, <1>7 DEF WakeInv

LEMMA PollWake ==
  ASSUME IInv, WakeInv,
         PollGate \/ PollGame \/ Replan \/ \E t \in Tasks : \E i \in DOMAIN steps[t] : PollSees(t, i)
  PROVE  WakeInv'
<1>0. main \in Main
  BY DEF IInv, TypeOK
<1>1. ASSUME NEW t \in Tasks, NEW i \in DOMAIN steps[t], PollSees(t, i) PROVE WakeInv'
  <2>1. /\ UNCHANGED <<steps, jobs, task, cancel>> /\ main.at = "free"
        /\ main'.at = "polled" /\ main'.task = t /\ main'.step = i /\ steps[t][i].state = "waiting"
    BY <1>1 DEF PollSees, Idle
  <2>2. MainReads'
    BY <2>1 DEF MainReads, Statuses
  <2> QED BY <2>1, <2>2 DEF WakeInv, WaitsForStep, Active
<1>2. CASE PollGate \/ PollGame \/ Replan
  <2> PICK t : t = main.task
    OBVIOUS
  <2>1. /\ main.at \in {"polled", "replan"} /\ UNCHANGED <<jobs, task, cancel>> /\ main'.task = t
        /\ main'.at \in MovesOn
        /\ main'.at \in {"replan", "resume"} => main'.seen.state = task[t].state
    <3>1. CASE PollGate
      BY <1>0, <3>1 DEF PollGate, Main, MovesOn
    <3>2. CASE PollGame
      BY <1>0, <3>2 DEF PollGame, Main, MovesOn
    <3>3. CASE Replan
      <4>1. main.seen.state = task[t].state
        BY <3>3 DEF WakeInv, MainReads, Replan
      <4> QED BY <1>0, <3>3, <4>1 DEF Replan, Main, MovesOn
    <3> QED BY <1>2, <3>1, <3>2, <3>3
  <2>2. t \in Tasks /\ TypeOK
    BY <2>1, AtMain
  <2>3. \A u \in Tasks \ {t} : steps'[u] = steps[u]
    <3>1. CASE PollGate \/ PollGame
      BY <2>2, <3>1 DEF PollGate, PollGame, SetStep, TypeOK
    <3>2. CASE Replan
      <4>1. \E s : steps' = [steps EXCEPT ![t] = s]
        BY <3>2 DEF Replan, SetPlan
      <4> QED BY <2>2, <4>1 DEF TypeOK
    <3> QED BY <1>2, <3>1, <3>2
  <2>4. ASSUME NEW u \in Tasks PROVE WaitsForStep(u)'
    <3>1. CASE u = t
      BY <2>1, <3>1 DEF WaitsForStep, MovesOn
    <3>2. CASE u # t
      BY <2>1, <2>3, <3>2 DEF WakeInv, WaitsForStep
    <3> QED BY <3>1, <3>2
  <2>5. MainReads'
    BY <2>1 DEF MainReads, MovesOn, Statuses
  <2> QED BY <2>1, <2>4, <2>5 DEF WakeInv, Active
<1> QED BY <1>1, <1>2

LEMMA PlansWake ==
  ASSUME IInv, WakeInv,
         \/ WriteParts
         \/ \E t \in Tasks : MakePlan(t) \/ AskForWork(t) \/ Reap(t) \/ \E i \in DOMAIN steps[t] : DeferNow(t, i) \/ DispatchStep(t, i)
  PROVE  WakeInv'
<1>0. TypeOK /\ steps \in [Tasks -> Seq(Step)] /\ jobs \in [Tasks -> Job]
  BY DEF IInv, TypeOK
<1>1. CASE WriteParts
  <2> PICK t : t = main.task
    OBVIOUS
  <2>1. /\ main.at = "split" /\ main' = Free /\ UNCHANGED <<task, jobs, cancel>>
        /\ steps' = [steps EXCEPT ![t] = Inserted(t, main.step, Parts)]
    BY <1>1 DEF WriteParts, InsertAfter
  <2>2. t \in Tasks
    BY <2>1, AtMain
  <2>3. task[t].state # "waiting"
    BY <2>1 DEF WakeInv, MainReads, Statuses
  <2>4. MainReads' /\ main.at \notin MovesOn
    BY <2>1 DEF MainReads, Free, Statuses, MovesOn
  <2>5. \A u \in Tasks \ {t} : steps'[u] = steps[u] /\ (Active(u)' => Active(u))
    BY <1>0, <2>1 DEF Active
  <2> QED BY <2>1, <2>2, <2>3, <2>4, <2>5, OneWake
<1>2. ASSUME NEW t \in Tasks, MakePlan(t) \/ AskForWork(t) PROVE WakeInv'
  <2>1. Active(t) /\ UNCHANGED <<main, task, cancel>>
    BY <1>2 DEF MakePlan, AskForWork, Active
  <2>2. task[t].state # "waiting" /\ main.task # t
    BY <2>1, Apart DEF WakeInv
  <2>3. \E s : steps' = [steps EXCEPT ![t] = s]
    BY <1>2 DEF MakePlan, SetPlan, AskForWork, InsertAfter
  <2>4. \A u \in Tasks \ {t} : jobs'[u] = jobs[u]
    BY <1>0, <1>2 DEF MakePlan, AskForWork, Ends
  <2>5. \A u \in Tasks \ {t} : steps'[u] = steps[u] /\ (Active(u)' => Active(u))
    BY <1>0, <2>3, <2>4 DEF Active
  <2>6. MainReads'
    <3>1. main.at # "free" => steps'[main.task] = steps[main.task]
      BY <2>2, <2>5 DEF IInv, MainOK
    <3> QED BY <2>1, <3>1 DEF WakeInv, MainReads
  <2> QED BY <2>1, <2>2, <2>5, <2>6, OneWake
<1>3. ASSUME NEW t \in Tasks, NEW i \in DOMAIN steps[t], DeferNow(t, i) \/ DispatchStep(t, i) PROVE WakeInv'
  <2>1. UNCHANGED <<task, cancel>> /\ task[t].state # "waiting" /\ main.at = "free"
    BY ONLY <1>3 DEF DeferNow, DispatchStep, Candidate, Idle
  <2>2. \A u \in Tasks \ {t} : steps'[u] = steps[u]
    BY ONLY <1>0, <1>3 DEF DeferNow, DispatchStep, SetStep
  <2>3. \A u \in Tasks \ {t} : jobs'[u] = jobs[u]
    BY ONLY <1>0, <1>3 DEF DeferNow, DispatchStep
  <2>4. main' = main \/ (main'.at = "defer" /\ main'.task = t)
    <3>1. DispatchStep(t, i) => main' = main
      BY ONLY TRUE DEF DispatchStep
    <3>2. DeferNow(t, i) => main'.at = "defer" /\ main'.task = t
      BY ONLY TRUE DEF DeferNow
    <3> QED BY <1>3, <3>1, <3>2
  <2>5. MainReads' /\ main.at \notin MovesOn
    BY <2>1, <2>4 DEF MainReads, MovesOn, Statuses
  <2> QED BY <2>1, <2>2, <2>3, <2>5, OneWake DEF Active
<1>4. ASSUME NEW t \in Tasks, Reap(t) PROVE WakeInv'
  <2>1. /\ jobs' = [jobs EXCEPT ![t] = NoJob] /\ UNCHANGED <<task, tickets, cancel>> /\ Active(t) /\ main.at = "free"
    BY <1>4 DEF Reap, Idle, Active
  <2>2. task[t].state # "waiting" /\ \A u \in Tasks \ {t} : jobs'[u] = jobs[u]
    BY <1>0, <2>1 DEF WakeInv
  <2>3. CASE jobs[t].step = 0
    <3>1. UNCHANGED <<steps, main>>
      BY <1>4, <2>3 DEF Reap
    <3>2. MainReads'
      BY <2>1, <3>1 DEF WakeInv, MainReads
    <3> QED BY <2>1, <2>2, <3>1, <3>2, OneWake DEF Active
  <2>4. CASE jobs[t].step # 0
    <3> PICK i : i = jobs[t].step
      OBVIOUS
    <3> PICK r : r = steps'[t][i]
      OBVIOUS
    <3> PICK status : status = jobs[t].out.status
      OBVIOUS
    <3>1. Becomes(t, i, r) /\ r.state = FirstWrite(status)
      BY <1>4, <2>4, ReapWrites
    <3>2. main'.at = status /\ main'.task = t /\ main'.step = i /\ status \in Statuses
      BY <1>0, <1>4, <2>4 DEF Reap, Job, Outcome
    <3>3. MainReads'
      <4>1. status = "park" => r.state = "waiting"
        BY <3>1 DEF FirstWrite
      <4>2. status \notin {"replan", "resume", "polled"}
        BY <3>2 DEF Statuses
      <4> QED BY <2>1, <2>2, <3>2, <4>1, <4>2 DEF MainReads
    <3>4. main.at \notin MovesOn /\ \A u \in Tasks \ {t} : steps'[u] = steps[u] /\ (Active(u)' => Active(u))
      BY <2>1, <2>2, <3>1 DEF MovesOn, Becomes, Active
    <3> HIDE DEF Becomes
    <3> QED BY <2>1, <2>2, <3>3, <3>4, OneWake
  <2> QED BY <2>3, <2>4
<1> QED BY <1>1, <1>2, <1>3, <1>4

LEMMA StartWake ==
  ASSUME IInv, WakeInv, Start
  PROVE  WakeInv'
<1>1. UNCHANGED <<task, jobs, main, cancel>> /\ main = Free
  BY DEF Start, IInv, MainOK
<1>2. ASSUME NEW u \in Tasks, NEW i \in DOMAIN steps[u], steps[u][i].state = "waiting"
      PROVE  i \in DOMAIN steps'[u] /\ steps'[u][i].state = "waiting"
  <2>1. Relabelling /\ ToSkip(u) = {}
    BY StartRelabels DEF WakeInv, ToSkip
  <2> QED BY <1>2, <2>1 DEF Relabelling
<1>3. MainReads'
  BY <1>1 DEF MainReads, Free, Statuses
<1>4. ASSUME NEW u \in Tasks PROVE WaitsForStep(u)'
  BY <1>1, <1>2 DEF WakeInv, WaitsForStep, Free
<1> QED BY <1>1, <1>3, <1>4 DEF WakeInv, Active

LEMMA WakeStep ==
  ASSUME ~MayCrash, OwnerMay \subseteq {"pause", "stop"}, IInv, WakeInv, [Next]_vars
  PROVE  WakeInv'
<1>1. ASSUME NEW t \in Tasks, Dispatch(t) \/ Work(t) \/ Reap(t) \/ Poll(t) \/ TimePasses(t) PROVE WakeInv'
  BY <1>1, WorkWake, PlansWake, PollWake DEF Dispatch, Work, Poll
<1>2. CASE Continue
  BY <1>2, WriteTaskWake, PlansWake, PollWake, ResumeWake DEF Continue
<1>3. ~Crash /\ \A t \in Tasks : ~Retry(t) /\ ~CancelReads(t) /\ ~CancelTask(t) /\ ~\E i \in ToSkip(t) : CancelSkips(t, i)
  <2>1. "retry" \notin OwnerMay /\ "cancel" \notin OwnerMay
    OBVIOUS
  <2>2. ASSUME NEW t \in Tasks PROVE cancel[t] = {} /\ ToSkip(t) = {}
    BY DEF WakeInv, ToSkip
  <2> QED BY <2>1, <2>2 DEF Crash, Retry, CancelReads, CancelTask
<1>4. CASE Owner \/ Halt \/ UNCHANGED vars
  BY <1>3, <1>4, WorkWake DEF Owner
<1> QED BY <1>1, <1>2, <1>3, <1>4, StartWake DEF Next

\* As long as the loop is not killed and the owner cancels and retries nothing, a
\* task waits only for a step that waits for a ticket of its own, or while the main
\* thread is at it (apply, poll_tickets, poll_gate, waiting_steps).
THEOREM WaitingWakes == ~MayCrash /\ OwnerMay \subseteq {"pause", "stop"} => (Spec => []WaitingCanWake)
<1> SUFFICES ASSUME ~MayCrash, OwnerMay \subseteq {"pause", "stop"} PROVE Spec => []WaitingCanWake
  OBVIOUS
<1>1. Init => ActionInv /\ WakeInv
  <2> SUFFICES ASSUME Init PROVE ActionInv /\ WakeInv
    OBVIOUS
  <2>1. ASSUME NEW t \in Tasks PROVE steps[t] = <<>> /\ jobs[t] = NoJob /\ task[t] = Absent /\ cancel[t] = {}
    BY DEF Init
  <2>2. DOMAIN tickets = {} /\ main = Free
    BY DEF Init
  <2>3. ActionInv
    BY <2>1, <2>2 DEF ActionInv, WaitsInTask, ParksOnTicket, RunsInWorker, ActionOnce, NoJob
  <2>4. MainReads
    BY <2>2 DEF MainReads, Free, Statuses
  <2> QED BY <2>1, <2>2, <2>3, <2>4 DEF WakeInv, WaitsForStep, Absent, Active, NoJob
<1>2. IInv /\ ActionInv /\ [Next]_vars => ActionInv'
  BY ActionStep
<1>3. IInv /\ WakeInv /\ [Next]_vars => WakeInv'
  BY WakeStep
<1>4. IInv /\ ActionInv /\ WakeInv => WaitingCanWake
  <2> SUFFICES ASSUME IInv, ActionInv, WakeInv, NEW t \in Tasks, task[t].state = "waiting", main.task # t,
                      NEW i \in DOMAIN steps[t], steps[t][i].state = "waiting"
               PROVE  /\ steps[t][i].ticket # 0 /\ tickets[steps[t][i].ticket].task = t
                      /\ tickets[steps[t][i].ticket].step \in {0, i}
    BY DEF WaitingCanWake, WakeInv, WaitsForStep
  <2>1. steps[t][i].ticket # 0
    BY DEF ActionInv, WaitsInTask
  <2>2. Fits(t, i, steps[t][i].ticket)
    BY <2>1 DEF IInv, PlanOK
  <2> QED BY <2>1, <2>2 DEF Fits
<1> QED BY <1>1, <1>2, <1>3, <1>4, InductiveInvariant, PTL DEF Spec
=============================================================================
