---------------------------- MODULE SchemaProofs ----------------------------
(***************************************************************************)
(* Proofs about SchemaDiff, for every database and every schema: what a    *)
(* plan lists, that a migration does what it was generated for and is      *)
(* undone by its inverse, and that nothing it loses goes unmentioned.      *)
(***************************************************************************)

EXTENDS SchemaDiff, WellFoundedInduction, FiniteSetTheorems, TLAPS

-----------------------------------------------------------------------------
(***************************************************************************)
(* Sequences that list the elements of a set, each once.                   *)
(***************************************************************************)

Lists(s, S) == s \in Seq(S) /\ IsInjective(s) /\ ToSet(s) = S

\* A property of naturals that fails somewhere fails first somewhere.
LEMMA LeastExists ==
  ASSUME NEW B \in SUBSET Nat, B # {}
  PROVE  \E m \in B : \A k \in B : m <= k
  <1>1. PICK x \in B : \A y \in B : <<y, x>> \notin OpToRel(<, Nat)
    BY NatLessThanWellFounded, WFMin
  <1>2. ASSUME NEW y \in B PROVE x <= y
    <2>1. x \in Nat /\ y \in Nat /\ <<y, x>> \in Nat \X Nat
      OBVIOUS
    <2>2. y < x => <<y, x>> \in OpToRel(<, Nat)
      BY <2>1 DEF OpToRel
    <2>3. ~ (y < x)
      BY <1>1, <2>2
    <2>. QED  BY <2>1, <2>3
  <1>. QED  BY <1>2

\* Two lists without a common element make a list.
LEMMA JoinLists ==
  ASSUME NEW A, NEW B, NEW a, NEW b, Lists(a, A), Lists(b, B), A \cap B = {}
  PROVE  Lists(a \o b, A \cup B)
  <1>. DEFINE S == A \cup B
  <1>5. /\ a \in Seq(S) /\ b \in Seq(S) /\ IsInjective(a) /\ IsInjective(b)
        /\ ToSet(a) = A /\ ToSet(b) = B
    BY DEF Lists
  <1>. HIDE DEF S
  <1>1. /\ a \o b \in Seq(S) /\ Len(a \o b) = Len(a) + Len(b)
        /\ \A i \in 1 .. Len(a) + Len(b) :
             (a \o b)[i] = IF i <= Len(a) THEN a[i] ELSE b[i - Len(a)]
    BY <1>5
  <1>2. /\ DOMAIN (a \o b) = 1 .. Len(a) + Len(b) /\ DOMAIN a = 1 .. Len(a) /\ DOMAIN b = 1 .. Len(b)
        /\ Len(a) \in Nat /\ Len(b) \in Nat
    BY <1>1, <1>5
  <1>3. ToSet(a \o b) = ToSet(a) \cup ToSet(b)
    <2>1. ASSUME NEW x \in ToSet(a \o b) PROVE x \in ToSet(a) \cup ToSet(b)
      <3>1. PICK i \in 1 .. Len(a) + Len(b) : x = (a \o b)[i]
        BY <2>1, <1>2 DEF ToSet
      <3>2. CASE i <= Len(a)
        BY <3>1, <3>2, <1>1, <1>2 DEF ToSet
      <3>3. CASE ~(i <= Len(a))
        <4>1. i - Len(a) \in 1 .. Len(b) /\ x = b[i - Len(a)]
          BY <3>1, <3>3, <1>1, <1>2
        <4>. QED  BY <4>1, <1>2 DEF ToSet
      <3>. QED  BY <3>2, <3>3
    <2>2. ASSUME NEW i \in 1 .. Len(a) PROVE a[i] \in ToSet(a \o b)
      <3>1. i \in 1 .. Len(a) + Len(b) /\ (a \o b)[i] = a[i]
        BY <1>1, <1>2
      <3>. QED  BY <3>1, <1>2 DEF ToSet
    <2>3. ASSUME NEW i \in 1 .. Len(b) PROVE b[i] \in ToSet(a \o b)
      <3>1. i + Len(a) \in 1 .. Len(a) + Len(b) /\ (a \o b)[i + Len(a)] = b[i]
        BY <1>1, <1>2
      <3>. QED  BY <3>1, <1>2 DEF ToSet
    <2>. QED  BY <2>1, <2>2, <2>3, <1>2 DEF ToSet
  <1>4. IsInjective(a \o b)
    <2>1. ASSUME NEW i \in 1 .. Len(a) + Len(b), NEW j \in 1 .. Len(a) + Len(b),
                 (a \o b)[i] = (a \o b)[j]
          PROVE  i = j
      <3>1. CASE i <= Len(a) /\ j <= Len(a)
        BY <2>1, <3>1, <1>1, <1>2, <1>5 DEF IsInjective
      <3>2. CASE ~(i <= Len(a)) /\ ~(j <= Len(a))
        <4>1. i - Len(a) \in 1 .. Len(b) /\ j - Len(a) \in 1 .. Len(b)
               /\ b[i - Len(a)] = b[j - Len(a)]
          BY <2>1, <3>2, <1>1, <1>2
        <4>2. i - Len(a) = j - Len(a)
          BY <4>1, <1>2, <1>5 DEF IsInjective
        <4>. QED  BY <4>2, <1>2
      <3>3. CASE i <= Len(a) /\ ~(j <= Len(a))
        <4>1. /\ i \in 1 .. Len(a) /\ j - Len(a) \in 1 .. Len(b)
              /\ a[i] = b[j - Len(a)]
          BY <2>1, <3>3, <1>1, <1>2
        <4>. QED  BY <4>1, <1>2, <1>5 DEF ToSet
      <3>4. CASE ~(i <= Len(a)) /\ j <= Len(a)
        <4>1. /\ j \in 1 .. Len(a) /\ i - Len(a) \in 1 .. Len(b)
              /\ a[j] = b[i - Len(a)]
          BY <2>1, <3>4, <1>1, <1>2
        <4>. QED  BY <4>1, <1>2, <1>5 DEF ToSet
      <3>. QED  BY <3>1, <3>2, <3>3, <3>4
    <2>. QED  BY <2>1, <1>2 DEF IsInjective
  <1>. QED  BY <1>1, <1>3, <1>4, <1>5 DEF Lists, S

\* The equation of the recursive function in FlattenSeq, and its solution.
Flattens(g, s, n) == g = [i \in 1 .. n |-> IF i = 1 THEN s[i] ELSE g[i - 1] \o s[i]]

\* The recursive function in FlattenSeq exists, so that it may be unfolded.
LEMMA FlattenerExists ==
  ASSUME NEW s, NEW n \in Nat \ {0}
  PROVE  \E g : Flattens(g, s, n)
  <1>. DEFINE B == {k \in Nat \ {0} : ~ \E g : Flattens(g, s, k)}
  <1>1. SUFFICES ASSUME B # {} PROVE FALSE
    OBVIOUS
  <1>2. PICK m \in B : \A k \in B : m <= k
    <2>1. B \in SUBSET Nat
      OBVIOUS
    <2>. QED  BY <1>1, <2>1, LeastExists
  <1>3. CASE m = 1
    <2>1. Flattens([i \in 1 .. 1 |-> s[1]], s, 1)
      BY DEF Flattens
    <2>. QED  BY <1>2, <1>3, <2>1
  <1>4. CASE m # 1
    <2>1. m \in Nat /\ m - 1 \in Nat \ {0} /\ ~(m <= m - 1)
      BY <1>4
    <2>2. PICK g : Flattens(g, s, m - 1)
      BY <1>2, <2>1
    <2>. DEFINE h == [i \in 1 .. m |-> IF i = m THEN g[m - 1] \o s[m] ELSE g[i]]
    <2>3. ASSUME NEW i \in 1 .. m
          PROVE  h[i] = IF i = 1 THEN s[i] ELSE h[i - 1] \o s[i]
      <3>1. CASE i = m
        <4>1. m \in 1 .. m /\ m - 1 \in 1 .. m /\ m - 1 # m
          BY <1>4, <2>1
        <4>2. h[m] = g[m - 1] \o s[m]
          BY <4>1
        <4>3. h[m - 1] = g[m - 1]
          BY <4>1
        <4>. HIDE DEF h
        <4>. QED  BY <1>4, <3>1, <4>2, <4>3
      <3>2. CASE i # m
        <4>1. i \in 1 .. m - 1 /\ h[i] = g[i]
          BY <2>1, <3>2
        <4>2. i # 1 => i - 1 \in 1 .. m /\ h[i - 1] = g[i - 1]
          BY <2>1, <3>2
        <4>3. g[i] = IF i = 1 THEN s[i] ELSE g[i - 1] \o s[i]
          BY <2>2, <4>1 DEF Flattens
        <4>. HIDE DEF h
        <4>. QED  BY <4>1, <4>2, <4>3
      <3>. QED  BY <3>1, <3>2
    <2>4. h = [i \in 1 .. m |-> h[i]]
      OBVIOUS
    <2>. HIDE DEF h
    <2>5. Flattens(h, s, m)
      BY <2>3, <2>4 DEF Flattens
    <2>. QED  BY <1>2, <2>5
  <1>. QED  BY <1>3, <1>4

\* Lists of disjoint sets, one after the other, list their union.
LEMMA FlattenLists ==
  ASSUME NEW n \in Nat, NEW s, DOMAIN s = 1 .. n, s = [i \in 1 .. n |-> s[i]], NEW sets,
         \A i \in 1 .. n : Lists(s[i], sets[i]),
         \A i, j \in 1 .. n : i # j => sets[i] \cap sets[j] = {}
  PROVE  Lists(FlattenSeq(s), UNION {sets[i] : i \in 1 .. n})
  <1>1. Len(s) = n
    <2>1. s \in Seq({s[i] : i \in 1 .. n})
      OBVIOUS
    <2>. QED  BY <2>1
  <1>2. CASE n = 0
    <2>1. s = << >> /\ FlattenSeq(s) = s /\ UNION {sets[i] : i \in 1 .. n} = {}
      BY <1>1, <1>2 DEF FlattenSeq
    <2>2. Lists(<< >>, {})
      BY DEF Lists, IsInjective, ToSet
    <2>. QED  BY <2>1, <2>2
  <1>3. CASE n # 0
    <2>. DEFINE f == CHOOSE g : Flattens(g, s, n)
                Upto(k) == UNION {sets[i] : i \in 1 .. k}
                B == {k \in 1 .. n : ~Lists(f[k], Upto(k))}
    <2>1. FlattenSeq(s) = f[n]
      BY <1>1, <1>3 DEF FlattenSeq, Flattens
    <2>2. Flattens(f, s, n)
      BY <1>3, FlattenerExists
    <2>. HIDE DEF f
    <2>3. B = {}
      <3>1. SUFFICES ASSUME B # {} PROVE FALSE
        OBVIOUS
      <3>2. PICK m \in B : \A k \in B : m <= k
        <4>1. B \in SUBSET Nat
          OBVIOUS
        <4>. QED  BY <3>1, <4>1, LeastExists
      <3>3. m \in 1 .. n /\ ~Lists(f[m], Upto(m)) /\ m \in Nat
        BY <3>2
      <3>4. f[m] = IF m = 1 THEN s[m] ELSE f[m - 1] \o s[m]
        BY <2>2, <3>3 DEF Flattens
      <3>5. CASE m = 1
        <4>1. Upto(1) = sets[1]
          OBVIOUS
        <4>. QED  BY <3>3, <3>4, <3>5, <4>1
      <3>6. CASE m # 1
        <4>1. m - 1 \in 1 .. n /\ ~(m <= m - 1) /\ 1 .. m = (1 .. m - 1) \cup {m}
          BY <3>3, <3>6
        <4>2. Lists(f[m - 1], Upto(m - 1))
          BY <3>2, <4>1
        <4>3. Upto(m) = Upto(m - 1) \cup sets[m]
          BY <4>1
        <4>4. Upto(m - 1) \cap sets[m] = {}
          <5>1. \A i \in 1 .. m - 1 : i \in 1 .. n /\ i # m
            BY <3>3
          <5>. QED  BY <3>3, <5>1
        <4>. HIDE DEF Upto
        <4>. QED  BY <3>3, <3>4, <3>6, <4>2, <4>3, <4>4, JoinLists
      <3>. QED  BY <3>5, <3>6
    <2>4. n \in 1 .. n
      BY <1>3
    <2>. QED  BY <2>1, <2>3, <2>4
  <1>. QED  BY <1>2, <1>3

\* The elements of a list that are in a set.
LEMMA WithinLists ==
  ASSUME NEW s, NEW S, Lists(s, S), NEW T
  PROVE  Lists(Within(s, T), S \cap T)
  <1>. DEFINE parts == [k \in DOMAIN s |-> IF s[k] \in T THEN <<s[k]>> ELSE << >>]
              sets  == [k \in DOMAIN s |-> {s[k]} \cap T]
              n == Len(s)
  <1>1. DOMAIN s = 1 .. n /\ n \in Nat /\ S = {s[k] : k \in 1 .. n}
        /\ \A i, j \in 1 .. n : s[i] = s[j] => i = j
    BY DEF Lists, ToSet, IsInjective
  <1>. HIDE DEF n
  <1>2. DOMAIN parts = 1 .. n /\ parts = [i \in 1 .. n |-> parts[i]]
    BY <1>1
  <1>3. ASSUME NEW k \in 1 .. n PROVE Lists(parts[k], sets[k])
    <2>1. Lists(<< >>, {}) /\ Lists(<<s[k]>>, {s[k]})
      BY DEF Lists, ToSet, IsInjective
    <2>2. CASE s[k] \in T
      <3>1. parts[k] = <<s[k]>> /\ sets[k] = {s[k]}
        BY <1>1, <2>2
      <3>. QED  BY <2>1, <3>1
    <2>3. CASE s[k] \notin T
      <3>1. parts[k] = << >> /\ sets[k] = {}
        BY <1>1, <2>3
      <3>. QED  BY <2>1, <3>1
    <2>. QED  BY <2>2, <2>3
  <1>4. \A i, j \in 1 .. n : i # j => sets[i] \cap sets[j] = {}
    BY <1>1
  <1>5. UNION {sets[i] : i \in 1 .. n} = S \cap T
    BY <1>1
  <1>6. Within(s, T) = FlattenSeq(parts)
    BY DEF Within
  <1>. HIDE DEF parts, sets
  <1>7. Lists(FlattenSeq(parts), UNION {sets[i] : i \in 1 .. n})
    BY <1>1, <1>2, <1>3, <1>4, FlattenLists
  <1>. QED  BY <1>5, <1>6, <1>7

\* Reverse returns the same elements from the last to the first.
LEMMA ReverseHas ==
  ASSUME NEW S, NEW s \in Seq(S)
  PROVE  /\ Reverse(s) \in Seq(S) /\ Len(Reverse(s)) = Len(s)
         /\ \A i \in 1 .. Len(s) : Reverse(s)[i] = s[Len(s) + 1 - i]
         /\ ToSet(Reverse(s)) = ToSet(s)
         /\ IsInjective(s) => IsInjective(Reverse(s))
  <1>1. /\ DOMAIN s = 1 .. Len(s) /\ Len(s) \in Nat
        /\ \A i \in 1 .. Len(s) : Len(s) + 1 - i \in 1 .. Len(s) /\ Len(s) - i + 1 = Len(s) + 1 - i
                                 /\ Len(s) + 1 - (Len(s) + 1 - i) = i
    OBVIOUS
  <1>2. Reverse(s) = [i \in 1 .. Len(s) |-> s[Len(s) + 1 - i]]
    BY <1>1 DEF Reverse
  <1>3. Reverse(s) \in Seq(S) /\ Len(Reverse(s)) = Len(s) /\ DOMAIN Reverse(s) = 1 .. Len(s)
    BY <1>1, <1>2
  <1>4. \A i \in 1 .. Len(s) : Reverse(s)[i] = s[Len(s) + 1 - i]
    BY <1>2
  <1>5. ToSet(Reverse(s)) = ToSet(s)
    <2>1. \A i \in 1 .. Len(s) : s[i] \in ToSet(Reverse(s))
      <3>. SUFFICES ASSUME NEW i \in 1 .. Len(s) PROVE s[i] \in ToSet(Reverse(s))
        OBVIOUS
      <3>1. Reverse(s)[Len(s) + 1 - i] = s[i]
        BY <1>1, <1>4
      <3>. QED  BY <3>1, <1>1, <1>3 DEF ToSet
    <2>2. \A i \in 1 .. Len(s) : Reverse(s)[i] \in ToSet(s)
      BY <1>1, <1>4 DEF ToSet
    <2>. QED  BY <2>1, <2>2, <1>1, <1>3 DEF ToSet
  <1>6. IsInjective(s) => IsInjective(Reverse(s))
    <2>. SUFFICES ASSUME IsInjective(s), NEW i \in 1 .. Len(s), NEW j \in 1 .. Len(s),
                         Reverse(s)[i] = Reverse(s)[j]
                  PROVE  i = j
      BY <1>3 DEF IsInjective
    <2>1. s[Len(s) + 1 - i] = s[Len(s) + 1 - j]
      BY <1>4
    <2>2. Len(s) + 1 - i = Len(s) + 1 - j
      BY <1>1, <2>1 DEF IsInjective
    <2>. QED  BY <2>2, <1>1
  <1>. QED  BY <1>3, <1>4, <1>5, <1>6

\* A list from its last element to its first.
LEMMA ReverseLists ==
  ASSUME NEW s, NEW S, Lists(s, S)
  PROVE  Lists(Reverse(s), S)
  BY ReverseHas DEF Lists

\* One element for each element of a list.
LEMMA MappedLists ==
  ASSUME NEW s, NEW S, Lists(s, S), NEW f, \A x, y \in S : f[x] = f[y] => x = y,
         NEW mapped, mapped = [k \in DOMAIN s |-> f[s[k]]]
  PROVE  Lists(mapped, {f[x] : x \in S})
  <1>1. /\ DOMAIN s = 1 .. Len(s) /\ Len(s) \in Nat /\ S = {s[k] : k \in 1 .. Len(s)}
        /\ \A i, j \in 1 .. Len(s) : s[i] = s[j] => i = j
    BY DEF Lists, ToSet, IsInjective
  <1>2. DOMAIN mapped = 1 .. Len(s) /\ \A k \in 1 .. Len(s) : mapped[k] = f[s[k]] /\ s[k] \in S
    BY <1>1
  <1>3. mapped \in Seq({f[x] : x \in S})
    BY <1>1, <1>2
  <1>4. IsInjective(mapped)
    BY <1>1, <1>2 DEF IsInjective
  <1>5. ToSet(mapped) = {f[x] : x \in S}
    BY <1>1, <1>2 DEF ToSet
  <1>. QED  BY <1>3, <1>4, <1>5 DEF Lists

\* The names of a finite set in order.
LEMMA SortedLists ==
  ASSUME NEW names \in SUBSET (Nat \X Nat), IsFiniteSet(names)
  PROVE  Lists(SortedNames(names), names) /\ Len(SortedNames(names)) = Cardinality(names)
  <1>. DEFINE Below(name) == {other \in names : NameBefore(other, name)}
              card == Cardinality(names)
              rank == [name \in names |-> Cardinality(Below(name)) + 1]
  <1>1. card \in Nat
    BY FS_CardinalityType
  <1>2. \A name \in names : IsFiniteSet(Below(name)) /\ Cardinality(Below(name)) \in Nat
    BY FS_Subset, FS_CardinalityType
  <1>3. \A a, b, c \in Nat \X Nat :
          /\ ~NameBefore(a, a)
          /\ NameBefore(a, b) /\ NameBefore(b, c) => NameBefore(a, c)
          /\ a = b \/ NameBefore(a, b) \/ NameBefore(b, a)
    <2>. SUFFICES ASSUME NEW a \in Nat \X Nat, NEW b \in Nat \X Nat, NEW c \in Nat \X Nat
                  PROVE  /\ ~NameBefore(a, a)
                         /\ NameBefore(a, b) /\ NameBefore(b, c) => NameBefore(a, c)
                         /\ a = b \/ NameBefore(a, b) \/ NameBefore(b, a)
      OBVIOUS
    <2>1. /\ a[1] \in Nat /\ a[2] \in Nat /\ b[1] \in Nat /\ b[2] \in Nat /\ c[1] \in Nat /\ c[2] \in Nat
          /\ a[1] = b[1] /\ a[2] = b[2] => a = b
      OBVIOUS
    <2>. QED  BY <2>1 DEF NameBefore
  <1>15. \A a \in names : a \in Nat \X Nat
    OBVIOUS
  <1>4. \A a, b \in names : NameBefore(a, b) => Cardinality(Below(a)) < Cardinality(Below(b))
    <2>. SUFFICES ASSUME NEW a \in names, NEW b \in names, NameBefore(a, b)
                  PROVE  Cardinality(Below(a)) < Cardinality(Below(b))
      OBVIOUS
    <2>1. Below(a) \in SUBSET Below(b) /\ a \in Below(b) /\ a \notin Below(a)
      <3>1. a \in Nat \X Nat /\ b \in Nat \X Nat
        BY <1>15
      <3>2. ~NameBefore(a, a) /\ \A c \in Nat \X Nat : NameBefore(c, a) => NameBefore(c, b)
        BY <1>3, <3>1
      <3>. QED  BY <1>15, <3>2
    <2>. HIDE DEF Below
    <2>2. /\ Cardinality(Below(a)) <= Cardinality(Below(b))
          /\ Cardinality(Below(a)) = Cardinality(Below(b)) => Below(a) = Below(b)
      BY <1>2, <2>1, FS_Subset
    <2>. QED  BY <1>2, <2>1, <2>2
  <1>5. \A name \in names : Cardinality(Below(name)) < card
    <2>. SUFFICES ASSUME NEW name \in names PROVE Cardinality(Below(name)) < card
      OBVIOUS
    <2>1. Below(name) \in SUBSET names /\ name \notin Below(name)
      BY <1>3, <1>15
    <2>. HIDE DEF Below
    <2>2. /\ Cardinality(Below(name)) <= card
          /\ card = Cardinality(Below(name)) => names = Below(name)
      BY <2>1, FS_Subset
    <2>. QED  BY <1>1, <1>2, <2>1, <2>2
  <1>. HIDE DEF Below, card
  <1>6. rank \in Injection(names, 1 .. card)
    <2>1. rank \in [names -> 1 .. card]
      BY <1>1, <1>2, <1>5
    <2>2. \A a, b \in names : rank[a] = rank[b] => a = b
      <3>1. \A a, b \in names : a = b \/ NameBefore(a, b) \/ NameBefore(b, a)
        BY <1>3, <1>15
      <3>. QED  BY <3>1, <1>2, <1>4
    <2>. QED  BY <2>1, <2>2 DEF Injection, IsInjective
  <1>7. rank \in Surjection(names, 1 .. card)
    <2>1. IsFiniteSet(1 .. card) /\ Cardinality(1 .. card) = card
      BY <1>1, FS_Interval
    <2>. HIDE DEF rank
    <2>2. Cardinality(names) = Cardinality(1 .. card)
      BY <2>1 DEF card
    <2>. QED  BY <1>6, <2>1, <2>2, FS_Injection
  <1>8. \A k \in 1 .. card : \E name \in names : Cardinality(Below(name)) = k - 1
    <2>. SUFFICES ASSUME NEW k \in 1 .. card PROVE \E name \in names : Cardinality(Below(name)) = k - 1
      OBVIOUS
    <2>1. PICK name \in names : rank[name] = k
      BY <1>7 DEF Surjection, Range
    <2>. QED  BY <1>1, <1>2, <2>1
  <1>9. SortedNames(names) =
          [k \in 1 .. card |-> CHOOSE name \in names : Cardinality(Below(name)) = k - 1]
    BY DEF SortedNames, Below, card
  <1>10. \A k \in 1 .. card : SortedNames(names)[k] \in names /\ Cardinality(Below(SortedNames(names)[k])) = k - 1
    BY <1>8, <1>9
  <1>11. SortedNames(names) \in Seq(names) /\ Len(SortedNames(names)) = card
         /\ DOMAIN SortedNames(names) = 1 .. card
    BY <1>1, <1>9, <1>10
  <1>12. \A name \in names : \E k \in 1 .. card : SortedNames(names)[k] = name
    <2>. SUFFICES ASSUME NEW name \in names PROVE \E k \in 1 .. card : SortedNames(names)[k] = name
      OBVIOUS
    <2>. DEFINE k == Cardinality(Below(name)) + 1
    <2>1. k \in 1 .. card /\ k - 1 = Cardinality(Below(name))
      BY <1>1, <1>2, <1>5
    <2>. HIDE DEF k
    <2>2. /\ SortedNames(names)[k] \in names
          /\ Cardinality(Below(SortedNames(names)[k])) = Cardinality(Below(name))
      BY <1>10, <2>1
    <2>3. SortedNames(names)[k] = name
      <3>1. \A a, b \in names : a = b \/ NameBefore(a, b) \/ NameBefore(b, a)
        BY <1>3, <1>15
      <3>. QED  BY <3>1, <2>2, <1>2, <1>4
    <2>. QED  BY <2>1, <2>3
  <1>13. ToSet(SortedNames(names)) = names
    BY <1>10, <1>11, <1>12 DEF ToSet
  <1>14. IsInjective(SortedNames(names))
    <2>. SUFFICES ASSUME NEW i \in 1 .. card, NEW j \in 1 .. card, SortedNames(names)[i] = SortedNames(names)[j]
                  PROVE  i = j
      BY <1>11 DEF IsInjective
    <2>1. i - 1 = j - 1
      BY <1>10
    <2>. QED  BY <2>1, <1>1
  <1>. QED  BY <1>11, <1>13, <1>14 DEF card, Lists

\* A pass over names in their order, with a list for each.
PassOver(names, ops) == FlattenSeq([k \in 1 .. Cardinality(names) |-> ops[SortedNames(names)[k]]])
Gathered(names, sets) == UNION {sets[name] : name \in names}

\* A pass over tables that lists disjoint sets of operations lists their
\* union, each operation once.
LEMMA PassLists ==
  ASSUME NEW names \in SUBSET (Nat \X Nat), IsFiniteSet(names), NEW ops, NEW sets,
         \A name \in names : Lists(ops[name], sets[name]),
         \A a, b \in names : a # b => sets[a] \cap sets[b] = {}
  PROVE  Lists(PassOver(names, ops), Gathered(names, sets))
  <1>. DEFINE n == Cardinality(names)
              sorted == SortedNames(names)
              parts == [k \in 1 .. n |-> ops[sorted[k]]]
              each  == [k \in 1 .. n |-> sets[sorted[k]]]
  <1>1. n \in Nat /\ Lists(sorted, names) /\ Len(sorted) = n
    BY SortedLists, FS_CardinalityType
  <1>. HIDE DEF n, sorted
  <1>2. /\ DOMAIN sorted = 1 .. n /\ names = {sorted[k] : k \in 1 .. n}
        /\ \A i, j \in 1 .. n : sorted[i] = sorted[j] => i = j
    <2>1. sorted \in Seq(names) /\ IsInjective(sorted) /\ ToSet(sorted) = names
      BY <1>1 DEF Lists
    <2>2. DOMAIN sorted = 1 .. n
      BY <1>1, <2>1
    <2>3. names = {sorted[k] : k \in 1 .. n}
      BY <2>1, <2>2 DEF ToSet
    <2>. QED  BY <2>1, <2>2, <2>3 DEF IsInjective
  <1>3. /\ DOMAIN parts = 1 .. n /\ parts = [k \in 1 .. n |-> parts[k]]
        /\ \A k \in 1 .. n : parts[k] = ops[sorted[k]] /\ each[k] = sets[sorted[k]]
    OBVIOUS
  <1>. HIDE DEF parts, each
  <1>4. Lists(FlattenSeq(parts), UNION {each[k] : k \in 1 .. n})
    <2>1. \A k \in 1 .. n : Lists(parts[k], each[k])
      BY <1>2, <1>3
    <2>2. \A i, j \in 1 .. n : i # j => each[i] \cap each[j] = {}
      BY <1>2, <1>3
    <2>. QED  BY <1>1, <1>3, <2>1, <2>2, FlattenLists
  <1>5. UNION {each[k] : k \in 1 .. n} = UNION {sets[name] : name \in names}
    <2>1. \A x : x \in UNION {each[k] : k \in 1 .. n} <=> \E k \in 1 .. n : x \in sets[sorted[k]]
      BY <1>3
    <2>2. \A x : x \in UNION {sets[name] : name \in names} <=> \E name \in names : x \in sets[name]
      OBVIOUS
    <2>3. \A x : (\E k \in 1 .. n : x \in sets[sorted[k]]) <=> \E name \in names : x \in sets[name]
      BY <1>2
    <2>. QED  BY <2>1, <2>2, <2>3
  <1>. QED  BY <1>4, <1>5 DEF parts, n, sorted, PassOver, Gathered

-----------------------------------------------------------------------------
(***************************************************************************)
(* The order in which tables are dropped.                                  *)
(***************************************************************************)

\* The table that is dropped after those of a sequence, and the equation of the
\* recursive function in DropOrder.
ReadyAfter(dropped, keys, order) ==
  {name \in dropped \ ToSet(order) :
     ~\E key \in keys : key.parent = name /\ key.child \in dropped \ ToSet(order)}

\* The order extended by the first table that is ready, if one is.
OneMore(dropped, keys, order) ==
  IF ReadyAfter(dropped, keys, order) = {} THEN order
  ELSE Append(order, Head(SortedNames(ReadyAfter(dropped, keys, order))))

\* The equation of the recursive function that DropOrder unfolds.
DropsUpTo(g, dropped, keys, n) ==
  g = [k \in 0 .. n |-> IF k = 0 THEN << >> ELSE OneMore(dropped, keys, g[k - 1])]

\* That equation has a solution.
LEMMA DropsExist ==
  ASSUME NEW dropped, NEW keys, NEW n \in Nat
  PROVE  \E g : DropsUpTo(g, dropped, keys, n)
  <1>. DEFINE B == {k \in Nat : ~ \E g : DropsUpTo(g, dropped, keys, k)}
  <1>1. SUFFICES ASSUME B # {} PROVE FALSE
    OBVIOUS
  <1>2. PICK m \in B : \A k \in B : m <= k
    BY <1>1, LeastExists
  <1>3. CASE m = 0
    <2>1. DropsUpTo([k \in 0 .. 0 |-> << >>], dropped, keys, 0)
      BY DEF DropsUpTo
    <2>. QED  BY <1>2, <1>3, <2>1
  <1>4. CASE m # 0
    <2>1. m - 1 \in Nat /\ ~(m <= m - 1)
      BY <1>4
    <2>2. PICK g : DropsUpTo(g, dropped, keys, m - 1)
      BY <1>2, <2>1
    <2>. DEFINE h == [k \in 0 .. m |-> IF k = m THEN OneMore(dropped, keys, g[m - 1]) ELSE g[k]]
    <2>3. ASSUME NEW k \in 0 .. m
          PROVE  h[k] = IF k = 0 THEN << >> ELSE OneMore(dropped, keys, h[k - 1])
      <3>1. CASE k = m
        <4>1. h[m] = OneMore(dropped, keys, g[m - 1]) /\ h[m - 1] = g[m - 1]
          BY <1>4, <2>1
        <4>. HIDE DEF h
        <4>. QED  BY <1>4, <3>1, <4>1
      <3>2. CASE k # m
        <4>1. k \in 0 .. m - 1 /\ h[k] = g[k]
          BY <3>2
        <4>2. k # 0 => k - 1 \in 0 .. m /\ h[k - 1] = g[k - 1]
          BY <3>2
        <4>3. g[k] = IF k = 0 THEN << >> ELSE OneMore(dropped, keys, g[k - 1])
          BY <2>2, <4>1 DEF DropsUpTo
        <4>. HIDE DEF h
        <4>. QED  BY <4>1, <4>2, <4>3
      <3>. QED  BY <3>1, <3>2
    <2>4. h = [k \in 0 .. m |-> h[k]]
      OBVIOUS
    <2>. HIDE DEF h
    <2>5. DropsUpTo(h, dropped, keys, m)
      BY <2>3, <2>4 DEF DropsUpTo
    <2>. QED  BY <1>2, <2>5
  <1>. QED  BY <1>3, <1>4

\* A sequence of tables in which each comes after those that refer to it.
ChildrenFirst(order, dropped, keys) ==
  /\ order \in Seq(dropped)
  /\ IsInjective(order)
  /\ \A i \in 1 .. Len(order) : \A key \in keys :
       key.parent = order[i] /\ key.child \in dropped => \E j \in 1 .. i - 1 : order[j] = key.child

\* One more table keeps that order.
LEMMA OneMoreOrdered ==
  ASSUME NEW dropped \in SUBSET (Nat \X Nat), IsFiniteSet(dropped), NEW keys, NEW order,
         ChildrenFirst(order, dropped, keys)
  PROVE  ChildrenFirst(OneMore(dropped, keys, order), dropped, keys)
  <1>. DEFINE ready == ReadyAfter(dropped, keys, order)
              name == Head(SortedNames(ready))
  <1>1. CASE ready = {}
    BY <1>1 DEF OneMore
  <1>2. CASE ready # {}
    <2>1. ready \in SUBSET dropped
      BY DEF ReadyAfter
    <2>2. IsFiniteSet(ready) /\ ready \in SUBSET (Nat \X Nat)
      BY <2>1, FS_Subset
    <2>3. name \in ready
      <3>. HIDE DEF ready
      <3>1. SortedNames(ready) \in Seq(ready) /\ ToSet(SortedNames(ready)) = ready
        BY <2>2, SortedLists DEF Lists
      <3>2. SortedNames(ready) # << >>
        BY <1>2, <3>1 DEF ToSet
      <3>. QED  BY <3>1, <3>2
    <2>4. name \in dropped \ ToSet(order)
          /\ ~\E key \in keys : key.parent = name /\ key.child \in dropped \ ToSet(order)
      <3>. HIDE DEF name
      <3>. QED  BY <2>3 DEF ReadyAfter
    <2>5. OneMore(dropped, keys, order) = Append(order, name)
      BY <1>2 DEF OneMore
    <2>. HIDE DEF name, ready
    <2>6. order \in Seq(dropped) /\ Len(order) \in Nat /\ DOMAIN order = 1 .. Len(order)
      BY DEF ChildrenFirst
    <2>. DEFINE more == Append(order, name)
    <2>7. /\ more \in Seq(dropped) /\ Len(more) = Len(order) + 1 /\ DOMAIN more = 1 .. Len(order) + 1
          /\ \A i \in 1 .. Len(order) : more[i] = order[i]
          /\ more[Len(order) + 1] = name
      BY <2>4, <2>6
    <2>8. \A i \in 1 .. Len(order) + 1 : i \in 1 .. Len(order) \/ i = Len(order) + 1
      BY <2>6
    <2>. HIDE DEF more
    <2>9. IsInjective(more)
      <3>1. \A i \in 1 .. Len(order) : order[i] # name
        BY <2>4, <2>6 DEF ToSet
      <3>2. \A i, j \in 1 .. Len(order) : order[i] = order[j] => i = j
        BY <2>6 DEF ChildrenFirst, IsInjective
      <3>. QED  BY <3>1, <3>2, <2>6, <2>7, <2>8 DEF IsInjective
    <2>10. ASSUME NEW i \in 1 .. Len(more), NEW key \in keys, key.parent = more[i], key.child \in dropped
           PROVE  \E j \in 1 .. i - 1 : more[j] = key.child
      <3>1. CASE i \in 1 .. Len(order)
        <4>1. PICK j \in 1 .. i - 1 : order[j] = key.child
          BY <2>7, <2>10, <3>1 DEF ChildrenFirst
        <4>2. j \in 1 .. Len(order)
          BY <2>6, <3>1
        <4>. QED  BY <4>1, <4>2, <2>7
      <3>2. CASE i = Len(order) + 1
        <4>1. key.child \in ToSet(order)
          BY <2>4, <2>7, <2>10, <3>2
        <4>2. PICK j \in 1 .. Len(order) : order[j] = key.child
          BY <4>1, <2>6 DEF ToSet
        <4>3. j \in 1 .. i - 1
          BY <2>6, <3>2
        <4>. QED  BY <4>2, <4>3, <2>7
      <3>. QED  BY <2>7, <2>8, <3>1, <3>2
    <2>. QED  BY <2>5, <2>7, <2>9, <2>10 DEF ChildrenFirst, more
  <1>. QED  BY <1>1, <1>2

\* Tables are dropped after those that refer to them, each once, and when the
\* order is complete each of them is.
LEMMA DropOrderHas ==
  ASSUME NEW dropped \in SUBSET (Nat \X Nat), IsFiniteSet(dropped), NEW keys
  PROVE  /\ ChildrenFirst(DropOrder(dropped, keys), dropped, keys)
         /\ Len(DropOrder(dropped, keys)) = Cardinality(dropped)
              => ToSet(DropOrder(dropped, keys)) = dropped
  <1>. DEFINE n == Cardinality(dropped)
              f == CHOOSE g : DropsUpTo(g, dropped, keys, n)
              order == DropOrder(dropped, keys)
  <1>1. n \in Nat
    BY FS_CardinalityType
  <1>2. order = f[n]
    BY DEF DropOrder, DropsUpTo, OneMore, ReadyAfter
  <1>3. DropsUpTo(f, dropped, keys, n)
    BY <1>1, DropsExist
  <1>. HIDE DEF f, n
  <1>. DEFINE B == {k \in 0 .. n : ~ChildrenFirst(f[k], dropped, keys)}
  <1>4. B = {}
    <2>1. SUFFICES ASSUME B # {} PROVE FALSE
      OBVIOUS
    <2>2. PICK m \in B : \A k \in B : m <= k
      <3>1. B \in SUBSET Nat
        OBVIOUS
      <3>. QED  BY <2>1, <3>1, LeastExists
    <2>3. m \in 0 .. n /\ ~ChildrenFirst(f[m], dropped, keys)
      BY <2>2
    <2>4. f[m] = IF m = 0 THEN << >> ELSE OneMore(dropped, keys, f[m - 1])
      BY <1>3, <2>3 DEF DropsUpTo
    <2>5. CASE m = 0
      <3>1. ChildrenFirst(<< >>, dropped, keys)
        BY DEF ChildrenFirst, IsInjective
      <3>. QED  BY <2>3, <2>4, <2>5, <3>1
    <2>6. CASE m # 0
      <3>1. m - 1 \in 0 .. n /\ ~(m <= m - 1)
        BY <1>1, <2>3, <2>6
      <3>2. ChildrenFirst(f[m - 1], dropped, keys)
        BY <2>2, <3>1
      <3>. QED  BY <2>3, <2>4, <2>6, <3>2, OneMoreOrdered
    <2>. QED  BY <2>5, <2>6
  <1>5. ChildrenFirst(order, dropped, keys)
    BY <1>1, <1>2, <1>4
  <1>. HIDE DEF order
  <1>6. ASSUME Len(order) = n PROVE ToSet(order) = dropped
    <2>1. order \in [1 .. n -> dropped] /\ IsInjective(order)
      BY <1>5, <1>6 DEF ChildrenFirst
    <2>2. order \in Injection(1 .. n, dropped)
      BY <2>1 DEF Injection
    <2>3. IsFiniteSet(1 .. n) /\ Cardinality(1 .. n) = n
      BY <1>1, FS_Interval
    <2>4. order \in Surjection(1 .. n, dropped)
      BY <2>2, <2>3, FS_Injection DEF n
    <2>. QED  BY <2>1, <2>4 DEF Surjection, ToSet, Range
  <1>. QED  BY <1>5, <1>6 DEF order, n

-----------------------------------------------------------------------------
(***************************************************************************)
(* The operations that are planned.                                        *)
(***************************************************************************)

\* Tables as schemas and catalogs list them: names in string order, columns with
\* names of their own, and a primary key among those that hold no null.
\* (The texts that are written out are in STRING, which the provers do not know.)
Texts == STRING \cup Bases \cup {"Numeric", "PreciseNumeric", "unsupported", "id", "a", "b"}
Types == [base : Texts, length : Nat, dims : Nat]
Columns == [name : Texts, type : Types, nullable : BOOLEAN, ordinal : Nat]

\* A table names each of its columns once.
TableOK(table) ==
  /\ table.columns \in Seq(Columns)
  /\ \A i, j \in 1 .. Len(table.columns) :
       table.columns[i].name = table.columns[j].name => i = j
  /\ table = [columns |-> table.columns, primary_key |-> table.primary_key]

\* Finitely many tables of declared namespaces.
SchemaOK(schema) ==
  /\ DOMAIN schema \in SUBSET (Nat \X Nat) /\ IsFiniteSet(DOMAIN schema)
  /\ \A name \in DOMAIN schema : TableOK(schema[name])

\* The columns of a table, each found by its name.
LEMMA TableColumns ==
  ASSUME NEW table, TableOK(table)
  PROVE  /\ ToSet(table.columns) \in SUBSET Columns
         /\ IsInjective(table.columns)
         /\ \A x, y \in ToSet(table.columns) : x.name = y.name => x = y
         /\ ColumnNames(table) = {x.name : x \in ToSet(table.columns)}
         /\ \A x \in ToSet(table.columns) : ColumnOf(table, x.name) = x
  <1>1. DOMAIN table.columns = 1 .. Len(table.columns) /\ table.columns \in Seq(Columns)
    BY DEF TableOK
  <1>2. ToSet(table.columns) \in SUBSET Columns
    BY <1>1 DEF ToSet
  <1>3. IsInjective(table.columns)
    BY <1>1 DEF TableOK, IsInjective
  <1>4. \A x, y \in ToSet(table.columns) : x.name = y.name => x = y
    BY <1>1 DEF ToSet, TableOK
  <1>5. ColumnNames(table) = {x.name : x \in ToSet(table.columns)}
    BY DEF ColumnNames, ToSet
  <1>. QED  BY <1>2, <1>3, <1>4, <1>5 DEF ColumnOf

\* What an operation says.
LEMMA OperationFields ==
  ASSUME NEW name, NEW x, NEW y, NEW z
  PROVE  /\ CreateTable(name, x).kind = "CreateTable" /\ CreateTable(name, x).name = name
         /\ CreateTable(name, x).table = x
         /\ DropTable(name, x).kind = "DropTable" /\ DropTable(name, x).name = name
         /\ DropTable(name, x).table = x
         /\ AddColumn(name, x).kind = "AddColumn" /\ AddColumn(name, x).name = name
         /\ AddColumn(name, x).column = x
         /\ DropColumn(name, x).kind = "DropColumn" /\ DropColumn(name, x).name = name
         /\ DropColumn(name, x).column = x
         /\ AlterType(name, x, y, z).kind = "AlterType" /\ AlterType(name, x, y, z).name = name
         /\ AlterType(name, x, y, z).column = x
         /\ AlterType(name, x, y, z).from = y /\ AlterType(name, x, y, z).to = z
         /\ SetNotNull(name, x).kind = "SetNotNull" /\ SetNotNull(name, x).name = name
         /\ SetNotNull(name, x).column = x
         /\ DropNotNull(name, x).kind = "DropNotNull" /\ DropNotNull(name, x).name = name
         /\ DropNotNull(name, x).column = x
  BY DEF CreateTable, DropTable, AddColumn, DropColumn, AlterType, SetNotNull, DropNotNull

\* The columns of a table on both sides that the plan adds, removes, gives
\* another type or other nulls, and the operations it plans for them.
Added(live, desired, name) ==
  {x \in ToSet(desired[name].columns) : x.name \notin ColumnNames(live[name])}

Removed(live, desired, name) ==
  {x \in ToSet(live[name].columns) : x.name \notin ColumnNames(desired[name])}

Retyped(live, desired, name) ==
  {x \in ToSet(live[name].columns) :
     /\ x.name \in ColumnNames(desired[name])
     /\ x.type # ColumnOf(desired[name], x.name).type}

Renulled(live, desired, name) ==
  {x \in ToSet(live[name].columns) :
     /\ x.name \in ColumnNames(desired[name])
     /\ x.nullable # ColumnOf(desired[name], x.name).nullable}

\* The operations that a column of each kind asks for.
Retyping(desired, name, x) == AlterType(name, x.name, x.type, ColumnOf(desired[name], x.name).type)
Renulling(name, x) == IF x.nullable THEN SetNotNull(name, x.name) ELSE DropNotNull(name, x.name)

Adding(live, desired, name)     == {AddColumn(name, x) : x \in Added(live, desired, name)}
Removing(live, desired, name)   == {DropColumn(name, x) : x \in Removed(live, desired, name)}
Retypings(live, desired, name)  == {Retyping(desired, name, x) : x \in Retyped(live, desired, name)}
Renullings(live, desired, name) == {Renulling(name, x) : x \in Renulled(live, desired, name)}

\* The tables that are only declared, and those that are only live.
Creations(live, desired) == {CreateTable(name, desired[name]) : name \in DOMAIN desired \ DOMAIN live}
Drops(live, desired) == {DropTable(name, live[name]) : name \in DOMAIN live \ DOMAIN desired}

\* All that a plan is to list.
PlannedOperations(live, desired) ==
  Creations(live, desired)
    \cup (UNION {Adding(live, desired, name) : name \in DOMAIN live \cap DOMAIN desired})
    \cup (UNION {Retypings(live, desired, name) : name \in DOMAIN live \cap DOMAIN desired})
    \cup (UNION {Renullings(live, desired, name) : name \in DOMAIN live \cap DOMAIN desired})
    \cup (UNION {Removing(live, desired, name) : name \in DOMAIN live \cap DOMAIN desired})
    \cup Drops(live, desired)

\* Their sequences.
AddingList(live, desired, name) ==
  [k \in DOMAIN Additions(live, desired, name) |-> AddColumn(name, Additions(live, desired, name)[k])]

RemovingList(live, desired, name) ==
  [k \in DOMAIN Removals(live, desired, name) |-> DropColumn(name, Removals(live, desired, name)[k])]

\* What is planned for each column of a list.
LEMMA WithinOf ==
  ASSUME NEW s, NEW S, Lists(s, S), NEW T \in SUBSET S
  PROVE  Lists(Within(s, T), T)
  <1>1. S \cap T = T
    OBVIOUS
  <1>. QED  BY <1>1, WithinLists

\* The columns that a live table shares with a desired one, each once.
LEMMA CommonLists ==
  ASSUME NEW live, NEW desired, NEW name, TableOK(live[name])
  PROVE  Lists(Common(live, desired, name),
               {x \in ToSet(live[name].columns) : x.name \in ColumnNames(desired[name])})
  <1>. DEFINE s == live[name].columns
              T == {x \in ToSet(s) : x.name \in ColumnNames(desired[name])}
  <1>1. Lists(s, ToSet(s))
    <2>1. s \in Seq(Columns) /\ IsInjective(s)
      BY TableColumns DEF TableOK
    <2>2. s \in Seq(ToSet(s))
      BY <2>1 DEF ToSet
    <2>. QED  BY <2>1, <2>2 DEF Lists
  <1>2. T \in SUBSET ToSet(s)
    OBVIOUS
  <1>3. Common(live, desired, name) = Within(s, T)
    BY DEF Common
  <1>. HIDE DEF T, s
  <1>4. Lists(Within(s, T), T)
    BY <1>1, <1>2, WithinOf
  <1>. QED  BY <1>3, <1>4 DEF T, s

\* The columns of a table make a list.
LEMMA ColumnLists ==
  ASSUME NEW table, TableOK(table)
  PROVE  Lists(table.columns, ToSet(table.columns))
  <1>1. table.columns \in Seq(Columns) /\ IsInjective(table.columns)
    BY TableColumns DEF TableOK
  <1>2. table.columns \in Seq(ToSet(table.columns))
    BY <1>1 DEF ToSet
  <1>. QED  BY <1>1, <1>2 DEF Lists

\* The columns of a table that the plan adds, one operation for each.
LEMMA AddingLists ==
  ASSUME NEW live, NEW desired, NEW name, TableOK(live[name]), TableOK(desired[name])
  PROVE  Lists(AddingList(live, desired, name), Adding(live, desired, name))
  <1>. DEFINE s == Additions(live, desired, name)
              S == Added(live, desired, name)
              f == [x \in S |-> AddColumn(name, x)]
              mapped == [k \in DOMAIN s |-> f[s[k]]]
  <1>1. Lists(s, S)
    <2>1. s = Within(desired[name].columns, S) /\ S \in SUBSET ToSet(desired[name].columns)
      BY DEF Additions, Added
    <2>2. Lists(desired[name].columns, ToSet(desired[name].columns))
      BY ColumnLists
    <2>. HIDE DEF s, S
    <2>. QED  BY <2>1, <2>2, WithinOf
  <1>2. AddingList(live, desired, name) = [k \in DOMAIN s |-> AddColumn(name, s[k])]
    BY DEF AddingList
  <1>. HIDE DEF s
  <1>3. \A x, y \in S : f[x] = f[y] => x = y
    <2>1. \A x \in S : f[x].column = x
      BY OperationFields
    <2>. HIDE DEF f
    <2>. QED  BY <2>1
  <1>4. AddingList(live, desired, name) = mapped
    <2>1. \A k \in DOMAIN s : s[k] \in S
      BY <1>1 DEF Lists, ToSet
    <2>2. \A k \in DOMAIN s : AddColumn(name, s[k]) = f[s[k]]
      BY <2>1
    <2>3. mapped = [k \in DOMAIN s |-> AddColumn(name, s[k])]
      BY <2>2
    <2>. QED  BY <1>2, <2>3
  <1>5. {f[x] : x \in S} = Adding(live, desired, name)
    BY DEF Adding
  <1>. HIDE DEF f, S
  <1>6. Lists(mapped, {f[x] : x \in S})
    BY <1>1, <1>3, MappedLists
  <1>. QED  BY <1>4, <1>5, <1>6

\* Those it removes.
LEMMA RemovingLists ==
  ASSUME NEW live, NEW desired, NEW name, TableOK(live[name]), TableOK(desired[name])
  PROVE  Lists(RemovingList(live, desired, name), Removing(live, desired, name))
  <1>. DEFINE s == Removals(live, desired, name)
              S == Removed(live, desired, name)
              f == [x \in S |-> DropColumn(name, x)]
              mapped == [k \in DOMAIN s |-> f[s[k]]]
  <1>1. Lists(s, S)
    <2>. DEFINE r == Within(live[name].columns, S)
    <2>1. s = Reverse(r) /\ S \in SUBSET ToSet(live[name].columns)
      BY DEF Removals, Removed
    <2>2. Lists(live[name].columns, ToSet(live[name].columns))
      BY ColumnLists
    <2>. HIDE DEF s, S
    <2>3. Lists(r, S)
      BY <2>1, <2>2, WithinOf
    <2>. HIDE DEF r
    <2>. QED  BY <2>1, <2>3, ReverseLists
  <1>2. RemovingList(live, desired, name) = [k \in DOMAIN s |-> DropColumn(name, s[k])]
    BY DEF RemovingList
  <1>. HIDE DEF s
  <1>3. \A x, y \in S : f[x] = f[y] => x = y
    <2>1. \A x \in S : f[x].column = x
      BY OperationFields
    <2>. HIDE DEF f
    <2>. QED  BY <2>1
  <1>4. RemovingList(live, desired, name) = mapped
    <2>1. \A k \in DOMAIN s : s[k] \in S
      BY <1>1 DEF Lists, ToSet
    <2>2. \A k \in DOMAIN s : DropColumn(name, s[k]) = f[s[k]]
      BY <2>1
    <2>3. mapped = [k \in DOMAIN s |-> DropColumn(name, s[k])]
      BY <2>2
    <2>. QED  BY <1>2, <2>3
  <1>5. {f[x] : x \in S} = Removing(live, desired, name)
    BY DEF Removing
  <1>. HIDE DEF f, S
  <1>6. Lists(mapped, {f[x] : x \in S})
    BY <1>1, <1>3, MappedLists
  <1>. QED  BY <1>4, <1>5, <1>6

\* Those it gives another type.
LEMMA RetypingLists ==
  ASSUME NEW live, NEW desired, NEW name, TableOK(live[name]), TableOK(desired[name])
  PROVE  Lists(TypeChanges(live, desired, name), Retypings(live, desired, name))
  <1>. DEFINE s == Within(Common(live, desired, name),
                          {x \in ToSet(Common(live, desired, name)) :
                             x.type # ColumnOf(desired[name], x.name).type})
              S == Retyped(live, desired, name)
              f == [x \in S |-> Retyping(desired, name, x)]
              mapped == [k \in DOMAIN s |-> f[s[k]]]
  <1>1. Lists(s, S)
    <2>. DEFINE both == {x \in ToSet(live[name].columns) : x.name \in ColumnNames(desired[name])}
                changed == {x \in ToSet(Common(live, desired, name)) : x.type # ColumnOf(desired[name], x.name).type}
    <2>1. Lists(Common(live, desired, name), both) /\ ToSet(Common(live, desired, name)) = both
      BY CommonLists DEF Lists
    <2>2. changed = S /\ S \in SUBSET both
      BY <2>1 DEF Retyped
    <2>3. s = Within(Common(live, desired, name), changed)
      OBVIOUS
    <2>. HIDE DEF both, S, changed, s
    <2>. QED  BY <2>1, <2>2, <2>3, WithinOf
  <1>2. TypeChanges(live, desired, name) = [k \in DOMAIN s |-> Retyping(desired, name, s[k])]
    BY DEF TypeChanges, Retyping
  <1>. HIDE DEF s
  <1>3. \A x, y \in S : f[x] = f[y] => x = y
    <2>1. \A x \in S : f[x].column = x.name
      BY OperationFields DEF Retyping
    <2>2. \A x, y \in S : x.name = y.name => x = y
      BY TableColumns DEF S, Retyped
    <2>. HIDE DEF f, S
    <2>. QED  BY <2>1, <2>2
  <1>4. TypeChanges(live, desired, name) = mapped
    <2>1. \A k \in DOMAIN s : s[k] \in S
      BY <1>1 DEF Lists, ToSet
    <2>2. \A k \in DOMAIN s : Retyping(desired, name, s[k]) = f[s[k]]
      BY <2>1
    <2>3. mapped = [k \in DOMAIN s |-> Retyping(desired, name, s[k])]
      BY <2>2
    <2>. QED  BY <1>2, <2>3
  <1>5. {f[x] : x \in S} = Retypings(live, desired, name)
    BY DEF Retypings
  <1>. HIDE DEF f, S
  <1>6. Lists(mapped, {f[x] : x \in S})
    BY <1>1, <1>3, MappedLists
  <1>. QED  BY <1>4, <1>5, <1>6

\* Those it gives other nulls.
LEMMA RenullingLists ==
  ASSUME NEW live, NEW desired, NEW name, TableOK(live[name]), TableOK(desired[name])
  PROVE  Lists(NullabilityChanges(live, desired, name), Renullings(live, desired, name))
  <1>. DEFINE s == Within(Common(live, desired, name),
                          {x \in ToSet(Common(live, desired, name)) :
                             x.nullable # ColumnOf(desired[name], x.name).nullable})
              S == Renulled(live, desired, name)
              f == [x \in S |-> Renulling(name, x)]
              mapped == [k \in DOMAIN s |-> f[s[k]]]
  <1>1. Lists(s, S)
    <2>. DEFINE both == {x \in ToSet(live[name].columns) : x.name \in ColumnNames(desired[name])}
                changed == {x \in ToSet(Common(live, desired, name)) : x.nullable # ColumnOf(desired[name], x.name).nullable}
    <2>1. Lists(Common(live, desired, name), both) /\ ToSet(Common(live, desired, name)) = both
      BY CommonLists DEF Lists
    <2>2. changed = S /\ S \in SUBSET both
      BY <2>1 DEF Renulled
    <2>3. s = Within(Common(live, desired, name), changed)
      OBVIOUS
    <2>. HIDE DEF both, S, changed, s
    <2>. QED  BY <2>1, <2>2, <2>3, WithinOf
  <1>2. NullabilityChanges(live, desired, name) = [k \in DOMAIN s |-> Renulling(name, s[k])]
    BY DEF NullabilityChanges, Renulling
  <1>. HIDE DEF s
  <1>3. \A x, y \in S : f[x] = f[y] => x = y
    <2>1. \A x \in S : f[x].column = x.name
      BY OperationFields DEF Renulling
    <2>2. \A x, y \in S : x.name = y.name => x = y
      BY TableColumns DEF S, Renulled
    <2>. HIDE DEF f, S
    <2>. QED  BY <2>1, <2>2
  <1>4. NullabilityChanges(live, desired, name) = mapped
    <2>1. \A k \in DOMAIN s : s[k] \in S
      BY <1>1 DEF Lists, ToSet
    <2>2. \A k \in DOMAIN s : Renulling(name, s[k]) = f[s[k]]
      BY <2>1
    <2>3. mapped = [k \in DOMAIN s |-> Renulling(name, s[k])]
      BY <2>2
    <2>. QED  BY <1>2, <2>3
  <1>5. {f[x] : x \in S} = Renullings(live, desired, name)
    BY DEF Renullings
  <1>. HIDE DEF f, S
  <1>6. Lists(mapped, {f[x] : x \in S})
    BY <1>1, <1>3, MappedLists
  <1>. QED  BY <1>4, <1>5, <1>6

\* The operations of different tables and passes are different.
LEMMA OperationsApart ==
  ASSUME NEW live, NEW desired, NEW name
  PROVE  /\ \A op \in Adding(live, desired, name) : op.kind = "AddColumn" /\ op.name = name
         /\ \A op \in Removing(live, desired, name) : op.kind = "DropColumn" /\ op.name = name
         /\ \A op \in Retypings(live, desired, name) : op.kind = "AlterType" /\ op.name = name
         /\ \A op \in Renullings(live, desired, name) :
              op.kind \in {"SetNotNull", "DropNotNull"} /\ op.name = name
         /\ \A op \in Creations(live, desired) : op.kind = "CreateTable"
         /\ \A op \in Drops(live, desired) : op.kind = "DropTable"
  <1>1. \A op \in Adding(live, desired, name) : op.kind = "AddColumn" /\ op.name = name
    BY OperationFields DEF Adding
  <1>2. \A op \in Removing(live, desired, name) : op.kind = "DropColumn" /\ op.name = name
    BY OperationFields DEF Removing
  <1>3. \A op \in Retypings(live, desired, name) : op.kind = "AlterType" /\ op.name = name
    BY OperationFields DEF Retypings, Retyping
  <1>4. \A op \in Renullings(live, desired, name) :
          op.kind \in {"SetNotNull", "DropNotNull"} /\ op.name = name
    BY OperationFields DEF Renullings, Renulling
  <1>5. \A op \in Creations(live, desired) : op.kind = "CreateTable"
    BY OperationFields DEF Creations
  <1>6. \A op \in Drops(live, desired) : op.kind = "DropTable"
    BY OperationFields DEF Drops
  <1>. QED  BY <1>1, <1>2, <1>3, <1>4, <1>5, <1>6

\* The pass that adds columns.
LEMMA AddingPass ==
  ASSUME NEW live, SchemaOK(live), NEW desired, SchemaOK(desired)
  PROVE  LET kept == DOMAIN live \cap DOMAIN desired
         IN  Lists(FlattenSeq([k \in 1 .. Cardinality(kept) |->
                                 AddingList(live, desired, SortedNames(kept)[k])]),
                   UNION {Adding(live, desired, name) : name \in kept})
  <1>. DEFINE kept == DOMAIN live \cap DOMAIN desired
              ops  == [name \in kept |-> AddingList(live, desired, name)]
              sets == [name \in kept |-> Adding(live, desired, name)]
  <1>1. kept \in SUBSET (Nat \X Nat) /\ IsFiniteSet(kept)
    BY FS_Subset DEF SchemaOK
  <1>2. \A name \in kept : TableOK(live[name]) /\ TableOK(desired[name])
    BY DEF SchemaOK
  <1>3. \A name \in kept : ops[name] = AddingList(live, desired, name)
                          /\ sets[name] = Adding(live, desired, name)
    OBVIOUS
  <1>4. Gathered(kept, sets) = UNION {Adding(live, desired, name) : name \in kept}
    BY DEF Gathered
  <1>. HIDE DEF kept, ops, sets
  <1>5. \A name \in kept : Lists(ops[name], sets[name])
    BY <1>2, <1>3, AddingLists
  <1>6. \A a, b \in kept : a # b => sets[a] \cap sets[b] = {}
    BY <1>3, OperationsApart
  <1>7. PassOver(kept, ops) = FlattenSeq([k \in 1 .. Cardinality(kept) |-> AddingList(live, desired, SortedNames(kept)[k])])
    <2>1. \A k \in 1 .. Cardinality(kept) : SortedNames(kept)[k] \in kept
      <3>1. SortedNames(kept) \in Seq(kept) /\ Len(SortedNames(kept)) = Cardinality(kept)
        BY <1>1, SortedLists DEF Lists
      <3>. QED  BY <3>1
    <2>2. [k \in 1 .. Cardinality(kept) |-> ops[SortedNames(kept)[k]]]
            = [k \in 1 .. Cardinality(kept) |-> AddingList(live, desired, SortedNames(kept)[k])]
      BY <1>3, <2>1
    <2>. QED  BY <2>2 DEF PassOver
  <1>8. Lists(PassOver(kept, ops), Gathered(kept, sets))
    BY <1>1, <1>5, <1>6, PassLists
  <1>. QED  BY <1>4, <1>7, <1>8 DEF kept

\* The pass that changes types.
LEMMA RetypingPass ==
  ASSUME NEW live, SchemaOK(live), NEW desired, SchemaOK(desired)
  PROVE  LET kept == DOMAIN live \cap DOMAIN desired
         IN  Lists(FlattenSeq([k \in 1 .. Cardinality(kept) |->
                                 TypeChanges(live, desired, SortedNames(kept)[k])]),
                   UNION {Retypings(live, desired, name) : name \in kept})
  <1>. DEFINE kept == DOMAIN live \cap DOMAIN desired
              ops  == [name \in kept |-> TypeChanges(live, desired, name)]
              sets == [name \in kept |-> Retypings(live, desired, name)]
  <1>1. kept \in SUBSET (Nat \X Nat) /\ IsFiniteSet(kept)
    BY FS_Subset DEF SchemaOK
  <1>2. \A name \in kept : TableOK(live[name]) /\ TableOK(desired[name])
    BY DEF SchemaOK
  <1>3. \A name \in kept : ops[name] = TypeChanges(live, desired, name)
                          /\ sets[name] = Retypings(live, desired, name)
    OBVIOUS
  <1>4. Gathered(kept, sets) = UNION {Retypings(live, desired, name) : name \in kept}
    BY DEF Gathered
  <1>. HIDE DEF kept, ops, sets
  <1>5. \A name \in kept : Lists(ops[name], sets[name])
    BY <1>2, <1>3, RetypingLists
  <1>6. \A a, b \in kept : a # b => sets[a] \cap sets[b] = {}
    BY <1>3, OperationsApart
  <1>7. PassOver(kept, ops) = FlattenSeq([k \in 1 .. Cardinality(kept) |-> TypeChanges(live, desired, SortedNames(kept)[k])])
    <2>1. \A k \in 1 .. Cardinality(kept) : SortedNames(kept)[k] \in kept
      <3>1. SortedNames(kept) \in Seq(kept) /\ Len(SortedNames(kept)) = Cardinality(kept)
        BY <1>1, SortedLists DEF Lists
      <3>. QED  BY <3>1
    <2>2. [k \in 1 .. Cardinality(kept) |-> ops[SortedNames(kept)[k]]]
            = [k \in 1 .. Cardinality(kept) |-> TypeChanges(live, desired, SortedNames(kept)[k])]
      BY <1>3, <2>1
    <2>. QED  BY <2>2 DEF PassOver
  <1>8. Lists(PassOver(kept, ops), Gathered(kept, sets))
    BY <1>1, <1>5, <1>6, PassLists
  <1>. QED  BY <1>4, <1>7, <1>8 DEF kept

\* The pass that changes nulls.
LEMMA RenullingPass ==
  ASSUME NEW live, SchemaOK(live), NEW desired, SchemaOK(desired)
  PROVE  LET kept == DOMAIN live \cap DOMAIN desired
         IN  Lists(FlattenSeq([k \in 1 .. Cardinality(kept) |->
                                 NullabilityChanges(live, desired, SortedNames(kept)[k])]),
                   UNION {Renullings(live, desired, name) : name \in kept})
  <1>. DEFINE kept == DOMAIN live \cap DOMAIN desired
              ops  == [name \in kept |-> NullabilityChanges(live, desired, name)]
              sets == [name \in kept |-> Renullings(live, desired, name)]
  <1>1. kept \in SUBSET (Nat \X Nat) /\ IsFiniteSet(kept)
    BY FS_Subset DEF SchemaOK
  <1>2. \A name \in kept : TableOK(live[name]) /\ TableOK(desired[name])
    BY DEF SchemaOK
  <1>3. \A name \in kept : ops[name] = NullabilityChanges(live, desired, name)
                          /\ sets[name] = Renullings(live, desired, name)
    OBVIOUS
  <1>4. Gathered(kept, sets) = UNION {Renullings(live, desired, name) : name \in kept}
    BY DEF Gathered
  <1>. HIDE DEF kept, ops, sets
  <1>5. \A name \in kept : Lists(ops[name], sets[name])
    BY <1>2, <1>3, RenullingLists
  <1>6. \A a, b \in kept : a # b => sets[a] \cap sets[b] = {}
    BY <1>3, OperationsApart
  <1>7. PassOver(kept, ops) = FlattenSeq([k \in 1 .. Cardinality(kept) |-> NullabilityChanges(live, desired, SortedNames(kept)[k])])
    <2>1. \A k \in 1 .. Cardinality(kept) : SortedNames(kept)[k] \in kept
      <3>1. SortedNames(kept) \in Seq(kept) /\ Len(SortedNames(kept)) = Cardinality(kept)
        BY <1>1, SortedLists DEF Lists
      <3>. QED  BY <3>1
    <2>2. [k \in 1 .. Cardinality(kept) |-> ops[SortedNames(kept)[k]]]
            = [k \in 1 .. Cardinality(kept) |-> NullabilityChanges(live, desired, SortedNames(kept)[k])]
      BY <1>3, <2>1
    <2>. QED  BY <2>2 DEF PassOver
  <1>8. Lists(PassOver(kept, ops), Gathered(kept, sets))
    BY <1>1, <1>5, <1>6, PassLists
  <1>. QED  BY <1>4, <1>7, <1>8 DEF kept

\* The pass that removes columns.
LEMMA RemovingPass ==
  ASSUME NEW live, SchemaOK(live), NEW desired, SchemaOK(desired)
  PROVE  LET kept == DOMAIN live \cap DOMAIN desired
         IN  Lists(FlattenSeq([k \in 1 .. Cardinality(kept) |->
                                 RemovingList(live, desired, SortedNames(kept)[k])]),
                   UNION {Removing(live, desired, name) : name \in kept})
  <1>. DEFINE kept == DOMAIN live \cap DOMAIN desired
              ops  == [name \in kept |-> RemovingList(live, desired, name)]
              sets == [name \in kept |-> Removing(live, desired, name)]
  <1>1. kept \in SUBSET (Nat \X Nat) /\ IsFiniteSet(kept)
    BY FS_Subset DEF SchemaOK
  <1>2. \A name \in kept : TableOK(live[name]) /\ TableOK(desired[name])
    BY DEF SchemaOK
  <1>3. \A name \in kept : ops[name] = RemovingList(live, desired, name)
                          /\ sets[name] = Removing(live, desired, name)
    OBVIOUS
  <1>4. Gathered(kept, sets) = UNION {Removing(live, desired, name) : name \in kept}
    BY DEF Gathered
  <1>. HIDE DEF kept, ops, sets
  <1>5. \A name \in kept : Lists(ops[name], sets[name])
    BY <1>2, <1>3, RemovingLists
  <1>6. \A a, b \in kept : a # b => sets[a] \cap sets[b] = {}
    BY <1>3, OperationsApart
  <1>7. PassOver(kept, ops) = FlattenSeq([k \in 1 .. Cardinality(kept) |-> RemovingList(live, desired, SortedNames(kept)[k])])
    <2>1. \A k \in 1 .. Cardinality(kept) : SortedNames(kept)[k] \in kept
      <3>1. SortedNames(kept) \in Seq(kept) /\ Len(SortedNames(kept)) = Cardinality(kept)
        BY <1>1, SortedLists DEF Lists
      <3>. QED  BY <3>1
    <2>2. [k \in 1 .. Cardinality(kept) |-> ops[SortedNames(kept)[k]]]
            = [k \in 1 .. Cardinality(kept) |-> RemovingList(live, desired, SortedNames(kept)[k])]
      BY <1>3, <2>1
    <2>. QED  BY <2>2 DEF PassOver
  <1>8. Lists(PassOver(kept, ops), Gathered(kept, sets))
    BY <1>1, <1>5, <1>6, PassLists
  <1>. QED  BY <1>4, <1>7, <1>8 DEF kept

\* The pass that creates tables.
LEMMA CreatingPass ==
  ASSUME NEW live, NEW desired, SchemaOK(desired)
  PROVE  LET new == DOMAIN desired \ DOMAIN live
         IN  Lists(FlattenSeq([k \in 1 .. Cardinality(new) |->
                                 <<CreateTable(SortedNames(new)[k], desired[SortedNames(new)[k]])>>]),
                   Creations(live, desired))
  <1>. DEFINE new  == DOMAIN desired \ DOMAIN live
              ops  == [name \in new |-> <<CreateTable(name, desired[name])>>]
              sets == [name \in new |-> {CreateTable(name, desired[name])}]
  <1>1. new \in SUBSET (Nat \X Nat) /\ IsFiniteSet(new)
    BY FS_Subset DEF SchemaOK
  <1>2. \A name \in new : ops[name] = <<CreateTable(name, desired[name])>>
                         /\ sets[name] = {CreateTable(name, desired[name])}
    OBVIOUS
  <1>3. Gathered(new, sets) = Creations(live, desired)
    BY DEF Creations, Gathered
  <1>. HIDE DEF new, ops, sets
  <1>4. \A name \in new : Lists(ops[name], sets[name])
    <2>1. \A x : Lists(<<x>>, {x})
      BY DEF Lists, ToSet, IsInjective
    <2>. QED  BY <1>2, <2>1
  <1>5. \A a, b \in new : a # b => sets[a] \cap sets[b] = {}
    <2>1. \A a \in new : \A op \in sets[a] : op.name = a
      <3>1. \A a : CreateTable(a, desired[a]).name = a
        BY OperationFields
      <3>. QED  BY <1>2, <3>1
    <2>. QED  BY <2>1
  <1>6. PassOver(new, ops) =
          FlattenSeq([k \in 1 .. Cardinality(new) |->
            <<CreateTable(SortedNames(new)[k], desired[SortedNames(new)[k]])>>])
    <2>1. \A k \in 1 .. Cardinality(new) : SortedNames(new)[k] \in new
      <3>1. SortedNames(new) \in Seq(new) /\ Len(SortedNames(new)) = Cardinality(new)
        BY <1>1, SortedLists DEF Lists
      <3>. QED  BY <3>1
    <2>2. [k \in 1 .. Cardinality(new) |-> ops[SortedNames(new)[k]]]
            = [k \in 1 .. Cardinality(new) |->
                 <<CreateTable(SortedNames(new)[k], desired[SortedNames(new)[k]])>>]
      BY <1>2, <2>1
    <2>. QED  BY <2>2 DEF PassOver
  <1>7. Lists(PassOver(new, ops), Gathered(new, sets))
    BY <1>1, <1>4, <1>5, PassLists
  <1>. QED  BY <1>3, <1>6, <1>7 DEF new

\* The order in which tables are dropped is complete.
DropsComplete(live, desired, keys) ==
  Len(DropOrder(DOMAIN live \ DOMAIN desired, keys)) = Cardinality(DOMAIN live \ DOMAIN desired)

\* A plan lists the operations that are planned, each once, and drops a table
\* after those that refer to it.
THEOREM UpLists ==
  ASSUME NEW live, SchemaOK(live), NEW desired, SchemaOK(desired), NEW keys,
         DropsComplete(live, desired, keys)
  PROVE  LET up == Up(live, desired, keys)
             dropped == DOMAIN live \ DOMAIN desired
         IN  /\ Lists(up, PlannedOperations(live, desired))
             /\ \A i \in 1 .. Len(up) : \A key \in keys :
                  /\ up[i].kind = "DropTable"
                  /\ up[i].name = key.parent
                  /\ key.child \in dropped
                  => \E j \in 1 .. i - 1 : up[j] = DropTable(key.child, live[key.child])
  <1>. DEFINE kept == DOMAIN live \cap DOMAIN desired
              new  == DOMAIN desired \ DOMAIN live
              dropped == DOMAIN live \ DOMAIN desired
              order == DropOrder(dropped, keys)
              creates == FlattenSeq([k \in 1 .. Cardinality(new) |->
                           <<CreateTable(SortedNames(new)[k], desired[SortedNames(new)[k]])>>])
              adds  == FlattenSeq([k \in 1 .. Cardinality(kept) |->
                                     AddingList(live, desired, SortedNames(kept)[k])])
              types == FlattenSeq([k \in 1 .. Cardinality(kept) |->
                                     TypeChanges(live, desired, SortedNames(kept)[k])])
              nulls == FlattenSeq([k \in 1 .. Cardinality(kept) |->
                                     NullabilityChanges(live, desired, SortedNames(kept)[k])])
              removals == FlattenSeq([k \in 1 .. Cardinality(kept) |->
                                        RemovingList(live, desired, SortedNames(kept)[k])])
              drops == [k \in DOMAIN order |-> DropTable(order[k], live[order[k]])]
              C == Creations(live, desired)
              A1 == UNION {Adding(live, desired, name) : name \in kept}
              A2 == UNION {Retypings(live, desired, name) : name \in kept}
              A3 == UNION {Renullings(live, desired, name) : name \in kept}
              A4 == UNION {Removing(live, desired, name) : name \in kept}
              D == Drops(live, desired)
              front == creates \o adds \o types \o nulls \o removals
  <1>1. Up(live, desired, keys) = front \o drops
    BY DEF Up, Pass, AddingList, RemovingList
  <1>2. Lists(creates, C) /\ Lists(adds, A1) /\ Lists(types, A2) /\ Lists(nulls, A3) /\ Lists(removals, A4)
    <2>1. Lists(creates, C)
      BY CreatingPass
    <2>2. Lists(adds, A1)
      BY AddingPass
    <2>3. Lists(types, A2)
      BY RetypingPass
    <2>4. Lists(nulls, A3)
      BY RenullingPass
    <2>5. Lists(removals, A4)
      BY RemovingPass
    <2>. QED  BY <2>1, <2>2, <2>3, <2>4, <2>5
  <1>3. dropped \in SUBSET (Nat \X Nat) /\ IsFiniteSet(dropped)
    BY FS_Subset DEF SchemaOK
  <1>4. ChildrenFirst(order, dropped, keys) /\ ToSet(order) = dropped
    BY <1>3, DropOrderHas DEF DropsComplete
  <1>5. Lists(order, dropped)
    BY <1>4 DEF ChildrenFirst, Lists
  <1>6. Lists(drops, D)
    <2>. DEFINE f == [name \in dropped |-> DropTable(name, live[name])]
    <2>1. D = {f[name] : name \in dropped}
      BY DEF Drops
    <2>2. \A x, y \in dropped : f[x] = f[y] => x = y
      <3>1. \A x \in dropped : f[x].name = x
        BY OperationFields
      <3>. HIDE DEF f
      <3>. QED  BY <3>1
    <2>3. drops = [k \in DOMAIN order |-> f[order[k]]]
      <3>1. \A k \in DOMAIN order : order[k] \in dropped
        BY <1>4 DEF ToSet
      <3>. HIDE DEF order
      <3>. QED  BY <3>1
    <2>. HIDE DEF f, order, drops, D, dropped
    <2>. QED  BY <1>5, <2>1, <2>2, <2>3, MappedLists
  <1>7. /\ \A op \in C : op.kind = "CreateTable"
        /\ \A op \in A1 : op.kind = "AddColumn"
        /\ \A op \in A2 : op.kind = "AlterType"
        /\ \A op \in A3 : op.kind \in {"SetNotNull", "DropNotNull"}
        /\ \A op \in A4 : op.kind = "DropColumn"
        /\ \A op \in D : op.kind = "DropTable"
    BY OperationsApart
  <1>8. PlannedOperations(live, desired) = (C \cup A1 \cup A2 \cup A3 \cup A4) \cup D
    BY DEF PlannedOperations
  <1>9. order \in Seq(dropped) /\ DOMAIN drops = 1 .. Len(order) /\ Len(order) \in Nat
        /\ \A k \in 1 .. Len(order) : drops[k] = DropTable(order[k], live[order[k]])
    BY <1>4 DEF ChildrenFirst
  <1>. HIDE DEF creates, adds, types, nulls, removals, drops, C, A1, A2, A3, A4, D, kept, new, order
  <1>10. Lists(front, C \cup A1 \cup A2 \cup A3 \cup A4)
    <2>1. Lists(creates \o adds, C \cup A1)
      <3>1. C \cap A1 = {}
        BY <1>7
      <3>. QED  BY <1>2, <3>1, JoinLists
    <2>2. Lists(creates \o adds \o types, C \cup A1 \cup A2)
      <3>1. (C \cup A1) \cap A2 = {}
        BY <1>7
      <3>. QED  BY <1>2, <2>1, <3>1, JoinLists
    <2>3. Lists(creates \o adds \o types \o nulls, C \cup A1 \cup A2 \cup A3)
      <3>1. (C \cup A1 \cup A2) \cap A3 = {}
        BY <1>7
      <3>. QED  BY <1>2, <2>2, <3>1, JoinLists
    <2>4. Lists(creates \o adds \o types \o nulls \o removals, C \cup A1 \cup A2 \cup A3 \cup A4)
      <3>1. (C \cup A1 \cup A2 \cup A3) \cap A4 = {}
        BY <1>7
      <3>. QED  BY <1>2, <2>3, <3>1, JoinLists
    <2>. QED  BY <2>4
  <1>. DEFINE F == C \cup A1 \cup A2 \cup A3 \cup A4
  <1>11. \A op \in F : op.kind # "DropTable"
    BY <1>7
  <1>12. PlannedOperations(live, desired) = F \cup D
    BY <1>8
  <1>. HIDE DEF front, F
  <1>13. Lists(front, F)
    BY <1>10 DEF F
  <1>14. F \cap D = {}
    BY <1>7, <1>11
  <1>15. Lists(front \o drops, F \cup D)
    BY <1>6, <1>13, <1>14, JoinLists
  <1>. DEFINE up == Up(live, desired, keys)
  <1>16. ASSUME NEW i \in 1 .. Len(up), NEW key \in keys,
                up[i].kind = "DropTable", up[i].name = key.parent, key.child \in dropped
         PROVE  \E j \in 1 .. i - 1 : up[j] = DropTable(key.child, live[key.child])
    <2>1. front \in Seq(F) /\ ToSet(front) = F /\ drops \in Seq(D)
      BY <1>6, <1>13 DEF Lists
    <2>2. Len(drops) = Len(order) /\ Len(front) \in Nat /\ DOMAIN front = 1 .. Len(front)
      BY <1>9, <2>1
    <2>3. /\ Len(up) = Len(front) + Len(order)
          /\ \A k \in 1 .. Len(front) : up[k] = front[k]
          /\ \A k \in 1 .. Len(order) : up[Len(front) + k] = drops[k]
      <3>1. /\ front \in Seq(F \cup D) /\ drops \in Seq(F \cup D)
        BY <2>1
      <3>2. /\ Len(front \o drops) = Len(front) + Len(drops)
            /\ \A k \in 1 .. Len(front) + Len(drops) :
                 (front \o drops)[k] = IF k <= Len(front) THEN front[k] ELSE drops[k - Len(front)]
        BY <3>1
      <3>3. \A k \in 1 .. Len(front) : (front \o drops)[k] = front[k]
        BY <1>9, <2>2, <3>2
      <3>4. \A k \in 1 .. Len(order) : (front \o drops)[Len(front) + k] = drops[k]
        BY <1>9, <2>2, <3>2
      <3>. QED  BY <1>1, <2>2, <3>2, <3>3, <3>4
    <2>4. ~(i \in 1 .. Len(front))
      BY <1>11, <1>16, <2>1, <2>2, <2>3
    <2>. DEFINE k == i - Len(front)
    <2>5. k \in 1 .. Len(order) /\ i = Len(front) + k
      BY <1>9, <1>16, <2>2, <2>3, <2>4
    <2>. HIDE DEF k, up
    <2>6. up[i] = DropTable(order[k], live[order[k]])
      BY <1>9, <2>3, <2>5
    <2>7. order[k] = key.parent
      BY <1>16, <2>6, OperationFields
    <2>8. PICK j \in 1 .. k - 1 : order[j] = key.child
      BY <1>4, <1>16, <2>5, <2>7 DEF ChildrenFirst
    <2>9. j \in 1 .. Len(order) /\ Len(front) + j \in 1 .. i - 1
      BY <1>9, <2>2, <2>5, <2>8
    <2>10. up[Len(front) + j] = DropTable(key.child, live[key.child])
      BY <1>9, <2>3, <2>8, <2>9
    <2>. QED  BY <2>9, <2>10
  <1>. QED  BY <1>1, <1>12, <1>15, <1>16

-----------------------------------------------------------------------------
(***************************************************************************)
(* What PostgreSQL does with an operation, column by column.               *)
(***************************************************************************)

\* A column as the planner sees it, and the column of a table that has a name.
View(x) == [name |-> x.name, type |-> CatalogType(x.type), nullable |-> x.nullable]
At(table, c) == {View(x) : x \in {y \in ToSet(table.columns) : y.name = c}}

\* Tables as a database has them.
TablesOK(tables) ==
  /\ tables = [name \in DOMAIN tables |-> tables[name]]
  /\ \A name \in DOMAIN tables : TableOK(tables[name])

\* An operation that can be asked for.
OperationOK(op) ==
  /\ op.kind \in {"CreateTable", "DropTable", "AddColumn", "DropColumn", "AlterType",
                  "SetNotNull", "DropNotNull"}
  /\ op.kind = "CreateTable" => TableOK(op.table)
  /\ op.kind = "AddColumn" => op.column \in Columns
  /\ op.kind = "AlterType" => op.to \in Types

\* Types as they are stored and as they are read.
LEMMA TypesOK ==
  ASSUME NEW type \in Types
  PROVE  StoredType(type) \in Types /\ CatalogType(type) \in Types
  <1>1. StoredType(type) \in Types
    BY DEF StoredType, Types, Unlimited
  <1>2. NoType \in Types
    BY DEF NoType, Types, Texts, Unlimited
  <1>3. [type EXCEPT !.base = "Numeric"] \in Types
    BY DEF Types, Texts
  <1>4. CatalogType(type) \in Types
    BY <1>2, <1>3 DEF CatalogType
  <1>. QED  BY <1>1, <1>4

\* Columns as they are stored.
LEMMA StoredColumnOK ==
  ASSUME NEW x \in Columns, NEW key
  PROVE  /\ StoredColumn(x, key) \in Columns
         /\ StoredColumn(x, key).name = x.name
         /\ StoredColumn(x, key).type = StoredType(x.type)
         /\ StoredColumn(x, key).nullable = (x.nullable /\ x.name \notin key)
  <1>. DEFINE type == StoredType(x.type)
              nulls == x.nullable /\ x.name \notin key
  <1>1. type \in Types
    BY TypesOK DEF Columns
  <1>2. nulls \in BOOLEAN
    OBVIOUS
  <1>3. StoredColumn(x, key) = [x EXCEPT !.type = type, !.nullable = nulls]
    BY DEF StoredColumn
  <1>. HIDE DEF type, nulls
  <1>4. /\ StoredColumn(x, key) \in Columns
        /\ StoredColumn(x, key).name = x.name
        /\ StoredColumn(x, key).type = type
        /\ StoredColumn(x, key).nullable = nulls
    BY <1>1, <1>2, <1>3 DEF Columns
  <1>. QED  BY <1>4 DEF type, nulls

\* Tables as they are stored.
LEMMA StoredOK ==
  ASSUME NEW table, TableOK(table)
  PROVE  TableOK(Stored(table)) /\ Stored(table).primary_key = table.primary_key
  <1>. DEFINE s == table.columns
              key == ToSet(table.primary_key)
              r == [k \in DOMAIN s |-> StoredColumn(s[k], key)]
  <1>1. Stored(table) = [columns |-> r, primary_key |-> table.primary_key]
    BY DEF Stored
  <1>2. s \in Seq(Columns) /\ \A i, j \in 1 .. Len(s) : s[i].name = s[j].name => i = j
    BY DEF TableOK
  <1>. HIDE DEF s, key
  <1>3. \A k \in 1 .. Len(s) : StoredColumn(s[k], key) \in Columns /\ StoredColumn(s[k], key).name = s[k].name
    BY <1>2, StoredColumnOK
  <1>4. r \in Seq(Columns) /\ Len(r) = Len(s) /\ \A k \in 1 .. Len(s) : r[k].name = s[k].name
    BY <1>2, <1>3
  <1>. HIDE DEF r
  <1>5. /\ Stored(table).columns = r /\ Stored(table).primary_key = table.primary_key
        /\ Stored(table) = [columns |-> Stored(table).columns, primary_key |-> Stored(table).primary_key]
    BY <1>1
  <1>. QED  BY <1>2, <1>4, <1>5 DEF TableOK

\* A table has one column of each of its names.
LEMMA AtIs ==
  ASSUME NEW table, TableOK(table), NEW c
  PROVE  /\ c \in ColumnNames(table) =>
              /\ ColumnOf(table, c) \in ToSet(table.columns)
              /\ ColumnOf(table, c) \in Columns
              /\ ColumnOf(table, c).name = c
              /\ At(table, c) = {View(ColumnOf(table, c))}
         /\ c \notin ColumnNames(table) => At(table, c) = {}
  <1>1. CASE c \in ColumnNames(table)
    <2>1. PICK x \in ToSet(table.columns) : x.name = c
      BY <1>1, TableColumns
    <2>2. ColumnOf(table, c) = x /\ x \in Columns
      BY <2>1, TableColumns
    <2>3. {y \in ToSet(table.columns) : y.name = c} = {x}
      BY <2>1, TableColumns
    <2>. QED  BY <1>1, <2>1, <2>2, <2>3 DEF At
  <1>2. CASE c \notin ColumnNames(table)
    <2>1. {y \in ToSet(table.columns) : y.name = c} = {}
      BY <1>2, TableColumns
    <2>. QED  BY <1>2, <2>1 DEF At
  <1>. QED  BY <1>1, <1>2

\* One column of a table replaced.
LEMMA WithColumnIs ==
  ASSUME NEW table, TableOK(table), NEW c \in ColumnNames(table), NEW x \in Columns, x.name = c
  PROVE  /\ TableOK(WithColumn(table, c, x))
         /\ WithColumn(table, c, x).primary_key = table.primary_key
         /\ At(WithColumn(table, c, x), c) = {View(x)}
         /\ \A d : d # c => At(WithColumn(table, c, x), d) = At(table, d)
  <1>. DEFINE s == table.columns
              r == [k \in DOMAIN s |-> IF s[k].name = c THEN x ELSE s[k]]
              new == WithColumn(table, c, x)
  <1>1. /\ s \in Seq(Columns) /\ \A i, j \in 1 .. Len(s) : s[i].name = s[j].name => i = j
        /\ table = [columns |-> table.columns, primary_key |-> table.primary_key]
    BY DEF TableOK
  <1>2. new = [columns |-> r, primary_key |-> table.primary_key]
    BY <1>1 DEF WithColumn
  <1>3. PICK m \in 1 .. Len(s) : s[m].name = c
    BY <1>1 DEF ColumnNames
  <1>. HIDE DEF s
  <1>4. /\ r \in Seq(Columns) /\ Len(r) = Len(s) /\ DOMAIN r = 1 .. Len(s) /\ DOMAIN s = 1 .. Len(s)
        /\ \A k \in 1 .. Len(s) : r[k] = IF s[k].name = c THEN x ELSE s[k]
    BY <1>1
  <1>. HIDE DEF r
  <1>5. new.columns = r /\ new.primary_key = table.primary_key
        /\ new = [columns |-> new.columns, primary_key |-> new.primary_key]
    BY <1>2
  <1>. HIDE DEF new
  <1>6. \A k \in 1 .. Len(s) : r[k].name = s[k].name
    BY <1>4
  <1>7. TableOK(new)
    BY <1>1, <1>4, <1>5, <1>6 DEF TableOK
  <1>8. At(new, c) = {View(x)}
    <2>1. {y \in ToSet(new.columns) : y.name = c} = {x}
      <3>1. x \in ToSet(r)
        <4>1. r[m] = x
          BY <1>3, <1>4
        <4>. QED  BY <4>1, <1>4 DEF ToSet
      <3>2. \A y \in ToSet(r) : y.name = c => y = x
        BY <1>4, <1>6 DEF ToSet
      <3>. QED  BY <3>1, <3>2, <1>5
    <2>. QED  BY <2>1 DEF At
  <1>9. ASSUME NEW d, d # c PROVE At(new, d) = At(table, d)
    <2>1. \A k \in 1 .. Len(s) : r[k].name = d => r[k] = s[k]
      BY <1>4, <1>9
    <2>2. \A k \in 1 .. Len(s) : s[k].name = d => r[k] = s[k]
      BY <1>4, <1>9
    <2>3. {y \in ToSet(r) : y.name = d} = {y \in ToSet(s) : y.name = d}
      BY <2>1, <2>2, <1>4 DEF ToSet
    <2>. QED  BY <1>5, <2>3 DEF At, s
  <1>. QED  BY <1>5, <1>7, <1>8, <1>9 DEF new

\* One table of a database replaced.
LEMMA TableReplaced ==
  ASSUME NEW tables, TablesOK(tables), NEW name \in DOMAIN tables, NEW table, TableOK(table)
  PROVE  LET after == [tables EXCEPT ![name] = table]
         IN  /\ TablesOK(after) /\ DOMAIN after = DOMAIN tables /\ after[name] = table
             /\ \A other \in DOMAIN tables : other # name => after[other] = tables[other]
  <1>. DEFINE after == [tables EXCEPT ![name] = table]
  <1>1. /\ DOMAIN after = DOMAIN tables /\ after[name] = table
        /\ \A other \in DOMAIN tables : other # name => after[other] = tables[other]
        /\ after = [other \in DOMAIN after |-> after[other]]
    BY DEF TablesOK
  <1>. HIDE DEF after
  <1>. QED  BY <1>1 DEF TablesOK, after

\* A table before and after an operation on its column c: only that column is
\* another, unless it is added or goes.
OnlyColumn(before, after, c) ==
  /\ TableOK(after)
  /\ after.primary_key = before.primary_key
  /\ \A d : d # c => At(after, d) = At(before, d)

\* What ADD COLUMN does to a table: the column is there, nothing else moved.
LEMMA AddColumnIs ==
  ASSUME NEW table, TableOK(table), NEW x \in Columns, x.name \notin ColumnNames(table)
  PROVE  LET after == [table EXCEPT !.columns = Append(@, x)]
         IN  OnlyColumn(table, after, x.name) /\ At(after, x.name) = {View(x)}
  <1>. DEFINE s == table.columns
              after == [table EXCEPT !.columns = Append(@, x)]
  <1>1. /\ s \in Seq(Columns) /\ \A i, j \in 1 .. Len(s) : s[i].name = s[j].name => i = j
        /\ table = [columns |-> table.columns, primary_key |-> table.primary_key]
    BY DEF TableOK
  <1>2. after = [columns |-> Append(s, x), primary_key |-> table.primary_key]
    BY <1>1
  <1>3. \A k \in 1 .. Len(s) : s[k].name # x.name
    BY <1>1 DEF ColumnNames
  <1>4. /\ Append(s, x) \in Seq(Columns) /\ Len(Append(s, x)) = Len(s) + 1
        /\ \A k \in 1 .. Len(s) : Append(s, x)[k] = s[k]
        /\ Append(s, x)[Len(s) + 1] = x
        /\ DOMAIN s = 1 .. Len(s) /\ DOMAIN Append(s, x) = 1 .. Len(s) + 1 /\ Len(s) \in Nat
    BY <1>1
  <1>. DEFINE r == Append(s, x)
  <1>5. after.columns = r /\ after.primary_key = table.primary_key
        /\ after = [columns |-> after.columns, primary_key |-> after.primary_key]
    BY <1>2
  <1>6. /\ r \in Seq(Columns) /\ Len(r) = Len(s) + 1 /\ \A k \in 1 .. Len(s) : r[k] = s[k]
        /\ r[Len(s) + 1] = x /\ DOMAIN r = 1 .. Len(s) + 1
    BY <1>4
  <1>. HIDE DEF r, after, s
  <1>7. \A k \in 1 .. Len(s) + 1 : k \in 1 .. Len(s) \/ k = Len(s) + 1
    BY <1>4
  <1>8. TableOK(after)
    <2>1. \A i, j \in 1 .. Len(s) + 1 : r[i].name = r[j].name => i = j
      BY <1>1, <1>3, <1>6, <1>7
    <2>. QED  BY <1>5, <1>6, <2>1 DEF TableOK
  <1>9. ToSet(r) = ToSet(s) \cup {x}
    <2>1. \A k \in 1 .. Len(s) : k \in 1 .. Len(s) + 1
      BY <1>4
    <2>2. Len(s) + 1 \in 1 .. Len(s) + 1
      BY <1>4
    <2>. QED  BY <1>4, <1>6, <1>7, <2>1, <2>2 DEF ToSet
  <1>10. \A y \in ToSet(s) : y.name # x.name
    BY <1>3, <1>4 DEF ToSet
  <1>11. ASSUME NEW d, d # x.name PROVE At(after, d) = At(table, d)
    <2>1. {y \in ToSet(r) : y.name = d} = {y \in ToSet(s) : y.name = d}
      BY <1>9, <1>11
    <2>. QED  BY <1>5, <2>1 DEF At, s
  <1>12. At(after, x.name) = {View(x)}
    <2>1. {y \in ToSet(r) : y.name = x.name} = {x}
      BY <1>9, <1>10
    <2>. QED  BY <1>5, <2>1 DEF At
  <1>. QED  BY <1>5, <1>8, <1>11, <1>12 DEF OnlyColumn, after

\* What DROP COLUMN does to a table: the column is gone, nothing else moved.
LEMMA DropColumnIs ==
  ASSUME NEW table, TableOK(table), NEW c
  PROVE  LET after == [table EXCEPT !.columns =
                         Within(@, {column \in ToSet(@) : column.name # c})]
         IN  OnlyColumn(table, after, c) /\ At(after, c) = {}
  <1>. DEFINE s == table.columns
              others == {column \in ToSet(s) : column.name # c}
              r == Within(s, others)
              after == [table EXCEPT !.columns =
                          Within(@, {column \in ToSet(@) : column.name # c})]
  <1>1. table = [columns |-> table.columns, primary_key |-> table.primary_key]
    BY DEF TableOK
  <1>2. after = [columns |-> r, primary_key |-> table.primary_key]
    BY <1>1
  <1>3. Lists(s, ToSet(s)) /\ others \in SUBSET ToSet(s) /\ ToSet(s) \in SUBSET Columns
    BY ColumnLists, TableColumns
  <1>4. \A x, y \in ToSet(s) : x.name = y.name => x = y
    BY TableColumns
  <1>5. \A x : x \in others <=> x \in ToSet(s) /\ x.name # c
    OBVIOUS
  <1>. HIDE DEF s, others
  <1>6. Lists(r, others)
    BY <1>3, WithinOf
  <1>7. after.columns = r /\ after.primary_key = table.primary_key
        /\ after = [columns |-> after.columns, primary_key |-> after.primary_key]
    BY <1>2
  <1>. HIDE DEF r, after
  <1>8. r \in Seq(others) /\ IsInjective(r) /\ ToSet(r) = others
    BY <1>6 DEF Lists
  <1>9. r \in Seq(Columns) /\ DOMAIN r = 1 .. Len(r) /\ \A k \in 1 .. Len(r) : r[k] \in ToSet(s)
    BY <1>3, <1>8
  <1>10. \A i, j \in 1 .. Len(r) : r[i].name = r[j].name => i = j
    BY <1>4, <1>8, <1>9 DEF IsInjective
  <1>11. TableOK(after)
    BY <1>7, <1>9, <1>10 DEF TableOK
  <1>12. ASSUME NEW d, d # c PROVE At(after, d) = At(table, d)
    <2>1. {y \in ToSet(r) : y.name = d} = {y \in ToSet(s) : y.name = d}
      BY <1>5, <1>8, <1>12
    <2>. QED  BY <1>7, <2>1 DEF At, s
  <1>13. At(after, c) = {}
    <2>1. {y \in ToSet(r) : y.name = c} = {}
      BY <1>5, <1>8
    <2>. QED  BY <1>7, <2>1 DEF At
  <1>. QED  BY <1>7, <1>11, <1>12, <1>13 DEF OnlyColumn, after

\* What an operation that succeeds leaves: the other tables as they were, and
\* its own with its column added, gone or changed.
Leaves(op, before, after) ==
  /\ TablesOK(after)
  /\ \A name : name # op.name =>
       /\ name \in DOMAIN after <=> name \in DOMAIN before
       /\ name \in DOMAIN before => after[name] = before[name]
  /\ op.kind = "CreateTable" => op.name \in DOMAIN after /\ after[op.name] = Stored(op.table)
  /\ op.kind = "DropTable" => op.name \notin DOMAIN after
  /\ op.kind \notin {"CreateTable", "DropTable"} =>
       /\ op.name \in DOMAIN before /\ op.name \in DOMAIN after
       /\ OnlyColumn(before[op.name], after[op.name], ColumnTouched(op))
  /\ op.kind = "AddColumn" =>
       At(after[op.name], op.column.name) = {View(StoredColumn(op.column, {}))}
  /\ op.kind = "DropColumn" => At(after[op.name], op.column.name) = {}
  /\ \A view \in At(before[op.name], op.column) :
       /\ op.kind = "AlterType" =>
            At(after[op.name], op.column) =
              {[name |-> op.column, type |-> CatalogType(StoredType(op.to)), nullable |-> view.nullable]}
       /\ op.kind = "SetNotNull" =>
            At(after[op.name], op.column) =
              {[name |-> op.column, type |-> view.type, nullable |-> FALSE]}
       /\ op.kind = "DropNotNull" =>
            At(after[op.name], op.column) =
              {[name |-> op.column, type |-> view.type, nullable |-> TRUE]}

\* One field of a column changed.
LEMMA TypeChanged ==
  ASSUME NEW x \in Columns, NEW type \in Types
  PROVE  /\ [x EXCEPT !.type = type] \in Columns /\ [x EXCEPT !.type = type].name = x.name
         /\ View([x EXCEPT !.type = type])
              = [name |-> x.name, type |-> CatalogType(type), nullable |-> View(x).nullable]
  <1>1. /\ [x EXCEPT !.type = type] \in Columns /\ [x EXCEPT !.type = type].name = x.name
        /\ [x EXCEPT !.type = type].type = type /\ [x EXCEPT !.type = type].nullable = x.nullable
    BY DEF Columns
  <1>2. View(x).nullable = x.nullable
    BY DEF View
  <1>. QED  BY <1>1, <1>2 DEF View

\* What ALTER COLUMN ... SET or DROP NOT NULL does to one column.
LEMMA NullsChanged ==
  ASSUME NEW x \in Columns, NEW nulls \in BOOLEAN
  PROVE  /\ [x EXCEPT !.nullable = nulls] \in Columns
         /\ [x EXCEPT !.nullable = nulls].name = x.name
         /\ View([x EXCEPT !.nullable = nulls])
              = [name |-> x.name, type |-> View(x).type, nullable |-> nulls]
  <1>1. /\ [x EXCEPT !.nullable = nulls] \in Columns /\ [x EXCEPT !.nullable = nulls].name = x.name
        /\ [x EXCEPT !.nullable = nulls].type = x.type
        /\ [x EXCEPT !.nullable = nulls].nullable = nulls
    BY DEF Columns
  <1>2. View(x).type = CatalogType(x.type)
    BY DEF View
  <1>. QED  BY <1>1, <1>2 DEF View

\* An operation that succeeds leaves sound tables and touches only the table
\* and the column that it names.
LEMMA ResultLeaves ==
  ASSUME NEW tables, TablesOK(tables), NEW keys, NEW op, OperationOK(op),
         Succeeds(op, tables, keys)
  PROVE  Leaves(op, tables, Result(op, tables))
  <1>. DEFINE after == Result(op, tables)
              table == tables[op.name]
  <1>1. op.kind \in {"CreateTable", "DropTable", "AddColumn", "DropColumn", "AlterType",
                    "SetNotNull", "DropNotNull"}
    BY DEF OperationOK
  <1>2. CASE op.kind = "CreateTable"
    <2>1. after = [name \in DOMAIN tables \cup {op.name} |->
                     IF name = op.name THEN Stored(op.table) ELSE tables[name]]
      BY <1>2 DEF Result
    <2>2. TableOK(Stored(op.table))
      BY <1>2, StoredOK DEF OperationOK
    <2>. HIDE DEF after
    <2>3. /\ DOMAIN after = DOMAIN tables \cup {op.name}
          /\ after[op.name] = Stored(op.table)
          /\ \A name : name # op.name /\ name \in DOMAIN tables => after[name] = tables[name]
          /\ after = [name \in DOMAIN after |-> after[name]]
      BY <2>1
    <2>4. TablesOK(after)
      BY <2>2, <2>3 DEF TablesOK
    <2>. QED  BY <1>2, <2>3, <2>4 DEF Leaves, after
  <1>3. CASE op.kind = "DropTable"
    <2>1. after = [name \in DOMAIN tables \ {op.name} |-> tables[name]]
      BY <1>3 DEF Result
    <2>. HIDE DEF after
    <2>2. /\ DOMAIN after = DOMAIN tables \ {op.name}
          /\ \A name : name # op.name /\ name \in DOMAIN tables => after[name] = tables[name]
          /\ after = [name \in DOMAIN after |-> after[name]]
      BY <2>1
    <2>3. TablesOK(after)
      BY <2>2 DEF TablesOK
    <2>. QED  BY <1>3, <2>2, <2>3 DEF Leaves, after
  <1>4. CASE op.kind = "AddColumn"
    <2>. DEFINE x == StoredColumn(op.column, {})
                new == [table EXCEPT !.columns = Append(@, x)]
    <2>1. op.name \in DOMAIN tables /\ op.column.name \notin ColumnNames(table) /\ op.column \in Columns
      BY <1>4 DEF Succeeds, OperationOK
    <2>2. x \in Columns /\ x.name = op.column.name
      BY <2>1, StoredColumnOK
    <2>3. after = [tables EXCEPT ![op.name] = new]
      BY <1>4, <2>1 DEF Result
    <2>4. TableOK(table)
      BY <2>1 DEF TablesOK
    <2>. HIDE DEF x
    <2>5. OnlyColumn(table, new, x.name) /\ At(new, x.name) = {View(x)}
      BY <2>1, <2>2, <2>4, AddColumnIs
    <2>. HIDE DEF after, new, table
    <2>6. /\ TablesOK(after) /\ DOMAIN after = DOMAIN tables /\ after[op.name] = new
          /\ \A other \in DOMAIN tables : other # op.name => after[other] = tables[other]
      BY <2>1, <2>3, <2>5, TableReplaced DEF OnlyColumn
    <2>7. ColumnTouched(op) = x.name
      BY <1>4, <2>2 DEF ColumnTouched
    <2>. QED  BY <1>4, <2>1, <2>2, <2>5, <2>6, <2>7 DEF Leaves, after, table, x
  <1>5. CASE op.kind = "DropColumn"
    <2>. DEFINE c == op.column.name
                new == [table EXCEPT !.columns =
                          Within(@, {column \in ToSet(@) : column.name # c})]
    <2>1. op.name \in DOMAIN tables
      BY <1>5 DEF Succeeds
    <2>2. TableOK(table)
      BY <2>1 DEF TablesOK
    <2>3. after = [tables EXCEPT ![op.name] = new]
      BY <1>5, <2>1 DEF Result
    <2>4. OnlyColumn(table, new, c) /\ At(new, c) = {}
      BY <2>2, DropColumnIs
    <2>5. ColumnTouched(op) = c
      BY <1>5 DEF ColumnTouched
    <2>. HIDE DEF after, new, table
    <2>6. /\ TablesOK(after) /\ DOMAIN after = DOMAIN tables /\ after[op.name] = new
          /\ \A other \in DOMAIN tables : other # op.name => after[other] = tables[other]
      BY <2>1, <2>3, <2>4, TableReplaced DEF OnlyColumn
    <2>. QED  BY <1>5, <2>1, <2>4, <2>5, <2>6 DEF Leaves, after, table
  <1>6. ASSUME NEW x \in Columns, x.name = op.column, op.kind \in {"AlterType", "SetNotNull", "DropNotNull"},
               op.name \in DOMAIN tables, op.column \in ColumnNames(table),
               after = [tables EXCEPT ![op.name] = WithColumn(table, op.column, x)]
        PROVE  /\ TablesOK(after) /\ DOMAIN after = DOMAIN tables
               /\ \A other \in DOMAIN tables : other # op.name => after[other] = tables[other]
               /\ OnlyColumn(table, after[op.name], ColumnTouched(op))
               /\ At(after[op.name], op.column) = {View(x)}
    <2>1. TableOK(table)
      BY <1>6 DEF TablesOK
    <2>. DEFINE new == WithColumn(table, op.column, x)
    <2>2. OnlyColumn(table, new, op.column) /\ At(new, op.column) = {View(x)}
      BY <1>6, <2>1, WithColumnIs DEF OnlyColumn
    <2>3. ColumnTouched(op) = op.column
      BY <1>6 DEF ColumnTouched
    <2>. HIDE DEF after, new, table
    <2>4. after = [tables EXCEPT ![op.name] = new]
      BY <1>6 DEF new
    <2>5. /\ TablesOK(after) /\ DOMAIN after = DOMAIN tables /\ after[op.name] = new
          /\ \A other \in DOMAIN tables : other # op.name => after[other] = tables[other]
      <3>1. op.name \in DOMAIN tables /\ TableOK(new)
        BY <1>6, <2>2 DEF OnlyColumn
      <3>. QED  BY <2>4, <3>1, TableReplaced
    <2>. QED  BY <2>2, <2>3, <2>5
  <1>7. ASSUME op.kind \in {"AlterType", "SetNotNull", "DropNotNull"}
        PROVE  /\ op.name \in DOMAIN tables /\ op.column \in ColumnNames(table)
               /\ ColumnOf(table, op.column) \in Columns
               /\ ColumnOf(table, op.column).name = op.column
               /\ At(table, op.column) = {View(ColumnOf(table, op.column))}
    <2>1. op.name \in DOMAIN tables /\ op.column \in ColumnNames(table)
      BY <1>7 DEF Succeeds
    <2>2. TableOK(table)
      BY <2>1 DEF TablesOK
    <2>. QED  BY <2>1, <2>2, AtIs
  <1>. DEFINE old == ColumnOf(table, op.column)
  <1>8. CASE op.kind = "AlterType"
    <2>. DEFINE type == StoredType(op.to)
                x == [old EXCEPT !.type = type]
    <2>1. type \in Types
      BY <1>8, TypesOK DEF OperationOK
    <2>2. after = [tables EXCEPT ![op.name] = WithColumn(table, op.column, x)]
      BY <1>7, <1>8 DEF Result
    <2>. HIDE DEF old, type
    <2>3. /\ x \in Columns /\ x.name = op.column
          /\ View(x) = [name |-> op.column, type |-> CatalogType(type), nullable |-> View(old).nullable]
      BY <1>7, <1>8, <2>1, TypeChanged DEF old
    <2>. HIDE DEF x, after, table
    <2>4. /\ TablesOK(after) /\ DOMAIN after = DOMAIN tables
          /\ \A other \in DOMAIN tables : other # op.name => after[other] = tables[other]
          /\ OnlyColumn(table, after[op.name], ColumnTouched(op))
          /\ At(after[op.name], op.column) = {View(x)}
      BY <1>6, <1>7, <1>8, <2>2, <2>3
    <2>5. \A view \in At(table, op.column) : view = View(old)
      BY <1>7, <1>8 DEF old
    <2>. QED  BY <1>7, <1>8, <2>3, <2>4, <2>5 DEF Leaves, after, table, type
  <1>9. CASE op.kind = "SetNotNull"
    <2>. DEFINE x == [old EXCEPT !.nullable = FALSE]
    <2>1. after = [tables EXCEPT ![op.name] = WithColumn(table, op.column, x)]
      BY <1>7, <1>9 DEF Result
    <2>5. FALSE \in BOOLEAN /\ old \in Columns /\ old.name = op.column
      BY <1>7, <1>9
    <2>. HIDE DEF old
    <2>2. /\ x \in Columns /\ x.name = op.column
          /\ View(x) = [name |-> op.column, type |-> View(old).type, nullable |-> FALSE]
      <3>1. /\ x \in Columns /\ x.name = old.name
            /\ View(x) = [name |-> old.name, type |-> View(old).type, nullable |-> FALSE]
        BY <2>5, NullsChanged
      <3>. QED  BY <2>5, <3>1
    <2>. HIDE DEF x, after, table
    <2>3. /\ TablesOK(after) /\ DOMAIN after = DOMAIN tables
          /\ \A other \in DOMAIN tables : other # op.name => after[other] = tables[other]
          /\ OnlyColumn(table, after[op.name], ColumnTouched(op))
          /\ At(after[op.name], op.column) = {View(x)}
      BY <1>6, <1>7, <1>9, <2>1, <2>2
    <2>4. \A view \in At(table, op.column) : view = View(old)
      BY <1>7, <1>9 DEF old
    <2>. QED  BY <1>7, <1>9, <2>2, <2>3, <2>4 DEF Leaves, after, table
  <1>10. CASE op.kind = "DropNotNull"
    <2>. DEFINE x == [old EXCEPT !.nullable = TRUE]
    <2>1. after = [tables EXCEPT ![op.name] = WithColumn(table, op.column, x)]
      BY <1>7, <1>10 DEF Result
    <2>5. TRUE \in BOOLEAN /\ old \in Columns /\ old.name = op.column
      BY <1>7, <1>10
    <2>. HIDE DEF old
    <2>2. /\ x \in Columns /\ x.name = op.column
          /\ View(x) = [name |-> op.column, type |-> View(old).type, nullable |-> TRUE]
      <3>1. /\ x \in Columns /\ x.name = old.name
            /\ View(x) = [name |-> old.name, type |-> View(old).type, nullable |-> TRUE]
        BY <2>5, NullsChanged
      <3>. QED  BY <2>5, <3>1
    <2>. HIDE DEF x, after, table
    <2>3. /\ TablesOK(after) /\ DOMAIN after = DOMAIN tables
          /\ \A other \in DOMAIN tables : other # op.name => after[other] = tables[other]
          /\ OnlyColumn(table, after[op.name], ColumnTouched(op))
          /\ At(after[op.name], op.column) = {View(x)}
      BY <1>6, <1>7, <1>10, <2>1, <2>2
    <2>4. \A view \in At(table, op.column) : view = View(old)
      BY <1>7, <1>10 DEF old
    <2>. QED  BY <1>7, <1>10, <2>2, <2>3, <2>4 DEF Leaves, after, table
  <1>. QED  BY <1>1, <1>2, <1>3, <1>4, <1>5, <1>8, <1>9, <1>10

-----------------------------------------------------------------------------
(***************************************************************************)
(* The tables after a sequence of operations.                              *)
(***************************************************************************)

\* One more operation, and the equation of the recursive function in States.
Ran(ops, tables, keys, state, n) ==
  IF state.ok /\ Succeeds(ops[n], state.tables, keys)
  THEN [ok |-> TRUE, tables |-> Result(ops[n], state.tables)]
  ELSE [ok |-> FALSE, tables |-> tables]

\* The equation of the recursive function that Run unfolds.
RunsUpTo(g, ops, tables, keys, n) ==
  g = [k \in 0 .. n |-> IF k = 0 THEN [ok |-> TRUE, tables |-> tables]
                        ELSE Ran(ops, tables, keys, g[k - 1], k)]

\* That equation has a solution.
LEMMA RunsExist ==
  ASSUME NEW ops, NEW tables, NEW keys, NEW n \in Nat
  PROVE  \E g : RunsUpTo(g, ops, tables, keys, n)
  <1>. DEFINE B == {k \in Nat : ~ \E g : RunsUpTo(g, ops, tables, keys, k)}
  <1>1. SUFFICES ASSUME B # {} PROVE FALSE
    OBVIOUS
  <1>2. PICK m \in B : \A k \in B : m <= k
    BY <1>1, LeastExists
  <1>3. CASE m = 0
    <2>1. RunsUpTo([k \in 0 .. 0 |-> [ok |-> TRUE, tables |-> tables]], ops, tables, keys, 0)
      BY DEF RunsUpTo
    <2>. QED  BY <1>2, <1>3, <2>1
  <1>4. CASE m # 0
    <2>1. m - 1 \in Nat /\ ~(m <= m - 1)
      BY <1>4
    <2>2. PICK g : RunsUpTo(g, ops, tables, keys, m - 1)
      BY <1>2, <2>1
    <2>. DEFINE h == [k \in 0 .. m |-> IF k = m THEN Ran(ops, tables, keys, g[m - 1], m) ELSE g[k]]
    <2>3. ASSUME NEW k \in 0 .. m
          PROVE  h[k] = IF k = 0 THEN [ok |-> TRUE, tables |-> tables]
                        ELSE Ran(ops, tables, keys, h[k - 1], k)
      <3>1. CASE k = m
        <4>1. h[m] = Ran(ops, tables, keys, g[m - 1], m) /\ h[m - 1] = g[m - 1]
          BY <1>4, <2>1
        <4>. HIDE DEF h
        <4>. QED  BY <1>4, <3>1, <4>1
      <3>2. CASE k # m
        <4>1. k \in 0 .. m - 1 /\ h[k] = g[k]
          BY <3>2
        <4>2. k # 0 => k - 1 \in 0 .. m /\ h[k - 1] = g[k - 1]
          BY <3>2
        <4>3. g[k] = IF k = 0 THEN [ok |-> TRUE, tables |-> tables]
                     ELSE Ran(ops, tables, keys, g[k - 1], k)
          BY <2>2, <4>1 DEF RunsUpTo
        <4>. HIDE DEF h
        <4>. QED  BY <4>1, <4>2, <4>3
      <3>. QED  BY <3>1, <3>2
    <2>4. h = [k \in 0 .. m |-> h[k]]
      OBVIOUS
    <2>. HIDE DEF h
    <2>5. RunsUpTo(h, ops, tables, keys, m)
      BY <2>3, <2>4 DEF RunsUpTo
    <2>. QED  BY <1>2, <2>5
  <1>. QED  BY <1>3, <1>4

\* The tables before the first and after each of the operations.
LEMMA StatesRun ==
  ASSUME NEW ops, Len(ops) \in Nat, NEW tables, NEW keys
  PROVE  \E run : /\ States(ops, tables, keys) = run[Len(ops)]
                  /\ run[0] = [ok |-> TRUE, tables |-> tables]
                  /\ \A k \in 1 .. Len(ops) : run[k] = Ran(ops, tables, keys, run[k - 1], k)
  <1>. DEFINE n == Len(ops)
              f == CHOOSE g : RunsUpTo(g, ops, tables, keys, n)
  <1>1. States(ops, tables, keys) = f[n]
    BY DEF States, RunsUpTo, Ran
  <1>2. RunsUpTo(f, ops, tables, keys, n)
    BY RunsExist
  <1>. HIDE DEF f
  <1>3. f[0] = [ok |-> TRUE, tables |-> tables]
        /\ \A k \in 1 .. n : f[k] = Ran(ops, tables, keys, f[k - 1], k)
    <2>1. 0 \in 0 .. n /\ \A k \in 1 .. n : k \in 0 .. n /\ k # 0
      OBVIOUS
    <2>2. \A k \in 0 .. n : f[k] = IF k = 0 THEN [ok |-> TRUE, tables |-> tables]
                                     ELSE Ran(ops, tables, keys, f[k - 1], k)
      BY <1>2 DEF RunsUpTo
    <2>. QED  BY <2>1, <2>2
  <1>. QED  BY <1>1, <1>3

\* An operation on a column of a table.
OnColumn(op, name, c) ==
  /\ op.kind \notin {"CreateTable", "DropTable"}
  /\ op.name = name
  /\ ColumnTouched(op) = c

\* A step that may lose what is in a column.
Alters(op) == op.kind \in {"DropColumn", "AlterType"}

\* The types of the columns of a name: one, if there is such a column.
TypesAt(table, c) == {view.type : view \in At(table, c)}

\* What the first n operations are not about is as it was, and a column goes or
\* takes another type only by an operation that drops or alters it.
Untouched(ops, n, before, after) ==
  \A name \in DOMAIN before :
    (\A i \in 1 .. n : ~(ops[i].kind = "DropTable" /\ ops[i].name = name)) =>
      /\ name \in DOMAIN after
      /\ after[name].primary_key = before[name].primary_key
      /\ \A c : (\A i \in 1 .. n : ~OnColumn(ops[i], name, c)) =>
                  At(after[name], c) = At(before[name], c)
      /\ \A c : At(before[name], c) # {}
                  /\ (\A i \in 1 .. n : ~(Alters(ops[i]) /\ OnColumn(ops[i], name, c))) =>
                  TypesAt(after[name], c) = TypesAt(before[name], c)

\* A single column has a single type.
LEMMA OneType ==
  ASSUME NEW table, NEW c, NEW new, At(table, c) = {new}
  PROVE  TypesAt(table, c) = {new.type}
  BY DEF TypesAt

\* What no operation of a migration named is untouched after one more that
\* does not name it either.
LEMMA UntouchedStep ==
  ASSUME NEW ops, NEW n \in Nat, n # 0, NEW before, NEW middle, NEW after, NEW keys,
         Untouched(ops, n - 1, before, middle), OperationOK(ops[n]),
         Succeeds(ops[n], middle, keys), Leaves(ops[n], middle, after)
  PROVE  Untouched(ops, n, before, after)
  <1>. DEFINE op == ops[n]
  <1>1. n - 1 \in Nat /\ n \in 1 .. n /\ \A i \in 1 .. n - 1 : i \in 1 .. n
    OBVIOUS
  <1>2. ASSUME NEW name \in DOMAIN before,
               \A i \in 1 .. n : ~(ops[i].kind = "DropTable" /\ ops[i].name = name)
        PROVE  /\ name \in DOMAIN after
               /\ after[name].primary_key = before[name].primary_key
               /\ \A c : (\A i \in 1 .. n : ~OnColumn(ops[i], name, c)) =>
                           At(after[name], c) = At(before[name], c)
               /\ \A c : At(before[name], c) # {}
                           /\ (\A i \in 1 .. n : ~(Alters(ops[i]) /\ OnColumn(ops[i], name, c))) =>
                           TypesAt(after[name], c) = TypesAt(before[name], c)
    <2>1. /\ name \in DOMAIN middle
          /\ middle[name].primary_key = before[name].primary_key
          /\ \A c : (\A i \in 1 .. n : ~OnColumn(ops[i], name, c)) =>
                      At(middle[name], c) = At(before[name], c)
          /\ \A c : At(before[name], c) # {}
                      /\ (\A i \in 1 .. n : ~(Alters(ops[i]) /\ OnColumn(ops[i], name, c))) =>
                      TypesAt(middle[name], c) = TypesAt(before[name], c)
      BY <1>1, <1>2 DEF Untouched
    <2>2. CASE op.name # name
      <3>1. name \in DOMAIN after /\ after[name] = middle[name]
        BY <2>1, <2>2 DEF Leaves
      <3>. QED  BY <2>1, <3>1
    <2>3. CASE op.name = name
      <3>1. op.kind \notin {"CreateTable", "DropTable"}
        <4>1. op.kind # "DropTable"
          BY <1>1, <1>2, <2>3
        <4>2. op.kind # "CreateTable"
          BY <2>1, <2>3 DEF Succeeds
        <4>. QED  BY <4>1, <4>2
      <3>2. name \in DOMAIN after /\ OnlyColumn(middle[name], after[name], ColumnTouched(op))
        BY <2>3, <3>1 DEF Leaves
      <3>3. after[name].primary_key = before[name].primary_key
        BY <2>1, <3>2 DEF OnlyColumn
      <3>4. ASSUME NEW c, \A i \in 1 .. n : ~OnColumn(ops[i], name, c)
            PROVE  At(after[name], c) = At(before[name], c)
        <4>1. ~OnColumn(op, name, c)
          BY <1>1, <3>4
        <4>2. c # ColumnTouched(op)
          BY <2>3, <3>1, <4>1 DEF OnColumn
        <4>3. At(after[name], c) = At(middle[name], c)
          BY <3>2, <4>2 DEF OnlyColumn
        <4>. QED  BY <2>1, <3>4, <4>3
      <3>5. ASSUME NEW c, At(before[name], c) # {},
                   \A i \in 1 .. n : ~(Alters(ops[i]) /\ OnColumn(ops[i], name, c))
            PROVE  TypesAt(after[name], c) = TypesAt(before[name], c)
        <4>1. TypesAt(middle[name], c) = TypesAt(before[name], c)
          BY <2>1, <3>5
        <4>4. At(middle[name], c) # {}
          BY <3>5, <4>1 DEF TypesAt
        <4>2. CASE c # ColumnTouched(op)
          <5>1. At(after[name], c) = At(middle[name], c)
            BY <3>2, <4>2 DEF OnlyColumn
          <5>. QED  BY <4>1, <5>1 DEF TypesAt
        <4>3. CASE c = ColumnTouched(op)
          <5>1. ~Alters(op)
            BY <1>1, <2>3, <3>1, <3>5, <4>3 DEF OnColumn
          <5>2. op.kind # "AddColumn"
            <6>1. SUFFICES ASSUME op.kind = "AddColumn" PROVE FALSE
              OBVIOUS
            <6>2. c = op.column.name
              BY <4>3, <6>1 DEF ColumnTouched
            <6>3. c \notin ColumnNames(middle[name])
              BY <2>3, <6>1, <6>2 DEF Succeeds
            <6>. QED  BY <4>4, <6>3 DEF At, ColumnNames, ToSet
          <5>3. CASE op.kind \in {"SetNotNull", "DropNotNull"}
            <6>1. c = op.column
              BY <4>3, <5>3 DEF ColumnTouched
            <6>2. ASSUME NEW view \in At(middle[name], c)
                  PROVE  TypesAt(after[name], c) = {view.type}
              <7>1. view \in At(middle[op.name], op.column)
                BY <2>3, <6>1
              <7>2. CASE op.kind = "SetNotNull"
                <8>. DEFINE new == [name |-> op.column, type |-> view.type, nullable |-> FALSE]
                <8>1. At(after[op.name], op.column) = {new}
                  BY <7>1, <7>2 DEF Leaves
                <8>2. new.type = view.type
                  OBVIOUS
                <8>. HIDE DEF new
                <8>3. At(after[name], c) = {new}
                  BY <2>3, <6>1, <8>1
                <8>. QED  BY <8>2, <8>3, OneType
              <7>3. CASE op.kind = "DropNotNull"
                <8>. DEFINE new == [name |-> op.column, type |-> view.type, nullable |-> TRUE]
                <8>1. At(after[op.name], op.column) = {new}
                  BY <7>1, <7>3 DEF Leaves
                <8>2. new.type = view.type
                  OBVIOUS
                <8>. HIDE DEF new
                <8>3. At(after[name], c) = {new}
                  BY <2>3, <6>1, <8>1
                <8>. QED  BY <8>2, <8>3, OneType
              <7>. QED  BY <5>3, <7>2, <7>3
            <6>3. \A view \in At(middle[name], c) : TypesAt(after[name], c) = {view.type}
              BY <6>2
            <6>4. TypesAt(after[name], c) = TypesAt(middle[name], c)
              BY <4>4, <6>3 DEF TypesAt
            <6>. QED  BY <4>1, <6>4
          <5>. QED  BY <3>1, <5>1, <5>2, <5>3 DEF OperationOK, Alters
        <4>. QED  BY <4>2, <4>3
      <3>. QED  BY <3>2, <3>3, <3>4, <3>5
    <2>. QED  BY <2>2, <2>3
  <1>. QED  BY <1>2 DEF Untouched

\* What no operation of a sequence is about is as it was.
LEMMA StatesUntouched ==
  ASSUME NEW tables, TablesOK(tables), NEW keys, NEW ops, Len(ops) \in Nat,
         \A i \in 1 .. Len(ops) : OperationOK(ops[i])
  PROVE  /\ Untouched(ops, Len(ops), tables, States(ops, tables, keys).tables)
         /\ TablesOK(States(ops, tables, keys).tables)
  <1>. DEFINE n == Len(ops)
  <1>1. PICK run : /\ States(ops, tables, keys) = run[n]
                   /\ run[0] = [ok |-> TRUE, tables |-> tables]
                   /\ \A k \in 1 .. n : run[k] = Ran(ops, tables, keys, run[k - 1], k)
    BY StatesRun
  <1>6. n \in Nat
    OBVIOUS
  <1>. HIDE DEF n
  <1>. DEFINE Good(k) == /\ run[k].ok \in BOOLEAN
                         /\ run[k].ok = FALSE => run[k].tables = tables
                         /\ TablesOK(run[k].tables) /\ Untouched(ops, k, tables, run[k].tables)
              B == {k \in 0 .. n : ~Good(k)}
  <1>2. \A k \in 0 .. n : Untouched(ops, k, tables, tables)
    BY DEF Untouched
  <1>3. B = {}
    <2>1. SUFFICES ASSUME B # {} PROVE FALSE
      OBVIOUS
    <2>2. PICK m \in B : \A k \in B : m <= k
      <3>1. B \in SUBSET Nat
        OBVIOUS
      <3>. QED  BY <2>1, <3>1, LeastExists
    <2>3. m \in 0 .. n /\ ~Good(m)
      BY <2>2
    <2>4. CASE m = 0
      <3>1. run[0].ok = TRUE /\ run[0].tables = tables
        BY <1>1
      <3>2. Untouched(ops, 0, tables, tables)
        BY <1>2, <1>6
      <3>. QED  BY <2>3, <2>4, <3>1, <3>2
    <2>5. CASE m # 0
      <3>1. m - 1 \in 0 .. n /\ m \in 1 .. n /\ m \in Nat /\ ~(m <= m - 1)
        <4>1. m \in 0 .. n
          BY <2>3
        <4>. QED  BY <1>6, <2>5, <4>1
      <3>2. Good(m - 1)
        BY <2>2, <3>1
      <3>3. run[m] = Ran(ops, tables, keys, run[m - 1], m)
        BY <1>1, <3>1
      <3>4. CASE run[m - 1].ok /\ Succeeds(ops[m], run[m - 1].tables, keys)
        <4>1. run[m].ok = TRUE /\ run[m].tables = Result(ops[m], run[m - 1].tables)
          BY <3>3, <3>4 DEF Ran
        <4>2. OperationOK(ops[m])
          BY <3>1 DEF n
        <4>3. Leaves(ops[m], run[m - 1].tables, run[m].tables)
          BY <3>2, <3>4, <4>1, <4>2, ResultLeaves
        <4>4. Untouched(ops, m, tables, run[m].tables)
          BY <2>5, <3>1, <3>2, <3>4, <4>2, <4>3, UntouchedStep
        <4>. QED  BY <2>3, <4>1, <4>3, <4>4 DEF Leaves
      <3>5. CASE ~(run[m - 1].ok /\ Succeeds(ops[m], run[m - 1].tables, keys))
        <4>1. run[m].ok = FALSE /\ run[m].tables = tables
          BY <3>3, <3>5 DEF Ran
        <4>. QED  BY <1>2, <2>3, <4>1
      <3>. QED  BY <3>4, <3>5
    <2>. QED  BY <2>4, <2>5
  <1>4. n \in 0 .. n
    BY DEF n
  <1>5. Good(n)
    BY <1>3, <1>4
  <1>. QED  BY <1>1, <1>5 DEF n

-----------------------------------------------------------------------------
(***************************************************************************)
(* Databases and what the planner sees of them.                            *)
(***************************************************************************)

\* A database has finitely many tables, each with columns of different names.
DatabaseOK(database) ==
  /\ "tables" \in DOMAIN database
  /\ DOMAIN database.tables \in SUBSET (Nat \X Nat) /\ IsFiniteSet(DOMAIN database.tables)
  /\ TablesOK(database.tables)

\* A type that is read is read as itself.
LEMMA ReadOnce ==
  ASSUME NEW type \in Types
  PROVE  CatalogType(CatalogType(type)) = CatalogType(type)
  <1>1. [type EXCEPT !.base = "Numeric"].base = "Numeric" /\ NoType.base = "unsupported"
    BY DEF Types, NoType
  <1>2. CASE type.base \in Bases
    <2>1. CatalogType(type) = type
      BY <1>2 DEF CatalogType, Bases
    <2>. QED  BY <2>1
  <1>3. CASE type.base = "PreciseNumeric"
    <2>1. CatalogType(type) = [type EXCEPT !.base = "Numeric"]
      BY <1>3 DEF CatalogType, Bases
    <2>. QED  BY <1>1, <2>1 DEF CatalogType, Bases
  <1>4. CASE type.base \notin Bases /\ type.base # "PreciseNumeric"
    <2>1. CatalogType(type) = NoType
      BY <1>4 DEF CatalogType
    <2>2. CatalogType(NoType) = NoType
      BY <1>1 DEF CatalogType, Bases
    <2>. QED  BY <2>1, <2>2
  <1>. QED  BY <1>2, <1>3, <1>4

\* A table as it is read.
AsRead(table) ==
  [columns |-> [k \in DOMAIN table.columns |-> [table.columns[k] EXCEPT !.type = CatalogType(@)]],
   primary_key |-> table.primary_key]

\* Reading a table changes the text of its types and nothing else.
LEMMA ReadIs ==
  ASSUME NEW table, TableOK(table)
  PROVE  /\ TableOK(AsRead(table)) /\ AsRead(table).primary_key = table.primary_key
         /\ ColumnNames(AsRead(table)) = ColumnNames(table)
         /\ \A c : At(AsRead(table), c) = At(table, c)
         /\ \A x \in ToSet(AsRead(table).columns) : CatalogType(x.type) = x.type
  <1>. DEFINE s == table.columns
              r == [k \in DOMAIN s |-> [s[k] EXCEPT !.type = CatalogType(@)]]
  <1>1. s \in Seq(Columns) /\ \A i, j \in 1 .. Len(s) : s[i].name = s[j].name => i = j
    BY DEF TableOK
  <1>2. AsRead(table) = [columns |-> r, primary_key |-> table.primary_key]
    BY DEF AsRead
  <1>. HIDE DEF s
  <1>3. \A k \in 1 .. Len(s) :
          LET x == [s[k] EXCEPT !.type = CatalogType(@)]
          IN  x \in Columns /\ x.name = s[k].name /\ View(x) = View(s[k]) /\ CatalogType(x.type) = x.type
    <2>. SUFFICES ASSUME NEW k \in 1 .. Len(s)
                  PROVE  LET x == [s[k] EXCEPT !.type = CatalogType(@)]
                         IN  x \in Columns /\ x.name = s[k].name /\ View(x) = View(s[k])
                             /\ CatalogType(x.type) = x.type
      OBVIOUS
    <2>. DEFINE type == CatalogType(s[k].type)
                x == [s[k] EXCEPT !.type = type]
    <2>1. s[k] \in Columns /\ s[k].type \in Types
      <3>1. s[k] \in Columns
        BY <1>1
      <3>. QED  BY <3>1 DEF Columns
    <2>2. type \in Types /\ CatalogType(type) = type
      BY <2>1, TypesOK, ReadOnce
    <2>3. View(s[k]) = [name |-> s[k].name, type |-> type, nullable |-> s[k].nullable]
      BY DEF View
    <2>. HIDE DEF type
    <2>4. x \in Columns /\ x.name = s[k].name /\ x.type = type /\ x.nullable = s[k].nullable
      BY <2>1, <2>2 DEF Columns
    <2>. HIDE DEF x
    <2>5. View(x) = View(s[k])
      BY <2>2, <2>3, <2>4 DEF View
    <2>. QED  BY <2>2, <2>4, <2>5 DEF x, type
  <1>4. /\ r \in Seq(Columns) /\ Len(r) = Len(s) /\ DOMAIN r = 1 .. Len(s) /\ DOMAIN s = 1 .. Len(s)
        /\ \A k \in 1 .. Len(s) : r[k].name = s[k].name /\ View(r[k]) = View(s[k])
                                 /\ CatalogType(r[k].type) = r[k].type
    BY <1>1, <1>3
  <1>. HIDE DEF r
  <1>5. /\ AsRead(table).columns = r /\ AsRead(table).primary_key = table.primary_key
        /\ AsRead(table) = [columns |-> AsRead(table).columns, primary_key |-> AsRead(table).primary_key]
    BY <1>2
  <1>6. TableOK(AsRead(table))
    BY <1>1, <1>4, <1>5 DEF TableOK
  <1>7. ColumnNames(AsRead(table)) = ColumnNames(table)
    BY <1>4, <1>5 DEF ColumnNames, s
  <1>8. ASSUME NEW c PROVE At(AsRead(table), c) = At(table, c)
    <2>1. \A v : v \in At(AsRead(table), c) <=> \E k \in 1 .. Len(s) : r[k].name = c /\ v = View(r[k])
      BY <1>4, <1>5 DEF At, ToSet
    <2>2. \A v : v \in At(table, c) <=> \E k \in 1 .. Len(s) : s[k].name = c /\ v = View(s[k])
      BY <1>4 DEF At, ToSet, s
    <2>3. \A v : v \in At(AsRead(table), c) <=> v \in At(table, c)
      BY <1>4, <2>1, <2>2
    <2>4. /\ At(AsRead(table), c) = {View(x) : x \in {y \in ToSet(AsRead(table).columns) : y.name = c}}
          /\ At(table, c) = {View(x) : x \in {y \in ToSet(table.columns) : y.name = c}}
      BY DEF At
    <2>. QED  BY <2>3, <2>4
  <1>9. \A x \in ToSet(AsRead(table).columns) : CatalogType(x.type) = x.type
    BY <1>4, <1>5 DEF ToSet
  <1>. QED  BY <1>5, <1>6, <1>7, <1>8, <1>9

\* The tables the planner sees.
LEMMA LiveOK ==
  ASSUME NEW database, DatabaseOK(database), NEW namespaces
  PROVE  LET live == LiveTables(database, namespaces)
         IN  /\ SchemaOK(live)
             /\ DOMAIN live = {name \in DOMAIN database.tables : name[1] \in namespaces}
             /\ \A name \in DOMAIN live : live[name] = AsRead(database.tables[name])
  <1>. DEFINE live == LiveTables(database, namespaces)
  <1>1. live = [name \in LoadedNames(database, namespaces) |-> AsRead(database.tables[name])]
    BY DEF LiveTables, AsRead
  <1>2. DOMAIN live = {name \in DOMAIN database.tables : name[1] \in namespaces}
    BY <1>1 DEF LoadedNames
  <1>3. \A name \in DOMAIN live : live[name] = AsRead(database.tables[name])
    BY <1>1
  <1>. HIDE DEF live
  <1>4. DOMAIN live \in SUBSET DOMAIN database.tables
    BY <1>2
  <1>5. IsFiniteSet(DOMAIN live) /\ DOMAIN live \in SUBSET (Nat \X Nat)
    BY <1>4, FS_Subset DEF DatabaseOK
  <1>6. \A name \in DOMAIN live : TableOK(live[name])
    BY <1>3, <1>4, ReadIs DEF DatabaseOK, TablesOK
  <1>. QED  BY <1>2, <1>3, <1>5, <1>6 DEF SchemaOK, live

\* Shapes, column by column.
LEMMA ShapeIs ==
  ASSUME NEW tables, NEW name \in DOMAIN tables
  PROVE  /\ DOMAIN Shape(tables) = DOMAIN tables
         /\ Shape(tables)[name].primary_key = tables[name].primary_key
         /\ \A v : v \in Shape(tables)[name].columns <=> \E c : v \in At(tables[name], c)
         /\ \A c : {column \in Shape(tables)[name].columns : column.name = c} = At(tables[name], c)
         /\ Shape(tables)[name] = [columns |-> Shape(tables)[name].columns,
                                   primary_key |-> Shape(tables)[name].primary_key]
  <1>1. Shape(tables)[name] = [columns |-> {View(x) : x \in ToSet(tables[name].columns)},
                               primary_key |-> tables[name].primary_key]
    BY DEF Shape, View
  <1>2. DOMAIN Shape(tables) = DOMAIN tables
    BY DEF Shape
  <1>3. \A v : v \in Shape(tables)[name].columns <=> \E x \in ToSet(tables[name].columns) : v = View(x)
    BY <1>1
  <1>4. \A c : \A v : v \in At(tables[name], c)
                        <=> \E x \in ToSet(tables[name].columns) : x.name = c /\ v = View(x)
    BY DEF At
  <1>5. \A x : View(x).name = x.name
    BY DEF View
  <1>6. \A v : v \in Shape(tables)[name].columns <=> \E c : v \in At(tables[name], c)
    BY <1>3, <1>4
  <1>7. ASSUME NEW c
        PROVE  {column \in Shape(tables)[name].columns : column.name = c} = At(tables[name], c)
    BY <1>3, <1>4, <1>5
  <1>. QED  BY <1>1, <1>2, <1>6, <1>7

\* Tables with the same key and the same columns, one by one, have one shape.
LEMMA ShapesEqual ==
  ASSUME NEW a, NEW b, NEW name \in DOMAIN a \cap DOMAIN b,
         a[name].primary_key = b[name].primary_key,
         \A c : At(a[name], c) = At(b[name], c)
  PROVE  Shape(a)[name] = Shape(b)[name]
  <1>1. Shape(a)[name].columns = Shape(b)[name].columns
    <2>1. \A v : v \in Shape(a)[name].columns <=> \E c : v \in At(a[name], c)
      BY ShapeIs
    <2>2. \A v : v \in Shape(b)[name].columns <=> \E c : v \in At(b[name], c)
      BY ShapeIs
    <2>3. Shape(a)[name].columns = {View(x) : x \in ToSet(a[name].columns)}
      BY DEF Shape, View
    <2>4. Shape(b)[name].columns = {View(x) : x \in ToSet(b[name].columns)}
      BY DEF Shape, View
    <2>5. \A v : v \in Shape(a)[name].columns <=> v \in Shape(b)[name].columns
      BY <2>1, <2>2
    <2>. QED  BY <2>3, <2>4, <2>5
  <1>2. Shape(a)[name].primary_key = Shape(b)[name].primary_key
    BY ShapeIs
  <1>3. /\ Shape(a)[name] = [columns |-> Shape(a)[name].columns,
                             primary_key |-> Shape(a)[name].primary_key]
        /\ Shape(b)[name] = [columns |-> Shape(b)[name].columns,
                             primary_key |-> Shape(b)[name].primary_key]
    BY ShapeIs
  <1>. QED  BY <1>1, <1>2, <1>3

-----------------------------------------------------------------------------
(***************************************************************************)
(* Losses are warned of.                                                   *)
(***************************************************************************)

\* A planned operation can be asked for, about a table of a declared namespace.
LEMMA PlannedOK ==
  ASSUME NEW live, SchemaOK(live), NEW desired, SchemaOK(desired),
         NEW op \in PlannedOperations(live, desired)
  PROVE  OperationOK(op) /\ op.name \in DOMAIN live \cup DOMAIN desired
  <1>1. CASE op \in Creations(live, desired)
    <2>1. PICK name \in DOMAIN desired : op = CreateTable(name, desired[name])
      BY <1>1 DEF Creations
    <2>2. op.kind = "CreateTable" /\ op.name = name /\ op.table = desired[name]
      BY <2>1, OperationFields
    <2>. QED  BY <2>2 DEF OperationOK, SchemaOK
  <1>2. CASE op \in Drops(live, desired)
    <2>1. PICK name \in DOMAIN live : op = DropTable(name, live[name])
      BY <1>2 DEF Drops
    <2>2. op.kind = "DropTable" /\ op.name = name
      BY <2>1, OperationFields
    <2>. QED  BY <2>2 DEF OperationOK
  <1>3. ASSUME NEW name \in DOMAIN live \cap DOMAIN desired,
               op \in Adding(live, desired, name) \cup Retypings(live, desired, name)
                        \cup Renullings(live, desired, name) \cup Removing(live, desired, name)
        PROVE  OperationOK(op) /\ op.name \in DOMAIN live \cup DOMAIN desired
    <2>1. TableOK(live[name]) /\ TableOK(desired[name])
      BY DEF SchemaOK
    <2>2. CASE op \in Adding(live, desired, name)
      <3>1. PICK x \in ToSet(desired[name].columns) : op = AddColumn(name, x)
        BY <2>2 DEF Adding, Added
      <3>2. op.kind = "AddColumn" /\ op.name = name /\ op.column = x
        BY <3>1, OperationFields
      <3>3. x \in Columns
        BY <2>1, TableColumns
      <3>. QED  BY <3>2, <3>3 DEF OperationOK
    <2>3. CASE op \in Retypings(live, desired, name)
      <3>1. PICK x \in ToSet(live[name].columns) :
              x.name \in ColumnNames(desired[name]) /\ op = Retyping(desired, name, x)
        BY <2>3 DEF Retypings, Retyped
      <3>2. op.kind = "AlterType" /\ op.name = name /\ op.to = ColumnOf(desired[name], x.name).type
        BY <3>1, OperationFields DEF Retyping
      <3>3. ColumnOf(desired[name], x.name) \in Columns
        BY <2>1, <3>1, AtIs
      <3>4. op.to \in Types
        BY <3>2, <3>3 DEF Columns
      <3>. QED  BY <3>2, <3>4 DEF OperationOK
    <2>4. CASE op \in Renullings(live, desired, name)
      <3>1. op.kind \in {"SetNotNull", "DropNotNull"} /\ op.name = name
        BY <2>4, OperationsApart
      <3>. QED  BY <3>1 DEF OperationOK
    <2>5. CASE op \in Removing(live, desired, name)
      <3>1. op.kind = "DropColumn" /\ op.name = name
        BY <2>5, OperationsApart
      <3>. QED  BY <3>1 DEF OperationOK
    <2>. QED  BY <1>3, <2>2, <2>3, <2>4, <2>5
  <1>4. \/ op \in Creations(live, desired) \/ op \in Drops(live, desired)
        \/ \E name \in DOMAIN live \cap DOMAIN desired :
             op \in Adding(live, desired, name) \cup Retypings(live, desired, name)
                      \cup Renullings(live, desired, name) \cup Removing(live, desired, name)
    BY DEF PlannedOperations
  <1>. QED  BY <1>1, <1>2, <1>3, <1>4

\* What LossesAreWarned asks of a database, a schema and some column names.
Warned(database, desired, names) ==
  LET live   == LiveTables(database, Namespaces(desired))
      keys   == LiveForeignKeys(database, Namespaces(desired))
      up     == Up(live, desired, keys)
      before == Shape(database.tables)
      after  == Shape(States(up, database.tables, keys).tables)
      Column(shape, name, c) == {column \in shape[name].columns : column.name = c}
      Changed(name, c) == name \notin DOMAIN after \/ Column(before, name, c) # Column(after, name, c)
      OfType(shape, name, c) == {column.type : column \in Column(shape, name, c)}
      Lost(name, c) == OfType(before, name, c) # {} /\
                       (name \notin DOMAIN after \/ OfType(after, name, c) # OfType(before, name, c))
      objects == ObjectWarnings(up, LiveUnsupported(database, Namespaces(desired)), keys)
  IN  /\ \A name \in DOMAIN before : \A c \in names :
           Lost(name, c) => \E w \in StepWarnings(up) :
             /\ w.of.name = name
             /\ \/ w.of.kind = "DropTable"
                \/ w.of.kind \in {"DropColumn", "AlterType"} /\ ColumnTouched(w.of) = c
      /\ \A object \in database.objects :
           \/ object.table \notin DOMAIN before
           \/ object.columns = {} /\ object.table \in DOMAIN after
                /\ after[object.table] = before[object.table]
           \/ object.columns # {} /\ \A c \in object.columns : ~Changed(object.table, c)
           \/ \E w \in objects : w.about = "object" /\ w.of = object
      /\ \A key \in keys :
           key.parent \in DOMAIN before
             /\ (key.parent \notin DOMAIN after \/ after[key.parent] # before[key.parent])
           => \E w \in objects : w.about = "foreign key" /\ w.of = key

\* A migration of a database, and what it leaves: a column that is gone or of
\* another type has a warning of its own, and so has every object whose columns,
\* table or parent the migration changes.
THEOREM PlanWarns ==
  ASSUME NEW database, DatabaseOK(database), NEW desired, SchemaOK(desired),
         PlanAccepted(LiveTables(database, Namespaces(desired)), desired,
                      LiveForeignKeys(database, Namespaces(desired))),
         NEW names
  PROVE  Warned(database, desired, names)
  <1>. DEFINE namespaces == Namespaces(desired)
              live   == LiveTables(database, namespaces)
              keys   == LiveForeignKeys(database, namespaces)
              up     == Up(live, desired, keys)
              tables == database.tables
              final  == States(up, tables, keys).tables
              unsupported == LiveUnsupported(database, namespaces)
              objects == ObjectWarnings(up, unsupported, keys)
  <1>1. SchemaOK(live) /\ DOMAIN live = {name \in DOMAIN tables : name[1] \in namespaces}
    BY LiveOK
  <1>2. PlanAccepted(live, desired, keys)
    OBVIOUS
  <1>3. DropsComplete(live, desired, keys)
    BY <1>2 DEF PlanAccepted, DropsComplete
  <1>4. \A name \in DOMAIN desired : name[1] \in namespaces
    BY DEF Namespaces
  <1>5. \A object \in database.objects : object.table[1] \in namespaces => object \in unsupported
    BY DEF LiveUnsupported
  <1>6. TablesOK(tables)
    BY DEF DatabaseOK
  <1>. HIDE DEF namespaces, live, keys, unsupported
  <1>7. Lists(up, PlannedOperations(live, desired))
    BY <1>1, <1>3, UpLists
  <1>8. /\ Len(up) \in Nat /\ DOMAIN up = 1 .. Len(up)
        /\ \A i \in 1 .. Len(up) : up[i] \in PlannedOperations(live, desired)
    BY <1>7 DEF Lists
  <1>9. \A i \in 1 .. Len(up) : OperationOK(up[i]) /\ up[i].name[1] \in namespaces
    <2>. SUFFICES ASSUME NEW i \in 1 .. Len(up)
                  PROVE  OperationOK(up[i]) /\ up[i].name[1] \in namespaces
      OBVIOUS
    <2>1. OperationOK(up[i]) /\ up[i].name \in DOMAIN live \cup DOMAIN desired
      BY <1>1, <1>8, PlannedOK
    <2>. QED  BY <1>1, <1>4, <2>1
  <1>. HIDE DEF up
  <1>10. Untouched(up, Len(up), tables, final)
    BY <1>6, <1>8, <1>9, StatesUntouched
  <1>. HIDE DEF final
  <1>11. \A i \in 1 .. Len(up) : up[i].kind = "DropTable" => up[i].name \in AffectedTables(up)
    BY <1>8 DEF AffectedTables
  <1>12. \A i \in 1 .. Len(up) : \A name, c : OnColumn(up[i], name, c) => <<name, c>> \in AffectedColumns(up)
    BY <1>8 DEF AffectedColumns, OnColumn
  <1>13. \A i \in 1 .. Len(up) : up[i].kind \in {"DropTable", "DropColumn", "AlterType"} =>
            [about |-> "step", of |-> up[i]] \in StepWarnings(up)
    BY <1>8 DEF StepWarnings
  <1>14. \A name \in DOMAIN tables :
            name \notin AffectedTables(up) =>
              /\ name \in DOMAIN final
              /\ final[name].primary_key = tables[name].primary_key
              /\ \A c : <<name, c>> \notin AffectedColumns(up) => At(final[name], c) = At(tables[name], c)
    BY <1>10, <1>11, <1>12 DEF Untouched
  <1>15. \A name \in DOMAIN tables : ~TableTouched(up, name) =>
            name \in DOMAIN final /\ Shape(final)[name] = Shape(tables)[name]
    <2>. SUFFICES ASSUME NEW name \in DOMAIN tables, ~TableTouched(up, name)
                  PROVE  name \in DOMAIN final /\ Shape(final)[name] = Shape(tables)[name]
      OBVIOUS
    <2>1. name \notin AffectedTables(up) /\ \A c : <<name, c>> \notin AffectedColumns(up)
      BY DEF TableTouched
    <2>2. /\ name \in DOMAIN final /\ final[name].primary_key = tables[name].primary_key
          /\ \A c : At(final[name], c) = At(tables[name], c)
      BY <1>14, <2>1
    <2>. QED  BY <2>2, ShapesEqual
  <1>16. \A name : TableTouched(up, name) => name[1] \in namespaces
    <2>. SUFFICES ASSUME NEW name, TableTouched(up, name) PROVE name[1] \in namespaces
      OBVIOUS
    <2>1. \E i \in 1 .. Len(up) : up[i].name = name
      BY <1>8 DEF TableTouched, AffectedTables, AffectedColumns
    <2>. QED  BY <1>9, <2>1
  <1>17. ASSUME NEW object \in database.objects, Touches(up, object)
         PROVE  [about |-> "object", of |-> object] \in objects
    <2>1. TableTouched(up, object.table)
      BY <1>17 DEF Touches, TableTouched
    <2>. QED  BY <1>5, <1>16, <1>17, <2>1 DEF ObjectWarnings
  <1>18. \A key \in keys : TableTouched(up, key.parent) => [about |-> "foreign key", of |-> key] \in objects
    BY DEF ObjectWarnings
  <1>. DEFINE before == Shape(tables)
              after  == Shape(final)
              Column(shape, name, c) == {column \in shape[name].columns : column.name = c}
              Changed(name, c) == name \notin DOMAIN after \/ Column(before, name, c) # Column(after, name, c)
              OfType(shape, name, c) == {column.type : column \in Column(shape, name, c)}
              Lost(name, c) == OfType(before, name, c) # {} /\
                               (name \notin DOMAIN after \/ OfType(after, name, c) # OfType(before, name, c))
  <1>19. DOMAIN before = DOMAIN tables /\ DOMAIN after = DOMAIN final
    BY DEF Shape
  <1>20. /\ \A name \in DOMAIN tables : \A c : Column(before, name, c) = At(tables[name], c)
         /\ \A name \in DOMAIN final : \A c : Column(after, name, c) = At(final[name], c)
    BY ShapeIs
  <1>27. /\ \A name \in DOMAIN tables : \A c : OfType(before, name, c) = TypesAt(tables[name], c)
         /\ \A name \in DOMAIN final : \A c : OfType(after, name, c) = TypesAt(final[name], c)
    <2>. HIDE DEF before, after, Column
    <2>. QED  BY <1>20 DEF TypesAt
  <1>. HIDE DEF before, after, objects, Column, OfType
  <1>21. ASSUME NEW name \in DOMAIN before, NEW c, Lost(name, c)
         PROVE  \E w \in StepWarnings(up) :
                  /\ w.of.name = name
                  /\ \/ w.of.kind = "DropTable"
                     \/ w.of.kind \in {"DropColumn", "AlterType"} /\ ColumnTouched(w.of) = c
    <2>1. \/ \E i \in 1 .. Len(up) : up[i].kind = "DropTable" /\ up[i].name = name
          \/ \E i \in 1 .. Len(up) : Alters(up[i]) /\ OnColumn(up[i], name, c)
      <3>. SUFFICES ASSUME \A i \in 1 .. Len(up) : ~(up[i].kind = "DropTable" /\ up[i].name = name),
                           \A i \in 1 .. Len(up) :
                             ~(Alters(up[i]) /\ OnColumn(up[i], name, c))
                    PROVE  FALSE
        OBVIOUS
      <3>1. name \in DOMAIN tables /\ TypesAt(tables[name], c) # {}
        BY <1>19, <1>27, <1>21
      <3>3. At(tables[name], c) # {}
        BY <3>1 DEF TypesAt
      <3>2. name \in DOMAIN final /\ TypesAt(final[name], c) = TypesAt(tables[name], c)
        BY <1>10, <3>1, <3>3 DEF Untouched
      <3>. QED  BY <1>19, <1>27, <1>21, <3>1, <3>2
    <2>2. PICK i \in 1 .. Len(up) : /\ up[i].name = name
                                    /\ \/ up[i].kind = "DropTable"
                                       \/ Alters(up[i]) /\ ColumnTouched(up[i]) = c
      BY <2>1 DEF OnColumn
    <2>. DEFINE w == [about |-> "step", of |-> up[i]]
    <2>3. w \in StepWarnings(up) /\ w.of = up[i]
      BY <1>13, <2>2 DEF Alters
    <2>. QED  BY <2>2, <2>3 DEF Alters
  <1>22. ASSUME NEW object \in database.objects, object.table \in DOMAIN before,
                ~(object.columns = {} /\ object.table \in DOMAIN after
                    /\ after[object.table] = before[object.table]),
                ~(object.columns # {} /\ \A c \in object.columns : ~Changed(object.table, c))
         PROVE  \E w \in objects : w.about = "object" /\ w.of = object
    <2>1. Touches(up, object)
      <3>1. CASE object.columns = {}
        <4>1. TableTouched(up, object.table)
          BY <1>15, <1>19, <1>22, <3>1 DEF before, after
        <4>. QED  BY <3>1, <4>1 DEF Touches
      <3>2. CASE object.columns # {}
        <4>1. PICK c \in object.columns : Changed(object.table, c)
          BY <1>22, <3>2
        <4>2. object.table \in AffectedTables(up) \/ <<object.table, c>> \in AffectedColumns(up)
          BY <1>14, <1>19, <1>20, <1>22, <4>1
        <4>. QED  BY <4>1, <4>2 DEF Touches
      <3>. QED  BY <3>1, <3>2
    <2>2. [about |-> "object", of |-> object] \in objects
      BY <1>17, <2>1
    <2>. QED  BY <2>2
  <1>23. ASSUME NEW key \in keys, key.parent \in DOMAIN before,
                key.parent \notin DOMAIN after \/ after[key.parent] # before[key.parent]
         PROVE  \E w \in objects : w.about = "foreign key" /\ w.of = key
    <2>1. TableTouched(up, key.parent)
      BY <1>15, <1>19, <1>23 DEF before, after
    <2>2. [about |-> "foreign key", of |-> key] \in objects
      BY <1>18, <2>1
    <2>. QED  BY <2>2
  <1>24. \A name \in DOMAIN before : \A c \in names :
           Lost(name, c) => \E w \in StepWarnings(up) :
             /\ w.of.name = name
             /\ \/ w.of.kind = "DropTable"
                \/ w.of.kind \in {"DropColumn", "AlterType"} /\ ColumnTouched(w.of) = c
    BY <1>21
  <1>25. \A object \in database.objects :
           \/ object.table \notin DOMAIN before
           \/ object.columns = {} /\ object.table \in DOMAIN after
                /\ after[object.table] = before[object.table]
           \/ object.columns # {} /\ \A c \in object.columns : ~Changed(object.table, c)
           \/ \E w \in objects : w.about = "object" /\ w.of = object
    BY <1>22
  <1>26. \A key \in keys :
           key.parent \in DOMAIN before
             /\ (key.parent \notin DOMAIN after \/ after[key.parent] # before[key.parent])
           => \E w \in objects : w.about = "foreign key" /\ w.of = key
    BY <1>23
  <1>. QED  BY <1>24, <1>25, <1>26
              DEF Warned, before, after, objects, Column, OfType, final, up, live, keys, namespaces,
              unsupported

-----------------------------------------------------------------------------
(***************************************************************************)
(* Migrations are exact: where a migration stands when a set of its        *)
(* operations is done, and that the tables are what it says.               *)
(***************************************************************************)

\* A table that is stored and read as it is.
Settled(table) ==
  /\ TableOK(table)
  /\ \A x \in ToSet(table.columns) :
       /\ CatalogType(x.type) = x.type
       /\ StoredType(x.type) = x.type
       /\ x.name \in ToSet(table.primary_key) => x.nullable = FALSE

\* A schema that is planned for the tables of some namespaces.
Migrates(tables, live, desired, namespaces) ==
  /\ TablesOK(tables) /\ SchemaOK(live) /\ SchemaOK(desired)
  /\ DOMAIN live = {name \in DOMAIN tables : name[1] \in namespaces}
  /\ \A name \in DOMAIN desired : name[1] \in namespaces
  /\ \A name \in DOMAIN live :
       /\ Settled(live[name])
       /\ live[name].primary_key = tables[name].primary_key
       /\ \A c : At(live[name], c) = At(tables[name], c)
  /\ \A name \in DOMAIN desired : Settled(desired[name])
  /\ \A name \in DOMAIN live \cap DOMAIN desired :
       live[name].primary_key = desired[name].primary_key

\* The column of a table on both sides when the operations of D are done.
Want(live, desired, name, c, D) ==
  LET x == ColumnOf(live[name], c)
      y == ColumnOf(desired[name], c)
  IN  IF c \in ColumnNames(live[name])
      THEN IF DropColumn(name, x) \in D THEN {}
           ELSE {[name |-> c,
                  type |-> IF Retyping(desired, name, x) \in D THEN y.type ELSE x.type,
                  nullable |-> IF Renulling(name, x) \in D THEN y.nullable ELSE x.nullable]}
      ELSE IF c \in ColumnNames(desired[name]) /\ AddColumn(name, y) \in D THEN {View(y)} ELSE {}

\* Whether a table is there, and what it is.
Standing(tables, live, desired, D, name) ==
  \/ /\ name \in DOMAIN tables
     /\ ~(name \in DOMAIN live \ DOMAIN desired /\ DropTable(name, live[name]) \in D)
  \/ name \in DOMAIN desired \ DOMAIN live /\ CreateTable(name, desired[name]) \in D

\* Two tables that differ in the order of their columns at most.
SameTable(table, other) ==
  table.primary_key = other.primary_key /\ \A c : At(table, c) = At(other, c)

\* What a table of the database is when the operations of D are done: one of
\* neither schema is untouched, one of a single schema is as that schema has it,
\* and one of both has each column as far as D went.
TableIs(tables, live, desired, D, name, table) ==
  /\ name \notin DOMAIN live \cup DOMAIN desired => table = tables[name]
  /\ name \in DOMAIN live \ DOMAIN desired => SameTable(table, live[name])
  /\ name \in DOMAIN desired \ DOMAIN live => SameTable(table, desired[name])
  /\ name \in DOMAIN live \cap DOMAIN desired =>
       /\ table.primary_key = live[name].primary_key
       /\ \A c : At(table, c) = Want(live, desired, name, c, D)

\* Where a migration stands when the operations of D are done: which tables
\* there are, and what each is.
Reached(tables, live, desired, D, now) ==
  /\ TablesOK(now)
  /\ \A name : name \in DOMAIN now <=> Standing(tables, live, desired, D, name)
  /\ \A name \in DOMAIN now : TableIs(tables, live, desired, D, name, now[name])

\* The operations on a column.
LEMMA OnColumnIs ==
  ASSUME NEW name, NEW desired, NEW x
  PROVE  /\ OnColumn(AddColumn(name, x), name, x.name)
         /\ OnColumn(DropColumn(name, x), name, x.name)
         /\ OnColumn(Retyping(desired, name, x), name, x.name)
         /\ OnColumn(Renulling(name, x), name, x.name)
  <1>1. OnColumn(AddColumn(name, x), name, x.name) /\ OnColumn(DropColumn(name, x), name, x.name)
    BY OperationFields DEF OnColumn, ColumnTouched
  <1>2. OnColumn(Retyping(desired, name, x), name, x.name)
    BY OperationFields DEF OnColumn, ColumnTouched, Retyping
  <1>3. OnColumn(Renulling(name, x), name, x.name)
    BY OperationFields DEF OnColumn, ColumnTouched, Renulling
  <1>. QED  BY <1>1, <1>2, <1>3

\* Only the operations on a column matter to it.
LEMMA WantSame ==
  ASSUME NEW live, NEW desired, NEW name, TableOK(live[name]), TableOK(desired[name]),
         NEW c, NEW D, NEW E, \A op : OnColumn(op, name, c) => (op \in D <=> op \in E)
  PROVE  Want(live, desired, name, c, D) = Want(live, desired, name, c, E)
  <1>. DEFINE x == ColumnOf(live[name], c)
              y == ColumnOf(desired[name], c)
  <1>1. CASE c \in ColumnNames(live[name])
    <2>1. x.name = c
      BY <1>1, AtIs
    <2>2. /\ DropColumn(name, x) \in D <=> DropColumn(name, x) \in E
          /\ Retyping(desired, name, x) \in D <=> Retyping(desired, name, x) \in E
          /\ Renulling(name, x) \in D <=> Renulling(name, x) \in E
      <3>. HIDE DEF x
      <3>. QED  BY <2>1, OnColumnIs
    <2>. HIDE DEF x, y
    <2>3. DropColumn(name, x) \in D <=> DropColumn(name, x) \in E
      BY <2>2
    <2>. QED  BY <1>1, <2>2 DEF Want, x, y
  <1>2. CASE c \notin ColumnNames(live[name]) /\ c \in ColumnNames(desired[name])
    <2>1. y.name = c
      BY <1>2, AtIs
    <2>2. AddColumn(name, y) \in D <=> AddColumn(name, y) \in E
      <3>. HIDE DEF y
      <3>. QED  BY <2>1, OnColumnIs
    <2>. QED  BY <1>2, <2>2 DEF Want
  <1>3. CASE c \notin ColumnNames(live[name]) /\ c \notin ColumnNames(desired[name])
    BY <1>3 DEF Want
  <1>. QED  BY <1>1, <1>2, <1>3

\* An operation on a column of a table on both sides.
LEMMA ReachedColumn ==
  ASSUME NEW tables, NEW live, NEW desired, NEW namespaces,
         Migrates(tables, live, desired, namespaces),
         NEW D, NEW E, NEW now, NEW after, Reached(tables, live, desired, D, now),
         NEW name \in DOMAIN live \cap DOMAIN desired, NEW c,
         \A op : ~OnColumn(op, name, c) => (op \in D <=> op \in E),
         NEW op, Leaves(op, now, after), OnColumn(op, name, c),
         At(after[name], c) = Want(live, desired, name, c, E)
  PROVE  Reached(tables, live, desired, E, after)
  <1>1. /\ op.kind \notin {"CreateTable", "DropTable"} /\ op.name = name /\ ColumnTouched(op) = c
    BY DEF OnColumn
  <1>2. /\ name \in DOMAIN now /\ name \in DOMAIN after
        /\ OnlyColumn(now[name], after[name], c)
        /\ \A other : other # name => /\ other \in DOMAIN after <=> other \in DOMAIN now
                                      /\ other \in DOMAIN now => after[other] = now[other]
        /\ TablesOK(after)
    BY <1>1 DEF Leaves
  <1>3. \A other : /\ DropTable(other, live[other]) \in D <=> DropTable(other, live[other]) \in E
                   /\ CreateTable(other, desired[other]) \in D <=> CreateTable(other, desired[other]) \in E
    BY OperationFields DEF OnColumn
  <1>4. \A other : other \in DOMAIN after <=> Standing(tables, live, desired, E, other)
    BY <1>2, <1>3 DEF Reached, Standing
  <1>5. \A other \in DOMAIN live \cap DOMAIN desired : TableOK(live[other]) /\ TableOK(desired[other])
    BY DEF Migrates, SchemaOK
  <1>6. ASSUME NEW other \in DOMAIN live \cap DOMAIN desired, NEW d, other # name \/ d # c
        PROVE  Want(live, desired, other, d, D) = Want(live, desired, other, d, E)
    <2>1. \A o : OnColumn(o, other, d) => ~OnColumn(o, name, c)
      BY <1>6 DEF OnColumn
    <2>2. \A o : OnColumn(o, other, d) => (o \in D <=> o \in E)
      BY <2>1
    <2>. QED  BY <1>5, <2>2, WantSame
  <1>7. ASSUME NEW other \in DOMAIN after
        PROVE  TableIs(tables, live, desired, E, other, after[other])
    <2>1. CASE other # name
      <3>1. after[other] = now[other] /\ TableIs(tables, live, desired, D, other, now[other])
        BY <1>2, <2>1 DEF Reached
      <3>. QED  BY <1>6, <2>1, <3>1 DEF TableIs
    <2>2. CASE other = name
      <3>1. TableIs(tables, live, desired, D, name, now[name])
        BY <1>2 DEF Reached
      <3>2. /\ now[name].primary_key = live[name].primary_key
            /\ \A d : At(now[name], d) = Want(live, desired, name, d, D)
        BY <3>1 DEF TableIs
      <3>3. \A d : At(after[name], d) = Want(live, desired, name, d, E)
        <4>. SUFFICES ASSUME NEW d PROVE At(after[name], d) = Want(live, desired, name, d, E)
          OBVIOUS
        <4>1. CASE d = c
          BY <4>1
        <4>2. CASE d # c
          <5>1. At(after[name], d) = At(now[name], d)
            BY <1>2, <4>2 DEF OnlyColumn
          <5>2. Want(live, desired, name, d, D) = Want(live, desired, name, d, E)
            BY <1>6, <4>2
          <5>. QED  BY <3>2, <5>1, <5>2
        <4>. QED  BY <4>1, <4>2
      <3>4. after[name].primary_key = live[name].primary_key
        BY <1>2, <3>2 DEF OnlyColumn
      <3>. QED  BY <2>2, <3>3, <3>4 DEF TableIs
    <2>. QED  BY <2>1, <2>2
  <1>. QED  BY <1>2, <1>4, <1>7 DEF Reached

\* An operation on a table of one side.
LEMMA ReachedTable ==
  ASSUME NEW tables, NEW live, NEW desired, NEW namespaces,
         Migrates(tables, live, desired, namespaces),
         NEW D, NEW E, NEW now, NEW after, Reached(tables, live, desired, D, now),
         NEW op, Leaves(op, now, after),
         \A o : o.name # op.name => (o \in D <=> o \in E),
         op.name \notin DOMAIN live \cap DOMAIN desired,
         op.name \in DOMAIN after <=> Standing(tables, live, desired, E, op.name),
         op.name \in DOMAIN after => TableIs(tables, live, desired, E, op.name, after[op.name])
  PROVE  Reached(tables, live, desired, E, after)
  <1>1. /\ TablesOK(after)
        /\ \A other : other # op.name => /\ other \in DOMAIN after <=> other \in DOMAIN now
                                         /\ other \in DOMAIN now => after[other] = now[other]
    BY DEF Leaves
  <1>2. \A other : other # op.name =>
          /\ DropTable(other, live[other]) \in D <=> DropTable(other, live[other]) \in E
          /\ CreateTable(other, desired[other]) \in D <=> CreateTable(other, desired[other]) \in E
    BY OperationFields
  <1>3. \A other : other # op.name =>
          (Standing(tables, live, desired, D, other) <=> Standing(tables, live, desired, E, other))
    BY <1>2 DEF Standing
  <1>4. \A other : other \in DOMAIN after <=> Standing(tables, live, desired, E, other)
    <2>. SUFFICES ASSUME NEW other
                  PROVE  other \in DOMAIN after <=> Standing(tables, live, desired, E, other)
      OBVIOUS
    <2>1. CASE other = op.name
      BY <2>1
    <2>2. CASE other # op.name
      BY <1>1, <1>3, <2>2 DEF Reached
    <2>. QED  BY <2>1, <2>2
  <1>5. ASSUME NEW other \in DOMAIN live \cap DOMAIN desired, NEW d, other # op.name
        PROVE  Want(live, desired, other, d, D) = Want(live, desired, other, d, E)
    <2>1. TableOK(live[other]) /\ TableOK(desired[other])
      BY DEF Migrates, SchemaOK
    <2>2. \A o : OnColumn(o, other, d) => (o \in D <=> o \in E)
      BY <1>5 DEF OnColumn
    <2>. QED  BY <2>1, <2>2, WantSame
  <1>6. ASSUME NEW other \in DOMAIN after
        PROVE  TableIs(tables, live, desired, E, other, after[other])
    <2>1. CASE other # op.name
      <3>1. after[other] = now[other] /\ TableIs(tables, live, desired, D, other, now[other])
        BY <1>1, <1>6, <2>1 DEF Reached
      <3>. QED  BY <1>5, <2>1, <3>1 DEF TableIs
    <2>2. CASE other = op.name
      BY <1>6, <2>2
    <2>. QED  BY <2>1, <2>2
  <1>. QED  BY <1>1, <1>4, <1>6 DEF Reached

\* The planned operations of each kind.
LEMMA PlannedKinds ==
  ASSUME NEW live, NEW desired, NEW op \in PlannedOperations(live, desired)
  PROVE  \/ /\ op.kind = "CreateTable" /\ op.name \in DOMAIN desired \ DOMAIN live
            /\ op = CreateTable(op.name, desired[op.name])
         \/ /\ op.kind = "DropTable" /\ op.name \in DOMAIN live \ DOMAIN desired
            /\ op = DropTable(op.name, live[op.name])
         \/ /\ op.kind = "AddColumn" /\ op.name \in DOMAIN live \cap DOMAIN desired
            /\ \E y \in Added(live, desired, op.name) : op = AddColumn(op.name, y)
         \/ /\ op.kind = "DropColumn" /\ op.name \in DOMAIN live \cap DOMAIN desired
            /\ \E x \in Removed(live, desired, op.name) : op = DropColumn(op.name, x)
         \/ /\ op.kind = "AlterType" /\ op.name \in DOMAIN live \cap DOMAIN desired
            /\ \E x \in Retyped(live, desired, op.name) : op = Retyping(desired, op.name, x)
         \/ /\ op.kind \in {"SetNotNull", "DropNotNull"} /\ op.name \in DOMAIN live \cap DOMAIN desired
            /\ \E x \in Renulled(live, desired, op.name) : op = Renulling(op.name, x)
  <1>1. CASE op \in Creations(live, desired)
    <2>1. PICK name \in DOMAIN desired \ DOMAIN live : op = CreateTable(name, desired[name])
      BY <1>1 DEF Creations
    <2>. QED  BY <2>1, OperationFields
  <1>2. CASE op \in Drops(live, desired)
    <2>1. PICK name \in DOMAIN live \ DOMAIN desired : op = DropTable(name, live[name])
      BY <1>2 DEF Drops
    <2>. QED  BY <2>1, OperationFields
  <1>3. ASSUME NEW name \in DOMAIN live \cap DOMAIN desired, op \in Adding(live, desired, name)
        PROVE  /\ op.kind = "AddColumn" /\ op.name \in DOMAIN live \cap DOMAIN desired
               /\ \E y \in Added(live, desired, op.name) : op = AddColumn(op.name, y)
    <2>1. op.kind = "AddColumn" /\ op.name = name
      BY <1>3, OperationsApart
    <2>. QED  BY <1>3, <2>1 DEF Adding
  <1>4. ASSUME NEW name \in DOMAIN live \cap DOMAIN desired, op \in Removing(live, desired, name)
        PROVE  /\ op.kind = "DropColumn" /\ op.name \in DOMAIN live \cap DOMAIN desired
               /\ \E x \in Removed(live, desired, op.name) : op = DropColumn(op.name, x)
    <2>1. op.kind = "DropColumn" /\ op.name = name
      BY <1>4, OperationsApart
    <2>. QED  BY <1>4, <2>1 DEF Removing
  <1>5. ASSUME NEW name \in DOMAIN live \cap DOMAIN desired, op \in Retypings(live, desired, name)
        PROVE  /\ op.kind = "AlterType" /\ op.name \in DOMAIN live \cap DOMAIN desired
               /\ \E x \in Retyped(live, desired, op.name) : op = Retyping(desired, op.name, x)
    <2>1. op.kind = "AlterType" /\ op.name = name
      BY <1>5, OperationsApart
    <2>. QED  BY <1>5, <2>1 DEF Retypings
  <1>6. ASSUME NEW name \in DOMAIN live \cap DOMAIN desired, op \in Renullings(live, desired, name)
        PROVE  /\ op.kind \in {"SetNotNull", "DropNotNull"} /\ op.name \in DOMAIN live \cap DOMAIN desired
               /\ \E x \in Renulled(live, desired, op.name) : op = Renulling(op.name, x)
    <2>1. op.kind \in {"SetNotNull", "DropNotNull"} /\ op.name = name
      BY <1>6, OperationsApart
    <2>. QED  BY <1>6, <2>1 DEF Renullings
  <1>7. \/ op \in Creations(live, desired) \/ op \in Drops(live, desired)
        \/ \E name \in DOMAIN live \cap DOMAIN desired :
             \/ op \in Adding(live, desired, name) \/ op \in Retypings(live, desired, name)
             \/ op \in Renullings(live, desired, name) \/ op \in Removing(live, desired, name)
    BY DEF PlannedOperations
  <1>8. CASE \E name \in DOMAIN live \cap DOMAIN desired :
               \/ op \in Adding(live, desired, name) \/ op \in Retypings(live, desired, name)
               \/ op \in Renullings(live, desired, name) \/ op \in Removing(live, desired, name)
    <2>1. PICK name \in DOMAIN live \cap DOMAIN desired :
               \/ op \in Adding(live, desired, name) \/ op \in Retypings(live, desired, name)
               \/ op \in Renullings(live, desired, name) \/ op \in Removing(live, desired, name)
      BY <1>8
    <2>2. CASE op \in Adding(live, desired, name)
      BY <1>3, <2>2
    <2>3. CASE op \in Retypings(live, desired, name)
      BY <1>5, <2>3
    <2>4. CASE op \in Renullings(live, desired, name)
      BY <1>6, <2>4
    <2>5. CASE op \in Removing(live, desired, name)
      BY <1>4, <2>5
    <2>. QED  BY <2>1, <2>2, <2>3, <2>4, <2>5
  <1>. QED  BY <1>1, <1>2, <1>7, <1>8

\* A column of a settled table is stored as it is.
LEMMA SettledColumn ==
  ASSUME NEW table, Settled(table), NEW x \in ToSet(table.columns)
  PROVE  /\ x \in Columns /\ ColumnOf(table, x.name) = x /\ x.name \in ColumnNames(table)
         /\ CatalogType(x.type) = x.type /\ StoredType(x.type) = x.type
         /\ x.type \in Types /\ x.nullable \in BOOLEAN
         /\ View(x) = [name |-> x.name, type |-> x.type, nullable |-> x.nullable]
         /\ View(StoredColumn(x, {})) = View(x)
  <1>1. TableOK(table) /\ CatalogType(x.type) = x.type /\ StoredType(x.type) = x.type
    BY DEF Settled
  <1>2. x \in Columns /\ ColumnOf(table, x.name) = x /\ x.name \in ColumnNames(table)
    BY <1>1, TableColumns
  <1>3. x.type \in Types /\ x.nullable \in BOOLEAN
    BY <1>2 DEF Columns
  <1>4. View(x) = [name |-> x.name, type |-> x.type, nullable |-> x.nullable]
    BY <1>1 DEF View
  <1>5. /\ StoredColumn(x, {}).name = x.name /\ StoredColumn(x, {}).type = x.type
        /\ StoredColumn(x, {}).nullable = x.nullable
    <2>1. /\ StoredColumn(x, {}).name = x.name /\ StoredColumn(x, {}).type = x.type
          /\ StoredColumn(x, {}).nullable = (x.nullable /\ x.name \notin {})
      BY <1>1, <1>2, StoredColumnOK
    <2>. QED  BY <1>3, <2>1
  <1>6. View(StoredColumn(x, {})) = View(x)
    BY <1>1, <1>4, <1>5 DEF View
  <1>. QED  BY <1>1, <1>2, <1>3, <1>4, <1>6

\* What is wanted of a column that is added, that is removed, and that stays.
LEMMA WantAdded ==
  ASSUME NEW live, NEW desired, NEW name, TableOK(live[name]), Settled(desired[name]),
         NEW y \in Added(live, desired, name), NEW D
  PROVE  Want(live, desired, name, y.name, D) = IF AddColumn(name, y) \in D THEN {View(y)} ELSE {}
  <1>1. y \in ToSet(desired[name].columns) /\ y.name \notin ColumnNames(live[name])
    BY DEF Added
  <1>2. ColumnOf(desired[name], y.name) = y /\ y.name \in ColumnNames(desired[name])
    BY <1>1, SettledColumn
  <1>. QED  BY <1>1, <1>2 DEF Want

\* A column that only the live table has is there until its DropColumn is done.
LEMMA WantRemoved ==
  ASSUME NEW live, NEW desired, NEW name, Settled(live[name]), TableOK(desired[name]),
         NEW x \in Removed(live, desired, name), NEW D \in SUBSET PlannedOperations(live, desired)
  PROVE  Want(live, desired, name, x.name, D) = IF DropColumn(name, x) \in D THEN {} ELSE {View(x)}
  <1>1. x \in ToSet(live[name].columns) /\ x.name \notin ColumnNames(desired[name])
    BY DEF Removed
  <1>2. ColumnOf(live[name], x.name) = x /\ x.name \in ColumnNames(live[name])
        /\ View(x) = [name |-> x.name, type |-> x.type, nullable |-> x.nullable]
    BY <1>1, SettledColumn
  <1>3. Retyping(desired, name, x) \notin D
    <2>1. SUFFICES ASSUME Retyping(desired, name, x) \in D PROVE FALSE
      OBVIOUS
    <2>2. /\ Retyping(desired, name, x).kind = "AlterType" /\ Retyping(desired, name, x).name = name
          /\ Retyping(desired, name, x).column = x.name
      BY OperationFields DEF Retyping
    <2>3. PICK z \in Retyped(live, desired, name) : Retyping(desired, name, x) = Retyping(desired, name, z)
      BY <2>1, <2>2, PlannedKinds
    <2>4. Retyping(desired, name, z).column = z.name
      BY OperationFields DEF Retyping
    <2>. QED  BY <1>1, <2>2, <2>3, <2>4 DEF Retyped
  <1>4. Renulling(name, x) \notin D
    <2>1. SUFFICES ASSUME Renulling(name, x) \in D PROVE FALSE
      OBVIOUS
    <2>2. \A z : /\ Renulling(name, z).kind \in {"SetNotNull", "DropNotNull"}
                 /\ Renulling(name, z).name = name /\ Renulling(name, z).column = z.name
      BY OperationFields DEF Renulling
    <2>3. PICK z \in Renulled(live, desired, name) : Renulling(name, x) = Renulling(name, z)
      BY <2>1, <2>2, PlannedKinds
    <2>. QED  BY <1>1, <2>2, <2>3 DEF Renulled
  <1>. QED  BY <1>2, <1>3, <1>4 DEF Want

\* A column of both tables, altered as far as D went.
Remains(desired, name, x, D) ==
  LET y == ColumnOf(desired[name], x.name)
  IN  {[name |-> x.name,
        type |-> IF Retyping(desired, name, x) \in D THEN y.type ELSE x.type,
        nullable |-> IF Renulling(name, x) \in D THEN y.nullable ELSE x.nullable]}

\* A column that both have is there throughout, altered as far as D went.
LEMMA WantKept ==
  ASSUME NEW live, NEW desired, NEW name, Settled(live[name]), Settled(desired[name]),
         NEW x \in ToSet(live[name].columns), x.name \in ColumnNames(desired[name]),
         NEW D \in SUBSET PlannedOperations(live, desired)
  PROVE  /\ Want(live, desired, name, x.name, D) = Remains(desired, name, x, D)
         /\ DropColumn(name, x) \notin D
  <1>1. ColumnOf(live[name], x.name) = x /\ x.name \in ColumnNames(live[name])
    BY SettledColumn
  <1>2. DropColumn(name, x) \notin D
    <2>1. SUFFICES ASSUME DropColumn(name, x) \in D PROVE FALSE
      OBVIOUS
    <2>2. \A z : /\ DropColumn(name, z).kind = "DropColumn"
                 /\ DropColumn(name, z).name = name /\ DropColumn(name, z).column = z
      BY OperationFields
    <2>3. PICK z \in Removed(live, desired, name) : DropColumn(name, x) = DropColumn(name, z)
      BY <2>1, <2>2, PlannedKinds
    <2>. QED  BY <2>2, <2>3 DEF Removed
  <1>. QED  BY <1>1, <1>2 DEF Want, Remains

\* A table on both sides, wherever the migration stands.
LEMMA KeptTable ==
  ASSUME NEW tables, NEW live, NEW desired, NEW namespaces,
         Migrates(tables, live, desired, namespaces),
         NEW D, NEW now, Reached(tables, live, desired, D, now),
         NEW name \in DOMAIN live \cap DOMAIN desired
  PROVE  /\ Settled(live[name]) /\ Settled(desired[name])
         /\ TableOK(live[name]) /\ TableOK(desired[name])
         /\ name \in DOMAIN now /\ TablesOK(now) /\ TableOK(now[name])
         /\ now[name].primary_key = live[name].primary_key
         /\ live[name].primary_key = desired[name].primary_key
         /\ \A c : At(now[name], c) = Want(live, desired, name, c, D)
         /\ \A c : c \in ColumnNames(now[name]) <=> Want(live, desired, name, c, D) # {}
  <1>1. Settled(live[name]) /\ Settled(desired[name])
        /\ live[name].primary_key = desired[name].primary_key
    BY DEF Migrates
  <1>2. TableOK(live[name]) /\ TableOK(desired[name])
    BY <1>1 DEF Settled
  <1>3. name \in DOMAIN now
    BY DEF Reached, Standing, Migrates
  <1>4. TablesOK(now) /\ TableOK(now[name])
    BY <1>3 DEF Reached, TablesOK
  <1>5. /\ now[name].primary_key = live[name].primary_key
        /\ \A c : At(now[name], c) = Want(live, desired, name, c, D)
    BY <1>3 DEF Reached, TableIs
  <1>6. \A c : c \in ColumnNames(now[name]) <=> At(now[name], c) # {}
    BY <1>4, AtIs
  <1>. QED  BY <1>1, <1>2, <1>3, <1>4, <1>5, <1>6

-----------------------------------------------------------------------------
(***************************************************************************)
(* Migrations are exact: one operation forward, or its inverse.            *)
(***************************************************************************)

\* A column is added.
LEMMA AddForward ==
  ASSUME NEW tables, NEW live, NEW desired, NEW namespaces,
         Migrates(tables, live, desired, namespaces), NEW keys,
         NEW D \in SUBSET PlannedOperations(live, desired), NEW now,
         Reached(tables, live, desired, D, now),
         NEW op \in PlannedOperations(live, desired) \ D, op.kind = "AddColumn"
  PROVE  /\ Succeeds(op, now, keys)
         /\ Reached(tables, live, desired, D \cup {op}, Result(op, now))
  <1>. DEFINE name == op.name
              todo == op
              E == D \cup {op}
              after == Result(todo, now)
  <1>1. PICK y \in Added(live, desired, name) : op = AddColumn(name, y)
    BY PlannedKinds
  <1>2. name \in DOMAIN live \cap DOMAIN desired
    BY PlannedKinds
  <1>. DEFINE c == y.name
  <1>3. /\ Settled(live[name]) /\ Settled(desired[name])
        /\ TableOK(live[name]) /\ TableOK(desired[name])
        /\ name \in DOMAIN now /\ TablesOK(now) /\ TableOK(now[name])
        /\ now[name].primary_key = live[name].primary_key
        /\ live[name].primary_key = desired[name].primary_key
        /\ At(now[name], c) = Want(live, desired, name, c, D)
        /\ c \in ColumnNames(now[name]) <=> Want(live, desired, name, c, D) # {}
    BY <1>2, KeptTable
  <1>4. OnColumn(op, name, c)
    BY <1>1, OnColumnIs
  <1>5. E \in SUBSET PlannedOperations(live, desired)
    OBVIOUS
  <1>10. /\ y \in ToSet(desired[name].columns) /\ y \in Columns /\ View(StoredColumn(y, {})) = View(y)
    BY <1>1, <1>3, SettledColumn DEF Added
  <1>9. todo.kind = "AddColumn" /\ todo.name = name /\ todo.column = y
    BY <1>1, OperationFields
  <1>11. OperationOK(todo)
    BY <1>9, <1>10 DEF OperationOK
  <1>12. OnColumn(todo, name, c)
    BY <1>4
  <1>13. Want(live, desired, name, c, D) = {} /\ Want(live, desired, name, c, E) = {View(y)}
    <2>1. ASSUME NEW S
          PROVE  Want(live, desired, name, c, S) = IF AddColumn(name, y) \in S THEN {View(y)} ELSE {}
      <3>. HIDE DEF name
      <3>. QED  BY <1>1, <1>3, WantAdded
    <2>2. op = AddColumn(name, y)
      BY <1>1
    <2>. QED  BY <2>1, <2>2
  <1>20. Succeeds(todo, now, keys)
    BY <1>3, <1>9, <1>13 DEF Succeeds
  <1>. HIDE DEF after, todo, name, c
  <1>21. Leaves(todo, now, after)
    BY <1>3, <1>11, <1>20, ResultLeaves DEF after
  <1>23. At(after[name], c) = Want(live, desired, name, c, E)
    BY <1>9, <1>10, <1>13, <1>21 DEF Leaves, c
  <1>24. \A o : ~OnColumn(o, name, c) => (o \in D <=> o \in E)
    BY <1>4
  <1>. HIDE DEF E
  <1>25. Reached(tables, live, desired, E, after)
    BY <1>2, <1>12, <1>21, <1>23, <1>24, ReachedColumn
  <1>22. Reached(tables, live, desired, E, after)
    BY <1>25
  <1>. QED  BY <1>20, <1>22 DEF after, todo, E, name, c

\* A column that was added goes again.
LEMMA AddBackward ==
  ASSUME NEW tables, NEW live, NEW desired, NEW namespaces,
         Migrates(tables, live, desired, namespaces), NEW keys,
         NEW D \in SUBSET PlannedOperations(live, desired), NEW now,
         Reached(tables, live, desired, D, now),
         NEW op \in D, op.kind = "AddColumn"
  PROVE  /\ Succeeds(InverseOf(op), now, keys)
         /\ Reached(tables, live, desired, D \ {op}, Result(InverseOf(op), now))
  <1>. DEFINE name == op.name
              todo == InverseOf(op)
              E == D \ {op}
              after == Result(todo, now)
  <1>1. PICK y \in Added(live, desired, name) : op = AddColumn(name, y)
    BY PlannedKinds
  <1>2. name \in DOMAIN live \cap DOMAIN desired
    BY PlannedKinds
  <1>. DEFINE c == y.name
  <1>3. /\ Settled(live[name]) /\ Settled(desired[name])
        /\ TableOK(live[name]) /\ TableOK(desired[name])
        /\ name \in DOMAIN now /\ TablesOK(now) /\ TableOK(now[name])
        /\ now[name].primary_key = live[name].primary_key
        /\ live[name].primary_key = desired[name].primary_key
        /\ At(now[name], c) = Want(live, desired, name, c, D)
        /\ c \in ColumnNames(now[name]) <=> Want(live, desired, name, c, D) # {}
    BY <1>2, KeptTable
  <1>4. OnColumn(op, name, c)
    BY <1>1, OnColumnIs
  <1>5. E \in SUBSET PlannedOperations(live, desired)
    OBVIOUS
  <1>8. op.kind = "AddColumn" /\ op.name = name /\ op.column = y
    BY <1>1, OperationFields
  <1>7. todo = DropColumn(name, y)
    BY <1>8 DEF InverseOf
  <1>9. todo.kind = "DropColumn" /\ todo.name = name /\ todo.column = y
    BY <1>7, OperationFields
  <1>11. OperationOK(todo)
    BY <1>9 DEF OperationOK
  <1>12. OnColumn(todo, name, c)
    BY <1>7, OnColumnIs
  <1>13. Want(live, desired, name, c, D) = {View(y)} /\ Want(live, desired, name, c, E) = {}
    <2>1. ASSUME NEW S
          PROVE  Want(live, desired, name, c, S) = IF AddColumn(name, y) \in S THEN {View(y)} ELSE {}
      <3>. HIDE DEF name
      <3>. QED  BY <1>1, <1>3, WantAdded
    <2>2. op = AddColumn(name, y)
      BY <1>1
    <2>. QED  BY <2>1, <2>2
  <1>20. Succeeds(todo, now, keys)
    BY <1>3, <1>9, <1>13 DEF Succeeds
  <1>. HIDE DEF after, todo, name, c
  <1>21. Leaves(todo, now, after)
    BY <1>3, <1>11, <1>20, ResultLeaves DEF after
  <1>23. At(after[name], c) = Want(live, desired, name, c, E)
    BY <1>9, <1>13, <1>21 DEF Leaves, c
  <1>24. \A o : ~OnColumn(o, name, c) => (o \in D <=> o \in E)
    BY <1>4
  <1>. HIDE DEF E
  <1>25. Reached(tables, live, desired, E, after)
    BY <1>2, <1>12, <1>21, <1>23, <1>24, ReachedColumn
  <1>22. Reached(tables, live, desired, E, after)
    BY <1>25
  <1>. QED  BY <1>20, <1>22 DEF after, todo, E, name, c

\* A column goes.
LEMMA DropForward ==
  ASSUME NEW tables, NEW live, NEW desired, NEW namespaces,
         Migrates(tables, live, desired, namespaces), NEW keys,
         NEW D \in SUBSET PlannedOperations(live, desired), NEW now,
         Reached(tables, live, desired, D, now),
         NEW op \in PlannedOperations(live, desired) \ D, op.kind = "DropColumn"
  PROVE  /\ Succeeds(op, now, keys)
         /\ Reached(tables, live, desired, D \cup {op}, Result(op, now))
  <1>. DEFINE name == op.name
              todo == op
              E == D \cup {op}
              after == Result(todo, now)
  <1>1. PICK x \in Removed(live, desired, name) : op = DropColumn(name, x)
    BY PlannedKinds
  <1>2. name \in DOMAIN live \cap DOMAIN desired
    BY PlannedKinds
  <1>. DEFINE c == x.name
  <1>3. /\ Settled(live[name]) /\ Settled(desired[name])
        /\ TableOK(live[name]) /\ TableOK(desired[name])
        /\ name \in DOMAIN now /\ TablesOK(now) /\ TableOK(now[name])
        /\ now[name].primary_key = live[name].primary_key
        /\ live[name].primary_key = desired[name].primary_key
        /\ At(now[name], c) = Want(live, desired, name, c, D)
        /\ c \in ColumnNames(now[name]) <=> Want(live, desired, name, c, D) # {}
    BY <1>2, KeptTable
  <1>4. OnColumn(op, name, c)
    BY <1>1, OnColumnIs
  <1>5. E \in SUBSET PlannedOperations(live, desired)
    OBVIOUS
  <1>9. todo.kind = "DropColumn" /\ todo.name = name /\ todo.column = x
    BY <1>1, OperationFields
  <1>11. OperationOK(todo)
    BY <1>9 DEF OperationOK
  <1>12. OnColumn(todo, name, c)
    BY <1>4
  <1>13. Want(live, desired, name, c, D) = {View(x)} /\ Want(live, desired, name, c, E) = {}
    <2>1. ASSUME NEW S \in SUBSET PlannedOperations(live, desired)
          PROVE  Want(live, desired, name, c, S) = IF DropColumn(name, x) \in S THEN {} ELSE {View(x)}
      <3>. HIDE DEF name
      <3>. QED  BY <1>1, <1>3, WantRemoved
    <2>2. op = DropColumn(name, x)
      BY <1>1
    <2>. QED  BY <1>5, <2>1, <2>2
  <1>20. Succeeds(todo, now, keys)
    BY <1>3, <1>9, <1>13 DEF Succeeds
  <1>. HIDE DEF after, todo, name, c
  <1>21. Leaves(todo, now, after)
    BY <1>3, <1>11, <1>20, ResultLeaves DEF after
  <1>23. At(after[name], c) = Want(live, desired, name, c, E)
    BY <1>9, <1>13, <1>21 DEF Leaves, c
  <1>24. \A o : ~OnColumn(o, name, c) => (o \in D <=> o \in E)
    BY <1>4
  <1>. HIDE DEF E
  <1>25. Reached(tables, live, desired, E, after)
    BY <1>2, <1>12, <1>21, <1>23, <1>24, ReachedColumn
  <1>22. Reached(tables, live, desired, E, after)
    BY <1>25
  <1>. QED  BY <1>20, <1>22 DEF after, todo, E, name, c

\* A column that went comes again.
LEMMA DropBackward ==
  ASSUME NEW tables, NEW live, NEW desired, NEW namespaces,
         Migrates(tables, live, desired, namespaces), NEW keys,
         NEW D \in SUBSET PlannedOperations(live, desired), NEW now,
         Reached(tables, live, desired, D, now),
         NEW op \in D, op.kind = "DropColumn"
  PROVE  /\ Succeeds(InverseOf(op), now, keys)
         /\ Reached(tables, live, desired, D \ {op}, Result(InverseOf(op), now))
  <1>. DEFINE name == op.name
              todo == InverseOf(op)
              E == D \ {op}
              after == Result(todo, now)
  <1>1. PICK x \in Removed(live, desired, name) : op = DropColumn(name, x)
    BY PlannedKinds
  <1>2. name \in DOMAIN live \cap DOMAIN desired
    BY PlannedKinds
  <1>. DEFINE c == x.name
  <1>3. /\ Settled(live[name]) /\ Settled(desired[name])
        /\ TableOK(live[name]) /\ TableOK(desired[name])
        /\ name \in DOMAIN now /\ TablesOK(now) /\ TableOK(now[name])
        /\ now[name].primary_key = live[name].primary_key
        /\ live[name].primary_key = desired[name].primary_key
        /\ At(now[name], c) = Want(live, desired, name, c, D)
        /\ c \in ColumnNames(now[name]) <=> Want(live, desired, name, c, D) # {}
    BY <1>2, KeptTable
  <1>4. OnColumn(op, name, c)
    BY <1>1, OnColumnIs
  <1>5. E \in SUBSET PlannedOperations(live, desired)
    OBVIOUS
  <1>10. /\ x \in ToSet(live[name].columns) /\ x \in Columns /\ View(StoredColumn(x, {})) = View(x)
    BY <1>1, <1>3, SettledColumn DEF Removed
  <1>8. op.kind = "DropColumn" /\ op.name = name /\ op.column = x
    BY <1>1, OperationFields
  <1>7. todo = AddColumn(name, x)
    BY <1>8 DEF InverseOf
  <1>9. todo.kind = "AddColumn" /\ todo.name = name /\ todo.column = x
    BY <1>7, OperationFields
  <1>11. OperationOK(todo)
    BY <1>9, <1>10 DEF OperationOK
  <1>12. OnColumn(todo, name, c)
    BY <1>7, OnColumnIs
  <1>13. Want(live, desired, name, c, D) = {} /\ Want(live, desired, name, c, E) = {View(x)}
    <2>1. ASSUME NEW S \in SUBSET PlannedOperations(live, desired)
          PROVE  Want(live, desired, name, c, S) = IF DropColumn(name, x) \in S THEN {} ELSE {View(x)}
      <3>. HIDE DEF name
      <3>. QED  BY <1>1, <1>3, WantRemoved
    <2>2. op = DropColumn(name, x)
      BY <1>1
    <2>. QED  BY <1>5, <2>1, <2>2
  <1>20. Succeeds(todo, now, keys)
    BY <1>3, <1>9, <1>13 DEF Succeeds
  <1>. HIDE DEF after, todo, name, c
  <1>21. Leaves(todo, now, after)
    BY <1>3, <1>11, <1>20, ResultLeaves DEF after
  <1>23. At(after[name], c) = Want(live, desired, name, c, E)
    BY <1>9, <1>10, <1>13, <1>21 DEF Leaves, c
  <1>24. \A o : ~OnColumn(o, name, c) => (o \in D <=> o \in E)
    BY <1>4
  <1>. HIDE DEF E
  <1>25. Reached(tables, live, desired, E, after)
    BY <1>2, <1>12, <1>21, <1>23, <1>24, ReachedColumn
  <1>22. Reached(tables, live, desired, E, after)
    BY <1>25
  <1>. QED  BY <1>20, <1>22 DEF after, todo, E, name, c

\* A column takes its new type.
LEMMA RetypeForward ==
  ASSUME NEW tables, NEW live, NEW desired, NEW namespaces,
         Migrates(tables, live, desired, namespaces), NEW keys,
         NEW D \in SUBSET PlannedOperations(live, desired), NEW now,
         Reached(tables, live, desired, D, now),
         NEW op \in PlannedOperations(live, desired) \ D, op.kind = "AlterType"
  PROVE  /\ Succeeds(op, now, keys) <=> CastExists(op.from, op.to)
         /\ Succeeds(op, now, keys) =>
              Reached(tables, live, desired, D \cup {op}, Result(op, now))
  <1>. DEFINE name == op.name
              todo == op
              E == D \cup {op}
              after == Result(todo, now)
  <1>1. PICK x \in Retyped(live, desired, name) : op = Retyping(desired, name, x)
    BY PlannedKinds
  <1>2. name \in DOMAIN live \cap DOMAIN desired
    BY PlannedKinds
  <1>. DEFINE c == x.name
  <1>3. /\ Settled(live[name]) /\ Settled(desired[name])
        /\ TableOK(live[name]) /\ TableOK(desired[name])
        /\ name \in DOMAIN now /\ TablesOK(now) /\ TableOK(now[name])
        /\ now[name].primary_key = live[name].primary_key
        /\ live[name].primary_key = desired[name].primary_key
        /\ At(now[name], c) = Want(live, desired, name, c, D)
        /\ c \in ColumnNames(now[name]) <=> Want(live, desired, name, c, D) # {}
    BY <1>2, KeptTable
  <1>4. OnColumn(op, name, c)
    BY <1>1, OnColumnIs
  <1>5. E \in SUBSET PlannedOperations(live, desired)
    OBVIOUS
  <1>. DEFINE y == ColumnOf(desired[name], c)
              nulls == IF Renulling(name, x) \in D THEN y.nullable ELSE x.nullable
  <1>10. /\ x \in ToSet(live[name].columns) /\ c \in ColumnNames(desired[name])
         /\ x.type \in Types /\ CatalogType(x.type) = x.type /\ StoredType(x.type) = x.type
         /\ y.type \in Types /\ CatalogType(y.type) = y.type /\ StoredType(y.type) = y.type
    <2>1. x \in ToSet(live[name].columns) /\ c \in ColumnNames(desired[name])
      BY <1>1 DEF Retyped
    <2>2. y \in ToSet(desired[name].columns)
      BY <1>3, <2>1, AtIs
    <2>. QED  BY <1>3, <2>1, <2>2, SettledColumn
  <1>8. op.kind = "AlterType" /\ op.name = name /\ op.column = c /\ op.from = x.type /\ op.to = y.type
    BY <1>1, OperationFields DEF Retyping
  <1>9. todo.kind = "AlterType" /\ todo.name = name /\ todo.column = c /\ todo.to = y.type
    BY <1>8
  <1>12. OnColumn(todo, name, c)
    BY <1>4
  <1>11. OperationOK(todo)
    BY <1>9, <1>10 DEF OperationOK
  <1>14. Renulling(name, x) \in D <=> Renulling(name, x) \in E
    <2>1. Renulling(name, x).kind # "AlterType"
      BY OperationFields DEF Renulling
    <2>. QED  BY <1>8, <2>1
  <1>15. Retyping(desired, name, x) = op
    BY <1>1
  <1>13. /\ Want(live, desired, name, c, D) = {[name |-> c, type |-> x.type, nullable |-> nulls]}
         /\ Want(live, desired, name, c, E) = {[name |-> c, type |-> y.type, nullable |-> nulls]}
    <2>1. ASSUME NEW S \in SUBSET PlannedOperations(live, desired)
          PROVE  Want(live, desired, name, c, S) = Remains(desired, name, x, S)
      <3>. HIDE DEF name
      <3>1. Settled(live[name]) /\ Settled(desired[name])
        BY <1>3
      <3>2. x \in ToSet(live[name].columns) /\ x.name \in ColumnNames(desired[name])
        BY <1>10
      <3>. QED  BY <3>1, <3>2, WantKept
    <2>2. /\ Want(live, desired, name, c, D) =
               {[name |-> c,
                 type |-> IF Retyping(desired, name, x) \in D THEN y.type ELSE x.type,
                 nullable |-> IF Renulling(name, x) \in D THEN y.nullable ELSE x.nullable]}
          /\ Want(live, desired, name, c, E) =
               {[name |-> c,
                 type |-> IF Retyping(desired, name, x) \in E THEN y.type ELSE x.type,
                 nullable |-> IF Renulling(name, x) \in E THEN y.nullable ELSE x.nullable]}
      <3>1. E \in SUBSET PlannedOperations(live, desired)
        BY <1>5
      <3>. HIDE DEF E, name
      <3>. QED  BY <2>1, <3>1 DEF Remains
    <2>. QED  BY <1>14, <1>15, <2>2
  <1>. HIDE DEF nulls
  <1>16. /\ c \in ColumnNames(now[name])
         /\ CatalogType(ColumnOf(now[name], c).type) = x.type
    <2>. DEFINE z == ColumnOf(now[name], c)
    <2>1. c \in ColumnNames(now[name]) /\ At(now[name], c) = {View(z)}
      BY <1>3, <1>13, AtIs
    <2>2. View(z).type = x.type
      BY <1>3, <1>13, <2>1
    <2>. QED  BY <2>1, <2>2 DEF View
  <1>20. Succeeds(todo, now, keys) <=> CastExists(x.type, y.type)
    BY <1>3, <1>9, <1>16 DEF Succeeds
  <1>. HIDE DEF after, todo, name, c
  <1>26. SUFFICES ASSUME Succeeds(todo, now, keys)
                  PROVE  Reached(tables, live, desired, E, after)
    BY <1>8, <1>20 DEF after, todo, E
  <1>21. Leaves(todo, now, after)
    BY <1>3, <1>11, <1>26, ResultLeaves DEF after
  <1>23. At(after[name], c) = Want(live, desired, name, c, E)
    <2>. DEFINE view == [name |-> c, type |-> x.type, nullable |-> nulls]
    <2>1. view \in At(now[todo.name], todo.column) /\ view.nullable = nulls
      BY <1>3, <1>9, <1>13
    <2>2. At(after[todo.name], todo.column) =
            {[name |-> todo.column, type |-> CatalogType(StoredType(todo.to)), nullable |-> view.nullable]}
      BY <1>9, <1>21, <2>1 DEF Leaves
    <2>. QED  BY <1>9, <1>10, <1>13, <2>1, <2>2
  <1>24. \A o : ~OnColumn(o, name, c) => (o \in D <=> o \in E)
    BY <1>4
  <1>. HIDE DEF E
  <1>25. Reached(tables, live, desired, E, after)
    BY <1>2, <1>12, <1>21, <1>23, <1>24, ReachedColumn
  <1>. QED  BY <1>25

\* A column takes its old type again.
LEMMA RetypeBackward ==
  ASSUME NEW tables, NEW live, NEW desired, NEW namespaces,
         Migrates(tables, live, desired, namespaces), NEW keys,
         NEW D \in SUBSET PlannedOperations(live, desired), NEW now,
         Reached(tables, live, desired, D, now),
         NEW op \in D, op.kind = "AlterType"
  PROVE  /\ Succeeds(InverseOf(op), now, keys) <=> CastExists(op.to, op.from)
         /\ Succeeds(InverseOf(op), now, keys) =>
              Reached(tables, live, desired, D \ {op}, Result(InverseOf(op), now))
  <1>. DEFINE name == op.name
              todo == InverseOf(op)
              E == D \ {op}
              after == Result(todo, now)
  <1>1. PICK x \in Retyped(live, desired, name) : op = Retyping(desired, name, x)
    BY PlannedKinds
  <1>2. name \in DOMAIN live \cap DOMAIN desired
    BY PlannedKinds
  <1>. DEFINE c == x.name
  <1>3. /\ Settled(live[name]) /\ Settled(desired[name])
        /\ TableOK(live[name]) /\ TableOK(desired[name])
        /\ name \in DOMAIN now /\ TablesOK(now) /\ TableOK(now[name])
        /\ now[name].primary_key = live[name].primary_key
        /\ live[name].primary_key = desired[name].primary_key
        /\ At(now[name], c) = Want(live, desired, name, c, D)
        /\ c \in ColumnNames(now[name]) <=> Want(live, desired, name, c, D) # {}
    BY <1>2, KeptTable
  <1>4. OnColumn(op, name, c)
    BY <1>1, OnColumnIs
  <1>5. E \in SUBSET PlannedOperations(live, desired)
    OBVIOUS
  <1>. DEFINE y == ColumnOf(desired[name], c)
              nulls == IF Renulling(name, x) \in D THEN y.nullable ELSE x.nullable
  <1>10. /\ x \in ToSet(live[name].columns) /\ c \in ColumnNames(desired[name])
         /\ x.type \in Types /\ CatalogType(x.type) = x.type /\ StoredType(x.type) = x.type
         /\ y.type \in Types /\ CatalogType(y.type) = y.type /\ StoredType(y.type) = y.type
    <2>1. x \in ToSet(live[name].columns) /\ c \in ColumnNames(desired[name])
      BY <1>1 DEF Retyped
    <2>2. y \in ToSet(desired[name].columns)
      BY <1>3, <2>1, AtIs
    <2>. QED  BY <1>3, <2>1, <2>2, SettledColumn
  <1>8. op.kind = "AlterType" /\ op.name = name /\ op.column = c /\ op.from = x.type /\ op.to = y.type
    BY <1>1, OperationFields DEF Retyping
  <1>7. todo = AlterType(name, c, y.type, x.type)
    BY <1>8 DEF InverseOf
  <1>9. todo.kind = "AlterType" /\ todo.name = name /\ todo.column = c /\ todo.to = x.type
    BY <1>7, OperationFields
  <1>12. OnColumn(todo, name, c)
    BY <1>9 DEF OnColumn, ColumnTouched
  <1>11. OperationOK(todo)
    BY <1>9, <1>10 DEF OperationOK
  <1>14. Renulling(name, x) \in D <=> Renulling(name, x) \in E
    <2>1. Renulling(name, x).kind # "AlterType"
      BY OperationFields DEF Renulling
    <2>. QED  BY <1>8, <2>1
  <1>15. Retyping(desired, name, x) = op
    BY <1>1
  <1>13. /\ Want(live, desired, name, c, D) = {[name |-> c, type |-> y.type, nullable |-> nulls]}
         /\ Want(live, desired, name, c, E) = {[name |-> c, type |-> x.type, nullable |-> nulls]}
    <2>1. ASSUME NEW S \in SUBSET PlannedOperations(live, desired)
          PROVE  Want(live, desired, name, c, S) = Remains(desired, name, x, S)
      <3>. HIDE DEF name
      <3>1. Settled(live[name]) /\ Settled(desired[name])
        BY <1>3
      <3>2. x \in ToSet(live[name].columns) /\ x.name \in ColumnNames(desired[name])
        BY <1>10
      <3>. QED  BY <3>1, <3>2, WantKept
    <2>2. /\ Want(live, desired, name, c, D) =
               {[name |-> c,
                 type |-> IF Retyping(desired, name, x) \in D THEN y.type ELSE x.type,
                 nullable |-> IF Renulling(name, x) \in D THEN y.nullable ELSE x.nullable]}
          /\ Want(live, desired, name, c, E) =
               {[name |-> c,
                 type |-> IF Retyping(desired, name, x) \in E THEN y.type ELSE x.type,
                 nullable |-> IF Renulling(name, x) \in E THEN y.nullable ELSE x.nullable]}
      <3>1. E \in SUBSET PlannedOperations(live, desired)
        BY <1>5
      <3>. HIDE DEF E, name
      <3>. QED  BY <2>1, <3>1 DEF Remains
    <2>. QED  BY <1>14, <1>15, <2>2
  <1>. HIDE DEF nulls
  <1>16. /\ c \in ColumnNames(now[name])
         /\ CatalogType(ColumnOf(now[name], c).type) = y.type
    <2>. DEFINE z == ColumnOf(now[name], c)
    <2>1. c \in ColumnNames(now[name]) /\ At(now[name], c) = {View(z)}
      BY <1>3, <1>13, AtIs
    <2>2. View(z).type = y.type
      BY <1>3, <1>13, <2>1
    <2>. QED  BY <2>1, <2>2 DEF View
  <1>20. Succeeds(todo, now, keys) <=> CastExists(y.type, x.type)
    BY <1>3, <1>9, <1>16 DEF Succeeds
  <1>. HIDE DEF after, todo, name, c
  <1>26. SUFFICES ASSUME Succeeds(todo, now, keys)
                  PROVE  Reached(tables, live, desired, E, after)
    BY <1>8, <1>20 DEF after, todo, E
  <1>21. Leaves(todo, now, after)
    BY <1>3, <1>11, <1>26, ResultLeaves DEF after
  <1>23. At(after[name], c) = Want(live, desired, name, c, E)
    <2>. DEFINE view == [name |-> c, type |-> y.type, nullable |-> nulls]
    <2>1. view \in At(now[todo.name], todo.column) /\ view.nullable = nulls
      BY <1>3, <1>9, <1>13
    <2>2. At(after[todo.name], todo.column) =
            {[name |-> todo.column, type |-> CatalogType(StoredType(todo.to)), nullable |-> view.nullable]}
      BY <1>9, <1>21, <2>1 DEF Leaves
    <2>. QED  BY <1>9, <1>10, <1>13, <2>1, <2>2
  <1>24. \A o : ~OnColumn(o, name, c) => (o \in D <=> o \in E)
    BY <1>4
  <1>. HIDE DEF E
  <1>25. Reached(tables, live, desired, E, after)
    BY <1>2, <1>12, <1>21, <1>23, <1>24, ReachedColumn
  <1>. QED  BY <1>25

\* A column takes its new nulls.
LEMMA RenullForward ==
  ASSUME NEW tables, NEW live, NEW desired, NEW namespaces,
         Migrates(tables, live, desired, namespaces), NEW keys,
         NEW D \in SUBSET PlannedOperations(live, desired), NEW now,
         Reached(tables, live, desired, D, now),
         NEW op \in PlannedOperations(live, desired) \ D, op.kind \in {"SetNotNull", "DropNotNull"}
  PROVE  /\ Succeeds(op, now, keys)
         /\ Reached(tables, live, desired, D \cup {op}, Result(op, now))
  <1>. DEFINE name == op.name
              todo == op
              E == D \cup {op}
              after == Result(todo, now)
  <1>1. PICK x \in Renulled(live, desired, name) : op = Renulling(name, x)
    BY PlannedKinds
  <1>2. name \in DOMAIN live \cap DOMAIN desired
    BY PlannedKinds
  <1>. DEFINE c == x.name
  <1>3. /\ Settled(live[name]) /\ Settled(desired[name])
        /\ TableOK(live[name]) /\ TableOK(desired[name])
        /\ name \in DOMAIN now /\ TablesOK(now) /\ TableOK(now[name])
        /\ now[name].primary_key = live[name].primary_key
        /\ live[name].primary_key = desired[name].primary_key
        /\ At(now[name], c) = Want(live, desired, name, c, D)
        /\ c \in ColumnNames(now[name]) <=> Want(live, desired, name, c, D) # {}
    BY <1>2, KeptTable
  <1>4. OnColumn(op, name, c)
    BY <1>1, OnColumnIs
  <1>5. E \in SUBSET PlannedOperations(live, desired)
    OBVIOUS
  <1>. DEFINE y == ColumnOf(desired[name], c)
              type == IF Retyping(desired, name, x) \in D THEN y.type ELSE x.type
  <1>10. /\ x \in ToSet(live[name].columns) /\ c \in ColumnNames(desired[name])
         /\ x.nullable \in BOOLEAN /\ y.nullable \in BOOLEAN /\ x.nullable # y.nullable
         /\ c \in ToSet(now[name].primary_key) => x.nullable = FALSE /\ y.nullable = FALSE
    <2>1. x \in ToSet(live[name].columns) /\ c \in ColumnNames(desired[name]) /\ x.nullable # y.nullable
      BY <1>1 DEF Renulled
    <2>2. y \in ToSet(desired[name].columns) /\ y.name = c
      BY <1>3, <2>1, AtIs
    <2>3. x.nullable \in BOOLEAN /\ y.nullable \in BOOLEAN
      BY <1>3, <2>1, <2>2, SettledColumn
    <2>4. c \in ToSet(live[name].primary_key) => x.nullable = FALSE
      BY <1>3, <2>1 DEF Settled
    <2>5. c \in ToSet(desired[name].primary_key) => y.nullable = FALSE
      BY <1>3, <2>2 DEF Settled
    <2>. QED  BY <1>3, <2>1, <2>3, <2>4, <2>5
  <1>8. /\ op.kind = (IF x.nullable THEN "SetNotNull" ELSE "DropNotNull")
        /\ op.name = name /\ op.column = c
    BY <1>1, OperationFields DEF Renulling
  <1>9. /\ todo.kind = (IF y.nullable THEN "DropNotNull" ELSE "SetNotNull")
        /\ todo.name = name /\ todo.column = c
    BY <1>8, <1>10
  <1>12. OnColumn(todo, name, c)
    BY <1>4
  <1>11. OperationOK(todo)
    BY <1>9 DEF OperationOK
  <1>14. Retyping(desired, name, x) \in D <=> Retyping(desired, name, x) \in E
    <2>1. Retyping(desired, name, x).kind = "AlterType"
      BY OperationFields DEF Retyping
    <2>. QED  BY <1>8, <2>1
  <1>15. Renulling(name, x) = op
    BY <1>1
  <1>13. /\ Want(live, desired, name, c, D) = {[name |-> c, type |-> type, nullable |-> x.nullable]}
         /\ Want(live, desired, name, c, E) = {[name |-> c, type |-> type, nullable |-> y.nullable]}
    <2>1. ASSUME NEW S \in SUBSET PlannedOperations(live, desired)
          PROVE  Want(live, desired, name, c, S) = Remains(desired, name, x, S)
      <3>. HIDE DEF name
      <3>1. Settled(live[name]) /\ Settled(desired[name])
        BY <1>3
      <3>2. x \in ToSet(live[name].columns) /\ x.name \in ColumnNames(desired[name])
        BY <1>10
      <3>. QED  BY <3>1, <3>2, WantKept
    <2>2. /\ Want(live, desired, name, c, D) =
               {[name |-> c,
                 type |-> IF Retyping(desired, name, x) \in D THEN y.type ELSE x.type,
                 nullable |-> IF Renulling(name, x) \in D THEN y.nullable ELSE x.nullable]}
          /\ Want(live, desired, name, c, E) =
               {[name |-> c,
                 type |-> IF Retyping(desired, name, x) \in E THEN y.type ELSE x.type,
                 nullable |-> IF Renulling(name, x) \in E THEN y.nullable ELSE x.nullable]}
      <3>1. E \in SUBSET PlannedOperations(live, desired)
        BY <1>5
      <3>. HIDE DEF E, name
      <3>. QED  BY <2>1, <3>1 DEF Remains
    <2>. QED  BY <1>14, <1>15, <2>2
  <1>. HIDE DEF type
  <1>20. Succeeds(todo, now, keys)
    <2>1. c \in ColumnNames(now[name])
      BY <1>3, <1>13
    <2>2. todo.kind = "DropNotNull" => c \notin ToSet(now[name].primary_key)
      BY <1>9, <1>10
    <2>. QED  BY <1>3, <1>9, <2>1, <2>2 DEF Succeeds
  <1>. HIDE DEF after, todo, name, c
  <1>21. Leaves(todo, now, after)
    BY <1>3, <1>11, <1>20, ResultLeaves DEF after
  <1>23. At(after[name], c) = Want(live, desired, name, c, E)
    <2>. DEFINE view == [name |-> c, type |-> type, nullable |-> x.nullable]
    <2>1. view \in At(now[todo.name], todo.column) /\ view.type = type
      BY <1>3, <1>9, <1>13
    <2>2. CASE y.nullable = TRUE
      <3>1. At(after[todo.name], todo.column) = {[name |-> todo.column, type |-> view.type, nullable |-> TRUE]}
        BY <1>9, <1>21, <2>1, <2>2 DEF Leaves
      <3>. QED  BY <1>9, <1>13, <2>1, <2>2, <3>1
    <2>3. CASE y.nullable = FALSE
      <3>1. At(after[todo.name], todo.column) = {[name |-> todo.column, type |-> view.type, nullable |-> FALSE]}
        BY <1>9, <1>21, <2>1, <2>3 DEF Leaves
      <3>. QED  BY <1>9, <1>13, <2>1, <2>3, <3>1
    <2>. QED  BY <1>10, <2>2, <2>3
  <1>24. \A o : ~OnColumn(o, name, c) => (o \in D <=> o \in E)
    BY <1>4
  <1>. HIDE DEF E
  <1>25. Reached(tables, live, desired, E, after)
    BY <1>2, <1>12, <1>21, <1>23, <1>24, ReachedColumn
  <1>22. Reached(tables, live, desired, E, after)
    BY <1>25
  <1>. QED  BY <1>20, <1>22 DEF after, todo, E, name, c

\* A column takes its old nulls again.
LEMMA RenullBackward ==
  ASSUME NEW tables, NEW live, NEW desired, NEW namespaces,
         Migrates(tables, live, desired, namespaces), NEW keys,
         NEW D \in SUBSET PlannedOperations(live, desired), NEW now,
         Reached(tables, live, desired, D, now),
         NEW op \in D, op.kind \in {"SetNotNull", "DropNotNull"}
  PROVE  /\ Succeeds(InverseOf(op), now, keys)
         /\ Reached(tables, live, desired, D \ {op}, Result(InverseOf(op), now))
  <1>. DEFINE name == op.name
              todo == InverseOf(op)
              E == D \ {op}
              after == Result(todo, now)
  <1>1. PICK x \in Renulled(live, desired, name) : op = Renulling(name, x)
    BY PlannedKinds
  <1>2. name \in DOMAIN live \cap DOMAIN desired
    BY PlannedKinds
  <1>. DEFINE c == x.name
  <1>3. /\ Settled(live[name]) /\ Settled(desired[name])
        /\ TableOK(live[name]) /\ TableOK(desired[name])
        /\ name \in DOMAIN now /\ TablesOK(now) /\ TableOK(now[name])
        /\ now[name].primary_key = live[name].primary_key
        /\ live[name].primary_key = desired[name].primary_key
        /\ At(now[name], c) = Want(live, desired, name, c, D)
        /\ c \in ColumnNames(now[name]) <=> Want(live, desired, name, c, D) # {}
    BY <1>2, KeptTable
  <1>4. OnColumn(op, name, c)
    BY <1>1, OnColumnIs
  <1>5. E \in SUBSET PlannedOperations(live, desired)
    OBVIOUS
  <1>. DEFINE y == ColumnOf(desired[name], c)
              type == IF Retyping(desired, name, x) \in D THEN y.type ELSE x.type
  <1>10. /\ x \in ToSet(live[name].columns) /\ c \in ColumnNames(desired[name])
         /\ x.nullable \in BOOLEAN /\ y.nullable \in BOOLEAN /\ x.nullable # y.nullable
         /\ c \in ToSet(now[name].primary_key) => x.nullable = FALSE /\ y.nullable = FALSE
    <2>1. x \in ToSet(live[name].columns) /\ c \in ColumnNames(desired[name]) /\ x.nullable # y.nullable
      BY <1>1 DEF Renulled
    <2>2. y \in ToSet(desired[name].columns) /\ y.name = c
      BY <1>3, <2>1, AtIs
    <2>3. x.nullable \in BOOLEAN /\ y.nullable \in BOOLEAN
      BY <1>3, <2>1, <2>2, SettledColumn
    <2>4. c \in ToSet(live[name].primary_key) => x.nullable = FALSE
      BY <1>3, <2>1 DEF Settled
    <2>5. c \in ToSet(desired[name].primary_key) => y.nullable = FALSE
      BY <1>3, <2>2 DEF Settled
    <2>. QED  BY <1>3, <2>1, <2>3, <2>4, <2>5
  <1>8. /\ op.kind = (IF x.nullable THEN "SetNotNull" ELSE "DropNotNull")
        /\ op.name = name /\ op.column = c
    BY <1>1, OperationFields DEF Renulling
  <1>7. todo = IF x.nullable THEN DropNotNull(name, c) ELSE SetNotNull(name, c)
    BY <1>8 DEF InverseOf
  <1>9. /\ todo.kind = (IF x.nullable THEN "DropNotNull" ELSE "SetNotNull")
        /\ todo.name = name /\ todo.column = c
    BY <1>7, OperationFields
  <1>12. OnColumn(todo, name, c)
    BY <1>9 DEF OnColumn, ColumnTouched
  <1>11. OperationOK(todo)
    BY <1>9 DEF OperationOK
  <1>14. Retyping(desired, name, x) \in D <=> Retyping(desired, name, x) \in E
    <2>1. Retyping(desired, name, x).kind = "AlterType"
      BY OperationFields DEF Retyping
    <2>. QED  BY <1>8, <2>1
  <1>15. Renulling(name, x) = op
    BY <1>1
  <1>13. /\ Want(live, desired, name, c, D) = {[name |-> c, type |-> type, nullable |-> y.nullable]}
         /\ Want(live, desired, name, c, E) = {[name |-> c, type |-> type, nullable |-> x.nullable]}
    <2>1. ASSUME NEW S \in SUBSET PlannedOperations(live, desired)
          PROVE  Want(live, desired, name, c, S) = Remains(desired, name, x, S)
      <3>. HIDE DEF name
      <3>1. Settled(live[name]) /\ Settled(desired[name])
        BY <1>3
      <3>2. x \in ToSet(live[name].columns) /\ x.name \in ColumnNames(desired[name])
        BY <1>10
      <3>. QED  BY <3>1, <3>2, WantKept
    <2>2. /\ Want(live, desired, name, c, D) =
               {[name |-> c,
                 type |-> IF Retyping(desired, name, x) \in D THEN y.type ELSE x.type,
                 nullable |-> IF Renulling(name, x) \in D THEN y.nullable ELSE x.nullable]}
          /\ Want(live, desired, name, c, E) =
               {[name |-> c,
                 type |-> IF Retyping(desired, name, x) \in E THEN y.type ELSE x.type,
                 nullable |-> IF Renulling(name, x) \in E THEN y.nullable ELSE x.nullable]}
      <3>1. E \in SUBSET PlannedOperations(live, desired)
        BY <1>5
      <3>. HIDE DEF E, name
      <3>. QED  BY <2>1, <3>1 DEF Remains
    <2>. QED  BY <1>14, <1>15, <2>2
  <1>. HIDE DEF type
  <1>20. Succeeds(todo, now, keys)
    <2>1. c \in ColumnNames(now[name])
      BY <1>3, <1>13
    <2>2. todo.kind = "DropNotNull" => c \notin ToSet(now[name].primary_key)
      BY <1>9, <1>10
    <2>. QED  BY <1>3, <1>9, <2>1, <2>2 DEF Succeeds
  <1>. HIDE DEF after, todo, name, c
  <1>21. Leaves(todo, now, after)
    BY <1>3, <1>11, <1>20, ResultLeaves DEF after
  <1>23. At(after[name], c) = Want(live, desired, name, c, E)
    <2>. DEFINE view == [name |-> c, type |-> type, nullable |-> y.nullable]
    <2>1. view \in At(now[todo.name], todo.column) /\ view.type = type
      BY <1>3, <1>9, <1>13
    <2>2. CASE x.nullable = TRUE
      <3>1. At(after[todo.name], todo.column) = {[name |-> todo.column, type |-> view.type, nullable |-> TRUE]}
        BY <1>9, <1>21, <2>1, <2>2 DEF Leaves
      <3>. QED  BY <1>9, <1>13, <2>1, <2>2, <3>1
    <2>3. CASE x.nullable = FALSE
      <3>1. At(after[todo.name], todo.column) = {[name |-> todo.column, type |-> view.type, nullable |-> FALSE]}
        BY <1>9, <1>21, <2>1, <2>3 DEF Leaves
      <3>. QED  BY <1>9, <1>13, <2>1, <2>3, <3>1
    <2>. QED  BY <1>10, <2>2, <2>3
  <1>24. \A o : ~OnColumn(o, name, c) => (o \in D <=> o \in E)
    BY <1>4
  <1>. HIDE DEF E
  <1>25. Reached(tables, live, desired, E, after)
    BY <1>2, <1>12, <1>21, <1>23, <1>24, ReachedColumn
  <1>22. Reached(tables, live, desired, E, after)
    BY <1>25
  <1>. QED  BY <1>20, <1>22 DEF after, todo, E, name, c

\* A settled table is stored as it is.
LEMMA StoredSettled ==
  ASSUME NEW table, Settled(table)
  PROVE  TableOK(Stored(table)) /\ SameTable(Stored(table), table)
  <1>. DEFINE s == table.columns
              key == ToSet(table.primary_key)
              r == [k \in DOMAIN s |-> StoredColumn(s[k], key)]
  <1>1. TableOK(table)
    BY DEF Settled
  <1>2. s \in Seq(Columns) /\ DOMAIN s = 1 .. Len(s)
    BY <1>1 DEF TableOK
  <1>3. Stored(table).columns = r
    BY DEF Stored
  <1>4. \A k \in DOMAIN s : r[k].name = s[k].name /\ View(r[k]) = View(s[k])
    <2>. SUFFICES ASSUME NEW k \in DOMAIN s
                  PROVE  r[k].name = s[k].name /\ View(r[k]) = View(s[k])
      OBVIOUS
    <2>. DEFINE x == s[k]
    <2>1. x \in ToSet(s) /\ r[k] = StoredColumn(x, key)
      BY DEF ToSet
    <2>2. /\ x \in Columns /\ x.nullable \in BOOLEAN /\ StoredType(x.type) = x.type
          /\ x.name \in key => x.nullable = FALSE
      <3>1. x \in ToSet(table.columns)
        BY <2>1
      <3>. HIDE DEF x
      <3>. QED  BY <3>1, SettledColumn DEF Settled
    <2>. HIDE DEF x, key, r
    <2>3. /\ StoredColumn(x, key).name = x.name /\ StoredColumn(x, key).type = x.type
          /\ StoredColumn(x, key).nullable = (x.nullable /\ x.name \notin key)
      BY <2>2, StoredColumnOK
    <2>4. StoredColumn(x, key).nullable = x.nullable
      BY <2>2, <2>3
    <2>. QED  BY <2>1, <2>3, <2>4 DEF View, x
  <1>5. DOMAIN r = DOMAIN s
    OBVIOUS
  <1>. HIDE DEF r, s
  <1>6. ASSUME NEW c PROVE At(Stored(table), c) = At(table, c)
    <2>1. \A v : v \in At(Stored(table), c) <=> \E k \in DOMAIN s : r[k].name = c /\ v = View(r[k])
      BY <1>3, <1>5 DEF At, ToSet
    <2>2. \A v : v \in At(table, c) <=> \E k \in DOMAIN s : s[k].name = c /\ v = View(s[k])
      BY DEF At, ToSet, s
    <2>3. \A v : v \in At(Stored(table), c) <=> v \in At(table, c)
      BY <1>4, <2>1, <2>2
    <2>4. /\ At(Stored(table), c) = {View(x) : x \in {y \in ToSet(Stored(table).columns) : y.name = c}}
          /\ At(table, c) = {View(x) : x \in {y \in ToSet(table.columns) : y.name = c}}
      BY DEF At
    <2>. QED  BY <2>3, <2>4
  <1>. QED  BY <1>1, <1>6, StoredOK DEF SameTable

\* A table is created.
LEMMA CreateForward ==
  ASSUME NEW tables, NEW live, NEW desired, NEW namespaces,
         Migrates(tables, live, desired, namespaces), NEW keys,
         NEW D \in SUBSET PlannedOperations(live, desired), NEW now,
         Reached(tables, live, desired, D, now),
         NEW op \in PlannedOperations(live, desired) \ D, op.kind = "CreateTable"
  PROVE  /\ Succeeds(op, now, keys)
         /\ Reached(tables, live, desired, D \cup {op}, Result(op, now))
  <1>. DEFINE name == op.name
              E == D \cup {op}
              after == Result(op, now)
  <1>1. name \in DOMAIN desired \ DOMAIN live /\ op = CreateTable(name, desired[name])
    BY PlannedKinds
  <1>2. op.table = desired[name] /\ Settled(desired[name]) /\ name \notin DOMAIN tables
    BY <1>1, OperationFields DEF Migrates
  <1>3. TableOK(op.table) /\ SameTable(Stored(op.table), desired[name])
    BY <1>2, StoredSettled DEF Settled
  <1>4. OperationOK(op)
    BY <1>3 DEF OperationOK
  <1>5. name \notin DOMAIN now
    BY <1>1, <1>2 DEF Reached, Standing
  <1>6. Succeeds(op, now, keys)
    BY <1>5 DEF Succeeds
  <1>7. TablesOK(now)
    BY DEF Reached
  <1>8. Leaves(op, now, after)
    BY <1>4, <1>6, <1>7, ResultLeaves
  <1>. HIDE DEF after
  <1>9. name \in DOMAIN after /\ after[name] = Stored(op.table)
    BY <1>8 DEF Leaves
  <1>10. Standing(tables, live, desired, E, name)
    BY <1>1 DEF Standing
  <1>11. TableIs(tables, live, desired, E, name, after[name])
    BY <1>1, <1>3, <1>9 DEF TableIs
  <1>12. \A o : o.name # op.name => (o \in D <=> o \in E)
    OBVIOUS
  <1>. HIDE DEF E
  <1>13. Reached(tables, live, desired, E, after)
    BY <1>1, <1>8, <1>9, <1>10, <1>11, <1>12, ReachedTable
  <1>. QED  BY <1>6, <1>13 DEF E, after

\* A table that was created goes again: nothing from before refers to it.
LEMMA CreateBackward ==
  ASSUME NEW tables, NEW live, NEW desired, NEW namespaces,
         Migrates(tables, live, desired, namespaces), NEW keys,
         \A key \in keys : key.parent \in DOMAIN tables,
         NEW D \in SUBSET PlannedOperations(live, desired), NEW now,
         Reached(tables, live, desired, D, now),
         NEW op \in D, op.kind = "CreateTable"
  PROVE  /\ Succeeds(InverseOf(op), now, keys)
         /\ Reached(tables, live, desired, D \ {op}, Result(InverseOf(op), now))
  <1>. DEFINE name == op.name
              todo == InverseOf(op)
              E == D \ {op}
              after == Result(todo, now)
  <1>1. name \in DOMAIN desired \ DOMAIN live /\ op = CreateTable(name, desired[name])
    BY PlannedKinds
  <1>2. name \notin DOMAIN tables
    BY <1>1 DEF Migrates
  <1>3. todo = DropTable(name, op.table)
    BY DEF InverseOf
  <1>4. todo.kind = "DropTable" /\ todo.name = name
    BY <1>3, OperationFields
  <1>5. OperationOK(todo)
    BY <1>4 DEF OperationOK
  <1>6. name \in DOMAIN now
    BY <1>1 DEF Reached, Standing
  <1>7. Succeeds(todo, now, keys)
    BY <1>2, <1>4, <1>6 DEF Succeeds
  <1>8. TablesOK(now)
    BY DEF Reached
  <1>. HIDE DEF todo, name
  <1>9. Leaves(todo, now, after)
    BY <1>5, <1>7, <1>8, ResultLeaves
  <1>. HIDE DEF after
  <1>10. name \notin DOMAIN after
    BY <1>4, <1>9 DEF Leaves
  <1>11. ~Standing(tables, live, desired, E, name)
    BY <1>1, <1>2 DEF Standing
  <1>12. \A o : o.name # todo.name => (o \in D <=> o \in E)
    BY <1>4 DEF name
  <1>. HIDE DEF E
  <1>13. Reached(tables, live, desired, E, after)
    BY <1>1, <1>4, <1>9, <1>10, <1>11, <1>12, ReachedTable
  <1>. QED  BY <1>7, <1>13 DEF E, after, todo

\* A table goes, once all that refers to it is gone.
LEMMA DropTableForward ==
  ASSUME NEW tables, NEW live, NEW desired, NEW namespaces,
         Migrates(tables, live, desired, namespaces), NEW keys,
         NEW D \in SUBSET PlannedOperations(live, desired), NEW now,
         Reached(tables, live, desired, D, now),
         NEW op \in PlannedOperations(live, desired) \ D, op.kind = "DropTable",
         \A key \in keys : key.parent = op.name =>
           /\ key.child \in DOMAIN live \ DOMAIN desired
           /\ DropTable(key.child, live[key.child]) \in D
  PROVE  /\ Succeeds(op, now, keys)
         /\ Reached(tables, live, desired, D \cup {op}, Result(op, now))
  <1>. DEFINE name == op.name
              E == D \cup {op}
              after == Result(op, now)
  <1>1. name \in DOMAIN live \ DOMAIN desired /\ op = DropTable(name, live[name])
    BY PlannedKinds
  <1>2. name \in DOMAIN now
    BY <1>1 DEF Reached, Standing, Migrates
  <1>3. \A key \in keys : key.parent = name => key.child \notin DOMAIN now
    <2>. SUFFICES ASSUME NEW key \in keys, key.parent = name PROVE key.child \notin DOMAIN now
      OBVIOUS
    <2>. DEFINE child == key.child
    <2>1. child \in DOMAIN live \ DOMAIN desired /\ DropTable(child, live[child]) \in D
      OBVIOUS
    <2>. HIDE DEF child
    <2>2. child \notin DOMAIN now
      BY <2>1 DEF Reached, Standing
    <2>. QED  BY <2>2 DEF child
  <1>4. OperationOK(op)
    BY DEF OperationOK
  <1>6. Succeeds(op, now, keys)
    BY <1>2, <1>3 DEF Succeeds
  <1>7. TablesOK(now)
    BY DEF Reached
  <1>8. Leaves(op, now, after)
    BY <1>4, <1>6, <1>7, ResultLeaves
  <1>. HIDE DEF after
  <1>9. name \notin DOMAIN after
    BY <1>8 DEF Leaves
  <1>10. ~Standing(tables, live, desired, E, name)
    BY <1>1 DEF Standing
  <1>12. \A o : o.name # op.name => (o \in D <=> o \in E)
    OBVIOUS
  <1>. HIDE DEF E
  <1>13. Reached(tables, live, desired, E, after)
    BY <1>1, <1>8, <1>9, <1>10, <1>12, ReachedTable
  <1>. QED  BY <1>6, <1>13 DEF E, after

\* A table that went comes again.
LEMMA DropTableBackward ==
  ASSUME NEW tables, NEW live, NEW desired, NEW namespaces,
         Migrates(tables, live, desired, namespaces), NEW keys,
         NEW D \in SUBSET PlannedOperations(live, desired), NEW now,
         Reached(tables, live, desired, D, now),
         NEW op \in D, op.kind = "DropTable"
  PROVE  /\ Succeeds(InverseOf(op), now, keys)
         /\ Reached(tables, live, desired, D \ {op}, Result(InverseOf(op), now))
  <1>. DEFINE name == op.name
              todo == InverseOf(op)
              E == D \ {op}
              after == Result(todo, now)
  <1>1. name \in DOMAIN live \ DOMAIN desired /\ op = DropTable(name, live[name])
    BY PlannedKinds
  <1>2. op.table = live[name] /\ Settled(live[name]) /\ name \in DOMAIN tables
    BY <1>1, OperationFields DEF Migrates
  <1>3. todo = CreateTable(name, op.table)
    BY DEF InverseOf
  <1>4. todo.kind = "CreateTable" /\ todo.name = name /\ todo.table = live[name]
    BY <1>2, <1>3, OperationFields
  <1>5. TableOK(todo.table) /\ SameTable(Stored(todo.table), live[name])
    BY <1>2, <1>4, StoredSettled DEF Settled
  <1>6. OperationOK(todo)
    BY <1>4, <1>5 DEF OperationOK
  <1>7. name \notin DOMAIN now
    BY <1>1 DEF Reached, Standing
  <1>8. Succeeds(todo, now, keys)
    BY <1>4, <1>7 DEF Succeeds
  <1>9. TablesOK(now)
    BY DEF Reached
  <1>. HIDE DEF todo, name
  <1>10. Leaves(todo, now, after)
    BY <1>6, <1>8, <1>9, ResultLeaves
  <1>. HIDE DEF after
  <1>11. name \in DOMAIN after /\ after[name] = Stored(todo.table)
    BY <1>4, <1>10 DEF Leaves
  <1>12. Standing(tables, live, desired, E, name)
    BY <1>1, <1>2 DEF Standing
  <1>13. TableIs(tables, live, desired, E, name, after[name])
    BY <1>1, <1>5, <1>11 DEF TableIs
  <1>14. \A o : o.name # todo.name => (o \in D <=> o \in E)
    BY <1>4 DEF name
  <1>. HIDE DEF E
  <1>15. Reached(tables, live, desired, E, after)
    BY <1>1, <1>4, <1>10, <1>11, <1>12, <1>13, <1>14, ReachedTable
  <1>. QED  BY <1>8, <1>15 DEF E, after, todo

-----------------------------------------------------------------------------
(***************************************************************************)
(* Migrations are exact: any operation, and a run of them.                 *)
(***************************************************************************)

\* A change to a type that the old one has no cast to.
Castless(op) == op.kind = "AlterType" /\ ~CastExists(op.from, op.to)

\* Every planned operation succeeds when its turn comes, a table's drop when all
\* that refers to it is gone, but a type change only if there is a cast; and if
\* it succeeds it brings the tables where the migration then is.
LEMMA ForwardStep ==
  ASSUME NEW tables, NEW live, NEW desired, NEW namespaces,
         Migrates(tables, live, desired, namespaces), NEW keys,
         NEW D \in SUBSET PlannedOperations(live, desired), NEW now,
         Reached(tables, live, desired, D, now),
         NEW op \in PlannedOperations(live, desired) \ D,
         op.kind = "DropTable" =>
           \A key \in keys : key.parent = op.name =>
             /\ key.child \in DOMAIN live \ DOMAIN desired
             /\ DropTable(key.child, live[key.child]) \in D
  PROVE  /\ Succeeds(op, now, keys) <=> ~Castless(op)
         /\ Succeeds(op, now, keys) =>
              Reached(tables, live, desired, D \cup {op}, Result(op, now))
  <1>1. op.kind \in {"CreateTable", "DropTable", "AddColumn", "DropColumn", "AlterType",
                     "SetNotNull", "DropNotNull"}
    BY PlannedKinds
  <1>2. CASE op.kind = "CreateTable"
    BY <1>2, CreateForward DEF Castless
  <1>3. CASE op.kind = "DropTable"
    BY <1>3, DropTableForward DEF Castless
  <1>4. CASE op.kind = "AddColumn"
    BY <1>4, AddForward DEF Castless
  <1>5. CASE op.kind = "DropColumn"
    BY <1>5, DropForward DEF Castless
  <1>6. CASE op.kind = "AlterType"
    BY <1>6, RetypeForward DEF Castless
  <1>7. CASE op.kind \in {"SetNotNull", "DropNotNull"}
    BY <1>7, RenullForward DEF Castless
  <1>. QED  BY <1>1, <1>2, <1>3, <1>4, <1>5, <1>6, <1>7

\* The inverse of a type change is one the other way round.
LEMMA InverseCastless ==
  ASSUME NEW live, NEW desired, NEW op \in PlannedOperations(live, desired)
  PROVE  Castless(InverseOf(op)) <=> op.kind = "AlterType" /\ ~CastExists(op.to, op.from)
  <1>1. op.kind \in {"CreateTable", "DropTable", "AddColumn", "DropColumn", "AlterType",
                     "SetNotNull", "DropNotNull"}
    BY PlannedKinds
  <1>2. CASE op.kind = "AlterType"
    BY <1>2, OperationFields DEF Castless, InverseOf
  <1>3. CASE op.kind # "AlterType"
    BY <1>1, <1>3, OperationFields DEF Castless, InverseOf
  <1>. QED  BY <1>2, <1>3

\* The inverse of every operation that is done succeeds, that of a type change if
\* there is a cast back, and undoes it.
LEMMA BackwardStep ==
  ASSUME NEW tables, NEW live, NEW desired, NEW namespaces,
         Migrates(tables, live, desired, namespaces), NEW keys,
         \A key \in keys : key.parent \in DOMAIN tables,
         NEW D \in SUBSET PlannedOperations(live, desired), NEW now,
         Reached(tables, live, desired, D, now),
         NEW op \in D
  PROVE  /\ Succeeds(InverseOf(op), now, keys) <=> ~Castless(InverseOf(op))
         /\ Succeeds(InverseOf(op), now, keys) =>
              Reached(tables, live, desired, D \ {op}, Result(InverseOf(op), now))
  <1>1. op.kind \in {"CreateTable", "DropTable", "AddColumn", "DropColumn", "AlterType",
                     "SetNotNull", "DropNotNull"}
    BY PlannedKinds
  <1>8. Castless(InverseOf(op)) <=> op.kind = "AlterType" /\ ~CastExists(op.to, op.from)
    BY InverseCastless
  <1>2. CASE op.kind = "CreateTable"
    BY <1>2, <1>8, CreateBackward
  <1>3. CASE op.kind = "DropTable"
    BY <1>3, <1>8, DropTableBackward
  <1>4. CASE op.kind = "AddColumn"
    BY <1>4, <1>8, AddBackward
  <1>5. CASE op.kind = "DropColumn"
    BY <1>5, <1>8, DropBackward
  <1>6. CASE op.kind = "AlterType"
    BY <1>6, <1>8, RetypeBackward
  <1>7. CASE op.kind \in {"SetNotNull", "DropNotNull"}
    BY <1>7, <1>8, RenullBackward
  <1>. QED  BY <1>1, <1>2, <1>3, <1>4, <1>5, <1>6, <1>7

\* A sequence of operations goes where each of them leads, unless one of them is
\* a type change without a cast.
LEMMA RunReaches ==
  ASSUME NEW tables, NEW live, NEW desired, NEW done, NEW keys, NEW start,
         NEW ops, Len(ops) \in Nat,
         Reached(tables, live, desired, done[0], start),
         \A k \in 1 .. Len(ops) : \A now : Reached(tables, live, desired, done[k - 1], now) =>
           /\ Succeeds(ops[k], now, keys) <=> ~Castless(ops[k])
           /\ Succeeds(ops[k], now, keys) =>
                Reached(tables, live, desired, done[k], Result(ops[k], now))
  PROVE  /\ States(ops, start, keys).ok <=> \A k \in 1 .. Len(ops) : ~Castless(ops[k])
         /\ States(ops, start, keys).ok =>
              Reached(tables, live, desired, done[Len(ops)], States(ops, start, keys).tables)
  <1>. DEFINE n == Len(ops)
  <1>1. PICK run : /\ States(ops, start, keys) = run[n]
                   /\ run[0] = [ok |-> TRUE, tables |-> start]
                   /\ \A k \in 1 .. n : run[k] = Ran(ops, start, keys, run[k - 1], k)
    BY StatesRun
  <1>2. n \in Nat /\ \A k \in 1 .. n : \A now : Reached(tables, live, desired, done[k - 1], now) =>
           /\ Succeeds(ops[k], now, keys) <=> ~Castless(ops[k])
           /\ Succeeds(ops[k], now, keys) =>
                Reached(tables, live, desired, done[k], Result(ops[k], now))
    OBVIOUS
  <1>. HIDE DEF n
  <1>. DEFINE Good(k) == /\ run[k].ok <=> \A i \in 1 .. k : ~Castless(ops[i])
                         /\ run[k].ok => Reached(tables, live, desired, done[k], run[k].tables)
              B == {k \in 0 .. n : ~Good(k)}
  <1>3. B = {}
    <2>1. SUFFICES ASSUME B # {} PROVE FALSE
      OBVIOUS
    <2>2. PICK m \in B : \A k \in B : m <= k
      <3>1. B \in SUBSET Nat
        OBVIOUS
      <3>. QED  BY <2>1, <3>1, LeastExists
    <2>3. m \in 0 .. n /\ ~Good(m)
      BY <2>2
    <2>4. CASE m = 0
      <3>1. run[0].ok = TRUE /\ run[0].tables = start
        BY <1>1
      <3>. QED  BY <2>3, <2>4, <3>1
    <2>5. CASE m # 0
      <3>1. m - 1 \in 0 .. n /\ m \in 1 .. n /\ ~(m <= m - 1)
        <4>1. m \in 0 .. n
          BY <2>3
        <4>. QED  BY <1>2, <2>5, <4>1
      <3>2. Good(m - 1)
        BY <2>2, <3>1
      <3>3. run[m] = Ran(ops, start, keys, run[m - 1], m)
        BY <1>1, <3>1
      <3>4. (\A i \in 1 .. m : ~Castless(ops[i])) <=>
              (\A i \in 1 .. m - 1 : ~Castless(ops[i])) /\ ~Castless(ops[m])
        <4>1. \A i : i \in 1 .. m <=> i \in 1 .. m - 1 \/ i = m
          BY <1>2, <3>1
        <4>. QED  BY <4>1
      <3>5. CASE run[m - 1].ok /\ Succeeds(ops[m], run[m - 1].tables, keys)
        <4>1. run[m].ok /\ run[m].tables = Result(ops[m], run[m - 1].tables)
          BY <3>3, <3>5 DEF Ran
        <4>2. ~Castless(ops[m]) /\ Reached(tables, live, desired, done[m], run[m].tables)
          BY <1>2, <3>1, <3>2, <3>5, <4>1
        <4>. QED  BY <2>3, <3>2, <3>4, <3>5, <4>1, <4>2
      <3>6. CASE ~(run[m - 1].ok /\ Succeeds(ops[m], run[m - 1].tables, keys))
        <4>1. ~run[m].ok
          BY <3>3, <3>6 DEF Ran
        <4>2. ~run[m - 1].ok \/ Castless(ops[m])
          BY <1>2, <3>1, <3>2, <3>6
        <4>. QED  BY <2>3, <3>2, <3>4, <4>1, <4>2
      <3>. QED  BY <3>5, <3>6
    <2>. QED  BY <2>4, <2>5
  <1>4. n \in 0 .. n
    BY <1>2
  <1>5. Good(n)
    BY <1>3, <1>4
  <1>. QED  BY <1>1, <1>5 DEF n

-----------------------------------------------------------------------------
(***************************************************************************)
(* Migrations are exact: where a migration starts, and where it ends.      *)
(***************************************************************************)

\* Before anything is done the tables are as they were.
LEMMA NothingDone ==
  ASSUME NEW tables, NEW live, NEW desired, NEW namespaces,
         Migrates(tables, live, desired, namespaces)
  PROVE  /\ Reached(tables, live, desired, {}, tables)
         /\ \A name \in DOMAIN live \cap DOMAIN desired : \A c :
              Want(live, desired, name, c, {}) = At(live[name], c)
  <1>1. TablesOK(tables)
    BY DEF Migrates
  <1>2. \A name : name \in DOMAIN tables <=> Standing(tables, live, desired, {}, name)
    BY DEF Standing
  <1>3. ASSUME NEW name \in DOMAIN live \cap DOMAIN desired, NEW c
        PROVE  Want(live, desired, name, c, {}) = At(live[name], c)
    <2>1. Settled(live[name]) /\ TableOK(live[name])
      BY DEF Migrates, Settled
    <2>2. CASE c \notin ColumnNames(live[name])
      <3>1. At(live[name], c) = {}
        BY <2>1, <2>2, AtIs
      <3>. QED  BY <2>2, <3>1 DEF Want
    <2>3. CASE c \in ColumnNames(live[name])
      <3>. DEFINE x == ColumnOf(live[name], c)
      <3>1. x \in ToSet(live[name].columns) /\ x.name = c /\ At(live[name], c) = {View(x)}
        BY <2>1, <2>3, AtIs
      <3>2. Want(live, desired, name, c, {}) = {[name |-> c, type |-> x.type, nullable |-> x.nullable]}
        BY <2>3 DEF Want
      <3>. HIDE DEF x
      <3>3. View(x) = [name |-> x.name, type |-> x.type, nullable |-> x.nullable]
        BY <2>1, <3>1, SettledColumn
      <3>. QED  BY <3>1, <3>2, <3>3
    <2>. QED  BY <2>2, <2>3
  <1>4. ASSUME NEW name \in DOMAIN tables
        PROVE  TableIs(tables, live, desired, {}, name, tables[name])
    <2>1. name \in DOMAIN live =>
            /\ live[name].primary_key = tables[name].primary_key
            /\ \A c : At(live[name], c) = At(tables[name], c)
      BY DEF Migrates
    <2>2. name \notin DOMAIN desired \ DOMAIN live
      BY DEF Migrates
    <2>3. name \in DOMAIN live => SameTable(tables[name], live[name])
      BY <2>1 DEF SameTable
    <2>4. name \in DOMAIN live \cap DOMAIN desired =>
            \A c : At(tables[name], c) = Want(live, desired, name, c, {})
      BY <1>3, <2>1
    <2>. QED  BY <2>1, <2>2, <2>3, <2>4 DEF TableIs
  <1>. QED  BY <1>1, <1>2, <1>3, <1>4 DEF Reached

\* After everything is done the columns are the desired ones.
LEMMA EverythingDone ==
  ASSUME NEW tables, NEW live, NEW desired, NEW namespaces,
         Migrates(tables, live, desired, namespaces),
         NEW name \in DOMAIN live \cap DOMAIN desired, NEW c
  PROVE  Want(live, desired, name, c, PlannedOperations(live, desired)) = At(desired[name], c)
  <1>. DEFINE D == PlannedOperations(live, desired)
              x == ColumnOf(live[name], c)
              y == ColumnOf(desired[name], c)
  <1>1. /\ Settled(live[name]) /\ TableOK(live[name])
        /\ Settled(desired[name]) /\ TableOK(desired[name])
    BY DEF Migrates, Settled
  <1>2. /\ \A z \in Added(live, desired, name) : AddColumn(name, z) \in D
        /\ \A z \in Removed(live, desired, name) : DropColumn(name, z) \in D
        /\ \A z \in Retyped(live, desired, name) : Retyping(desired, name, z) \in D
        /\ \A z \in Renulled(live, desired, name) : Renulling(name, z) \in D
    BY DEF PlannedOperations, Adding, Removing, Retypings, Renullings
  <1>3. D \in SUBSET PlannedOperations(live, desired)
    OBVIOUS
  <1>. HIDE DEF D
  <1>4. CASE c \in ColumnNames(live[name]) /\ c \notin ColumnNames(desired[name])
    <2>1. x \in ToSet(live[name].columns) /\ x.name = c
      BY <1>1, <1>4, AtIs
    <2>. HIDE DEF x
    <2>2. x \in Removed(live, desired, name)
      BY <1>4, <2>1 DEF Removed
    <2>3. Want(live, desired, name, x.name, D) = {}
      BY <1>1, <1>2, <1>3, <2>2, WantRemoved
    <2>4. At(desired[name], c) = {}
      BY <1>1, <1>4, AtIs
    <2>. QED  BY <2>1, <2>3, <2>4 DEF D
  <1>5. CASE c \notin ColumnNames(live[name]) /\ c \in ColumnNames(desired[name])
    <2>1. y \in ToSet(desired[name].columns) /\ y.name = c /\ At(desired[name], c) = {View(y)}
      BY <1>1, <1>5, AtIs
    <2>. HIDE DEF y
    <2>2. y \in Added(live, desired, name)
      BY <1>5, <2>1 DEF Added
    <2>3. Want(live, desired, name, y.name, D) = {View(y)}
      BY <1>1, <1>2, <2>2, WantAdded
    <2>. QED  BY <2>1, <2>3 DEF D
  <1>6. CASE c \notin ColumnNames(live[name]) /\ c \notin ColumnNames(desired[name])
    <2>1. At(desired[name], c) = {}
      BY <1>1, <1>6, AtIs
    <2>2. Want(live, desired, name, c, D) = {}
      BY <1>6 DEF Want
    <2>. QED  BY <2>1, <2>2 DEF D
  <1>7. CASE c \in ColumnNames(live[name]) /\ c \in ColumnNames(desired[name])
    <2>1. y \in ToSet(desired[name].columns) /\ y.name = c /\ At(desired[name], c) = {View(y)}
      BY <1>1, <1>7, AtIs
    <2>2. x \in ToSet(live[name].columns) /\ x.name = c /\ ColumnOf(desired[name], x.name) = y
      BY <1>1, <1>7, AtIs
    <2>. HIDE DEF x, y
    <2>3. Want(live, desired, name, x.name, D) = Remains(desired, name, x, D)
      BY <1>1, <1>3, <1>7, <2>2, WantKept
    <2>4. Retyping(desired, name, x) \notin D => x.type = y.type
      BY <1>2, <1>7, <2>2 DEF Retyped
    <2>5. Renulling(name, x) \notin D => x.nullable = y.nullable
      BY <1>2, <1>7, <2>2 DEF Renulled
    <2>6. Remains(desired, name, x, D) = {[name |-> c, type |-> y.type, nullable |-> y.nullable]}
      <3>1. (IF Retyping(desired, name, x) \in D THEN y.type ELSE x.type) = y.type
        BY <2>4
      <3>2. (IF Renulling(name, x) \in D THEN y.nullable ELSE x.nullable) = y.nullable
        BY <2>5
      <3>. QED  BY <2>2, <3>1, <3>2 DEF Remains
    <2>7. View(y) = [name |-> y.name, type |-> y.type, nullable |-> y.nullable]
      BY <1>1, <2>1, SettledColumn
    <2>. QED  BY <2>1, <2>2, <2>3, <2>6, <2>7 DEF D
  <1>. QED  BY <1>4, <1>5, <1>6, <1>7

\* Nothing is planned for tables that are the desired ones.
LEMMA NothingPlanned ==
  ASSUME NEW live, SchemaOK(live), NEW desired, SchemaOK(desired), NEW keys,
         DOMAIN live = DOMAIN desired,
         \A name \in DOMAIN desired :
           /\ Settled(desired[name])
           /\ \A x \in ToSet(live[name].columns) : CatalogType(x.type) = x.type
           /\ \A c : At(live[name], c) = At(desired[name], c)
  PROVE  Up(live, desired, keys) = <<>>
  <1>1. ASSUME NEW name \in DOMAIN live \cap DOMAIN desired
        PROVE  /\ Added(live, desired, name) = {} /\ Removed(live, desired, name) = {}
               /\ Retyped(live, desired, name) = {} /\ Renulled(live, desired, name) = {}
    <2>1. /\ TableOK(live[name]) /\ TableOK(desired[name]) /\ Settled(desired[name])
          /\ \A x \in ToSet(live[name].columns) : CatalogType(x.type) = x.type
          /\ \A c : At(live[name], c) = At(desired[name], c)
      BY DEF SchemaOK
    <2>2. \A c : c \in ColumnNames(live[name]) <=> c \in ColumnNames(desired[name])
      <3>. SUFFICES ASSUME NEW c PROVE c \in ColumnNames(live[name]) <=> c \in ColumnNames(desired[name])
        OBVIOUS
      <3>1. c \in ColumnNames(live[name]) <=> At(live[name], c) # {}
        BY <2>1, AtIs
      <3>2. c \in ColumnNames(desired[name]) <=> At(desired[name], c) # {}
        BY <2>1, AtIs
      <3>. QED  BY <2>1, <3>1, <3>2
    <2>3. Added(live, desired, name) = {}
      <3>1. \A x \in ToSet(desired[name].columns) : x.name \in ColumnNames(desired[name])
        BY <2>1, SettledColumn
      <3>. QED  BY <2>2, <3>1 DEF Added
    <2>4. \A x \in ToSet(live[name].columns) : x.name \in ColumnNames(live[name])
      BY <2>1, TableColumns
    <2>5. Removed(live, desired, name) = {}
      BY <2>2, <2>4 DEF Removed
    <2>6. ASSUME NEW x \in ToSet(live[name].columns)
          PROVE  /\ x.type = ColumnOf(desired[name], x.name).type
                 /\ x.nullable = ColumnOf(desired[name], x.name).nullable
      <3>. DEFINE c == x.name
                  y == ColumnOf(desired[name], c)
      <3>1. c \in ColumnNames(live[name]) /\ c \in ColumnNames(desired[name])
        BY <2>2, <2>4
      <3>2. y \in ToSet(desired[name].columns) /\ At(desired[name], c) = {View(y)}
        BY <2>1, <3>1, AtIs
      <3>3. ColumnOf(live[name], c) = x
        BY <2>1, TableColumns
      <3>4. At(live[name], c) = {View(x)}
        BY <2>1, <3>1, <3>3, AtIs
      <3>. HIDE DEF y
      <3>5. y.type = CatalogType(y.type) /\ x.type = CatalogType(x.type)
        BY <2>1, <3>2, SettledColumn
      <3>6. View(x) = View(y)
        BY <2>1, <3>2, <3>4
      <3>7. View(x).type = CatalogType(x.type) /\ View(x).nullable = x.nullable
            /\ View(y).type = CatalogType(y.type) /\ View(y).nullable = y.nullable
        BY DEF View
      <3>8. x.type = y.type /\ x.nullable = y.nullable
        BY <3>5, <3>6, <3>7
      <3>. QED  BY <3>8 DEF y
    <2>7. Retyped(live, desired, name) = {} /\ Renulled(live, desired, name) = {}
      BY <2>6 DEF Retyped, Renulled
    <2>. QED  BY <2>3, <2>5, <2>7
  <1>2. ASSUME NEW op \in PlannedOperations(live, desired) PROVE FALSE
    <2>1. op.name \in DOMAIN live \cap DOMAIN desired
      BY PlannedKinds
    <2>2. /\ Added(live, desired, op.name) = {} /\ Removed(live, desired, op.name) = {}
          /\ Retyped(live, desired, op.name) = {} /\ Renulled(live, desired, op.name) = {}
      BY <1>1, <2>1
    <2>. QED  BY <2>2, PlannedKinds
  <1>3. DropsComplete(live, desired, keys)
    <2>1. DOMAIN live \ DOMAIN desired = {}
      OBVIOUS
    <2>2. {} \in SUBSET (Nat \X Nat) /\ IsFiniteSet({}) /\ Cardinality({}) = 0
      BY FS_EmptySet
    <2>3. DropOrder({}, keys) \in Seq({})
      BY <2>2, DropOrderHas DEF ChildrenFirst
    <2>4. Len(DropOrder({}, keys)) = 0
      BY <2>3
    <2>. QED  BY <2>1, <2>2, <2>4 DEF DropsComplete
  <1>. DEFINE up == Up(live, desired, keys)
  <1>4. Lists(up, PlannedOperations(live, desired))
    BY <1>3, UpLists
  <1>. HIDE DEF up
  <1>5. up \in Seq({})
    BY <1>2, <1>4 DEF Lists
  <1>6. up = <<>>
    BY <1>5
  <1>. QED  BY <1>6 DEF up

\* The operations up to the n-th.
UpTo(up, n) == {up[i] : i \in 1 .. n}

\* up.sql succeeds unless a type change has no cast, and then brings the tables
\* where everything is done.
LEMMA ForwardRun ==
  ASSUME NEW tables, NEW live, NEW desired, NEW namespaces,
         Migrates(tables, live, desired, namespaces), NEW keys,
         PlanAccepted(live, desired, keys)
  PROVE  LET after == States(Up(live, desired, keys), tables, keys)
         IN  /\ after.ok <=> \A op \in PlannedOperations(live, desired) : ~Castless(op)
             /\ after.ok =>
                  Reached(tables, live, desired, PlannedOperations(live, desired), after.tables)
  <1>. DEFINE up == Up(live, desired, keys)
              all == PlannedOperations(live, desired)
              dropped == DOMAIN live \ DOMAIN desired
              n == Len(up)
              done == [k \in 0 .. n |-> UpTo(up, k)]
  <1>1. SchemaOK(live) /\ SchemaOK(desired)
    BY DEF Migrates
  <1>2. DropsComplete(live, desired, keys) /\ ~RetainedReference(dropped, keys)
    BY DEF PlanAccepted, DropsComplete
  <1>3. /\ Lists(up, all)
        /\ \A i \in 1 .. n : \A key \in keys :
             /\ up[i].kind = "DropTable"
             /\ up[i].name = key.parent
             /\ key.child \in dropped
             => \E j \in 1 .. i - 1 : up[j] = DropTable(key.child, live[key.child])
    BY <1>1, <1>2, UpLists
  <1>. HIDE DEF up
  <1>4. n \in Nat /\ DOMAIN up = 1 .. n /\ up \in Seq(all) /\ IsInjective(up) /\ ToSet(up) = all
        /\ \A i \in 1 .. n : up[i] \in all
    BY <1>3 DEF Lists
  <1>. HIDE DEF n, all
  <1>5. /\ done[0] = {}
        /\ done[n] = all
        /\ \A k \in 1 .. n : done[k - 1] = UpTo(up, k - 1) /\ done[k] = UpTo(up, k)
    <2>1. done[0] = UpTo(up, 0) /\ done[n] = UpTo(up, n)
      BY <1>4
    <2>2. UpTo(up, 0) = {}
      BY DEF UpTo
    <2>3. UpTo(up, n) = all
      BY <1>4 DEF UpTo, ToSet
    <2>4. \A k \in 1 .. n : k \in 0 .. n /\ k - 1 \in 0 .. n
      BY <1>4
    <2>. QED  BY <2>1, <2>2, <2>3, <2>4
  <1>. HIDE DEF done
  <1>6. ASSUME NEW k \in 1 .. n, NEW now, Reached(tables, live, desired, done[k - 1], now)
        PROVE  /\ Succeeds(up[k], now, keys) <=> ~Castless(up[k])
               /\ Succeeds(up[k], now, keys) =>
                    Reached(tables, live, desired, done[k], Result(up[k], now))
    <2>. DEFINE D == UpTo(up, k - 1)
                op == up[k]
    <2>1. k - 1 \in Nat /\ k \in Nat /\ ~(k <= k - 1) /\ \A i \in 1 .. k - 1 : i \in 1 .. n /\ i # k
      BY <1>4
    <2>2. D \in SUBSET all
      BY <1>4, <2>1 DEF UpTo
    <2>3. op \in all \ D
      BY <1>4, <2>1 DEF UpTo, IsInjective
    <2>4. UpTo(up, k) = D \cup {op}
      <3>1. 1 .. k = (1 .. k - 1) \cup {k}
        BY <2>1
      <3>. QED  BY <3>1 DEF UpTo
    <2>5. op.kind = "DropTable" =>
            \A key \in keys : key.parent = op.name =>
              /\ key.child \in DOMAIN live \ DOMAIN desired
              /\ DropTable(key.child, live[key.child]) \in D
      <3>. SUFFICES ASSUME op.kind = "DropTable", NEW key \in keys, key.parent = op.name
                    PROVE  key.child \in dropped /\ DropTable(key.child, live[key.child]) \in D
        OBVIOUS
      <3>1. op.name \in dropped
        BY <2>3, PlannedKinds DEF all
      <3>2. key.child \in dropped
        BY <1>2, <3>1 DEF RetainedReference
      <3>3. PICK j \in 1 .. k - 1 : up[j] = DropTable(key.child, live[key.child])
        BY <1>3, <3>2
      <3>. QED  BY <3>2, <3>3 DEF UpTo
    <2>6. Reached(tables, live, desired, D, now)
      BY <1>5, <1>6
    <2>. HIDE DEF D, op
    <2>7. /\ Succeeds(op, now, keys) <=> ~Castless(op)
          /\ Succeeds(op, now, keys) => Reached(tables, live, desired, D \cup {op}, Result(op, now))
      BY <2>2, <2>3, <2>5, <2>6, ForwardStep DEF all
    <2>. QED  BY <1>5, <2>4, <2>7 DEF D, op
  <1>7. Reached(tables, live, desired, done[0], tables)
    BY <1>5, NothingDone
  <1>8. Len(up) = n
    BY DEF n
  <1>9. /\ States(up, tables, keys).ok <=> \A k \in 1 .. n : ~Castless(up[k])
        /\ States(up, tables, keys).ok =>
             Reached(tables, live, desired, done[n], States(up, tables, keys).tables)
    <2>1. Len(up) \in Nat
      BY <1>4, <1>8
    <2>2. \A k \in 1 .. Len(up) : \A now : Reached(tables, live, desired, done[k - 1], now) =>
           /\ Succeeds(up[k], now, keys) <=> ~Castless(up[k])
           /\ Succeeds(up[k], now, keys) =>
                Reached(tables, live, desired, done[k], Result(up[k], now))
      BY <1>6, <1>8
    <2>3. /\ States(up, tables, keys).ok <=> \A k \in 1 .. Len(up) : ~Castless(up[k])
          /\ States(up, tables, keys).ok =>
               Reached(tables, live, desired, done[Len(up)], States(up, tables, keys).tables)
      BY <1>7, <2>1, <2>2, RunReaches
    <2>. QED  BY <1>8, <2>3
  <1>10. (\A k \in 1 .. n : ~Castless(up[k])) <=> \A op \in all : ~Castless(op)
    BY <1>4 DEF ToSet
  <1>. QED  BY <1>5, <1>9, <1>10 DEF up, all

\* down.sql succeeds from there unless a type change has no cast back, and then
\* brings the tables back.
LEMMA BackwardRun ==
  ASSUME NEW tables, NEW live, NEW desired, NEW namespaces,
         Migrates(tables, live, desired, namespaces), NEW keys,
         PlanAccepted(live, desired, keys),
         NEW left, \A key \in left : key.parent \in DOMAIN tables,
         NEW start, Reached(tables, live, desired, PlannedOperations(live, desired), start)
  PROVE  LET back == States(Down(Up(live, desired, keys)), start, left)
         IN  /\ back.ok <=>
                  \A op \in PlannedOperations(live, desired) : ~Castless(InverseOf(op))
             /\ back.ok => Reached(tables, live, desired, {}, back.tables)
  <1>. DEFINE up == Up(live, desired, keys)
              all == PlannedOperations(live, desired)
              n == Len(up)
              down == Down(up)
              done == [k \in 0 .. n |-> UpTo(up, n - k)]
  <1>1. SchemaOK(live) /\ SchemaOK(desired) /\ DropsComplete(live, desired, keys)
    BY DEF Migrates, PlanAccepted, DropsComplete
  <1>2. Lists(up, all)
    BY <1>1, UpLists
  <1>. HIDE DEF up
  <1>3. n \in Nat /\ DOMAIN up = 1 .. n /\ up \in Seq(all) /\ IsInjective(up) /\ ToSet(up) = all
        /\ \A i \in 1 .. n : up[i] \in all
    BY <1>2 DEF Lists
  <1>4. \A k \in 1 .. n : Reverse(up)[k] = up[n + 1 - k]
    BY <1>3, ReverseHas
  <1>5. Len(down) = n /\ \A k \in 1 .. n : down[k] = InverseOf(up[n + 1 - k])
    <2>1. down = [k \in 1 .. n |-> InverseOf(Reverse(up)[k])]
      BY <1>3 DEF Down
    <2>. QED  BY <1>3, <1>4, <2>1
  <1>. HIDE DEF n, all, down
  <1>6. /\ done[0] = all
        /\ done[n] = {}
        /\ \A k \in 1 .. n : done[k - 1] = UpTo(up, n + 1 - k) /\ done[k] = UpTo(up, n - k)
    <2>1. n - 0 = n /\ n - n = 0 /\ 0 \in 0 .. n /\ n \in 0 .. n
      BY <1>3
    <2>2. done[0] = UpTo(up, n) /\ done[n] = UpTo(up, 0)
      BY <2>1
    <2>3. UpTo(up, 0) = {}
      BY DEF UpTo
    <2>4. UpTo(up, n) = all
      BY <1>3 DEF UpTo, ToSet
    <2>5. \A k \in 1 .. n : k \in 0 .. n /\ k - 1 \in 0 .. n /\ n - (k - 1) = n + 1 - k
      BY <1>3
    <2>6. ASSUME NEW k \in 1 .. n
          PROVE  done[k - 1] = UpTo(up, n + 1 - k) /\ done[k] = UpTo(up, n - k)
      <3>1. done[k - 1] = UpTo(up, n - (k - 1)) /\ done[k] = UpTo(up, n - k)
        BY <2>5
      <3>. QED  BY <2>5, <3>1
    <2>. QED  BY <2>2, <2>3, <2>4, <2>6
  <1>. HIDE DEF done
  <1>7. ASSUME NEW k \in 1 .. n, NEW now, Reached(tables, live, desired, done[k - 1], now)
        PROVE  /\ Succeeds(down[k], now, left) <=> ~Castless(down[k])
               /\ Succeeds(down[k], now, left) =>
                    Reached(tables, live, desired, done[k], Result(down[k], now))
    <2>. DEFINE m == n + 1 - k
                D == UpTo(up, m)
                op == up[m]
    <2>1. m \in 1 .. n /\ n - k = m - 1
      BY <1>3
    <2>. HIDE DEF m
    <2>2. /\ m \in 1 .. m /\ \A i \in 1 .. m : i \in 1 .. n
          /\ \A i : i \in 1 .. m - 1 <=> i \in 1 .. m /\ i # m
      BY <1>3, <2>1
    <2>3. D \in SUBSET all /\ op \in D
      BY <1>3, <2>2 DEF UpTo
    <2>4. UpTo(up, m - 1) = D \ {op}
      <3>1. \A i \in 1 .. m : up[i] = up[m] => i = m
        BY <1>3, <2>1, <2>2 DEF IsInjective
      <3>2. \A o : o \in UpTo(up, m - 1) <=> \E i \in 1 .. m - 1 : o = up[i]
        BY DEF UpTo
      <3>3. \A o : o \in D <=> \E i \in 1 .. m : o = up[i]
        BY DEF UpTo
      <3>4. \A o : o \in UpTo(up, m - 1) <=> o \in D /\ o # op
        BY <2>2, <3>1, <3>2, <3>3
      <3>. HIDE DEF D, op
      <3>. QED  BY <3>4
    <2>5. Reached(tables, live, desired, D, now)
      BY <1>6, <1>7 DEF m
    <2>. HIDE DEF D, op
    <2>6. /\ Succeeds(InverseOf(op), now, left) <=> ~Castless(InverseOf(op))
          /\ Succeeds(InverseOf(op), now, left) =>
               Reached(tables, live, desired, D \ {op}, Result(InverseOf(op), now))
      BY <2>3, <2>5, BackwardStep DEF all
    <2>7. down[k] = InverseOf(op)
      BY <1>5 DEF op, m
    <2>8. done[k] = D \ {op}
      BY <1>6, <2>1, <2>4
    <2>. QED  BY <2>6, <2>7, <2>8
  <1>8. Reached(tables, live, desired, done[0], start)
    BY <1>6 DEF all
  <1>9. /\ States(down, start, left).ok <=> \A k \in 1 .. n : ~Castless(down[k])
        /\ States(down, start, left).ok =>
             Reached(tables, live, desired, done[n], States(down, start, left).tables)
    <2>1. Len(down) \in Nat
      BY <1>3, <1>5
    <2>2. \A k \in 1 .. Len(down) : \A now : Reached(tables, live, desired, done[k - 1], now) =>
           /\ Succeeds(down[k], now, left) <=> ~Castless(down[k])
           /\ Succeeds(down[k], now, left) =>
                Reached(tables, live, desired, done[k], Result(down[k], now))
      BY <1>5, <1>7
    <2>3. /\ States(down, start, left).ok <=> \A k \in 1 .. Len(down) : ~Castless(down[k])
          /\ States(down, start, left).ok =>
               Reached(tables, live, desired, done[Len(down)], States(down, start, left).tables)
      BY <1>8, <2>1, <2>2, RunReaches
    <2>. QED  BY <1>5, <2>3
  <1>10. (\A k \in 1 .. n : ~Castless(down[k])) <=> \A op \in all : ~Castless(InverseOf(op))
    <2>1. ASSUME NEW op \in all
          PROVE  \E k \in 1 .. n : down[k] = InverseOf(op)
      <3>1. PICK m \in 1 .. n : up[m] = op
        BY <1>3 DEF ToSet
      <3>2. n + 1 - m \in 1 .. n /\ n + 1 - (n + 1 - m) = m
        BY <1>3
      <3>. QED  BY <1>5, <3>1, <3>2
    <2>2. ASSUME NEW k \in 1 .. n
          PROVE  \E op \in all : down[k] = InverseOf(op)
      <3>1. n + 1 - k \in 1 .. n
        BY <1>3
      <3>. QED  BY <1>3, <1>5, <3>1
    <2>. QED  BY <2>1, <2>2
  <1>. QED  BY <1>6, <1>9, <1>10 DEF up, down, all

-----------------------------------------------------------------------------
(***************************************************************************)
(* Migrations are exact: the theorem.                                      *)
(***************************************************************************)

\* A table as PostgreSQL holds it: its types are stored ones, and its primary key
\* takes no null.
Held(table) ==
  \A x \in ToSet(table.columns) :
    /\ StoredType(x.type) = x.type
    /\ x.name \in ToSet(table.primary_key) => x.nullable = FALSE

\* A type without arrays of arrays and char without a length is stored as it is.
LEMMA StoredAsIs ==
  ASSUME NEW type \in Types
  PROVE  StoredType(type) = type <=> type.dims <= 1 /\ ~(type.base = "Char" /\ type.length = Unlimited)
  <1>. DEFINE length == IF type.base = "Char" /\ type.length = Unlimited THEN 1 ELSE type.length
              dims == IF type.dims > 1 THEN 1 ELSE type.dims
  <1>1. StoredType(type) = [type EXCEPT !.length = length, !.dims = dims]
    BY DEF StoredType
  <1>2. type.length \in Nat /\ type.dims \in Nat
    BY DEF Types
  <1>3. (length = type.length <=> ~(type.base = "Char" /\ type.length = Unlimited))
        /\ (dims = type.dims <=> type.dims <= 1)
    BY <1>2 DEF Unlimited
  <1>. HIDE DEF length, dims
  <1>4. StoredType(type).length = length /\ StoredType(type).dims = dims
    BY <1>1 DEF Types
  <1>5. ASSUME length = type.length, dims = type.dims PROVE StoredType(type) = type
    BY <1>1, <1>5 DEF Types
  <1>. QED  BY <1>3, <1>4, <1>5

\* A type that is stored is read as a type that is stored.
LEMMA StoredRead ==
  ASSUME NEW type \in Types, StoredType(type) = type
  PROVE  StoredType(CatalogType(type)) = CatalogType(type)
  <1>1. type.dims <= 1 /\ ~(type.base = "Char" /\ type.length = Unlimited)
    BY StoredAsIs
  <1>2. CASE type.base \in Bases
    <2>1. CatalogType(type) = type
      BY <1>2 DEF CatalogType, Bases
    <2>. QED  BY <2>1
  <1>3. CASE type.base = "PreciseNumeric"
    <2>. DEFINE t == [type EXCEPT !.base = "Numeric"]
    <2>1. CatalogType(type) = t
      BY <1>3 DEF CatalogType, Bases
    <2>2. t \in Types /\ t.base = "Numeric" /\ t.dims = type.dims /\ t.length = type.length
      BY DEF Types, Texts
    <2>. HIDE DEF t
    <2>3. StoredType(t) = t
      BY <1>1, <2>2, StoredAsIs
    <2>. QED  BY <2>1, <2>3
  <1>4. CASE type.base \notin Bases /\ type.base # "PreciseNumeric"
    <2>1. CatalogType(type) = NoType
      BY <1>4 DEF CatalogType
    <2>2. NoType \in Types /\ NoType.base = "unsupported" /\ NoType.dims = 0
      BY DEF NoType, Types, Texts, Unlimited
    <2>3. StoredType(NoType) = NoType
      BY <2>2, StoredAsIs
    <2>. QED  BY <2>1, <2>3
  <1>. QED  BY <1>2, <1>3, <1>4

\* A table that is held is read as a settled one.
LEMMA HeldSettled ==
  ASSUME NEW table, TableOK(table), Held(table)
  PROVE  Settled(AsRead(table))
  <1>. DEFINE s == table.columns
  <1>1. s \in Seq(Columns) /\ DOMAIN s = 1 .. Len(s)
    BY DEF TableOK
  <1>2. ASSUME NEW x \in ToSet(AsRead(table).columns)
        PROVE  /\ StoredType(x.type) = x.type
               /\ x.name \in ToSet(table.primary_key) => x.nullable = FALSE
    <2>1. AsRead(table).columns = [k \in DOMAIN s |-> [s[k] EXCEPT !.type = CatalogType(@)]]
      BY DEF AsRead
    <2>2. PICK k \in DOMAIN s : x = [s[k] EXCEPT !.type = CatalogType(@)]
      BY <2>1 DEF ToSet
    <2>. DEFINE z == s[k]
                type == CatalogType(z.type)
    <2>3. z \in Columns /\ z \in ToSet(s) /\ x = [z EXCEPT !.type = type]
      BY <1>1, <2>2 DEF ToSet
    <2>4. StoredType(z.type) = z.type /\ (z.name \in ToSet(table.primary_key) => z.nullable = FALSE)
      BY <2>3 DEF Held
    <2>. HIDE DEF z
    <2>5. z.type \in Types
      BY <2>3 DEF Columns
    <2>6. StoredType(type) = type
      BY <2>4, <2>5, StoredRead
    <2>. HIDE DEF type
    <2>7. x.type = type /\ x.name = z.name /\ x.nullable = z.nullable
      BY <2>3 DEF Columns
    <2>. QED  BY <2>4, <2>6, <2>7
  <1>3. /\ TableOK(AsRead(table)) /\ AsRead(table).primary_key = table.primary_key
        /\ \A x \in ToSet(AsRead(table).columns) : CatalogType(x.type) = x.type
    BY ReadIs
  <1>. QED  BY <1>2, <1>3 DEF Settled

\* What is planned for a database migrates it.
LEMMA PlanMigrates ==
  ASSUME NEW database, DatabaseOK(database),
         \A name \in DOMAIN database.tables : Held(database.tables[name]),
         NEW desired, SchemaOK(desired), \A name \in DOMAIN desired : Settled(desired[name]),
         NEW keys, PlanAccepted(LiveTables(database, Namespaces(desired)), desired, keys)
  PROVE  Migrates(database.tables, LiveTables(database, Namespaces(desired)), desired,
                  Namespaces(desired))
  <1>. DEFINE tables == database.tables
              namespaces == Namespaces(desired)
              live == LiveTables(database, namespaces)
  <1>1. TablesOK(tables)
    BY DEF DatabaseOK
  <1>2. /\ SchemaOK(live)
        /\ DOMAIN live = {name \in DOMAIN tables : name[1] \in namespaces}
        /\ \A name \in DOMAIN live : live[name] = AsRead(tables[name])
    BY LiveOK
  <1>3. \A name \in DOMAIN desired : name[1] \in namespaces
    BY DEF Namespaces
  <1>4. \A name \in DOMAIN live \cap DOMAIN desired :
          live[name].primary_key = desired[name].primary_key
    BY DEF PlanAccepted, PrimaryKeyChanges
  <1>. HIDE DEF live, namespaces
  <1>5. ASSUME NEW name \in DOMAIN live
        PROVE  /\ Settled(live[name])
               /\ live[name].primary_key = tables[name].primary_key
               /\ \A c : At(live[name], c) = At(tables[name], c)
    <2>1. TableOK(tables[name]) /\ Held(tables[name]) /\ live[name] = AsRead(tables[name])
      BY <1>1, <1>2 DEF TablesOK
    <2>. QED  BY <2>1, ReadIs, HeldSettled
  <1>6. Migrates(tables, live, desired, namespaces)
    BY <1>1, <1>2, <1>3, <1>4, <1>5 DEF Migrates
  <1>. QED  BY <1>6 DEF live, namespaces

\* Where everything is done, nothing is planned again.
LEMMA PlannedOnce ==
  ASSUME NEW database, NEW live, NEW desired, NEW now, NEW keys,
         DatabaseOK(database),
         Migrates(database.tables, live, desired, Namespaces(desired)),
         Reached(database.tables, live, desired, PlannedOperations(live, desired), now)
  PROVE  Up(LiveTables([database EXCEPT !.tables = now], Namespaces(desired)), desired, keys) = <<>>
  <1>. DEFINE tables == database.tables
              all == PlannedOperations(live, desired)
              namespaces == Namespaces(desired)
              after == [tables |-> now]
              again == LiveTables(after, namespaces)
  <1>1. LiveTables([database EXCEPT !.tables = now], namespaces) = again
    <2>1. after.tables = now
      OBVIOUS
    <2>2. [database EXCEPT !.tables = now].tables = now
      BY DEF DatabaseOK
    <2>. QED  BY <2>1, <2>2 DEF LiveTables, LoadedNames
  <1>2. \A name : name \in DOMAIN now <=>
          \/ name \in DOMAIN tables /\ name \notin DOMAIN live \ DOMAIN desired
          \/ name \in DOMAIN desired
    <2>1. \A name \in DOMAIN live \ DOMAIN desired : DropTable(name, live[name]) \in all
      BY DEF PlannedOperations, Drops
    <2>2. \A name \in DOMAIN desired \ DOMAIN live : CreateTable(name, desired[name]) \in all
      BY DEF PlannedOperations, Creations
    <2>3. \A name \in DOMAIN live : name \in DOMAIN tables
      BY DEF Migrates
    <2>4. \A name \in DOMAIN desired \ DOMAIN live : name \notin DOMAIN tables
      BY DEF Migrates
    <2>. HIDE DEF all, tables
    <2>5. \A name : name \in DOMAIN now <=> Standing(tables, live, desired, all, name)
      BY DEF Reached, all, tables
    <2>. QED  BY <2>1, <2>2, <2>3, <2>4, <2>5 DEF Standing
  <1>3. DatabaseOK(after)
    <2>1. DOMAIN now \in SUBSET (DOMAIN tables \cup DOMAIN desired)
      BY <1>2
    <2>2. /\ IsFiniteSet(DOMAIN tables) /\ DOMAIN tables \in SUBSET (Nat \X Nat)
          /\ IsFiniteSet(DOMAIN desired) /\ DOMAIN desired \in SUBSET (Nat \X Nat)
      BY DEF DatabaseOK, Migrates, SchemaOK
    <2>3. IsFiniteSet(DOMAIN tables \cup DOMAIN desired)
      BY <2>2, FS_Union
    <2>4. IsFiniteSet(DOMAIN now)
      BY <2>1, <2>3, FS_Subset
    <2>5. DOMAIN now \in SUBSET (Nat \X Nat)
      BY <2>1, <2>2
    <2>6. TablesOK(now)
      BY DEF Reached
    <2>7. after.tables = now /\ "tables" \in DOMAIN after
      OBVIOUS
    <2>. HIDE DEF after
    <2>. QED  BY <2>4, <2>5, <2>6, <2>7 DEF DatabaseOK
  <1>4. after.tables = now
    OBVIOUS
  <1>. HIDE DEF after
  <1>5. /\ SchemaOK(again)
        /\ DOMAIN again = {name \in DOMAIN now : name[1] \in namespaces}
        /\ \A name \in DOMAIN again : again[name] = AsRead(now[name])
    BY <1>3, <1>4, LiveOK
  <1>6. DOMAIN again = DOMAIN desired
    <2>1. \A name \in DOMAIN desired : name[1] \in namespaces
      BY DEF Migrates
    <2>2. DOMAIN live = {name \in DOMAIN tables : name[1] \in namespaces}
      BY DEF Migrates
    <2>. HIDE DEF again, namespaces
    <2>3. \A name : name \in DOMAIN again <=> name \in DOMAIN desired
      BY <1>2, <1>5, <2>1, <2>2
    <2>. QED  BY <1>5, <2>3
  <1>. HIDE DEF again
  <1>7. SchemaOK(desired) /\ \A name \in DOMAIN desired : Settled(desired[name])
    BY DEF Migrates
  <1>8. ASSUME NEW name \in DOMAIN desired
        PROVE  /\ \A x \in ToSet(again[name].columns) : CatalogType(x.type) = x.type
               /\ \A c : At(again[name], c) = At(desired[name], c)
    <2>1. name \in DOMAIN now /\ again[name] = AsRead(now[name])
      BY <1>2, <1>5, <1>6
    <2>2. TableOK(now[name])
      BY <2>1 DEF Reached, TablesOK
    <2>3. /\ \A c : At(again[name], c) = At(now[name], c)
          /\ \A x \in ToSet(again[name].columns) : CatalogType(x.type) = x.type
      BY <2>1, <2>2, ReadIs
    <2>4. TableIs(tables, live, desired, all, name, now[name])
      BY <2>1 DEF Reached
    <2>5. \A c : At(now[name], c) = At(desired[name], c)
      <3>1. CASE name \in DOMAIN live
        <4>1. name \in DOMAIN live \cap DOMAIN desired
          BY <3>1
        <4>2. \A c : Want(live, desired, name, c, all) = At(desired[name], c)
          BY <4>1, EverythingDone
        <4>3. \A c : At(now[name], c) = Want(live, desired, name, c, all)
          BY <2>4, <4>1 DEF TableIs
        <4>. QED  BY <4>2, <4>3
      <3>2. CASE name \notin DOMAIN live
        BY <2>4, <3>2 DEF TableIs, SameTable
      <3>. QED  BY <3>1, <3>2
    <2>. QED  BY <2>3, <2>5
  <1>9. Up(again, desired, keys) = <<>>
    BY <1>5, <1>6, <1>7, <1>8, NothingPlanned
  <1>. QED  BY <1>1, <1>9

\* Where nothing is done, the tables have the shape they had.
LEMMA ShapeRestored ==
  ASSUME NEW tables, NEW live, NEW desired, NEW namespaces,
         Migrates(tables, live, desired, namespaces), NEW now,
         Reached(tables, live, desired, {}, now)
  PROVE  Shape(now) = Shape(tables)
  <1>1. \A name : name \in DOMAIN now <=> name \in DOMAIN tables
    BY DEF Reached, Standing
  <1>2. ASSUME NEW name \in DOMAIN tables PROVE Shape(now)[name] = Shape(tables)[name]
    <2>1. name \in DOMAIN now /\ TableIs(tables, live, desired, {}, name, now[name])
      BY <1>1 DEF Reached
    <2>2. name \in DOMAIN live =>
            /\ live[name].primary_key = tables[name].primary_key
            /\ \A c : At(live[name], c) = At(tables[name], c)
      BY DEF Migrates
    <2>3. name \notin DOMAIN desired \ DOMAIN live
      BY DEF Migrates
    <2>4. CASE name \notin DOMAIN live \cup DOMAIN desired
      <3>1. now[name] = tables[name]
        BY <2>1, <2>4 DEF TableIs
      <3>. QED  BY <2>1, <3>1, ShapesEqual
    <2>5. CASE name \in DOMAIN live \ DOMAIN desired
      <3>1. SameTable(now[name], live[name])
        BY <2>1, <2>5 DEF TableIs
      <3>. QED  BY <2>1, <2>2, <2>5, <3>1, ShapesEqual DEF SameTable
    <2>6. CASE name \in DOMAIN live \cap DOMAIN desired
      <3>1. /\ now[name].primary_key = live[name].primary_key
            /\ \A c : At(now[name], c) = Want(live, desired, name, c, {})
        BY <2>1, <2>6 DEF TableIs
      <3>2. \A c : Want(live, desired, name, c, {}) = At(live[name], c)
        BY <2>6, NothingDone
      <3>. QED  BY <2>1, <2>2, <2>6, <3>1, <3>2, ShapesEqual
    <2>. QED  BY <2>3, <2>4, <2>5, <2>6
  <1>3. /\ Shape(now) = [name \in DOMAIN now |-> Shape(now)[name]]
        /\ Shape(tables) = [name \in DOMAIN tables |-> Shape(tables)[name]]
    BY DEF Shape
  <1>4. DOMAIN now = DOMAIN tables
    BY <1>1 DEF Reached, TablesOK, Migrates
  <1>. QED  BY <1>2, <1>3, <1>4

\* What MigrationsAreExact asks of a database, a schema and the foreign keys.
Exact(database, desired, keys) ==
  LET tables == database.tables
      up     == Up(LiveTables(database, Namespaces(desired)), desired, keys)
      after  == States(up, tables, keys)
      left   == {key \in keys : {key.child, key.parent} \subseteq DOMAIN after.tables}
      back   == States(Down(up), after.tables, left)
      migrated == [database EXCEPT !.tables = after.tables]
      retyped == {w.of : w \in {v \in StepWarnings(up) : v.of.kind = "AlterType"}}
  IN  /\ after.ok <=> \A op \in retyped : CastExists(op.from, op.to)
      /\ after.ok =>
           /\ Up(LiveTables(migrated, Namespaces(desired)), desired, left) = <<>>
           /\ \A name \in DOMAIN tables :
                name[1] \notin Namespaces(desired) => after.tables[name] = tables[name]
           /\ back.ok <=> \A op \in retyped : CastExists(op.to, op.from)
           /\ back.ok => Shape(back.tables) = Shape(tables)

\* Every type change of a plan has its warning.
LEMMA RetypedWarned ==
  ASSUME NEW up, NEW all, Lists(up, all)
  PROVE  {w.of : w \in {v \in StepWarnings(up) : v.of.kind = "AlterType"}}
           = {op \in all : op.kind = "AlterType"}
  <1>1. all = {up[k] : k \in DOMAIN up}
    BY DEF Lists, ToSet
  <1>2. ASSUME NEW op \in all, op.kind = "AlterType"
        PROVE  [about |-> "step", of |-> op] \in StepWarnings(up)
    BY <1>1, <1>2 DEF StepWarnings
  <1>3. ASSUME NEW w \in StepWarnings(up)
        PROVE  w.of \in all
    BY <1>1, <1>3 DEF StepWarnings
  <1>4. ASSUME NEW op PROVE [about |-> "step", of |-> op].of = op
    OBVIOUS
  <1>. QED  BY <1>2, <1>3, <1>4

\* A migration that is planned does what it was generated for, whatever the
\* database and the declarations, unless it has a type change without a cast,
\* which is warned of; and it is undone, unless there is no cast back (see
\* MigrationsAreExact).
THEOREM PlansExact ==
  ASSUME NEW database, DatabaseOK(database),
         \A name \in DOMAIN database.tables : Held(database.tables[name]),
         NEW desired, SchemaOK(desired), \A name \in DOMAIN desired : Settled(desired[name]),
         NEW keys,
         \A key \in keys : key.parent \in DOMAIN database.tables,
         PlanAccepted(LiveTables(database, Namespaces(desired)), desired, keys),
         Independent(Up(LiveTables(database, Namespaces(desired)), desired, keys), database, keys)
  PROVE  Exact(database, desired, keys)
  <1>. DEFINE tables == database.tables
              namespaces == Namespaces(desired)
              live   == LiveTables(database, namespaces)
              up     == Up(live, desired, keys)
              after  == States(up, tables, keys)
              left   == {key \in keys : {key.child, key.parent} \subseteq DOMAIN after.tables}
              back   == States(Down(up), after.tables, left)
              migrated == [database EXCEPT !.tables = after.tables]
  <1>1. Migrates(tables, live, desired, namespaces)
    BY PlanMigrates
  <1>2. PlanAccepted(live, desired, keys)
    OBVIOUS
  <1>3. \A key \in left : key.parent \in DOMAIN tables
    OBVIOUS
  <1>. HIDE DEF live, left
  <1>4. /\ after.ok <=> \A op \in PlannedOperations(live, desired) : ~Castless(op)
        /\ after.ok => Reached(tables, live, desired, PlannedOperations(live, desired), after.tables)
    BY <1>1, <1>2, ForwardRun
  <1>. HIDE DEF after
  <1>5. after.ok =>
          /\ back.ok <=> \A op \in PlannedOperations(live, desired) : ~Castless(InverseOf(op))
          /\ back.ok => Reached(tables, live, desired, {}, back.tables)
    BY <1>1, <1>2, <1>3, <1>4, BackwardRun
  <1>. HIDE DEF back
  <1>6. after.ok /\ back.ok => Shape(back.tables) = Shape(tables)
    BY <1>1, <1>5, ShapeRestored
  <1>7. after.ok => Up(LiveTables(migrated, namespaces), desired, left) = <<>>
    BY <1>1, <1>4, PlannedOnce
  <1>8. ASSUME after.ok, NEW name \in DOMAIN tables, name[1] \notin namespaces
        PROVE  after.tables[name] = tables[name]
    <2>1. name \notin DOMAIN live \cup DOMAIN desired
      BY <1>1, <1>8 DEF Migrates
    <2>2. name \in DOMAIN after.tables
      BY <1>4, <1>8, <2>1 DEF Reached, Standing
    <2>3. TableIs(tables, live, desired, PlannedOperations(live, desired), name, after.tables[name])
      BY <1>4, <1>8, <2>2 DEF Reached
    <2>. QED  BY <2>1, <2>3 DEF TableIs
  <1>. DEFINE retyped == {w.of : w \in {v \in StepWarnings(up) : v.of.kind = "AlterType"}}
  <1>9. retyped = {op \in PlannedOperations(live, desired) : op.kind = "AlterType"}
    <2>1. SchemaOK(live) /\ SchemaOK(desired) /\ DropsComplete(live, desired, keys)
      BY <1>1, <1>2 DEF Migrates, PlanAccepted, DropsComplete
    <2>2. Lists(up, PlannedOperations(live, desired))
      BY <2>1, UpLists
    <2>. HIDE DEF up
    <2>. QED  BY <2>2, RetypedWarned
  <1>. HIDE DEF retyped, up
  <1>10. (\A op \in PlannedOperations(live, desired) : ~Castless(op))
           <=> \A op \in retyped : CastExists(op.from, op.to)
    BY <1>9 DEF Castless
  <1>11. (\A op \in PlannedOperations(live, desired) : ~Castless(InverseOf(op)))
           <=> \A op \in retyped : CastExists(op.to, op.from)
    <2>1. ASSUME NEW op \in PlannedOperations(live, desired)
          PROVE  Castless(InverseOf(op)) <=> op.kind = "AlterType" /\ ~CastExists(op.to, op.from)
      BY InverseCastless
    <2>. QED  BY <1>9, <2>1
  <1>. QED  BY <1>4, <1>5, <1>6, <1>7, <1>8, <1>10, <1>11
            DEF Exact, after, back, left, live, retyped, up

-----------------------------------------------------------------------------
(***************************************************************************)
(* Declarations that are accepted make a schema.                           *)
(***************************************************************************)

\* Source files as the macro accepts them: a table is named, and its columns
\* have different names and a type path each.
Constructors == Texts \cup {"Nullable", "Array"}
DeclaredColumns == [name : Texts, path : Seq(Constructors) \ {<<>>}, max_length : Nat]

\* A declaration names each of its columns once.
TableDeclared(declaration) ==
  /\ declaration.name \in Nat \X Nat
  /\ declaration.columns \in Seq(DeclaredColumns)
  /\ \A i, j \in 1 .. Len(declaration.columns) :
       declaration.columns[i].name = declaration.columns[j].name => i = j

\* Source files, with the declarations they hold.
FilesOK(sources) ==
  /\ sources \in Seq(ToSet(sources))
  /\ \A source \in ToSet(sources) :
       /\ source.declarations \in Seq(ToSet(source.declarations))
       /\ \A declaration \in ToSet(source.declarations) : TableDeclared(declaration)

\* Sequences over a set, one after the other, are a sequence over it.
LEMMA FlattenIn ==
  ASSUME NEW n \in Nat, NEW s, s = [i \in 1 .. n |-> s[i]], NEW S, \A i \in 1 .. n : s[i] \in Seq(S)
  PROVE  FlattenSeq(s) \in Seq(S)
  <1>1. Len(s) = n
    <2>1. s \in Seq({s[i] : i \in 1 .. n})
      OBVIOUS
    <2>. QED  BY <2>1
  <1>2. CASE n = 0
    <2>1. s = << >> /\ FlattenSeq(s) = s
      BY <1>1, <1>2 DEF FlattenSeq
    <2>2. << >> \in Seq(S)
      OBVIOUS
    <2>. QED  BY <2>1, <2>2
  <1>3. CASE n # 0
    <2>. DEFINE f == CHOOSE g : Flattens(g, s, n)
                bad == {k \in 1 .. n : f[k] \notin Seq(S)}
    <2>1. FlattenSeq(s) = f[n]
      BY <1>1, <1>3 DEF FlattenSeq, Flattens
    <2>2. Flattens(f, s, n)
      BY <1>3, FlattenerExists
    <2>. HIDE DEF f
    <2>3. bad = {}
      <3>1. SUFFICES ASSUME bad # {} PROVE FALSE
        OBVIOUS
      <3>2. PICK m \in bad : \A k \in bad : m <= k
        <4>1. bad \in SUBSET Nat
          OBVIOUS
        <4>. QED  BY <3>1, <4>1, LeastExists
      <3>3. m \in 1 .. n /\ f[m] \notin Seq(S) /\ s[m] \in Seq(S)
        BY <3>2
      <3>4. f[m] = IF m = 1 THEN s[m] ELSE f[m - 1] \o s[m]
        BY <2>2, <3>3 DEF Flattens
      <3>5. CASE m = 1
        BY <3>3, <3>4, <3>5
      <3>6. CASE m # 1
        <4>1. m - 1 \in 1 .. n /\ ~(m <= m - 1)
          BY <3>3, <3>6
        <4>2. f[m - 1] \in Seq(S)
          BY <3>2, <4>1
        <4>3. f[m - 1] \o s[m] \in Seq(S)
          BY <3>3, <4>2
        <4>. QED  BY <3>3, <3>4, <3>6, <4>3
      <3>. QED  BY <3>5, <3>6
    <2>4. n \in 1 .. n
      BY <1>3
    <2>. QED  BY <2>1, <2>3, <2>4
  <1>. QED  BY <1>2, <1>3

\* The leading Nullables of a path end before its base.
LEMMA LeadingNullablesIs ==
  ASSUME NEW path \in Seq(Constructors) \ {<<>>}, TypeAccepted(path)
  PROVE  /\ LeadingNullables(path) \in 0 .. Len(path) - 1
         /\ Last(path) \in Bases
  <1>. DEFINE l == Len(path)
              ends == {n \in 0 .. l : n < l => path[n + 1] # "Nullable"}
  <1>1. l \in Nat \ {0} /\ Last(path) = path[l]
    BY DEF Last
  <1>2. Last(path) \in Bases
    BY DEF TypeAccepted
  <1>3. path[l] # "Nullable"
    BY <1>1, <1>2 DEF Bases
  <1>. HIDE DEF l
  <1>4. l \in ends
    BY <1>1
  <1>5. PICK m \in ends : \A n \in ends : m <= n
    <2>1. ends \in SUBSET Nat
      OBVIOUS
    <2>. QED  BY <1>4, <2>1, LeastExists
  <1>6. \A k \in 1 .. m : path[k] = "Nullable"
    <2>. SUFFICES ASSUME NEW k \in 1 .. m PROVE path[k] = "Nullable"
      OBVIOUS
    <2>1. m \in 0 .. l
      BY <1>5
    <2>2. k - 1 \in 0 .. l /\ k - 1 < l /\ ~(m <= k - 1) /\ (k - 1) + 1 = k
      BY <1>1, <2>1
    <2>3. k - 1 \notin ends
      BY <1>5, <2>2
    <2>. HIDE DEF ends
    <2>4. k - 1 \in ends <=> path[k] # "Nullable"
      BY <2>2 DEF ends
    <2>. QED  BY <2>3, <2>4
  <1>7. m \in 0 .. l /\ (m < l => path[m + 1] # "Nullable")
    BY <1>5
  <1>8. LeadingNullables(path) \in 0 .. l
        /\ \A k \in 1 .. LeadingNullables(path) : path[k] = "Nullable"
    <2>1. \E n \in 0 .. Len(path) : /\ \A k \in 1 .. n : path[k] = "Nullable"
                                    /\ n < Len(path) => path[n + 1] # "Nullable"
      BY <1>6, <1>7 DEF l
    <2>. QED  BY <2>1 DEF LeadingNullables, l
  <1>9. LeadingNullables(path) # l
    <2>1. SUFFICES ASSUME LeadingNullables(path) = l PROVE FALSE
      OBVIOUS
    <2>2. l \in 1 .. LeadingNullables(path)
      BY <1>1, <2>1
    <2>. QED  BY <1>3, <1>8, <2>2
  <1>. QED  BY <1>1, <1>2, <1>8, <1>9 DEF l

\* A declaration that is accepted declares a table of known types.
LEMMA DeclaredOK ==
  ASSUME NEW declaration, TableDeclared(declaration), DeclarationAccepted(declaration)
  PROVE  /\ TableOK(Declared(declaration))
         /\ \A x \in ToSet(Declared(declaration).columns) : CatalogType(x.type) = x.type
  <1>. DEFINE s == declaration.columns
              Outer(k) == LeadingNullables(s[k].path)
              T(k) == [base |-> Last(s[k].path), length |-> s[k].max_length,
                       dims |-> Len(s[k].path) - 1 - Outer(k)]
              r == [k \in DOMAIN s |-> [name |-> s[k].name, type |-> T(k),
                                        nullable |-> Outer(k) > 0, ordinal |-> k - 1]]
  <1>1. Declared(declaration) = [columns |-> r, primary_key |-> PrimaryKey(declaration)]
    BY DEF Declared
  <1>2. /\ s \in Seq(DeclaredColumns) /\ DOMAIN s = 1 .. Len(s) /\ Len(s) \in Nat
        /\ \A i, j \in 1 .. Len(s) : s[i].name = s[j].name => i = j
        /\ \A k \in 1 .. Len(s) : TypeAccepted(s[k].path)
    BY DEF TableDeclared, DeclarationAccepted
  <1>. HIDE DEF s
  <1>3. ASSUME NEW k \in 1 .. Len(s)
        PROVE  /\ r[k] \in Columns /\ r[k].name = s[k].name
               /\ CatalogType(r[k].type) = r[k].type
    <2>. DEFINE path == s[k].path
    <2>1. s[k] \in DeclaredColumns
      BY <1>2
    <2>2. path \in Seq(Constructors) \ {<<>>} /\ s[k].name \in Texts /\ s[k].max_length \in Nat
      BY <2>1 DEF DeclaredColumns
    <2>3. Outer(k) \in 0 .. Len(path) - 1 /\ Last(path) \in Bases
      BY <1>2, <2>2, LeadingNullablesIs
    <2>4. Len(path) - 1 - Outer(k) \in Nat
      <3>1. Len(path) \in Nat
        BY <2>2
      <3>. HIDE DEF path, Outer
      <3>. QED  BY <2>3, <3>1
    <2>5. T(k) \in Types
      BY <2>2, <2>3, <2>4 DEF Types, Texts
    <2>6. T(k).base \in Bases
      BY <2>3
    <2>7. CatalogType(T(k)) = T(k)
      <3>. HIDE DEF T
      <3>. QED  BY <2>6 DEF CatalogType, Bases
    <2>8. (Outer(k) > 0) \in BOOLEAN /\ k - 1 \in Nat /\ k \in DOMAIN s
      BY <1>2, <2>3
    <2>. HIDE DEF T, Outer
    <2>9. r[k] = [name |-> s[k].name, type |-> T(k), nullable |-> Outer(k) > 0, ordinal |-> k - 1]
      BY <2>8
    <2>. HIDE DEF r
    <2>10. r[k] \in Columns
      BY <2>2, <2>5, <2>8, <2>9 DEF Columns
    <2>11. r[k].name = s[k].name /\ r[k].type = T(k)
      BY <2>9
    <2>. QED  BY <2>7, <2>10, <2>11
  <1>4. r \in Seq(Columns) /\ Len(r) = Len(s) /\ DOMAIN r = 1 .. Len(s)
    <2>1. DOMAIN r = 1 .. Len(s) /\ r = [k \in 1 .. Len(s) |-> r[k]]
      BY <1>2
    <2>. HIDE DEF r
    <2>2. r \in Seq(Columns)
      BY <1>2, <1>3, <2>1
    <2>. QED  BY <1>2, <2>1, <2>2
  <1>. HIDE DEF r
  <1>5. /\ Declared(declaration).columns = r
        /\ Declared(declaration) = [columns |-> Declared(declaration).columns,
                                    primary_key |-> Declared(declaration).primary_key]
    BY <1>1
  <1>6. TableOK(Declared(declaration))
    BY <1>2, <1>3, <1>4, <1>5 DEF TableOK
  <1>7. \A x \in ToSet(r) : CatalogType(x.type) = x.type
    BY <1>3, <1>4 DEF ToSet
  <1>. QED  BY <1>5, <1>6, <1>7

\* Sources that are loaded make a schema of known types.
LEMMA DesiredOK ==
  ASSUME NEW sources, FilesOK(sources), LoadAccepted(sources)
  PROVE  /\ SchemaOK(DesiredSchema(sources))
         /\ \A name \in DOMAIN DesiredSchema(sources) :
              \A x \in ToSet(DesiredSchema(sources)[name].columns) : CatalogType(x.type) = x.type
  <1>. DEFINE s == Declarations(sources)
              desired == DesiredSchema(sources)
              n == Len(sources)
              parts == [k \in DOMAIN sources |->
                          IF sources[k].regular THEN sources[k].declarations ELSE <<>>]
              S == UNION {ToSet(sources[k].declarations) : k \in 1 .. n}
  <1>1. n \in Nat /\ DOMAIN sources = 1 .. n
    BY DEF FilesOK
  <1>2. \A k \in 1 .. n : parts[k] \in Seq(S)
    <2>. SUFFICES ASSUME NEW k \in 1 .. n PROVE parts[k] \in Seq(S)
      OBVIOUS
    <2>1. sources[k] \in ToSet(sources)
      BY <1>1 DEF ToSet
    <2>2. sources[k].declarations \in Seq(ToSet(sources[k].declarations))
      BY <2>1 DEF FilesOK
    <2>3. ToSet(sources[k].declarations) \in SUBSET S
      OBVIOUS
    <2>. HIDE DEF S
    <2>4. sources[k].declarations \in Seq(S)
      BY <2>2, <2>3
    <2>. QED  BY <1>1, <2>4
  <1>3. parts = [k \in 1 .. n |-> parts[k]]
    BY <1>1
  <1>4. s = FlattenSeq(parts)
    BY DEF Declarations
  <1>5. s \in Seq(S)
    <2>. HIDE DEF parts, S, n, s
    <2>. QED  BY <1>1, <1>2, <1>3, <1>4, FlattenIn
  <1>6. \A d \in S : TableDeclared(d)
    <2>. SUFFICES ASSUME NEW k \in 1 .. n, NEW d \in ToSet(sources[k].declarations)
                  PROVE  TableDeclared(d)
      OBVIOUS
    <2>1. sources[k] \in ToSet(sources)
      BY <1>1 DEF ToSet
    <2>. QED  BY <2>1 DEF FilesOK
  <1>7. \A k \in DOMAIN s : DeclarationAccepted(s[k])
    BY DEF LoadAccepted
  <1>. HIDE DEF S, parts, n
  <1>. DEFINE all == ToSet(s)
  <1>8. desired = [name \in {d.name : d \in all} |-> Declared(CHOOSE d \in all : d.name = name)]
    BY DEF DesiredSchema
  <1>. HIDE DEF s, desired
  <1>9. DOMAIN s = 1 .. Len(s) /\ Len(s) \in Nat
    BY <1>5
  <1>10. \A d \in all : TableDeclared(d) /\ DeclarationAccepted(d)
    BY <1>5, <1>6, <1>7, <1>9 DEF ToSet
  <1>11. ASSUME NEW name \in DOMAIN desired
         PROVE  \E d \in all : d.name = name /\ desired[name] = Declared(d)
    BY <1>8
  <1>12. DOMAIN desired = {d.name : d \in all}
    BY <1>8
  <1>13. DOMAIN desired \in SUBSET (Nat \X Nat)
    BY <1>10, <1>12 DEF TableDeclared
  <1>14. IsFiniteSet(DOMAIN desired)
    <2>. DEFINE f == [k \in 1 .. Len(s) |-> s[k].name]
    <2>1. \A name \in DOMAIN desired : \E k \in 1 .. Len(s) : f[k] = name
      BY <1>9, <1>12 DEF ToSet
    <2>2. \A k \in 1 .. Len(s) : f[k] \in DOMAIN desired
      BY <1>9, <1>12 DEF ToSet
    <2>3. f \in [1 .. Len(s) -> DOMAIN desired]
      BY <2>2
    <2>. HIDE DEF f
    <2>4. f \in Surjection(1 .. Len(s), DOMAIN desired)
      BY <2>1, <2>3 DEF Surjection, Range
    <2>5. IsFiniteSet(1 .. Len(s))
      BY <1>9, FS_Interval
    <2>. QED  BY <2>4, <2>5, FS_Surjection
  <1>15. ASSUME NEW name \in DOMAIN desired
         PROVE  /\ TableOK(desired[name])
                /\ \A x \in ToSet(desired[name].columns) : CatalogType(x.type) = x.type
    <2>1. PICK d \in all : desired[name] = Declared(d)
      BY <1>11
    <2>. QED  BY <1>10, <2>1, DeclaredOK
  <1>16. SchemaOK(desired)
    BY <1>13, <1>14, <1>15 DEF SchemaOK
  <1>. QED  BY <1>15, <1>16 DEF desired

\* A table of known types that is stored as it is declared is settled.
LEMMA StorableSettled ==
  ASSUME NEW table, TableOK(table), \A x \in ToSet(table.columns) : CatalogType(x.type) = x.type,
         Stored(table) = table
  PROVE  Settled(table)
  <1>. DEFINE s == table.columns
              key == ToSet(table.primary_key)
  <1>1. s \in Seq(Columns) /\ DOMAIN s = 1 .. Len(s)
    BY DEF TableOK
  <1>2. Stored(table).columns = [k \in DOMAIN s |-> StoredColumn(s[k], key)]
    BY DEF Stored
  <1>3. s = [k \in DOMAIN s |-> StoredColumn(s[k], key)]
    BY <1>2
  <1>. HIDE DEF s, key
  <1>4. ASSUME NEW x \in ToSet(s)
        PROVE  /\ StoredType(x.type) = x.type
               /\ x.name \in key => x.nullable = FALSE
    <2>1. PICK k \in DOMAIN s : x = s[k]
      BY DEF ToSet
    <2>2. s[k] = StoredColumn(s[k], key)
      BY <1>3
    <2>3. x \in Columns /\ x = StoredColumn(x, key)
      BY <1>1, <2>1, <2>2
    <2>4. x.type = StoredType(x.type) /\ x.nullable = (x.nullable /\ x.name \notin key)
      BY <2>3, StoredColumnOK
    <2>. QED  BY <2>4
  <1>. QED  BY <1>4 DEF Settled, s, key
=============================================================================
