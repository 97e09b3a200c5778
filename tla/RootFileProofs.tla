---------------------------- MODULE RootFileProofs ----------------------------
(***************************************************************************)
(* Proofs about the events of a ROOT file: for every file, every option of  *)
(* the job and any number of streams.                                       *)
(***************************************************************************)
EXTENDS RootFile, FiniteSetTheorems, SequenceTheorems, WellFoundedInduction, TLAPS

-----------------------------------------------------------------------------
(* The least of some numbers, and sequences.                                 *)

LEMMA LeastNat ==
  ASSUME NEW T, T \subseteq Nat, T # {}
  PROVE  \E x \in T : \A y \in T : x <= y
<1> DEFINE R == {ss \in Nat \X Nat : ss[1] < ss[2]}
<1>1. IsWellFoundedOn(R, Nat)
  BY NatLessThanWellFounded, Zenon DEF OpToRel
<1>2. \E x \in T : \A y \in T : ~(<<y, x>> \in R)
  <2> HIDE DEF R
  <2> QED
    BY <1>1, WFMin, Zenon
<1>3. PICK x \in T : \A y \in T : ~(<<y, x>> \in R)
  BY <1>2
<1>4. ASSUME NEW y \in T PROVE x <= y
  <2>1. <<y, x>> \in Nat \X Nat
    OBVIOUS
  <2>2. ~(y < x)
    BY <1>3, <2>1
  <2> QED
    BY <2>2
<1> QED
  BY <1>4

LEMMA SeqWiden == ASSUME NEW S, NEW T, S \subseteq T, NEW s \in Seq(S) PROVE s \in Seq(T)
<1>1. Len(s) \in Nat /\ s \in [1 .. Len(s) -> S]
  OBVIOUS
<1>2. s \in [1 .. Len(s) -> T]
  BY <1>1
<1> QED
  BY <1>1, <1>2

LEMMA Joined ==
  ASSUME NEW T, NEW s \in Seq(T), NEW t \in Seq(T)
  PROVE  /\ s \o t \in Seq(T) /\ Len(s \o t) = Len(s) + Len(t)
         /\ \A i \in 1 .. Len(s) : (s \o t)[i] = s[i]
         /\ \A i \in 1 .. Len(t) : (s \o t)[Len(s) + i] = t[i]
OBVIOUS

LEMMA Pieces ==
  ASSUME NEW T, NEW c \in Seq(T), NEW last \in 0 .. Len(c)
  PROVE  /\ SubSeq(c, 1, last) \in Seq(T) /\ Len(SubSeq(c, 1, last)) = last
         /\ \A i \in 1 .. last : SubSeq(c, 1, last)[i] = c[i]
         /\ SubSeq(c, last + 1, Len(c)) \in Seq(T)
         /\ Len(SubSeq(c, last + 1, Len(c))) = Len(c) - last
         /\ \A i \in 1 .. Len(c) - last : SubSeq(c, last + 1, Len(c))[i] = c[last + i]
<1>1. Len(c) \in Nat /\ last \in Nat /\ 1 \in Int /\ last \in Int /\ last + 1 \in Int /\ Len(c) \in Int /\ last <= Len(c)
  OBVIOUS
<1>2. /\ SubSeq(c, 1, last) \in Seq(T) /\ Len(SubSeq(c, 1, last)) = IF 1 <= last THEN last - 1 + 1 ELSE 0
      /\ \A i \in 1 .. last - 1 + 1 : SubSeq(c, 1, last)[i] = c[1 + i - 1]
  <2>1. \A i \in 1 .. last : c[i] \in T
    BY <1>1
  <2> QED
    BY <1>1, <2>1, SubSeqProperties
<1>3. /\ SubSeq(c, last + 1, Len(c)) \in Seq(T)
      /\ Len(SubSeq(c, last + 1, Len(c))) = IF last + 1 <= Len(c) THEN Len(c) - (last + 1) + 1 ELSE 0
      /\ \A i \in 1 .. Len(c) - (last + 1) + 1 :
            SubSeq(c, last + 1, Len(c))[i] = c[(last + 1) + i - 1]
  <2>1. \A i \in last + 1 .. Len(c) : c[i] \in T
    BY <1>1
  <2> QED
    BY <1>1, <2>1, SubSeqProperties
<1> QED
  BY <1>1, <1>2, <1>3

-----------------------------------------------------------------------------
(* Tuples of numbers in lexicographic order, and what is listed by them.      *)

Tuples(n) == [1 .. n -> Int]

LEMMA BeforeIsStrict ==
  ASSUME NEW n \in Nat, NEW a \in Tuples(n)
  PROVE  ~Before(a, a)
<1>1. DOMAIN a = 1 .. n /\ \A k \in 1 .. n : a[k] \in Int
  BY DEF Tuples
<1> QED
  BY <1>1 DEF Before

LEMMA BeforeIsTransitive ==
  ASSUME NEW n \in Nat, NEW a \in Tuples(n), NEW b \in Tuples(n), NEW c \in Tuples(n),
         Before(a, b), Before(b, c)
  PROVE  Before(a, c)
<1>1. /\ DOMAIN a = 1 .. n /\ DOMAIN b = 1 .. n
      /\ \A k \in 1 .. n : a[k] \in Int /\ b[k] \in Int /\ c[k] \in Int
  BY DEF Tuples
<1>2. PICK k \in 1 .. n : a[k] < b[k] /\ \A j \in 1 .. k - 1 : a[j] = b[j]
  BY <1>1 DEF Before
<1>3. PICK l \in 1 .. n : b[l] < c[l] /\ \A j \in 1 .. l - 1 : b[j] = c[j]
  BY <1>1 DEF Before
<1>4. CASE k < l
  <2>1. b[k] = c[k] /\ \A j \in 1 .. k - 1 : b[j] = c[j]
    BY <1>3, <1>4
  <2>2. a[k] < c[k] /\ \A j \in 1 .. k - 1 : a[j] = c[j]
    BY <1>2, <2>1
  <2> QED
    BY <1>1, <2>2 DEF Before
<1>5. CASE l < k
  <2>1. a[l] = b[l] /\ \A j \in 1 .. l - 1 : a[j] = b[j]
    BY <1>2, <1>5
  <2>2. a[l] < c[l] /\ \A j \in 1 .. l - 1 : a[j] = c[j]
    BY <1>3, <2>1
  <2> QED
    BY <1>1, <2>2 DEF Before
<1>6. CASE k = l
  <2>1. a[k] < c[k]
    BY <1>1, <1>2, <1>3, <1>6
  <2>2. \A j \in 1 .. k - 1 : a[j] = c[j]
    BY <1>2, <1>3, <1>6
  <2> QED
    BY <1>1, <2>1, <2>2 DEF Before
<1> QED
  BY <1>4, <1>5, <1>6

LEMMA BeforeIsTotal ==
  ASSUME NEW n \in Nat, NEW a \in Tuples(n), NEW b \in Tuples(n), a # b
  PROVE  Before(a, b) \/ Before(b, a)
<1> DEFINE D == {k \in 1 .. n : a[k] # b[k]}
<1>1. /\ DOMAIN a = 1 .. n /\ DOMAIN b = 1 .. n
      /\ \A k \in 1 .. n : a[k] \in Int /\ b[k] \in Int
  BY DEF Tuples
<1>2. D # {} /\ D \subseteq Nat
  BY DEF Tuples
<1>3. PICK k \in D : \A l \in D : k <= l
  <2> HIDE DEF D
  <2> QED
    BY <1>2, LeastNat
<1>4. k \in 1 .. n /\ a[k] # b[k]
  OBVIOUS
<1>5. \A j \in 1 .. k - 1 : a[j] = b[j]
  <2> TAKE j \in 1 .. k - 1
  <2>1. j \in 1 .. n /\ j < k
    BY <1>4
  <2>2. j \notin D
    <3> HIDE DEF D
    <3> QED
      BY <1>3, <1>4, <2>1
  <2> QED
    BY <2>1, <2>2
<1>6. a[k] < b[k] \/ b[k] < a[k]
  BY <1>1, <1>4
<1> QED
  BY <1>1, <1>4, <1>5, <1>6 DEF Before

Keyed(S, key, n) == key \in [S -> Tuples(n)] /\ \A x, y \in S : key[x] = key[y] => x = y

Below(S, key, x) == {y \in S : Before(key[y], key[x])}

LEMMA RankGrows ==
  ASSUME NEW n \in Nat, NEW S, IsFiniteSet(S), NEW key, Keyed(S, key, n), NEW x \in S
  PROVE  /\ IsFiniteSet(Below(S, key, x)) /\ Cardinality(Below(S, key, x)) \in 0 .. Cardinality(S) - 1
         /\ \A y \in S : Before(key[y], key[x]) =>
              Cardinality(Below(S, key, y)) < Cardinality(Below(S, key, x))
<1>1. \A y \in S : key[y] \in Tuples(n)
  BY DEF Keyed
<1>2. \A y \in S : /\ IsFiniteSet(Below(S, key, y)) /\ Cardinality(Below(S, key, y)) \in Nat
                   /\ IsFiniteSet(Below(S, key, y) \cup {y})
                   /\ Cardinality(Below(S, key, y) \cup {y}) = Cardinality(Below(S, key, y)) + 1
  <2> TAKE y \in S
  <2>1. Below(S, key, y) \in SUBSET S /\ y \notin Below(S, key, y)
    BY <1>1, BeforeIsStrict DEF Below
  <2>2. IsFiniteSet(Below(S, key, y))
    BY <2>1, FS_Subset
  <2> QED
    BY <2>1, <2>2, FS_AddElement, FS_CardinalityType
<1>3. Cardinality(Below(S, key, x)) + 1 <= Cardinality(S)
  <2>1. Below(S, key, x) \cup {x} \in SUBSET S
    BY DEF Below
  <2>2. Cardinality(Below(S, key, x) \cup {x}) <= Cardinality(S)
    BY <2>1, FS_Subset
  <2> QED
    BY <1>2, <2>2
<1>4. ASSUME NEW y \in S, Before(key[y], key[x])
      PROVE  Cardinality(Below(S, key, y)) < Cardinality(Below(S, key, x))
  <2>1. Below(S, key, y) \cup {y} \in SUBSET Below(S, key, x)
    <3>1. \A z \in S : Before(key[z], key[y]) => Before(key[z], key[x])
      BY <1>1, <1>4, BeforeIsTransitive
    <3> QED
      BY <1>4, <3>1 DEF Below
  <2>2. Cardinality(Below(S, key, y) \cup {y}) <= Cardinality(Below(S, key, x))
    BY <1>2, <2>1, FS_Subset
  <2>3. Cardinality(Below(S, key, y) \cup {y}) = Cardinality(Below(S, key, y)) + 1
    BY <1>2
  <2>4. Cardinality(Below(S, key, x)) \in Nat /\ Cardinality(Below(S, key, y)) \in Nat
    BY <1>2
  <2> QED
    BY <2>2, <2>3, <2>4
<1>5. Cardinality(S) \in Nat
  BY FS_CardinalityType
<1>6. IsFiniteSet(Below(S, key, x)) /\ Cardinality(Below(S, key, x)) \in Nat
  BY <1>2
<1>7. Cardinality(Below(S, key, x)) \in 0 .. Cardinality(S) - 1
  BY <1>3, <1>5, <1>6
<1> QED
  BY <1>4, <1>6, <1>7, Zenon

\* For every rank there is exactly one member.
LEMMA RankIsOnce ==
  ASSUME NEW n \in Nat, NEW S, IsFiniteSet(S), NEW key, Keyed(S, key, n)
  PROVE  /\ \A x, y \in S : Cardinality(Below(S, key, x)) = Cardinality(Below(S, key, y)) => x = y
         /\ \A k \in 1 .. Cardinality(S) : \E x \in S : Cardinality(Below(S, key, x)) = k - 1
<1> DEFINE size == Cardinality(S)
           T == 0 .. size - 1
           rank == [x \in S |-> Cardinality(Below(S, key, x))]
<1>1. size \in Nat
  BY FS_CardinalityType
<1>2. ASSUME NEW x \in S, NEW y \in S, Cardinality(Below(S, key, x)) = Cardinality(Below(S, key, y))
      PROVE  x = y
  <2>1. /\ key[x] \in Tuples(n) /\ key[y] \in Tuples(n) /\ (key[x] = key[y] => x = y)
    BY DEF Keyed
  <2>2. x = y \/ Before(key[x], key[y]) \/ Before(key[y], key[x])
    BY <2>1, BeforeIsTotal
  <2>3. Cardinality(Below(S, key, x)) \in 0 .. size - 1
    BY RankGrows
  <2>4. Before(key[x], key[y]) => Cardinality(Below(S, key, x)) < Cardinality(Below(S, key, y))
    BY RankGrows
  <2>5. Before(key[y], key[x]) => Cardinality(Below(S, key, y)) < Cardinality(Below(S, key, x))
    BY RankGrows
  <2> QED
    BY <1>2, <2>2, <2>3, <2>4, <2>5
<1>3. IsFiniteSet(T) /\ Cardinality(T) = size
  <2> HIDE DEF size
  <2>1. size - 1 \in Int /\ 0 \in Int /\ (0 > size - 1 => size = 0) /\ (size - 1) - 0 + 1 = size
    BY <1>1
  <2> QED
    BY <2>1, FS_Interval
<1>4. rank \in Injection(S, T)
  <2>1. \A x \in S : Cardinality(Below(S, key, x)) \in T
    BY RankGrows
  <2> HIDE DEF T
  <2> QED
    BY <1>2, <2>1 DEF Injection, IsInjective
<1>5. rank \in Surjection(S, T)
  <2> HIDE DEF rank, T
  <2> QED
    BY <1>3, <1>4, FS_Injection
<1>6. ASSUME NEW k \in 1 .. size PROVE \E x \in S : Cardinality(Below(S, key, x)) = k - 1
  <2>1. k - 1 \in T
    BY <1>1
  <2> HIDE DEF T
  <2> QED
    BY <1>5, <2>1 DEF Surjection
<1> QED
  BY <1>2, <1>6

\* Ordered lists the members of a set, each once, in ascending order of keys.
LEMMA OrderedLists ==
  ASSUME NEW n \in Nat, NEW S, IsFiniteSet(S), NEW key, Keyed(S, key, n)
  PROVE  LET s == Ordered(S, key)
         IN /\ s \in Seq(S) /\ Len(s) = Cardinality(S) /\ Len(s) \in Nat
            /\ \A x \in S : \E k \in 1 .. Len(s) : s[k] = x
            /\ \A k, l \in 1 .. Len(s) : k < l => Before(key[s[k]], key[s[l]])
            /\ \A k, l \in 1 .. Len(s) : s[k] = s[l] => k = l
<1> DEFINE size == Cardinality(S)
           Entry(k) == CHOOSE x \in S : Cardinality({y \in S : Before(key[y], key[x])}) = k - 1
           r == [k \in 1 .. size |-> Entry(k)]
           s == Ordered(S, key)
<1>1. size \in Nat
  BY FS_CardinalityType
<1>2. ASSUME NEW k \in 1 .. size PROVE Entry(k) \in S /\ Cardinality(Below(S, key, Entry(k))) = k - 1
  <2> DEFINE Ranked(x) == Cardinality({y \in S : Before(key[y], key[x])}) = k - 1
  <2>1. Entry(k) = CHOOSE x \in S : Ranked(x)
    BY Zenon
  <2>2. \A x \in S : Ranked(x) <=> Cardinality(Below(S, key, x)) = k - 1
    BY DEF Below
  <2>3. \E x \in S : Cardinality(Below(S, key, x)) = k - 1
    BY RankIsOnce
  <2> HIDE DEF Ranked, Entry
  <2> QED
    BY <2>1, <2>2, <2>3
<1>3. r \in Seq(S) /\ Len(r) = size /\ \A k \in 1 .. size : r[k] = Entry(k)
  <2> HIDE DEF Entry, size
  <2> QED
    BY <1>1, <1>2
<1>4. s = r
  <2>1. s = <<>> \o r
    BY Zenon DEF Ordered
  <2> HIDE DEF r, s
  <2> QED
    BY <1>3, <2>1
<1> HIDE DEF Entry, r
<1>5. ASSUME NEW x \in S PROVE \E k \in 1 .. size : r[k] = x
  <2>1. PICK k \in 1 .. size : Cardinality(Below(S, key, x)) = k - 1
    <3>1. Cardinality(Below(S, key, x)) \in 0 .. size - 1
      BY RankGrows
    <3>2. Cardinality(Below(S, key, x)) + 1 \in 1 .. size
      BY <1>1, <3>1
    <3>3. (Cardinality(Below(S, key, x)) + 1) - 1 = Cardinality(Below(S, key, x))
      BY <3>1
    <3> HIDE DEF size
    <3> QED
      BY <3>2, <3>3
  <2>2. Cardinality(Below(S, key, r[k])) = k - 1 /\ r[k] \in S
    BY <1>2, <1>3
  <2>3. x = r[k]
    BY <2>1, <2>2, RankIsOnce
  <2> QED
    BY <2>3
<1>6. ASSUME NEW k \in 1 .. size, NEW l \in 1 .. size, k < l PROVE Before(key[r[k]], key[r[l]])
  <2>1. r[k] \in S /\ r[l] \in S /\ key[r[k]] \in Tuples(n) /\ key[r[l]] \in Tuples(n)
    BY <1>2, <1>3 DEF Keyed
  <2>2. Cardinality(Below(S, key, r[k])) = k - 1 /\ Cardinality(Below(S, key, r[l])) = l - 1
    BY <1>2, <1>3
  <2>3. k - 1 # l - 1 /\ ~(l - 1 < k - 1)
    BY <1>6
  <2>4. key[r[k]] # key[r[l]]
    BY <2>1, <2>2, <2>3 DEF Keyed
  <2>5. ~Before(key[r[l]], key[r[k]])
    BY <2>1, <2>2, <2>3, RankGrows
  <2> QED
    BY <2>1, <2>4, <2>5, BeforeIsTotal
<1>7. ASSUME NEW k \in 1 .. size, NEW l \in 1 .. size, r[k] = r[l] PROVE k = l
  <2>1. k - 1 = l - 1
    BY <1>2, <1>3, <1>7
  <2> QED
    BY <2>1
<1> HIDE DEF s
<1> QED
  BY <1>1, <1>3, <1>4, <1>5, <1>6, <1>7 DEF s

-----------------------------------------------------------------------------
(* Recursive functions on the first numbers.                                  *)

LEMMA CountUp ==
  ASSUME NEW L \in Nat, NEW A, 0 \in A, \A n \in 1 .. L : n - 1 \in A => n \in A
  PROVE  \A n \in 0 .. L : n \in A
<1> DEFINE Bad == {n \in 0 .. L : n \notin A}
<1>1. SUFFICES ASSUME Bad # {} PROVE FALSE
  OBVIOUS
<1>2. Bad \subseteq Nat
  OBVIOUS
<1>3. PICK n \in Bad : \A m \in Bad : n <= m
  <2> HIDE DEF Bad
  <2> QED
    BY <1>1, <1>2, LeastNat
<1>4. n \in 0 .. L /\ n \notin A /\ n # 0
  OBVIOUS
<1>5. n - 1 \in 0 .. L /\ n - 1 < n /\ n \in 1 .. L
  BY <1>4
<1>6. n - 1 \notin Bad
  <2> HIDE DEF Bad
  <2> QED
    BY <1>3, <1>4, <1>5
<1> QED
  BY <1>4, <1>5, <1>6

\* There is a function of the numbers to L that starts at base and goes on by step.
Recurses(L, S, base, step) ==
  \E f \in [0 .. L -> S] : f[0] = base /\ \A n \in 1 .. L : f[n] = step[<<n, f[n - 1]>>]

LEMMA RecursionExists ==
  ASSUME NEW L \in Nat, NEW S, NEW base \in S, NEW step \in [(1 .. L) \X S -> S]
  PROVE  Recurses(L, S, base, step)
<1> DEFINE Computes(f, n) == f \in [0 .. n -> S] /\ f[0] = base /\ \A i \in 1 .. n : f[i] = step[<<i, f[i - 1]>>]
           A == {n \in 0 .. L : \E f : Computes(f, n)}
<1>1. 0 \in A
  <2>1. Computes([i \in 0 .. 0 |-> base], 0) /\ 0 \in 0 .. L
    OBVIOUS
  <2> HIDE DEF Computes
  <2> QED
    BY <2>1
<1>2. ASSUME NEW n \in 1 .. L, n - 1 \in A PROVE n \in A
  <2>1. PICK f : Computes(f, n - 1)
    BY <1>2
  <2> DEFINE prev == f[n - 1]
             next == step[<<n, prev>>]
             g == [i \in 0 .. n |-> IF i = n THEN next ELSE f[i]]
  <2>2. n - 1 \in 0 .. n - 1 /\ n \in Nat /\ n >= 1 /\ n \in 0 .. L
    OBVIOUS
  <2>3. prev \in S
    BY <2>1, <2>2
  <2>4. <<n, prev>> \in (1 .. L) \X S
    <3> HIDE DEF prev
    <3> QED
      BY <2>3
  <2>5. next \in S
    <3> HIDE DEF prev
    <3> QED
      BY <2>4
  <2> HIDE DEF next
  <2>6. g \in [0 .. n -> S]
    <3>1. ASSUME NEW i \in 0 .. n PROVE (IF i = n THEN next ELSE f[i]) \in S
      <4>1. i = n \/ i \in 0 .. n - 1
        BY <2>2
      <4> QED
        BY <2>1, <2>5, <4>1
    <3> QED
      BY <3>1
  <2>7. g[0] = base
    BY <2>1, <2>2
  <2>8. ASSUME NEW i \in 1 .. n PROVE g[i] = step[<<i, g[i - 1]>>]
    <3>1. i \in 0 .. n /\ i - 1 \in 0 .. n /\ i - 1 # n /\ (i = n \/ i \in 1 .. n - 1)
      BY <2>2
    <3>2. g[i - 1] = f[i - 1]
      BY <3>1
    <3>3. CASE i = n
      <4>1. g[i] = next
        BY <3>1, <3>3
      <4> QED
        BY <3>2, <3>3, <4>1 DEF next
    <3>4. CASE i # n
      <4>1. g[i] = f[i] /\ i \in 1 .. n - 1
        BY <3>1, <3>4
      <4>2. f[i] = step[<<i, f[i - 1]>>]
        BY <2>1, <4>1
      <4> HIDE DEF g
      <4> QED
        BY <3>2, <4>1, <4>2
    <3> QED
      BY <3>3, <3>4
  <2>9. Computes(g, n)
    <3> HIDE DEF g
    <3> QED
      BY <2>6, <2>7, <2>8
  <2> HIDE DEF Computes
  <2> QED
    BY <2>2, <2>9
<1>3. L \in A
  <2> HIDE DEF A
  <2>1. \A n \in 0 .. L : n \in A
    BY <1>1, <1>2, CountUp
  <2>2. L \in 0 .. L
    OBVIOUS
  <2> QED
    BY <2>1, <2>2
<1> QED
  BY <1>3 DEF Recurses

-----------------------------------------------------------------------------
(* Sequences and what is in them.                                             *)

LEMMA RangeOf ==
  ASSUME NEW T, NEW s \in Seq(T)
  PROVE  /\ Range(s) = {s[k] : k \in 1 .. Len(s)} /\ Range(s) \subseteq T
         /\ Len(s) \in Nat /\ DOMAIN s = 1 .. Len(s)
         /\ \A k \in 1 .. Len(s) : s[k] \in T
BY DEF Range

LEMMA SeqOfFunction ==
  ASSUME NEW T, NEW n \in Nat, NEW f \in [1 .. n -> T]
  PROVE  /\ f \in Seq(T) /\ Len(f) = n /\ <<>> \o f = f
<1>1. f \in Seq(T) /\ Len(f) = n
  OBVIOUS
<1> QED
  BY <1>1

LEMMA RangeJoined ==
  ASSUME NEW T, NEW s \in Seq(T), NEW t \in Seq(T)
  PROVE  Range(s \o t) = Range(s) \cup Range(t)
<1> DEFINE r == s \o t
<1>1. /\ Len(r) = Len(s) + Len(t) /\ r \in Seq(T)
      /\ \A i \in 1 .. Len(s) : r[i] = s[i]
      /\ \A i \in 1 .. Len(t) : r[Len(s) + i] = t[i]
  BY Joined
<1> HIDE DEF r
<1>2. /\ Range(s) = {s[k] : k \in 1 .. Len(s)} /\ Range(t) = {t[k] : k \in 1 .. Len(t)}
      /\ Range(r) = {r[k] : k \in 1 .. Len(s) + Len(t)}
      /\ Len(s) \in Nat /\ Len(t) \in Nat
  BY <1>1, RangeOf
<1>3. ASSUME NEW x \in Range(r) PROVE x \in Range(s) \cup Range(t)
  <2>1. PICK i \in 1 .. Len(s) + Len(t) : x = r[i]
    BY <1>2
  <2>2. CASE i \in 1 .. Len(s)
    BY <1>1, <1>2, <2>1, <2>2
  <2>3. CASE i \notin 1 .. Len(s)
    <3>1. i - Len(s) \in 1 .. Len(t) /\ i = Len(s) + (i - Len(s))
      BY <1>2, <2>3
    <3>2. x = t[i - Len(s)]
      BY <1>1, <2>1, <3>1
    <3> QED
      BY <1>2, <3>1, <3>2
  <2> QED
    BY <2>2, <2>3
<1>4. ASSUME NEW x \in Range(s) PROVE x \in Range(r)
  <2>1. PICK i \in 1 .. Len(s) : x = s[i]
    BY <1>2
  <2>2. i \in 1 .. Len(s) + Len(t) /\ x = r[i]
    BY <1>1, <1>2, <2>1
  <2> QED
    BY <1>2, <2>2
<1>5. ASSUME NEW x \in Range(t) PROVE x \in Range(r)
  <2>1. PICK i \in 1 .. Len(t) : x = t[i]
    BY <1>2
  <2>2. Len(s) + i \in 1 .. Len(s) + Len(t) /\ x = r[Len(s) + i]
    BY <1>1, <1>2, <2>1
  <2> QED
    BY <1>2, <2>2
<1> QED
  BY <1>3, <1>4, <1>5 DEF r

LEMMA Inserted ==
  ASSUME NEW T, NEW s \in Seq(T), NEW x \in T, NEW at \in 1 .. Len(s) + 1
  PROVE  LET r == InsertAt(s, at, x)
         IN /\ r \in Seq(T) /\ Len(r) = Len(s) + 1 /\ r[at] = x
            /\ \A j \in 1 .. at - 1 : r[j] = s[j]
            /\ \A j \in at .. Len(s) : r[j + 1] = s[j]
<1> DEFINE last == at - 1
           front == SubSeq(s, 1, last)
           back == SubSeq(s, last + 1, Len(s))
           fx == front \o <<x>>
           r == InsertAt(s, at, x)
<1>1. last \in 0 .. Len(s) /\ last + 1 = at /\ Len(s) \in Nat
  OBVIOUS
<1> HIDE DEF last
<1>2. /\ front \in Seq(T) /\ Len(front) = last
      /\ \A i \in 1 .. last : front[i] = s[i]
      /\ back \in Seq(T) /\ Len(back) = Len(s) - last
      /\ \A i \in 1 .. Len(s) - last : back[i] = s[last + i]
  BY <1>1, Pieces
<1>3. r = fx \o back
  BY <1>1 DEF InsertAt, last
<1> HIDE DEF front, back
<1>4. <<x>> \in Seq(T) /\ Len(<<x>>) = 1 /\ <<x>>[1] = x
  OBVIOUS
<1>5. /\ fx \in Seq(T) /\ Len(fx) = last + 1
      /\ \A i \in 1 .. last : fx[i] = s[i]
      /\ fx[last + 1] = x
  <2>1. /\ fx \in Seq(T) /\ Len(fx) = Len(front) + 1
        /\ \A i \in 1 .. Len(front) : fx[i] = front[i]
        /\ fx[Len(front) + 1] = x
    BY <1>2, <1>4, Joined
  <2> HIDE DEF fx
  <2> QED
    BY <1>2, <2>1
<1> HIDE DEF fx, r
<1>6. /\ r \in Seq(T) /\ Len(r) = (last + 1) + (Len(s) - last)
      /\ \A i \in 1 .. last + 1 : r[i] = fx[i]
      /\ \A i \in 1 .. Len(s) - last : r[(last + 1) + i] = back[i]
  <2>1. /\ r \in Seq(T) /\ Len(r) = Len(fx) + Len(back)
        /\ \A i \in 1 .. Len(fx) : r[i] = fx[i]
        /\ \A i \in 1 .. Len(back) : r[Len(fx) + i] = back[i]
    BY <1>2, <1>3, <1>5, Joined, SMTT(30)
  <2> QED
    BY <1>2, <1>5, <2>1
<1>7. Len(r) = Len(s) + 1 /\ r[at] = x
  BY <1>1, <1>5, <1>6
<1>8. ASSUME NEW j \in 1 .. at - 1 PROVE r[j] = s[j]
  <2>1. j \in 1 .. last /\ j \in 1 .. last + 1
    BY <1>1
  <2> QED
    BY <1>5, <1>6, <2>1
<1>9. ASSUME NEW j \in at .. Len(s) PROVE r[j + 1] = s[j]
  <2>1. j - last \in 1 .. Len(s) - last /\ (last + 1) + (j - last) = j + 1 /\ last + (j - last) = j
    BY <1>1
  <2> QED
    BY <1>2, <1>6, <2>1, SMTT(30)
<1> QED
  BY <1>6, <1>7, <1>8, <1>9 DEF r

LEMMA LeastIsMin ==
  ASSUME NEW S, S \subseteq Nat, S # {}
  PROVE  Min(S) \in S /\ \A x \in S : Min(S) <= x
<1>1. \E x \in S : \A y \in S : x <= y
  BY LeastNat
<1> QED
  BY <1>1 DEF Min

-----------------------------------------------------------------------------
(* The pieces of fillIndexIntoFile.                                           *)

\* A sequence without the rest.
LEMMA PickLists ==
  ASSUME NEW T, NEW list \in Seq(T), NEW at, at \subseteq 1 .. Len(list)
  PROVE  /\ Pick(list, at) \in Seq(T) /\ Range(Pick(list, at)) = {list[k] : k \in at}
<1> DEFINE key == [k \in at |-> <<k>>]
           order == Ordered(at, key)
           r == [k \in 1 .. Len(order) |-> list[order[k]]]
<1>1. IsFiniteSet(at)
  <2>1. IsFiniteSet(1 .. Len(list)) /\ at \in SUBSET (1 .. Len(list))
    BY FS_Interval
  <2> QED
    BY <2>1, FS_Subset
<1>2. Keyed(at, key, 1)
  <2>1. \A k \in at : <<k>> \in Tuples(1)
    BY DEF Tuples
  <2>2. \A k, l \in at : <<k>> = <<l>> => k = l
    OBVIOUS
  <2> QED
    BY <2>1, <2>2 DEF Keyed
<1>3. /\ order \in Seq(at) /\ Len(order) \in Nat
      /\ \A x \in at : \E k \in 1 .. Len(order) : order[k] = x
  <2> HIDE DEF key
  <2> QED
    BY <1>1, <1>2, OrderedLists
<1>4. Pick(list, at) = <<>> \o [k \in DOMAIN order |-> list[order[k]]]
  BY Zenon DEF Pick
<1> HIDE DEF order
<1>5. DOMAIN order = 1 .. Len(order) /\ \A k \in 1 .. Len(order) : order[k] \in at
  BY <1>3
<1>6. r \in Seq(T) /\ Len(r) = Len(order) /\ <<>> \o r = r
  <2>1. \A k \in 1 .. Len(order) : list[order[k]] \in T
    BY <1>5, RangeOf
  <2>2. r \in [1 .. Len(order) -> T]
    BY <2>1
  <2> HIDE DEF r
  <2> QED
    BY <1>3, <2>2, SeqOfFunction
<1>7. Pick(list, at) = r
  BY <1>4, <1>5, <1>6
<1>8. Range(r) = {list[k] : k \in at}
  <2>1. Range(r) = {list[order[k]] : k \in 1 .. Len(order)}
    BY DEF Range
  <2> QED
    BY <1>3, <1>5, <2>1, ZenonT(30)
<1> QED
  BY <1>6, <1>7, <1>8

\* The items that have a run and a block.
Spots(T) == {v \in [list : Seq(T), at : Nat] : v.at \in 1 .. Len(v.list) + 1}

Span(x) == x.first .. x.end - 1

\* An entry is in the range of exactly one item.
Once(list, e) ==
  \E k \in 1 .. Len(list) : /\ e \in Span(list[k])
                            /\ \A l \in 1 .. Len(list) : e \in Span(list[l]) => l = k

LEMMA InsertedOnce ==
  ASSUME NEW T, NEW s \in Seq(T), NEW x \in T, NEW at \in 1 .. Len(s) + 1,
         NEW e, e \notin Span(x), Once(s, e)
  PROVE  Once(InsertAt(s, at, x), e)
<1> DEFINE r == InsertAt(s, at, x)
<1>1. /\ r \in Seq(T) /\ Len(r) = Len(s) + 1 /\ r[at] = x /\ Len(s) \in Nat
      /\ \A j \in 1 .. at - 1 : r[j] = s[j]
      /\ \A j \in at .. Len(s) : r[j + 1] = s[j]
  BY Inserted
<1> HIDE DEF r
<1>2. PICK k \in 1 .. Len(s) : /\ e \in Span(s[k])
                               /\ \A l \in 1 .. Len(s) : e \in Span(s[l]) => l = k
  BY DEF Once
<1> DEFINE K == IF k < at THEN k ELSE k + 1
<1>3. K \in 1 .. Len(r) /\ r[K] = s[k]
  <2>1. CASE k < at
    BY <1>1, <2>1
  <2>2. CASE ~(k < at)
    <3>1. k \in at .. Len(s) /\ K = k + 1
      BY <1>1, <2>2
    <3> QED
      BY <1>1, <3>1
  <2> QED
    BY <2>1, <2>2
<1>4. ASSUME NEW l \in 1 .. Len(r), e \in Span(r[l]) PROVE l = K
  <2>1. CASE l < at
    <3>1. l \in 1 .. at - 1 /\ l \in 1 .. Len(s)
      BY <1>1, <2>1
    <3>2. l = k
      BY <1>1, <1>2, <1>4, <3>1
    <3> QED
      BY <2>1, <3>2
  <2>2. CASE l = at
    BY <1>1, <1>4, <2>2
  <2>3. CASE l > at
    <3>1. l - 1 \in at .. Len(s) /\ (l - 1) + 1 = l /\ l - 1 \in 1 .. Len(s)
      BY <1>1, <2>3
    <3>2. r[l] = s[l - 1]
      BY <1>1, <3>1
    <3>3. l - 1 = k
      BY <1>2, <1>4, <3>1, <3>2
    <3> QED
      BY <2>3, <3>1, <3>3
  <2> QED
    BY <2>1, <2>2, <2>3, <1>1
<1> HIDE DEF K
<1>5. e \in Span(r[K])
  BY <1>2, <1>3
<1> QED
  BY <1>3, <1>4, <1>5 DEF Once, r

LEMMA InsertedRange ==
  ASSUME NEW T, NEW s \in Seq(T), NEW x \in T, NEW at \in 1 .. Len(s) + 1
  PROVE  Range(InsertAt(s, at, x)) = Range(s) \cup {x}
<1> DEFINE r == InsertAt(s, at, x)
<1>1. /\ r \in Seq(T) /\ Len(r) = Len(s) + 1 /\ r[at] = x /\ Len(s) \in Nat
      /\ \A j \in 1 .. at - 1 : r[j] = s[j]
      /\ \A j \in at .. Len(s) : r[j + 1] = s[j]
  BY Inserted
<1> HIDE DEF r
<1>2. Range(r) = {r[j] : j \in 1 .. Len(s) + 1} /\ Range(s) = {s[j] : j \in 1 .. Len(s)}
  BY <1>1, RangeOf
<1>3. ASSUME NEW j \in 1 .. Len(s) + 1 PROVE r[j] \in Range(s) \cup {x}
  <2>1. CASE j < at
    <3>1. j \in 1 .. at - 1 /\ j \in 1 .. Len(s)
      BY <1>1, <2>1
    <3> QED
      BY <1>1, <1>2, <3>1
  <2>2. CASE j > at
    <3>1. j - 1 \in at .. Len(s) /\ (j - 1) + 1 = j /\ j - 1 \in 1 .. Len(s)
      BY <1>1, <2>2
    <3>2. r[j] = s[j - 1]
      BY <1>1, <3>1
    <3> QED
      BY <1>2, <3>1, <3>2
  <2>3. CASE j = at
    BY <1>1, <2>3
  <2> QED
    BY <2>1, <2>2, <2>3
<1>4. ASSUME NEW j \in 1 .. Len(s) PROVE s[j] \in Range(r)
  <2>1. CASE j < at
    <3>1. j \in 1 .. at - 1 /\ j \in 1 .. Len(s) + 1
      BY <1>1, <2>1
    <3>2. r[j] = s[j]
      BY <1>1, <3>1
    <3> QED
      BY <1>2, <3>1, <3>2
  <2>2. CASE ~(j < at)
    <3>1. j \in at .. Len(s) /\ j + 1 \in 1 .. Len(s) + 1
      BY <1>1, <2>2
    <3>2. r[j + 1] = s[j]
      BY <1>1, <3>1
    <3> QED
      BY <1>2, <3>1, <3>2
  <2> QED
    BY <2>1, <2>2
<1>5. x \in Range(r)
  BY <1>1, <1>2
<1> QED
  BY <1>2, <1>3, <1>4, <1>5 DEF r

LEMMA InsertAfterInserts ==
  ASSUME NEW T, NEW v \in Spots(T), NEW x \in T
  PROVE  /\ InsertAfter(v.list, v.at, x) \in Spots(T)
         /\ \E at \in 1 .. Len(v.list) + 1 : InsertAfter(v.list, v.at, x).list = InsertAt(v.list, at, x)
<1> DEFINE list == v.list
           from == v.at
           A == {k \in from .. Len(list) : ItemLess(x, list[k])} \cup {Len(list) + 1}
           at == Min(A)
<1>1. list \in Seq(T) /\ from \in 1 .. Len(list) + 1 /\ Len(list) \in Nat
  BY DEF Spots
<1>2. A \subseteq Nat /\ A # {} /\ \A k \in A : k \in from .. Len(list) + 1
  BY <1>1
<1>3. at \in from .. Len(list) + 1
  <2> HIDE DEF A
  <2>1. at \in A
    BY <1>2, LeastIsMin
  <2> QED
    BY <1>2, <2>1
<1>4. InsertAfter(list, from, x) = [list |-> InsertAt(list, at, x), at |-> at + 1]
  BY Zenon DEF InsertAfter
<1> HIDE DEF at, A, list, from
<1>5. at \in 1 .. Len(list) + 1
  BY <1>1, <1>3
<1> DEFINE r == InsertAt(list, at, x)
<1>6. r \in Seq(T) /\ Len(r) = Len(list) + 1
  BY <1>1, <1>5, Inserted
<1> HIDE DEF r
<1>7. at + 1 \in Nat /\ at + 1 \in 1 .. Len(r) + 1
  BY <1>1, <1>5, <1>6
<1>8. [list |-> r, at |-> at + 1] \in Spots(T)
  BY <1>6, <1>7 DEF Spots
<1> QED
  BY <1>4, <1>5, <1>8 DEF r, list, from

\* The empty ones are inserted, and nothing else changes.
LEMMA InsertEmptyLists ==
  ASSUME NEW T, \A x \in T : x.run \in Int /\ x.lumi \in Int,
         NEW list \in Seq(T), NEW empty \in Seq(T)
  PROVE  /\ InsertEmpty(list, empty) \in Seq(T)
         /\ Range(InsertEmpty(list, empty)) = Range(list) \cup Range(empty)
         /\ \A e : (\A x \in Range(empty) : e \notin Span(x)) /\ Once(list, e)
                     => Once(InsertEmpty(list, empty), e)
<1> DEFINE L == Len(empty)
           key == [k \in DOMAIN empty |-> <<empty[k].run, empty[k].lumi, k>>]
           order == Ordered(DOMAIN empty, key)
           base == [list |-> list, at |-> 1]
           Body(f, n) == IF n = 0 THEN base ELSE InsertAfter(f[n - 1].list, f[n - 1].at, empty[order[n]])
           inserted == CHOOSE f : f = [n \in 0 .. L |-> Body(f, n)]
<1>1. L \in Nat /\ DOMAIN empty = 1 .. L /\ (\A k \in 1 .. L : empty[k] \in T)
      /\ Range(empty) = {empty[k] : k \in 1 .. L}
  BY RangeOf
<1>2. Keyed(1 .. L, key, 3)
  <2>1. \A k \in 1 .. L : <<empty[k].run, empty[k].lumi, k>> \in Tuples(3)
    <3> TAKE k \in 1 .. L
    <3>1. empty[k].run \in Int /\ empty[k].lumi \in Int /\ k \in Int
      BY <1>1
    <3> QED
      BY <3>1 DEF Tuples
  <2>2. \A k, l \in 1 .. L : <<empty[k].run, empty[k].lumi, k>> = <<empty[l].run, empty[l].lumi, l>> => k = l
    OBVIOUS
  <2> QED
    BY <1>1, <2>1, <2>2 DEF Keyed
<1>3. /\ order \in Seq(1 .. L) /\ Len(order) = L
      /\ \A k \in 1 .. L : \E n \in 1 .. L : order[n] = k
  <2> HIDE DEF key
  <2>1. order = Ordered(1 .. L, key)
    BY <1>1
  <2> HIDE DEF L, order
  <2>2. 1 \in Int /\ L \in Int /\ (1 > L => L = 0) /\ (L - 1) + 1 = L
    BY <1>1
  <2>3. IsFiniteSet(1 .. L) /\ Cardinality(1 .. L) = L
    BY <2>2, FS_Interval
  <2> DEFINE s == Ordered(1 .. L, key)
  <2>4. s \in Seq(1 .. L) /\ Len(s) = Cardinality(1 .. L) /\ \A k \in 1 .. L : \E n \in 1 .. Len(s) : s[n] = k
    BY <1>2, <2>3, OrderedLists, SMTT(30)
  <2> HIDE DEF s
  <2> QED
    BY <2>1, <2>3, <2>4 DEF s
<1>4. InsertEmpty(list, empty) = inserted[L].list
  BY Zenon DEF InsertEmpty
<1>5. base \in Spots(T)
  <2>1. 1 \in 1 .. Len(list) + 1
    OBVIOUS
  <2> QED
    BY <2>1 DEF Spots
<1> HIDE DEF order, base
<1>6. \A n \in 1 .. L : order[n] \in 1 .. L /\ empty[order[n]] \in T
  <2> HIDE DEF L
  <2> DEFINE D == 1 .. L
  <2>1. order \in Seq(D) /\ Len(order) = L /\ L \in Nat
    BY <1>1, <1>3
  <2> HIDE DEF D
  <2> TAKE n \in 1 .. L
  <2>2. order[n] \in D
    BY <2>1
  <2> QED
    BY <1>1, <2>2 DEF D
<1> DEFINE step == [p \in (1 .. L) \X Spots(T) |-> InsertAfter(p[2].list, p[2].at, empty[order[p[1]]])]
<1>7. step \in [(1 .. L) \X Spots(T) -> Spots(T)]
  <2>1. ASSUME NEW p \in (1 .. L) \X Spots(T) PROVE InsertAfter(p[2].list, p[2].at, empty[order[p[1]]]) \in Spots(T)
    BY <1>6, InsertAfterInserts
  <2> QED
    BY <2>1
<1>8. \E f : f = [n \in 0 .. L |-> Body(f, n)]
  <2>1. PICK f \in [0 .. L -> Spots(T)] : f[0] = base /\ \A n \in 1 .. L : f[n] = step[<<n, f[n - 1]>>]
    <3> HIDE DEF step, L
    <3> DEFINE S == Spots(T)
    <3>1. L \in Nat /\ base \in S /\ step \in [(1 .. L) \X S -> S]
      BY <1>1, <1>5, <1>7
    <3> HIDE DEF S
    <3>2. Recurses(L, S, base, step)
      BY <3>1, RecursionExists
    <3> QED
      BY <3>2 DEF S, Recurses
  <2>2. ASSUME NEW n \in 0 .. L PROVE f[n] = Body(f, n)
    <3>1. CASE n = 0
      BY <2>1, <3>1
    <3>2. CASE n # 0
      <4>1. n \in 1 .. L /\ n - 1 \in 0 .. L
        BY <3>2, <1>1
      <4> DEFINE prev == f[n - 1]
      <4>2. prev \in Spots(T)
        BY <2>1, <4>1
      <4> HIDE DEF prev
      <4>3. <<n, prev>> \in (1 .. L) \X Spots(T)
        BY <4>1, <4>2
      <4>4. step[<<n, prev>>] = InsertAfter(prev.list, prev.at, empty[order[n]])
        BY <4>3
      <4>5. f[n] = step[<<n, prev>>]
        BY <2>1, <4>1 DEF prev
      <4> QED
        BY <3>2, <4>4, <4>5 DEF prev
    <3> QED
      BY <3>1, <3>2
  <2>3. f = [n \in 0 .. L |-> Body(f, n)]
    <3> HIDE DEF Body
    <3> QED
      BY <2>1, <2>2
  <2> QED
    BY <2>3
<1>9. inserted = [n \in 0 .. L |-> Body(inserted, n)]
  <2> HIDE DEF Body
  <2> QED
    BY <1>8, Zenon
<1> HIDE DEF inserted
<1>10. \A n \in 0 .. L : inserted[n] = Body(inserted, n)
  <2> HIDE DEF Body
  <2> QED
    BY <1>9
<1> DEFINE Was(e) == (\A x \in Range(empty) : e \notin Span(x)) /\ Once(list, e)
           Good(v, n) == /\ v \in Spots(T)
                         /\ Range(v.list) = Range(list) \cup {empty[order[k]] : k \in 1 .. n}
                         /\ \A e : Was(e) => Once(v.list, e)
           A == {n \in 0 .. L : Good(inserted[n], n)}
<1>11. 0 \in A
  <2>1. inserted[0] = base
    BY <1>1, <1>10
  <2>2. base.list = list /\ 1 .. 0 = {}
    BY DEF base
  <2>3. Good(base, 0)
    BY <1>5, <2>2
  <2> HIDE DEF Good
  <2>4. 0 \in 0 .. L
    BY <1>1
  <2> QED
    BY <2>1, <2>3, <2>4
<1>12. ASSUME NEW n \in 1 .. L, n - 1 \in A PROVE n \in A
  <2> DEFINE prev == inserted[n - 1]
             x == empty[order[n]]
             next == InsertAfter(prev.list, prev.at, x)
  <2>1. Good(prev, n - 1)
    <3> HIDE DEF Good
    <3> QED
      BY <1>12
  <2>2. inserted[n] = next
    <3>1. n \in 0 .. L /\ n # 0
      BY <1>1
    <3> QED
      BY <1>10, <3>1
  <2>3. x \in T /\ x \in Range(empty)
    BY <1>1, <1>6
  <2> HIDE DEF prev, x
  <2>4. next \in Spots(T)
    BY <2>1, <2>3, InsertAfterInserts
  <2>5. PICK at \in 1 .. Len(prev.list) + 1 : next.list = InsertAt(prev.list, at, x)
    BY <2>1, <2>3, InsertAfterInserts
  <2>6. prev.list \in Seq(T)
    BY <2>1 DEF Spots
  <2> HIDE DEF next
  <2>7. Range(next.list) = Range(list) \cup {empty[order[k]] : k \in 1 .. n}
    <3>1. Range(next.list) = Range(prev.list) \cup {x}
      BY <2>3, <2>5, <2>6, InsertedRange
    <3>2. \A k \in 1 .. n : k = n \/ k \in 1 .. n - 1
      OBVIOUS
    <3>3. \A k \in 1 .. n - 1 : k \in 1 .. n
      OBVIOUS
    <3>4. n \in 1 .. n
      OBVIOUS
    <3>5. {empty[order[k]] : k \in 1 .. n} = {empty[order[k]] : k \in 1 .. n - 1} \cup {x}
      BY <3>2, <3>3, <3>4 DEF x
    <3> QED
      BY <2>1, <3>1, <3>5
  <2>8. ASSUME NEW e, Was(e) PROVE Once(next.list, e)
    <3>1. Once(prev.list, e)
      BY <2>1, <2>8
    <3>2. e \notin Span(x)
      BY <2>3, <2>8
    <3> QED
      BY <2>3, <2>5, <2>6, <3>1, <3>2, InsertedOnce
  <2>9. Good(next, n)
    BY <2>4, <2>7, <2>8
  <2>10. n \in 0 .. L
    BY <1>1
  <2> HIDE DEF Good
  <2> QED
    BY <2>2, <2>9, <2>10
<1>13. Good(inserted[L], L)
  <2>1. \A n \in 0 .. L : n \in A
    <3> HIDE DEF A
    <3> QED
      BY <1>1, <1>11, <1>12, CountUp
  <2>2. L \in 0 .. L
    BY <1>1
  <2>3. L \in A
    <3> HIDE DEF A
    <3> QED
      BY <2>1, <2>2
  <2> HIDE DEF Good
  <2> QED
    BY <2>3
<1>14. {empty[order[k]] : k \in 1 .. L} = Range(empty)
  <2> HIDE DEF L
  <2>1. \A k \in 1 .. L : \E n \in 1 .. L : order[n] = k
    BY <1>3
  <2>3. ASSUME NEW x \in Range(empty) PROVE x \in {empty[order[k]] : k \in 1 .. L}
    <3>1. PICK k \in 1 .. L : x = empty[k]
      BY <1>1, <2>3
    <3>2. PICK n \in 1 .. L : order[n] = k
      BY <2>1
    <3> QED
      BY <3>1, <3>2
  <2>4. ASSUME NEW k \in 1 .. L PROVE empty[order[k]] \in Range(empty)
    BY <1>1, <1>6
  <2> QED
    BY <2>3, <2>4
<1>15. inserted[L].list \in Seq(T)
  BY <1>13 DEF Spots
<1> QED
  BY <1>4, <1>13, <1>14, <1>15

-----------------------------------------------------------------------------
(* fillIndexIntoFile.                                                         *)

EventRecords == [phid : Nat, run : Nat \ {0}, lumi : Nat \ {0}, event : Nat]
RunRecords   == [phid : Nat, run : Nat \ {0}]
LumiRecords  == [run : Nat \ {0}, lumi : Nat \ {0}]
RunItems     == [phid : Nat, run : Nat \ {0}, lumi : {0}]
LumiItems    == [phid : Nat, run : Nat \ {0}, lumi : Nat \ {0}, first : Int, end : Int]
Entries      == [orderRun : Int, orderLumi : Int, entry : Int, phid : Nat, run : Nat, lumi : Nat,
                 first : Int, end : Int]

LEMMA JobTypes ==
  ASSUME job \in Jobs
  PROVE  /\ job.events \in Seq(EventRecords) /\ job.runs \in Seq(RunRecords) /\ job.lumis \in Seq(LumiRecords)
         /\ job.tree \in [autoFlush : Nat, learning : Nat, caching : BOOLEAN] /\ job.sort \in BOOLEAN
         /\ job.old \in BOOLEAN /\ job.check \in BOOLEAN /\ job.maxEvents \in Int
         /\ job.index \in Seq(Entries) /\ N \in Nat
         /\ \A k \in 1 .. Len(job.index) : Span(job.index[k]) \subseteq 0 .. N - 1
<1>1. /\ job.events \in Seq(EventRecords) /\ job.runs \in Seq(RunRecords) /\ job.lumis \in Seq(LumiRecords)
      /\ job.tree \in [autoFlush : Nat, learning : Nat, caching : BOOLEAN] /\ job.sort \in BOOLEAN
      /\ job.old \in BOOLEAN /\ job.check \in BOOLEAN /\ job.maxEvents \in Int
      /\ job.index \in Seq(Entries)
      /\ \A k \in 1 .. Len(job.index) : Span(job.index[k]) \subseteq 0 .. N - 1
  BY JobsAssumption, Zenon DEF EventRecords, RunRecords, LumiRecords, Entries, Span, N
<1>2. N \in Nat
  BY <1>1, RangeOf DEF N
<1> QED
  BY <1>1, <1>2

\* The items cover the first n events, in their order, each with its own.
Covers(list, n) ==
  /\ list \in Seq(LumiItems)
  /\ n = 0 => list = <<>>
  /\ n > 0 => Len(list) > 0 /\ list[Len(list)].end = n /\ SameLumi(list[Len(list)], job.events[n])
  /\ \A k \in 1 .. Len(list) : 0 <= list[k].first /\ list[k].first < list[k].end /\ list[k].end <= n
  /\ \A k, l \in 1 .. Len(list) : k < l => list[k].end <= list[l].first
  /\ \A e \in 0 .. n - 1 : \E k \in 1 .. Len(list) : e \in Span(list[k])
  /\ \A k \in 1 .. Len(list) : \A e \in Span(list[k]) : SameLumi(list[k], Event(e))

LEMMA AddEventTypes ==
  ASSUME NEW list \in Seq(LumiItems), NEW event \in EventRecords, NEW e \in Nat
  PROVE  AddEvent(list, event, e) \in Seq(LumiItems)
<1> DEFINE item == LumiItem(event.phid, event.run, event.lumi, e, e + 1)
<1>1. item \in LumiItems
  BY DEF item, LumiItem, LumiItems, EventRecords
<1>2. Append(list, item) \in Seq(LumiItems)
  <2> HIDE DEF item
  <2> QED
    BY <1>1
<1>3. ASSUME list # <<>> PROVE [list EXCEPT ![Len(list)].end = e + 1] \in Seq(LumiItems)
  <2> DEFINE L == Len(list)
             last == [list[L] EXCEPT !.end = e + 1]
  <2>1. L \in 1 .. L /\ L \in Nat /\ \A k \in 1 .. L : list[k] \in LumiItems
    BY <1>3
  <2>2. last \in LumiItems
    <3> DEFINE x == list[L]
    <3>1. x \in LumiItems /\ e + 1 \in Int
      BY <2>1
    <3> HIDE DEF x
    <3>2. [x EXCEPT !.end = e + 1] \in LumiItems
      BY <3>1 DEF LumiItems
    <3> QED
      BY <3>2 DEF x
  <2> HIDE DEF last
  <2>3. [list EXCEPT ![L] = last] \in Seq(LumiItems)
    BY <2>1, <2>2
  <2> QED
    BY <2>3 DEF last
<1> QED
  BY <1>2, <1>3, Zenon DEF AddEvent, item

LEMMA AddEventCovers ==
  ASSUME job \in Jobs, NEW n \in 1 .. N, NEW list, Covers(list, n - 1)
  PROVE  Covers(AddEvent(list, job.events[n], n - 1), n)
<1> DEFINE L == Len(list)
           event == job.events[n]
           item == LumiItem(event.phid, event.run, event.lumi, n - 1, n)
           new == AddEvent(list, event, n - 1)
<1>1. /\ N \in Nat /\ n \in Nat /\ n >= 1 /\ n <= N /\ n - 1 \in Nat /\ (n - 1) + 1 = n
      /\ event \in EventRecords /\ Event(n - 1) = event
  BY JobTypes DEF N, Event
<1>2. /\ list \in Seq(LumiItems) /\ L \in Nat /\ \A k \in 1 .. L : list[k] \in LumiItems
      /\ \A k \in 1 .. L : list[k].first \in Int /\ list[k].end \in Int
  <2>1. list \in Seq(LumiItems)
    BY DEF Covers
  <2>2. L \in Nat /\ \A k \in 1 .. L : list[k] \in LumiItems
    BY <2>1
  <2> HIDE DEF L
  <2> QED
    BY <2>1, <2>2 DEF LumiItems
<1>3. new \in Seq(LumiItems)
  BY <1>1, <1>2, AddEventTypes
<1>4. CASE list # <<>> /\ ~StartsLumi(job.events[n - 1], event)
  <2> DEFINE last == [list[L] EXCEPT !.end = n]
  <2>1. new = [list EXCEPT ![L].end = n]
    BY <1>1, <1>4 DEF AddEvent
  <2>2. L >= 1 /\ L \in 1 .. L /\ n - 1 > 0
    BY <1>1, <1>2, <1>4 DEF Covers
  <2>3. Len(new) = L /\ (\A k \in 1 .. L : k # L => new[k] = list[k]) /\ new[L] = last
    BY <1>2, <2>1, <2>2
  <2>4. /\ last.first = list[L].first /\ last.end = n /\ last.phid = list[L].phid
        /\ last.run = list[L].run /\ last.lumi = list[L].lumi
    BY <1>2, <2>2 DEF LumiItems
  <2>5. SameLumi(last, event) /\ list[L].end = n - 1
    BY <1>4, <2>2, <2>4 DEF Covers, SameLumi, StartsLumi
  <2> HIDE DEF last, new, event, item, L
  <2>6. \A k \in 1 .. L : 0 <= new[k].first /\ new[k].first < new[k].end /\ new[k].end <= n
    <3> TAKE k \in 1 .. L
    <3>1. 0 <= list[k].first /\ list[k].first < list[k].end /\ list[k].end <= n - 1
      BY DEF Covers, L
    <3>2. CASE k = L
      BY <1>1, <1>2, <2>2, <2>3, <2>4, <3>1, <3>2
    <3>3. CASE k # L
      BY <1>1, <1>2, <2>3, <3>1, <3>3
    <3> QED
      BY <3>2, <3>3
  <2>7. \A k, l \in 1 .. L : k < l => new[k].end <= new[l].first
    <3> TAKE k, l \in 1 .. L
    <3>1. k < l => list[k].end <= list[l].first
      BY DEF Covers, L
    <3>2. k < l => k # L /\ new[k] = list[k]
      BY <1>2, <2>3
    <3>3. new[l].first = list[l].first
      BY <2>3, <2>4
    <3> QED
      BY <3>1, <3>2, <3>3
  <2>8. \A k \in 1 .. L : \A e \in Span(list[k]) : e \in Span(new[k])
    <3> TAKE k \in 1 .. L
    <3>1. CASE k = L
      BY <1>1, <1>2, <2>3, <2>4, <2>5, <3>1 DEF Span
    <3>2. CASE k # L
      BY <2>3, <3>2
    <3> QED
      BY <3>1, <3>2
  <2>9. \A k \in 1 .. L : \A e \in Span(new[k]) : e \in Span(list[k]) \/ (k = L /\ e = n - 1)
    <3> TAKE k \in 1 .. L
    <3>1. CASE k = L
      BY <1>1, <1>2, <2>3, <2>4, <2>5, <3>1 DEF Span
    <3>2. CASE k # L
      BY <2>3, <3>2
    <3> QED
      BY <3>1, <3>2
  <2>10. \A e \in 0 .. n - 1 : \E k \in 1 .. L : e \in Span(new[k])
    <3> TAKE e \in 0 .. n - 1
    <3>1. CASE e = n - 1
      <4>1. list[L].first < n - 1
        BY <1>2, <2>2, <2>5 DEF Covers, L
      <4>2. e \in Span(new[L])
        BY <1>1, <1>2, <2>2, <2>3, <2>4, <3>1, <4>1 DEF Span
      <4> QED
        BY <2>2, <4>2
    <3>2. CASE e # n - 1
      <4>1. e \in 0 .. (n - 1) - 1
        BY <1>1, <3>2
      <4> QED
        BY <2>8, <4>1 DEF Covers, L
    <3> QED
      BY <3>1, <3>2
  <2>11. \A k \in 1 .. L : \A e \in Span(new[k]) : SameLumi(new[k], Event(e))
    <3> TAKE k \in 1 .. L
    <3> TAKE e \in Span(new[k])
    <3>1. CASE k = L /\ e = n - 1
      BY <1>1, <2>3, <2>5, <3>1
    <3>2. CASE e \in Span(list[k])
      <4>1. SameLumi(list[k], Event(e))
        BY <3>2 DEF Covers, L
      <4>2. new[k].phid = list[k].phid /\ new[k].run = list[k].run /\ new[k].lumi = list[k].lumi
        BY <2>3, <2>4
      <4> QED
        BY <4>1, <4>2 DEF SameLumi
    <3> QED
      BY <2>9, <3>1, <3>2
  <2>12. n # 0 /\ n > 0 /\ L > 0
    BY <1>1, <1>2, <2>2
  <2>13. new[L].end = n /\ SameLumi(new[L], job.events[n])
    BY <2>3, <2>4, <2>5 DEF event
  <2>14. Covers(new, n)
    BY <1>3, <2>3, <2>6, <2>7, <2>10, <2>11, <2>12, <2>13 DEF Covers
  <2> QED
    BY <2>14 DEF new, event
<1>5. CASE ~(list # <<>> /\ ~StartsLumi(job.events[n - 1], event))
  <2> DEFINE M == L + 1
  <2>1. new = Append(list, item)
    BY <1>1, <1>5 DEF AddEvent
  <2>2. item \in LumiItems /\ item.first = n - 1 /\ item.end = n /\ SameLumi(item, event)
    BY <1>1 DEF LumiItem, LumiItems, EventRecords, SameLumi
  <2> HIDE DEF item
  <2>3. Len(new) = M /\ (\A k \in 1 .. L : new[k] = list[k]) /\ new[M] = item
    BY <1>2, <2>1, <2>2
  <2>4. M \in 1 .. M /\ M > 0 /\ M \in Nat /\ \A k \in 1 .. M : k \in 1 .. L \/ k = M
    BY <1>2
  <2>5. L \in Nat /\ (\A k \in 1 .. L : k < M /\ k \in 1 .. M)
    BY <1>2
  <2> HIDE DEF new, event, L, M
  <2>6. \A k \in 1 .. M : 0 <= new[k].first /\ new[k].first < new[k].end /\ new[k].end <= n
    <3> TAKE k \in 1 .. M
    <3>1. CASE k = M
      BY <1>1, <2>2, <2>3, <3>1
    <3>2. CASE k \in 1 .. L
      <4>1. 0 <= list[k].first /\ list[k].first < list[k].end /\ list[k].end <= n - 1
        BY <3>2 DEF Covers, L
      <4> QED
        BY <1>1, <1>2, <2>3, <3>2, <4>1
    <3> QED
      BY <2>4, <3>1, <3>2
  <2>7. \A k, l \in 1 .. M : k < l => new[k].end <= new[l].first
    <3> TAKE k, l \in 1 .. M
    <3> SUFFICES ASSUME k < l PROVE new[k].end <= new[l].first
      OBVIOUS
    <3>1. k \in 1 .. L /\ new[k] = list[k]
      BY <2>3, <2>4, <2>5
    <3>2. CASE l = M
      <4>1. list[k].end <= n - 1
        BY <3>1 DEF Covers, L
      <4> QED
        BY <2>2, <2>3, <3>1, <3>2, <4>1
    <3>3. CASE l \in 1 .. L
      <4>1. list[k].end <= list[l].first
        BY <3>1, <3>3 DEF Covers, L
      <4> QED
        BY <2>3, <3>1, <3>3, <4>1
    <3> QED
      BY <2>4, <3>2, <3>3
  <2>8. \A e \in 0 .. n - 1 : \E k \in 1 .. M : e \in Span(new[k])
    <3> TAKE e \in 0 .. n - 1
    <3>1. CASE e = n - 1
      <4>1. e \in Span(new[M])
        BY <1>1, <2>2, <2>3, <3>1 DEF Span
      <4> QED
        BY <2>4, <4>1
    <3>2. CASE e # n - 1
      <4>1. e \in 0 .. (n - 1) - 1
        BY <1>1, <3>2
      <4>2. PICK k \in 1 .. L : e \in Span(list[k])
        BY <4>1 DEF Covers, L
      <4> QED
        BY <2>3, <2>5, <4>2
    <3> QED
      BY <3>1, <3>2
  <2>9. \A k \in 1 .. M : \A e \in Span(new[k]) : SameLumi(new[k], Event(e))
    <3> TAKE k \in 1 .. M
    <3> TAKE e \in Span(new[k])
    <3>1. CASE k = M
      <4>1. e = n - 1
        BY <1>1, <2>2, <2>3, <3>1 DEF Span
      <4> QED
        BY <1>1, <2>2, <2>3, <3>1, <4>1
    <3>2. CASE k \in 1 .. L
      <4>1. new[k] = list[k] /\ e \in Span(list[k])
        BY <2>3, <3>2
      <4> QED
        BY <3>2, <4>1 DEF Covers, L
    <3> QED
      BY <2>4, <3>1, <3>2
  <2>10. n # 0 /\ n > 0
    BY <1>1
  <2>11. new[M].end = n /\ SameLumi(new[M], job.events[n])
    BY <2>2, <2>3 DEF event
  <2>12. Covers(new, n)
    BY <1>3, <2>3, <2>4, <2>6, <2>7, <2>8, <2>9, <2>10, <2>11 DEF Covers
  <2> QED
    BY <2>12 DEF new, event
<1> QED
  BY <1>4, <1>5

LEMMA LumisOfEventsCover ==
  ASSUME job \in Jobs
  PROVE  Covers(LumisOfEvents, N)
<1> DEFINE Body(f, e) == IF e = 0 THEN <<>> ELSE AddEvent(f[e - 1], job.events[e], e - 1)
           lumis == CHOOSE f : f = [e \in 0 .. N |-> Body(f, e)]
           S == Seq(LumiItems)
           base == <<>>
           step == [p \in (1 .. N) \X S |-> AddEvent(p[2], job.events[p[1]], p[1] - 1)]
<1>1. N \in Nat /\ \A n \in 1 .. N : job.events[n] \in EventRecords /\ n - 1 \in Nat /\ n - 1 \in 0 .. N /\ n \in 0 .. N
  <2>1. N \in Nat /\ job.events \in Seq(EventRecords) /\ N = Len(job.events)
    BY JobTypes DEF N
  <2> QED
    BY <2>1
<1>2. LumisOfEvents = lumis[N]
  BY Zenon DEF LumisOfEvents
<1>3. Recurses(N, S, base, step)
  <2>1. base \in S
    OBVIOUS
  <2>2. ASSUME NEW p \in (1 .. N) \X S PROVE AddEvent(p[2], job.events[p[1]], p[1] - 1) \in S
    <3>1. p[2] \in S /\ job.events[p[1]] \in EventRecords /\ p[1] - 1 \in Nat
      BY <1>1
    <3> QED
      BY <3>1, AddEventTypes
  <2> HIDE DEF base, S
  <2>3. step \in [(1 .. N) \X S -> S]
    BY <2>2
  <2> HIDE DEF step
  <2> QED
    BY <1>1, <2>1, <2>3, RecursionExists
<1>4. \E f : f = [e \in 0 .. N |-> Body(f, e)]
  <2>1. PICK f \in [0 .. N -> S] : f[0] = base /\ \A n \in 1 .. N : f[n] = step[<<n, f[n - 1]>>]
    BY <1>3 DEF Recurses
  <2>2. ASSUME NEW n \in 0 .. N PROVE f[n] = Body(f, n)
    <3>1. CASE n = 0
      BY <2>1, <3>1
    <3>2. CASE n # 0
      <4>1. n \in 1 .. N /\ n - 1 \in 0 .. N
        BY <1>1, <3>2
      <4> DEFINE prev == f[n - 1]
      <4>2. prev \in S
        BY <2>1, <4>1
      <4> HIDE DEF prev
      <4>3. <<n, prev>> \in (1 .. N) \X S
        BY <4>1, <4>2
      <4>4. step[<<n, prev>>] = AddEvent(prev, job.events[n], n - 1)
        BY <4>3
      <4>5. f[n] = step[<<n, prev>>]
        BY <2>1, <4>1 DEF prev
      <4> QED
        BY <3>2, <4>4, <4>5 DEF prev
    <3> QED
      BY <3>1, <3>2
  <2>3. f = [n \in 0 .. N |-> Body(f, n)]
    <3> HIDE DEF Body
    <3> QED
      BY <2>1, <2>2
  <2> QED
    BY <2>3
<1>5. lumis = [n \in 0 .. N |-> Body(lumis, n)]
  <2> HIDE DEF Body
  <2> QED
    BY <1>4, Zenon
<1> HIDE DEF lumis
<1>6. \A n \in 0 .. N : lumis[n] = Body(lumis, n)
  <2> HIDE DEF Body
  <2> QED
    BY <1>5
<1> DEFINE A == {n \in 0 .. N : Covers(lumis[n], n)}
<1>7. 0 \in A
  <2>1. lumis[0] = <<>> /\ 0 \in 0 .. N
    BY <1>1, <1>6
  <2>2. Covers(<<>>, 0)
    BY DEF Covers
  <2> QED
    BY <2>1, <2>2
<1>8. ASSUME NEW n \in 1 .. N, n - 1 \in A PROVE n \in A
  <2>1. lumis[n] = AddEvent(lumis[n - 1], job.events[n], n - 1)
    <3>1. n \in 0 .. N /\ n # 0
      BY <1>1
    <3> QED
      BY <1>6, <3>1
  <2>2. Covers(lumis[n - 1], n - 1)
    BY <1>8
  <2>3. Covers(lumis[n], n)
    BY <2>1, <2>2, AddEventCovers
  <2> QED
    BY <1>1, <2>3
<1>9. \A n \in 0 .. N : n \in A
  <2> HIDE DEF A
  <2> QED
    BY <1>1, <1>7, <1>8, CountUp
<1>10. N \in 0 .. N
  BY <1>1
<1> QED
  BY <1>2, <1>9, <1>10

\* In such a list every event is in the range of one item.
LEMMA CoveredOnce ==
  ASSUME job \in Jobs, NEW list, Covers(list, N), NEW e \in 0 .. N - 1
  PROVE  Once(list, e)
<1>1. /\ N \in Nat /\ Len(list) \in Nat
      /\ \A k \in 1 .. Len(list) : list[k].first \in Int /\ list[k].end \in Int
  <2>1. list \in Seq(LumiItems) /\ N \in Nat
    BY JobTypes DEF Covers
  <2>2. Len(list) \in Nat /\ \A k \in 1 .. Len(list) : list[k] \in LumiItems
    BY <2>1
  <2> QED
    BY <2>1, <2>2 DEF LumiItems
<1>2. PICK k \in 1 .. Len(list) : e \in Span(list[k])
  BY DEF Covers
<1>3. ASSUME NEW l \in 1 .. Len(list), e \in Span(list[l]) PROVE l = k
  <2>1. /\ k < l => list[k].end <= list[l].first
        /\ l < k => list[l].end <= list[k].first
    BY DEF Covers
  <2>2. list[k].first <= e /\ e < list[k].end /\ list[l].first <= e /\ e < list[l].end
    BY <1>1, <1>2, <1>3 DEF Span
  <2>3. k \in Int /\ l \in Int
    BY <1>1
  <2> QED
    BY <1>1, <2>1, <2>2, <2>3
<1> QED
  BY <1>2, <1>3 DEF Once

\* The first of a sequence with some property.
LEMMA FirstOfSeq ==
  ASSUME NEW n \in Nat, NEW A, A \subseteq 1 .. n, A # {}
  PROVE  \E k \in A : \A j \in 1 .. k - 1 : j \notin A
<1>1. A \subseteq Nat
  OBVIOUS
<1>2. PICK k \in A : \A j \in A : k <= j
  BY <1>1, LeastNat
<1>3. ASSUME NEW j \in 1 .. k - 1 PROVE j \notin A
  <2>1. k \in Nat /\ j \in Nat /\ j < k
    BY <1>1
  <2> QED
    BY <1>2, <2>1
<1> QED
  BY <1>3

LEMMA RunsOfLists ==
  ASSUME job \in Jobs
  PROVE  /\ RunsOf(job.events) \in Seq(RunItems)
         /\ Range(RunsOf(job.events)) = {RunItem(job.events[k]) : k \in 1 .. N}
<1> DEFINE list == job.events
           f == [k \in DOMAIN list |-> RunItem(list[k])]
           A == {k \in DOMAIN list : \A j \in 1 .. k - 1 : RunItem(list[j]) # RunItem(list[k])}
<1>1. N \in Nat /\ DOMAIN list = 1 .. N /\ \A k \in 1 .. N : list[k] \in EventRecords
  <2>1. N \in Nat /\ list \in Seq(EventRecords) /\ N = Len(list)
    BY JobTypes DEF N
  <2> QED
    BY <2>1
<1>2. \A k \in 1 .. N : RunItem(list[k]) \in RunItems
  <2> HIDE DEF list
  <2> QED
    BY <1>1 DEF RunItem, RunItems, EventRecords
<1>3. f \in Seq(RunItems) /\ Len(f) = N /\ <<>> \o f = f
  <2>1. f \in [1 .. N -> RunItems]
    BY <1>1, <1>2
  <2> HIDE DEF f
  <2> QED
    BY <1>1, <2>1, SeqOfFunction
<1>4. \A k \in 1 .. N : f[k] = RunItem(list[k])
  BY <1>1
<1>5. A \subseteq 1 .. N
  BY <1>1
<1>6. RunsOf(list) = Pick(<<>> \o f, A)
  BY DEF RunsOf
<1> HIDE DEF f
<1>7. Pick(f, A) \in Seq(RunItems) /\ Range(Pick(f, A)) = {f[k] : k \in A}
  <2> HIDE DEF A
  <2> QED
    BY <1>3, <1>5, PickLists
<1>8. ASSUME NEW k \in 1 .. N PROVE \E a \in A : f[a] = f[k]
  <2> DEFINE B == {j \in 1 .. N : f[j] = f[k]}
  <2>1. PICK a \in B : \A j \in 1 .. a - 1 : j \notin B
    <3>1. B \subseteq 1 .. N /\ B # {}
      OBVIOUS
    <3> HIDE DEF B
    <3> QED
      BY <1>1, <3>1, FirstOfSeq
  <2>2. a \in A
    <3>1. a \in 1 .. N /\ \A j \in 1 .. a - 1 : j \in 1 .. N /\ f[j] # f[a]
      BY <1>1, <2>1
    <3> QED
      BY <1>1, <1>4, <3>1
  <2> QED
    BY <2>1, <2>2
<1>9. {f[k] : k \in A} = {RunItem(list[k]) : k \in 1 .. N}
  <2> HIDE DEF A
  <2> QED
    BY <1>4, <1>5, <1>8
<1> QED
  BY <1>3, <1>6, <1>7, <1>9

LEMMA HasRunBefore ==
  ASSUME NEW T, NEW s \in Seq(T), NEW k \in 1 .. Len(s), NEW run
  PROVE  HasRun(SubSeq(s, 1, k - 1), run) <=> \E j \in 1 .. k - 1 : s[j].run = run
<1> DEFINE r == SubSeq(s, 1, k - 1)
<1>1. k - 1 \in 0 .. Len(s)
  OBVIOUS
<1>2. r \in Seq(T) /\ Len(r) = k - 1 /\ \A j \in 1 .. k - 1 : r[j] = s[j]
  BY <1>1, Pieces
<1> HIDE DEF r
<1>3. DOMAIN r = 1 .. k - 1
  BY <1>2
<1> QED
  BY <1>2, <1>3 DEF HasRun, r

LEMMA HasLumiBefore ==
  ASSUME NEW T, NEW s \in Seq(T), NEW k \in 1 .. Len(s), NEW l
  PROVE  HasLumi(SubSeq(s, 1, k - 1), l) <=> \E j \in 1 .. k - 1 : s[j].run = l.run /\ s[j].lumi = l.lumi
<1> DEFINE r == SubSeq(s, 1, k - 1)
<1>1. k - 1 \in 0 .. Len(s)
  OBVIOUS
<1>2. r \in Seq(T) /\ Len(r) = k - 1 /\ \A j \in 1 .. k - 1 : r[j] = s[j]
  BY <1>1, Pieces
<1> HIDE DEF r
<1>3. DOMAIN r = 1 .. k - 1
  BY <1>2
<1> QED
  BY <1>2, <1>3 DEF HasLumi, r

\* The first run of a number in the run tree gets an item, unless events have one.
LEMMA EmptyRunsLists ==
  ASSUME job \in Jobs, NEW runs
  PROVE  /\ EmptyRuns(runs) \in Seq(RunItems)
         /\ \A k \in 1 .. Len(job.runs) :
              ~HasRun(runs, job.runs[k].run) /\ (\A j \in 1 .. k - 1 : job.runs[j].run # job.runs[k].run)
                => RunItem(job.runs[k]) \in Range(EmptyRuns(runs))
<1> DEFINE list == job.runs
           f == [k \in DOMAIN list |-> RunItem(list[k])]
           A == {k \in DOMAIN list : ~HasRun(runs, list[k].run) /\ ~HasRun(SubSeq(list, 1, k - 1), list[k].run)}
           L == Len(list)
<1>1. L \in Nat /\ DOMAIN list = 1 .. L /\ (\A k \in 1 .. L : list[k] \in RunRecords) /\ list \in Seq(RunRecords)
  <2>1. list \in Seq(RunRecords)
    BY JobTypes
  <2> QED
    BY <2>1
<1>2. \A k \in 1 .. L : RunItem(list[k]) \in RunItems
  <2> HIDE DEF list, L
  <2> QED
    BY <1>1 DEF RunItem, RunItems, RunRecords
<1>3. f \in Seq(RunItems) /\ Len(f) = L /\ <<>> \o f = f
  <2>1. f \in [1 .. L -> RunItems]
    BY <1>1, <1>2
  <2> HIDE DEF f
  <2> QED
    BY <1>1, <2>1, SeqOfFunction
<1>4. \A k \in 1 .. L : f[k] = RunItem(list[k])
  BY <1>1
<1>5. A \subseteq 1 .. L
  BY <1>1
<1>6. EmptyRuns(runs) = Pick(<<>> \o f, A)
  BY DEF EmptyRuns
<1> HIDE DEF f
<1>7. Pick(f, A) \in Seq(RunItems) /\ Range(Pick(f, A)) = {f[k] : k \in A}
  <2> HIDE DEF A
  <2> QED
    BY <1>3, <1>5, PickLists
<1>8. ASSUME NEW k \in 1 .. L, ~HasRun(runs, list[k].run), \A j \in 1 .. k - 1 : list[j].run # list[k].run
      PROVE  RunItem(list[k]) \in Range(EmptyRuns(runs))
  <2>1. ~HasRun(SubSeq(list, 1, k - 1), list[k].run)
    BY <1>1, <1>8, HasRunBefore
  <2>2. k \in A
    BY <1>1, <1>8, <2>1
  <2> HIDE DEF A, list
  <2> QED
    BY <1>3, <1>4, <1>6, <1>7, <2>2
<1> QED
  BY <1>3, <1>6, <1>7, <1>8

RunOf(x) == [phid |-> x.phid, run |-> x.run, lumi |-> 0]

LEMMA HasRunJoined ==
  ASSUME NEW S, NEW s \in Seq(S), NEW T, NEW t \in Seq(T), NEW run
  PROVE  HasRun(s \o t, run) <=> HasRun(s, run) \/ HasRun(t, run)
<1> DEFINE W == S \cup T
           all == s \o t
<1>1. s \in Seq(W) /\ t \in Seq(W)
  <2>1. S \subseteq W /\ T \subseteq W
    OBVIOUS
  <2> HIDE DEF W
  <2> QED
    BY <2>1, SeqWiden
<1> HIDE DEF W
<1>2. /\ all \in Seq(W) /\ Len(all) = Len(s) + Len(t)
      /\ \A i \in 1 .. Len(s) : all[i] = s[i]
      /\ \A i \in 1 .. Len(t) : all[Len(s) + i] = t[i]
  BY <1>1, Joined
<1> HIDE DEF all
<1>3. DOMAIN all = 1 .. Len(s) + Len(t) /\ DOMAIN s = 1 .. Len(s) /\ DOMAIN t = 1 .. Len(t)
      /\ Len(s) \in Nat /\ Len(t) \in Nat
  BY <1>1, <1>2
<1>4. ASSUME NEW k \in 1 .. Len(s) + Len(t), k \notin 1 .. Len(s) PROVE all[k] = t[k - Len(s)] /\ k - Len(s) \in 1 .. Len(t)
  <2>1. k - Len(s) \in 1 .. Len(t) /\ Len(s) + (k - Len(s)) = k
    BY <1>3, <1>4
  <2> QED
    BY <1>2, <2>1
<1>5. ASSUME NEW k \in 1 .. Len(s) + Len(t), all[k].run = run PROVE HasRun(s, run) \/ HasRun(t, run)
  <2>1. CASE k \in 1 .. Len(s)
    BY <1>2, <1>3, <1>5, <2>1 DEF HasRun
  <2>2. CASE k \notin 1 .. Len(s)
    BY <1>3, <1>4, <1>5, <2>2 DEF HasRun
  <2> QED
    BY <2>1, <2>2
<1>6. ASSUME NEW k \in 1 .. Len(s), s[k].run = run PROVE HasRun(all, run)
  <2>1. k \in 1 .. Len(s) + Len(t)
    BY <1>3
  <2> QED
    BY <1>2, <1>3, <1>6, <2>1 DEF HasRun
<1>7. ASSUME NEW k \in 1 .. Len(t), t[k].run = run PROVE HasRun(all, run)
  <2>1. Len(s) + k \in 1 .. Len(s) + Len(t)
    BY <1>3
  <2> QED
    BY <1>2, <1>3, <1>7, <2>1 DEF HasRun
<1>8. HasRun(all, run) => HasRun(s, run) \/ HasRun(t, run)
  BY <1>3, <1>5 DEF HasRun
<1>9. HasRun(s, run) => HasRun(all, run)
  BY <1>3, <1>6 DEF HasRun
<1>10. HasRun(t, run) => HasRun(all, run)
  BY <1>3, <1>7 DEF HasRun
<1> QED
  BY <1>8, <1>9, <1>10 DEF all

\* The process history of a run is of an item of that run.
LEMMA PhidIsOfRun ==
  ASSUME job \in Jobs, NEW runs \in Seq(RunItems), NEW run, HasRun(runs \o job.runs, run)
  PROVE  [phid |-> PhidOf(runs, run), run |-> run, lumi |-> 0] \in Range(runs) \cup Range(EmptyRuns(runs))
<1> DEFINE W == RunItems \cup RunRecords
           all == runs \o job.runs
           B == {k \in DOMAIN all : all[k].run = run}
           m == Min(B)
           L == Len(runs)
           R == Len(job.runs)
<1>1. runs \in Seq(W) /\ job.runs \in Seq(W) /\ job.runs \in Seq(RunRecords)
  <2>1. RunItems \subseteq W /\ RunRecords \subseteq W /\ job.runs \in Seq(RunRecords)
    BY JobTypes
  <2> HIDE DEF W
  <2> QED
    BY <2>1, SeqWiden
<1> HIDE DEF W
<1>2. /\ all \in Seq(W) /\ Len(all) = L + R
      /\ \A i \in 1 .. L : all[i] = runs[i]
      /\ \A i \in 1 .. R : all[L + i] = job.runs[i]
  BY <1>1, Joined
<1>3. HasRun(all, run)
  OBVIOUS
<1>4. PhidOf(runs, run) = all[m].phid
  BY Zenon DEF PhidOf
<1> HIDE DEF all
<1>5. DOMAIN all = 1 .. L + R /\ DOMAIN runs = 1 .. L /\ DOMAIN job.runs = 1 .. R /\ L \in Nat /\ R \in Nat
      /\ (\A i \in 1 .. L : runs[i] \in RunItems) /\ (\A i \in 1 .. R : job.runs[i] \in RunRecords)
  BY <1>1, <1>2
<1>6. m \in B /\ \A k \in B : m <= k
  <2>1. B \subseteq Nat /\ B # {}
    BY <1>3, <1>5 DEF HasRun
  <2> HIDE DEF B
  <2> QED
    BY <2>1, LeastIsMin
<1> HIDE DEF m, L, R
<1>7. m \in 1 .. L + R /\ all[m].run = run
  BY <1>5, <1>6
<1>8. CASE m \in 1 .. L
  <2>1. all[m] = runs[m] /\ runs[m] \in RunItems
    BY <1>2, <1>5, <1>8
  <2>2. runs[m] = [phid |-> all[m].phid, run |-> run, lumi |-> 0]
    BY <1>7, <2>1 DEF RunItems
  <2>3. runs[m] \in Range(runs)
    BY <1>5, <1>8 DEF Range
  <2> QED
    BY <1>4, <2>2, <2>3
<1>9. CASE m \notin 1 .. L
  <2> DEFINE i == m - L
  <2>1. i \in 1 .. R /\ L + i = m
    BY <1>5, <1>7, <1>9
  <2> HIDE DEF i
  <2>2. all[m] = job.runs[i]
    BY <1>2, <2>1
  <2>3. job.runs[i].run = run /\ all[m].phid = job.runs[i].phid
    BY <1>7, <2>2
  <2>4. ~HasRun(runs, run)
    <3> SUFFICES ASSUME HasRun(runs, run) PROVE FALSE
      OBVIOUS
    <3>1. PICK k \in 1 .. L : runs[k].run = run
      BY <1>5 DEF HasRun
    <3>2. k \in B /\ k < m
      BY <1>2, <1>5, <1>7, <1>9, <3>1
    <3> QED
      BY <1>5, <1>6, <1>7, <3>2
  <2>5. ASSUME NEW j \in 1 .. i - 1, job.runs[j].run = run PROVE FALSE
    <3>1. j \in 1 .. R /\ L + j \in 1 .. L + R /\ L + j < m
      BY <1>5, <2>1
    <3>2. L + j \in B
      BY <1>2, <1>5, <2>5, <3>1
    <3> QED
      BY <1>5, <1>6, <1>7, <3>1, <3>2
  <2>6. RunItem(job.runs[i]) \in Range(EmptyRuns(runs))
    <3>1. i \in 1 .. Len(job.runs) /\ ~HasRun(runs, job.runs[i].run) /\ \A j \in 1 .. i - 1 : job.runs[j].run # job.runs[i].run
      BY <2>1, <2>3, <2>4, <2>5 DEF R
    <3> QED
      BY <3>1, EmptyRunsLists
  <2>7. RunItem(job.runs[i]) = [phid |-> all[m].phid, run |-> run, lumi |-> 0]
    BY <2>3 DEF RunItem
  <2> QED
    BY <1>4, <2>6, <2>7
<1> QED
  BY <1>8, <1>9

\* Blocks without events, of the runs that have an item.
LEMMA EmptyLumisLists ==
  ASSUME job \in Jobs, LumisHaveRuns
  PROVE  LET runs  == RunsOf(job.events)
             empty == EmptyLumis(LumisOfEvents, runs)
         IN /\ empty \in Seq(LumiItems)
            /\ \A x \in Range(empty) : /\ x.first = -1 /\ x.end = -1
                                       /\ RunOf(x) \in Range(runs) \cup Range(EmptyRuns(runs))
            /\ \A k \in 1 .. Len(job.lumis) : \E x \in Range(LumisOfEvents) \cup Range(empty) :
                 x.run = job.lumis[k].run /\ x.lumi = job.lumis[k].lumi
<1> DEFINE runs == RunsOf(job.events)
           blocks == LumisOfEvents
           list == job.lumis
           L == Len(list)
           A == {k \in DOMAIN list : ~HasLumi(blocks, list[k]) /\ ~HasLumi(SubSeq(list, 1, k - 1), list[k])}
           r == Pick(list, A)
           Block(k) == LumiItem(PhidOf(runs, r[k].run), r[k].run, r[k].lumi, -1, -1)
           f == [k \in DOMAIN r |-> Block(k)]
           empty == EmptyLumis(blocks, runs)
<1>1. list \in Seq(LumiRecords) /\ L \in Nat /\ DOMAIN list = 1 .. L /\ \A k \in 1 .. L : list[k] \in LumiRecords
  <2>1. list \in Seq(LumiRecords)
    BY JobTypes
  <2> QED
    BY <2>1
<1>2. runs \in Seq(RunItems) /\ Range(runs) = {RunItem(job.events[k]) : k \in 1 .. N}
  BY RunsOfLists
<1>3. job.events \in Seq(EventRecords) /\ DOMAIN job.events = 1 .. N /\ N \in Nat /\ job.runs \in Seq(RunRecords)
      /\ \A k \in 1 .. N : job.events[k] \in EventRecords
  <2>1. job.events \in Seq(EventRecords) /\ N = Len(job.events) /\ N \in Nat /\ job.runs \in Seq(RunRecords)
    BY JobTypes DEF N
  <2> QED
    BY <2>1
<1>4. Covers(blocks, N)
  BY LumisOfEventsCover
<1>5. empty = <<>> \o f
  BY Zenon DEF EmptyLumis
<1> HIDE DEF runs, blocks, list
<1>6. A \subseteq 1 .. L
  BY <1>1
<1>7. r \in Seq(LumiRecords) /\ Range(r) = {list[k] : k \in A}
  <2> HIDE DEF A
  <2> QED
    BY <1>1, <1>6, PickLists
<1>8. ASSUME NEW k \in 1 .. N PROVE \E x \in Range(blocks) : x.run = job.events[k].run /\ x.lumi = job.events[k].lumi
  <2>1. k - 1 \in 0 .. N - 1 /\ (k - 1) + 1 = k
    BY <1>3
  <2>2. PICK j \in 1 .. Len(blocks) : k - 1 \in Span(blocks[j])
    BY <1>4, <2>1 DEF Covers
  <2>3. SameLumi(blocks[j], Event(k - 1))
    BY <1>4, <2>2 DEF Covers
  <2>4. blocks[j] \in Range(blocks)
    BY <1>4, <2>2, RangeOf DEF Covers
  <2> QED
    BY <2>1, <2>3, <2>4 DEF SameLumi, Event
<1>9. ASSUME NEW k \in A PROVE HasRun(runs \o job.runs, list[k].run)
  <2>1. HasLumi(job.events, list[k]) \/ HasRun(job.events \o job.runs, list[k].run)
    BY <1>1, <1>6, <1>9 DEF LumisHaveRuns, list
  <2>2. ~HasLumi(job.events, list[k])
    <3> SUFFICES ASSUME HasLumi(job.events, list[k]) PROVE FALSE
      OBVIOUS
    <3>1. PICK j \in 1 .. N : job.events[j].run = list[k].run /\ job.events[j].lumi = list[k].lumi
      BY <1>3 DEF HasLumi
    <3>2. PICK x \in Range(blocks) : x.run = list[k].run /\ x.lumi = list[k].lumi
      BY <1>8, <3>1
    <3>3. HasLumi(blocks, list[k])
      BY <3>2 DEF HasLumi, Range
    <3> QED
      BY <1>9, <3>3
  <2>3. HasRun(job.events, list[k].run) \/ HasRun(job.runs, list[k].run)
    BY <1>3, <2>1, <2>2, HasRunJoined
  <2>4. ASSUME NEW j \in 1 .. N, job.events[j].run = list[k].run PROVE HasRun(runs, list[k].run)
    <3>1. RunItem(job.events[j]) \in Range(runs) /\ RunItem(job.events[j]).run = list[k].run
      BY <1>2, <2>4 DEF RunItem
    <3> QED
      BY <3>1 DEF Range, HasRun
  <2>5. HasRun(runs, list[k].run) \/ HasRun(job.runs, list[k].run)
    BY <1>3, <2>3, <2>4 DEF HasRun
  <2> QED
    BY <1>2, <1>3, <2>5, HasRunJoined
<1>10. Len(r) \in Nat /\ DOMAIN r = 1 .. Len(r) /\ \A k \in 1 .. Len(r) : r[k] \in LumiRecords /\ \E a \in A : r[k] = list[a]
  <2> HIDE DEF r, A
  <2>1. Len(r) \in Nat /\ DOMAIN r = 1 .. Len(r) /\ \A k \in 1 .. Len(r) : r[k] \in LumiRecords /\ r[k] \in Range(r)
    BY <1>7, RangeOf DEF Range
  <2> QED
    BY <1>7, <2>1
<1>11. ASSUME NEW k \in 1 .. Len(r)
       PROVE  Block(k) \in LumiItems /\ Block(k).first = -1 /\ Block(k).end = -1
              /\ Block(k).run = r[k].run /\ Block(k).lumi = r[k].lumi
              /\ RunOf(Block(k)) \in Range(runs) \cup Range(EmptyRuns(runs))
  <2> DEFINE run == r[k].run
             phid == PhidOf(runs, run)
             x == [phid |-> phid, run |-> run, lumi |-> 0]
  <2>1. r[k] \in LumiRecords /\ HasRun(runs \o job.runs, run)
    BY <1>9, <1>10
  <2>2. x \in Range(runs) \cup Range(EmptyRuns(runs))
    BY <1>2, <2>1, PhidIsOfRun
  <2>3. x \in RunItems
    <3>1. EmptyRuns(runs) \in Seq(RunItems)
      BY EmptyRunsLists
    <3>2. Range(runs) \subseteq RunItems /\ Range(EmptyRuns(runs)) \subseteq RunItems
      BY <1>2, <3>1, RangeOf
    <3> HIDE DEF x
    <3> QED
      BY <2>2, <3>2
  <2>4. phid \in Nat
    BY <2>3 DEF RunItems
  <2>5. Block(k) = [phid |-> phid, run |-> run, lumi |-> r[k].lumi, first |-> -1, end |-> -1]
    BY DEF LumiItem
  <2> HIDE DEF phid, r
  <2> QED
    BY <2>1, <2>2, <2>4, <2>5 DEF LumiItems, LumiRecords, RunOf
<1> HIDE DEF Block, r
<1>12. f \in Seq(LumiItems) /\ Len(f) = Len(r) /\ <<>> \o f = f
  <2>1. f \in [1 .. Len(r) -> LumiItems]
    BY <1>10, <1>11
  <2> HIDE DEF f
  <2> QED
    BY <1>10, <2>1, SeqOfFunction
<1>13. Range(f) = {Block(k) : k \in 1 .. Len(r)}
  BY <1>10 DEF Range
<1>14. ASSUME NEW k \in 1 .. L
       PROVE  \E x \in Range(blocks) \cup Range(f) : x.run = list[k].run /\ x.lumi = list[k].lumi
  <2> DEFINE Same == {j \in 1 .. L : list[j].run = list[k].run /\ list[j].lumi = list[k].lumi}
  <2>1. PICK a \in Same : \A j \in 1 .. a - 1 : j \notin Same
    <3>1. Same \subseteq 1 .. L /\ Same # {}
      OBVIOUS
    <3> HIDE DEF Same
    <3> QED
      BY <1>1, <3>1, FirstOfSeq
  <2>2. a \in 1 .. L /\ list[a].run = list[k].run /\ list[a].lumi = list[k].lumi
    BY <2>1
  <2>3. CASE HasLumi(blocks, list[a])
    <3>1. PICK j \in DOMAIN blocks : blocks[j].run = list[a].run /\ blocks[j].lumi = list[a].lumi
      BY <2>3 DEF HasLumi
    <3> QED
      BY <2>2, <3>1 DEF Range
  <2>4. CASE ~HasLumi(blocks, list[a])
    <3>1. ASSUME NEW j \in 1 .. a - 1 PROVE ~(list[j].run = list[a].run /\ list[j].lumi = list[a].lumi)
      <4>1. j \in 1 .. L
        BY <1>1, <2>2
      <4> QED
        BY <2>1, <2>2, <4>1
    <3>2. ~HasLumi(SubSeq(list, 1, a - 1), list[a])
      BY <1>1, <2>2, <3>1, HasLumiBefore
    <3>3. a \in A
      BY <1>1, <2>2, <2>4, <3>2
    <3>4. list[a] \in Range(r)
      <4> HIDE DEF A
      <4> QED
        BY <1>7, <3>3
    <3>5. PICK i \in 1 .. Len(r) : r[i] = list[a]
      BY <1>10, <3>4 DEF Range
    <3>6. Block(i) \in Range(f) /\ Block(i).run = list[a].run /\ Block(i).lumi = list[a].lumi
      BY <1>11, <1>13, <3>5
    <3> HIDE DEF f
    <3> QED
      BY <2>2, <3>6
  <2> QED
    BY <2>3, <2>4
<1>15. ASSUME NEW x \in Range(f)
       PROVE  x.first = -1 /\ x.end = -1 /\ RunOf(x) \in Range(runs) \cup Range(EmptyRuns(runs))
  BY <1>11, <1>13
<1>16. empty = f
  BY <1>5, <1>12
<1> HIDE DEF f, empty
<1> QED
  BY <1>12, <1>14, <1>15, <1>16 DEF empty, runs, blocks, list, L

MergedRuns  == LET runs == RunsOf(job.events) IN InsertEmpty(runs, EmptyRuns(runs))
MergedLumis == InsertEmpty(LumisOfEvents, EmptyLumis(LumisOfEvents, RunsOf(job.events)))

\* What the lists of runs and blocks say, with those of the trees.
LEMMA MergedLists ==
  ASSUME job \in Jobs, LumisHaveRuns
  PROVE  /\ MergedRuns \in Seq(RunItems) /\ MergedLumis \in Seq(LumiItems)
         /\ \A x \in Range(MergedLumis) : RunOf(x) \in Range(MergedRuns)
         /\ \A x \in Range(MergedLumis) : \A e \in Span(x) : e \in 0 .. N - 1 /\ SameLumi(x, Event(e))
         /\ \A e \in 0 .. N - 1 : Once(MergedLumis, e)
         /\ \A k \in 1 .. Len(job.runs) : \E x \in Range(MergedRuns) : x.run = job.runs[k].run
         /\ \A k \in 1 .. Len(job.lumis) : \E x \in Range(MergedLumis) :
              x.run = job.lumis[k].run /\ x.lumi = job.lumis[k].lumi
<1> DEFINE runs == RunsOf(job.events)
           blocks == LumisOfEvents
           emptyRuns == EmptyRuns(runs)
           emptyBlocks == EmptyLumis(blocks, runs)
<1>1. runs \in Seq(RunItems) /\ Range(runs) = {RunItem(job.events[k]) : k \in 1 .. N} /\ emptyRuns \in Seq(RunItems)
  BY RunsOfLists, EmptyRunsLists
<1>2. /\ emptyBlocks \in Seq(LumiItems)
      /\ \A x \in Range(emptyBlocks) : x.first = -1 /\ x.end = -1 /\ RunOf(x) \in Range(runs) \cup Range(emptyRuns)
      /\ \A k \in 1 .. Len(job.lumis) : \E x \in Range(blocks) \cup Range(emptyBlocks) :
           x.run = job.lumis[k].run /\ x.lumi = job.lumis[k].lumi
  BY EmptyLumisLists, Zenon
<1>3. Covers(blocks, N) /\ N \in Nat /\ blocks \in Seq(LumiItems)
  BY LumisOfEventsCover, JobTypes DEF Covers
<1>4. ASSUME NEW k \in 1 .. Len(job.runs), ~HasRun(runs, job.runs[k].run),
             \A j \in 1 .. k - 1 : job.runs[j].run # job.runs[k].run
      PROVE  RunItem(job.runs[k]) \in Range(emptyRuns)
  BY <1>4, EmptyRunsLists
<1>5. MergedRuns = InsertEmpty(runs, emptyRuns) /\ MergedLumis = InsertEmpty(blocks, emptyBlocks)
  BY Zenon DEF MergedRuns, MergedLumis
<1> HIDE DEF runs, blocks, emptyRuns, emptyBlocks
<1>6. MergedRuns \in Seq(RunItems) /\ Range(MergedRuns) = Range(runs) \cup Range(emptyRuns)
  <2>1. \A x \in RunItems : x.run \in Int /\ x.lumi \in Int
    BY DEF RunItems
  <2> QED
    BY <1>1, <1>5, <2>1, InsertEmptyLists
<1>7. /\ MergedLumis \in Seq(LumiItems) /\ Range(MergedLumis) = Range(blocks) \cup Range(emptyBlocks)
      /\ \A e : (\A x \in Range(emptyBlocks) : e \notin Span(x)) /\ Once(blocks, e) => Once(MergedLumis, e)
  <2>1. \A x \in LumiItems : x.run \in Int /\ x.lumi \in Int
    BY DEF LumiItems
  <2> QED
    BY <1>2, <1>3, <1>5, <2>1, InsertEmptyLists
<1>8. ASSUME NEW x \in Range(blocks)
      PROVE  /\ \A e \in Span(x) : e \in 0 .. N - 1 /\ SameLumi(x, Event(e))
             /\ RunOf(x) \in Range(runs)
  <2>1. PICK k \in 1 .. Len(blocks) : x = blocks[k] /\ x \in LumiItems
    BY <1>3, RangeOf
  <2>2. x.first \in Int /\ x.end \in Int
    BY <2>1 DEF LumiItems
  <2>3. 0 <= x.first /\ x.first < x.end /\ x.end <= N /\ \A e \in Span(x) : SameLumi(x, Event(e))
    BY <1>3, <2>1 DEF Covers
  <2>4. \A e \in Span(x) : e \in 0 .. N - 1
    BY <1>3, <2>2, <2>3 DEF Span
  <2>5. x.first \in Span(x) /\ x.first + 1 \in 1 .. N
    BY <1>3, <2>2, <2>3 DEF Span
  <2>6. SameLumi(x, job.events[x.first + 1])
    BY <2>3, <2>5 DEF Event
  <2>7. RunOf(x) = RunItem(job.events[x.first + 1])
    BY <2>6 DEF SameLumi, RunOf, RunItem
  <2> QED
    BY <1>1, <2>3, <2>4, <2>5, <2>7
<1>9. \A x \in Range(emptyBlocks) : Span(x) = {}
  BY <1>2 DEF Span
<1>10. \A x \in Range(MergedLumis) : RunOf(x) \in Range(MergedRuns)
  BY <1>2, <1>6, <1>7, <1>8
<1>11. \A x \in Range(MergedLumis) : \A e \in Span(x) : e \in 0 .. N - 1 /\ SameLumi(x, Event(e))
  BY <1>7, <1>8, <1>9
<1>12. \A e \in 0 .. N - 1 : Once(MergedLumis, e)
  BY <1>3, <1>7, <1>9, CoveredOnce
<1>13. ASSUME NEW k \in 1 .. Len(job.runs) PROVE \E x \in Range(MergedRuns) : x.run = job.runs[k].run
  <2> DEFINE Same == {j \in 1 .. Len(job.runs) : job.runs[j].run = job.runs[k].run}
  <2>1. Len(job.runs) \in Nat
    BY JobTypes, RangeOf
  <2>2. PICK a \in Same : \A j \in 1 .. a - 1 : j \notin Same
    <3>1. Same \subseteq 1 .. Len(job.runs) /\ Same # {}
      OBVIOUS
    <3> HIDE DEF Same
    <3> QED
      BY <2>1, <3>1, FirstOfSeq
  <2>3. a \in 1 .. Len(job.runs) /\ job.runs[a].run = job.runs[k].run
    BY <2>2
  <2>4. CASE HasRun(runs, job.runs[a].run)
    BY <1>6, <2>3, <2>4 DEF HasRun, Range
  <2>5. CASE ~HasRun(runs, job.runs[a].run)
    <3>1. ASSUME NEW j \in 1 .. a - 1 PROVE job.runs[j].run # job.runs[a].run
      <4>1. j \in 1 .. Len(job.runs)
        BY <2>1, <2>3
      <4> QED
        BY <2>2, <2>3, <4>1
    <3>2. RunItem(job.runs[a]) \in Range(emptyRuns)
      BY <1>4, <2>3, <2>5, <3>1
    <3>3. RunItem(job.runs[a]).run = job.runs[k].run
      BY <2>3 DEF RunItem
    <3> QED
      BY <1>6, <3>2, <3>3
  <2> QED
    BY <2>4, <2>5
<1>14. \A k \in 1 .. Len(job.lumis) : \E x \in Range(MergedLumis) :
         x.run = job.lumis[k].run /\ x.lumi = job.lumis[k].lumi
  BY <1>2, <1>7
<1> QED
  BY <1>6, <1>7, <1>10, <1>11, <1>12, <1>13, <1>14

LEMMA PositionIsFirst ==
  ASSUME NEW T, NEW list \in Seq(T), NEW k \in 1 .. Len(list)
  PROVE  LET p == Position(list, list[k].phid, list[k].run)
         IN p \in 1 .. Len(list) /\ list[p].phid = list[k].phid /\ list[p].run = list[k].run
<1> DEFINE A == {j \in DOMAIN list : list[j].phid = list[k].phid /\ list[j].run = list[k].run}
<1>1. DOMAIN list = 1 .. Len(list)
  OBVIOUS
<1>2. A \subseteq Nat /\ A # {} /\ \A j \in A : j \in 1 .. Len(list) /\ list[j].phid = list[k].phid /\ list[j].run = list[k].run
  BY <1>1
<1>3. Position(list, list[k].phid, list[k].run) = Min(A)
  BY DEF Position
<1> HIDE DEF A
<1>4. Min(A) \in A
  BY <1>2, LeastIsMin
<1> QED
  BY <1>2, <1>3, <1>4

LEMMA LumiCountIsNat ==
  ASSUME NEW T, NEW list \in Seq(T), NEW k \in 1 .. Len(list)
  PROVE  LumiCount(list, k) \in Nat
<1> DEFINE firsts == {j \in DOMAIN list : \A i \in 1 .. j - 1 : ~SameLumi(list[i], list[j])}
           first == Min({j \in DOMAIN list : SameLumi(list[j], list[k])})
           A == {j \in firsts : j < first}
<1>1. DOMAIN list = 1 .. Len(list) /\ Len(list) \in Nat
  OBVIOUS
<1>2. IsFiniteSet(1 .. Len(list)) /\ A \in SUBSET (1 .. Len(list))
  BY <1>1, FS_Interval
<1>3. LumiCount(list, k) = Cardinality(A)
  BY Zenon DEF LumiCount
<1> HIDE DEF A
<1>4. IsFiniteSet(A)
  BY <1>2, FS_Subset
<1> QED
  BY <1>3, <1>4, FS_CardinalityType

\* runMap and runLumiMap have an entry of their tree for what is in it.
LEMMA EntriesOfTrees ==
  ASSUME job \in Jobs
  PROVE  /\ \A run : RunEntry(run) \in Int
         /\ \A run, lumi : LumiEntry(run, lumi) \in Int
         /\ \A k \in 1 .. Len(job.runs) : job.runs[RunEntry(job.runs[k].run) + 1].run = job.runs[k].run
         /\ \A k \in 1 .. Len(job.lumis) : job.lumis[LumiEntry(job.lumis[k].run, job.lumis[k].lumi) + 1] = job.lumis[k]
<1>1. /\ DOMAIN job.runs = 1 .. Len(job.runs) /\ DOMAIN job.lumis = 1 .. Len(job.lumis)
      /\ \A k \in 1 .. Len(job.lumis) : job.lumis[k] \in LumiRecords
  <2>1. job.runs \in Seq(RunRecords) /\ job.lumis \in Seq(LumiRecords)
    BY JobTypes
  <2> QED
    BY <2>1
<1> DEFINE OfRun(run) == {k \in DOMAIN job.runs : job.runs[k].run = run}
           OfLumi(run, lumi) == {k \in DOMAIN job.lumis : job.lumis[k] = [run |-> run, lumi |-> lumi]}
<1>2. \A run : OfRun(run) \subseteq Nat
  BY <1>1
<1>3. \A run, lumi : OfLumi(run, lumi) \subseteq Nat
  BY <1>1
<1>4. ASSUME NEW set, set \subseteq Nat
      PROVE  First(set, 1) - 1 \in Int /\ (set # {} => (First(set, 1) - 1) + 1 \in set)
  <2>1. CASE set = {}
    BY <2>1 DEF First
  <2>2. CASE set # {}
    <3>1. First(set, 1) = Min(set) /\ Min(set) \in set /\ Min(set) \in Nat
      BY <1>4, <2>2, LeastIsMin DEF First
    <3> DEFINE m == Min(set)
    <3>2. (m - 1) + 1 = m /\ m - 1 \in Int
      <4> HIDE DEF m
      <4> QED
        BY <3>1 DEF m
    <3> QED
      BY <3>1, <3>2
  <2> QED
    BY <2>1, <2>2
<1>5. \A run : RunEntry(run) = First(OfRun(run), 1) - 1
  BY Zenon DEF RunEntry
<1>6. \A run, lumi : LumiEntry(run, lumi) = First(OfLumi(run, lumi), 1) - 1
  BY Zenon DEF LumiEntry
<1>7. ASSUME NEW k \in 1 .. Len(job.runs) PROVE job.runs[RunEntry(job.runs[k].run) + 1].run = job.runs[k].run
  <2> DEFINE A == OfRun(job.runs[k].run)
  <2>1. A # {} /\ A \subseteq Nat /\ \A j \in A : job.runs[j].run = job.runs[k].run
    BY <1>1
  <2>2. RunEntry(job.runs[k].run) = First(A, 1) - 1
    BY <1>5
  <2> HIDE DEF A
  <2> QED
    BY <1>4, <2>1, <2>2
<1>8. ASSUME NEW k \in 1 .. Len(job.lumis)
      PROVE  job.lumis[LumiEntry(job.lumis[k].run, job.lumis[k].lumi) + 1] = job.lumis[k]
  <2> DEFINE A == OfLumi(job.lumis[k].run, job.lumis[k].lumi)
  <2>1. job.lumis[k] = [run |-> job.lumis[k].run, lumi |-> job.lumis[k].lumi]
    BY <1>1 DEF LumiRecords
  <2>2. A # {} /\ A \subseteq Nat /\ \A j \in A : job.lumis[j] = job.lumis[k]
    BY <1>1, <2>1
  <2>3. LumiEntry(job.lumis[k].run, job.lumis[k].lumi) = First(A, 1) - 1
    BY <1>6
  <2> HIDE DEF A
  <2> QED
    BY <1>4, <2>2, <2>3
<1> HIDE DEF OfRun, OfLumi
<1> QED
  BY <1>2, <1>3, <1>4, <1>5, <1>6, <1>7, <1>8

\* The entries of the runs, then those of the blocks.
LEMMA EntriesOfLists ==
  ASSUME job \in Jobs, NEW runs \in Seq(RunItems), NEW lumis \in Seq(LumiItems),
         \A x \in Range(lumis) : RunOf(x) \in Range(runs)
  PROVE  LET all == RunOrLumiEntries(runs, lumis)
         IN /\ all \in Seq(Entries) /\ Len(all) = Len(runs) + Len(lumis)
            /\ \A k \in 1 .. Len(runs) :
                 /\ all[k].orderRun = Position(runs, runs[k].phid, runs[k].run) /\ all[k].orderLumi = -1
                 /\ all[k].entry = RunEntry(runs[k].run) /\ all[k].first = -1 /\ all[k].end = -1
                 /\ all[k].phid = runs[k].phid /\ all[k].run = runs[k].run /\ all[k].lumi = 0
            /\ \A k \in 1 .. Len(lumis) :
                 /\ all[Len(runs) + k].orderRun = Position(runs, lumis[k].phid, lumis[k].run)
                 /\ all[Len(runs) + k].orderLumi \in Nat
                 /\ all[Len(runs) + k].entry = LumiEntry(lumis[k].run, lumis[k].lumi)
                 /\ all[Len(runs) + k].first = lumis[k].first /\ all[Len(runs) + k].end = lumis[k].end
                 /\ all[Len(runs) + k].phid = lumis[k].phid /\ all[Len(runs) + k].run = lumis[k].run
                 /\ all[Len(runs) + k].lumi = lumis[k].lumi
<1> DEFINE all == RunOrLumiEntries(runs, lumis)
           RunPart(k) ==
             [orderRun |-> Position(runs, runs[k].phid, runs[k].run), orderLumi |-> -1, entry |-> RunEntry(runs[k].run),
              phid |-> runs[k].phid, run |-> runs[k].run, lumi |-> 0, first |-> -1, end |-> -1]
           LumiPart(k) ==
             [orderRun |-> Position(runs, lumis[k].phid, lumis[k].run), orderLumi |-> LumiCount(lumis, k),
              entry |-> LumiEntry(lumis[k].run, lumis[k].lumi), phid |-> lumis[k].phid, run |-> lumis[k].run,
              lumi |-> lumis[k].lumi, first |-> lumis[k].first, end |-> lumis[k].end]
           f == [k \in DOMAIN runs |-> RunPart(k)]
           g == [k \in DOMAIN lumis |-> LumiPart(k)]
<1>1. /\ DOMAIN runs = 1 .. Len(runs) /\ Len(runs) \in Nat /\ \A k \in 1 .. Len(runs) : runs[k] \in RunItems
      /\ DOMAIN lumis = 1 .. Len(lumis) /\ Len(lumis) \in Nat /\ \A k \in 1 .. Len(lumis) : lumis[k] \in LumiItems
  OBVIOUS
<1>2. ASSUME NEW k \in 1 .. Len(runs) PROVE RunPart(k) \in Entries
  <2> DEFINE p == Position(runs, runs[k].phid, runs[k].run)
             e == RunEntry(runs[k].run)
  <2>1. p \in 1 .. Len(runs)
    BY PositionIsFirst
  <2>2. p \in Int
    BY <2>1
  <2>3. e \in Int
    BY EntriesOfTrees
  <2>4. runs[k].phid \in Nat /\ runs[k].run \in Nat
    BY <1>1 DEF RunItems
  <2> HIDE DEF p, e
  <2> QED
    BY <2>2, <2>3, <2>4 DEF Entries, p, e
<1>3. ASSUME NEW k \in 1 .. Len(lumis) PROVE LumiPart(k) \in Entries
  <2> DEFINE p == Position(runs, lumis[k].phid, lumis[k].run)
             e == LumiEntry(lumis[k].run, lumis[k].lumi)
             c == LumiCount(lumis, k)
  <2>1. RunOf(lumis[k]) \in Range(runs)
    BY <1>1 DEF Range
  <2>2. PICK j \in 1 .. Len(runs) : runs[j] = RunOf(lumis[k])
    BY <1>1, <2>1 DEF Range
  <2>3. runs[j].phid = lumis[k].phid /\ runs[j].run = lumis[k].run
    BY <2>2 DEF RunOf
  <2>4. p \in 1 .. Len(runs)
    BY <2>3, PositionIsFirst
  <2>5. p \in Int
    BY <2>4
  <2>6. e \in Int /\ c \in Int
    BY EntriesOfTrees, LumiCountIsNat
  <2>7. lumis[k].phid \in Nat /\ lumis[k].run \in Nat /\ lumis[k].lumi \in Nat /\ lumis[k].first \in Int /\ lumis[k].end \in Int
    BY <1>1 DEF LumiItems
  <2> HIDE DEF p, e, c
  <2> QED
    BY <2>5, <2>6, <2>7 DEF Entries, p, e, c
<1>4. all = f \o g
  BY Zenon DEF RunOrLumiEntries
<1>5. f \in Seq(Entries) /\ Len(f) = Len(runs) /\ \A k \in 1 .. Len(runs) : f[k] = RunPart(k)
  <2> HIDE DEF RunPart
  <2>1. f \in [1 .. Len(runs) -> Entries] /\ \A k \in 1 .. Len(runs) : f[k] = RunPart(k)
    BY <1>1, <1>2
  <2> HIDE DEF f
  <2> QED
    BY <1>1, <2>1, SeqOfFunction
<1>6. g \in Seq(Entries) /\ Len(g) = Len(lumis) /\ \A k \in 1 .. Len(lumis) : g[k] = LumiPart(k)
  <2> HIDE DEF LumiPart
  <2>1. g \in [1 .. Len(lumis) -> Entries] /\ \A k \in 1 .. Len(lumis) : g[k] = LumiPart(k)
    BY <1>1, <1>3
  <2> HIDE DEF g
  <2> QED
    BY <1>1, <2>1, SeqOfFunction
<1> HIDE DEF f, g
<1>7. /\ f \o g \in Seq(Entries) /\ Len(f \o g) = Len(runs) + Len(lumis)
      /\ \A k \in 1 .. Len(runs) : (f \o g)[k] = RunPart(k)
      /\ \A k \in 1 .. Len(lumis) : (f \o g)[Len(runs) + k] = LumiPart(k)
  <2>1. /\ f \o g \in Seq(Entries) /\ Len(f \o g) = Len(f) + Len(g)
        /\ \A k \in 1 .. Len(f) : (f \o g)[k] = f[k]
        /\ \A k \in 1 .. Len(g) : (f \o g)[Len(f) + k] = g[k]
    <3>1. f \in Seq(Entries) /\ g \in Seq(Entries)
      BY <1>5, <1>6
    <3> QED
      BY <3>1, Joined
  <2> HIDE DEF RunPart, LumiPart
  <2> QED
    BY <1>5, <1>6, <2>1
<1> HIDE DEF all
<1>8. /\ all \in Seq(Entries) /\ Len(all) = Len(runs) + Len(lumis)
      /\ \A k \in 1 .. Len(runs) : all[k] = RunPart(k)
      /\ \A k \in 1 .. Len(lumis) : all[Len(runs) + k] = LumiPart(k)
  <2> HIDE DEF RunPart, LumiPart
  <2> QED
    BY <1>4, <1>7
<1>9. ASSUME NEW k \in 1 .. Len(lumis) PROVE LumiCount(lumis, k) \in Nat
  BY LumiCountIsNat
<1>10. ASSUME NEW k \in 1 .. Len(runs)
       PROVE  /\ all[k].orderRun = Position(runs, runs[k].phid, runs[k].run) /\ all[k].orderLumi = -1
              /\ all[k].entry = RunEntry(runs[k].run) /\ all[k].first = -1 /\ all[k].end = -1
              /\ all[k].phid = runs[k].phid /\ all[k].run = runs[k].run /\ all[k].lumi = 0
  <2>1. all[k] = RunPart(k)
    BY <1>8
  <2> QED
    BY <2>1
<1>11. ASSUME NEW k \in 1 .. Len(lumis)
       PROVE  /\ all[Len(runs) + k].orderRun = Position(runs, lumis[k].phid, lumis[k].run)
              /\ all[Len(runs) + k].orderLumi \in Nat
              /\ all[Len(runs) + k].entry = LumiEntry(lumis[k].run, lumis[k].lumi)
              /\ all[Len(runs) + k].first = lumis[k].first /\ all[Len(runs) + k].end = lumis[k].end
              /\ all[Len(runs) + k].phid = lumis[k].phid /\ all[Len(runs) + k].run = lumis[k].run
              /\ all[Len(runs) + k].lumi = lumis[k].lumi
  <2>1. all[Len(runs) + k] = LumiPart(k) /\ LumiCount(lumis, k) \in Nat
    BY <1>8, <1>9
  <2> QED
    BY <2>1
<1>12. all \in Seq(Entries) /\ Len(all) = Len(runs) + Len(lumis)
  BY <1>8
<1> QED
  BY <1>10, <1>11, <1>12, Zenon DEF all

\* An order of the positions of a sequence gives the sequence in another order.
LEMMA Rearranged ==
  ASSUME NEW T, NEW all \in Seq(T), NEW n \in Nat, NEW key, Keyed(1 .. Len(all), key, n)
  PROVE  LET order == Ordered(1 .. Len(all), key)
         IN /\ Len(order) = Len(all) /\ DOMAIN order = 1 .. Len(all)
            /\ \A i \in 1 .. Len(all) : order[i] \in 1 .. Len(all)
            /\ \A k \in 1 .. Len(all) : \E i \in 1 .. Len(all) : order[i] = k
            /\ \A i, j \in 1 .. Len(all) : i < j => Before(key[order[i]], key[order[j]])
            /\ \A i, j \in 1 .. Len(all) : order[i] = order[j] => i = j
<1> DEFINE L == Len(all)
           D == 1 .. L
           s == Ordered(D, key)
<1>1. L \in Nat /\ IsFiniteSet(D) /\ Cardinality(D) = L
  <2>1. L \in Nat /\ 1 \in Int /\ L \in Int /\ (1 > L => L = 0) /\ (L - 1) + 1 = L
    OBVIOUS
  <2> HIDE DEF L
  <2> QED
    BY <2>1, FS_Interval
<1>2. /\ s \in Seq(D) /\ Len(s) = Cardinality(D)
      /\ \A x \in D : \E k \in 1 .. Len(s) : s[k] = x
      /\ \A k, l \in 1 .. Len(s) : k < l => Before(key[s[k]], key[s[l]])
      /\ \A k, l \in 1 .. Len(s) : s[k] = s[l] => k = l
  <2>1. Keyed(D, key, n)
    OBVIOUS
  <2> HIDE DEF D
  <2> QED
    BY <1>1, <2>1, OrderedLists
<1> HIDE DEF s, L
<1>3. /\ Len(s) = L /\ DOMAIN s = 1 .. L /\ \A i \in 1 .. L : s[i] \in D
  <2> HIDE DEF D
  <2> QED
    BY <1>1, <1>2, RangeOf
<1> QED
  BY <1>2, <1>3 DEF s, L

\* What RebuiltIndex says of an index.
IndexOfTrees(list) ==
  /\ \A e \in 0 .. N - 1 :
       /\ Cardinality({k \in DOMAIN list : e \in list[k].first .. list[k].end - 1}) = 1
       /\ \A k \in DOMAIN list :
            e \in list[k].first .. list[k].end - 1 =>
              list[k].phid = Event(e).phid /\ list[k].run = Event(e).run /\ list[k].lumi = Event(e).lumi
  /\ \A r \in DOMAIN job.runs :
       \E k \in DOMAIN list : list[k].run = job.runs[r].run /\ list[k].lumi = 0
                                /\ job.runs[list[k].entry + 1].run = job.runs[r].run
  /\ \A l \in DOMAIN job.lumis :
       \E k \in DOMAIN list : list[k].run = job.lumis[l].run /\ list[k].lumi = job.lumis[l].lumi
                                /\ job.lumis[list[k].entry + 1] = job.lumis[l]
  /\ \A k \in DOMAIN list : list[k].lumi # 0 =>
       \E j \in 1 .. k - 1 : /\ list[j].lumi = 0 /\ list[j].run = list[k].run /\ list[j].phid = list[k].phid
                             /\ \A i \in j .. k : list[i].orderRun = list[k].orderRun

LEMMA FirstOfBefore ==
  ASSUME NEW n \in Nat \ {0}, NEW a \in Tuples(n), NEW b \in Tuples(n), Before(a, b)
  PROVE  a[1] <= b[1]
<1>1. PICK k \in 1 .. n : a[k] < b[k] /\ \A j \in 1 .. k - 1 : a[j] = b[j]
  BY DEF Before, Tuples
<1>2. a[1] \in Int /\ b[1] \in Int
  BY DEF Tuples
<1>3. CASE k = 1
  BY <1>1, <1>2, <1>3
<1>4. CASE k # 1
  <2>1. 1 \in 1 .. k - 1
    BY <1>1, <1>4
  <2> QED
    BY <1>1, <1>2, <2>1
<1> QED
  BY <1>3, <1>4

LEMMA FilledIndexIsOfTrees ==
  ASSUME job \in Jobs, LumisHaveRuns
  PROVE  /\ FillIndexIntoFile \in Seq(Entries)
         /\ \A k \in 1 .. Len(FillIndexIntoFile) : Span(FillIndexIntoFile[k]) \subseteq 0 .. N - 1
         /\ IndexOfTrees(FillIndexIntoFile)
<1> DEFINE runs == MergedRuns
           lumis == MergedLumis
           all == RunOrLumiEntries(runs, lumis)
           key == [k \in DOMAIN all |-> <<all[k].orderRun, all[k].orderLumi, all[k].entry, k>>]
           order == Ordered(DOMAIN all, key)
           f == [k \in DOMAIN order |-> all[order[k]]]
           R == Len(runs)
           L == Len(lumis)
           W == Len(all)
<1>1. /\ runs \in Seq(RunItems) /\ lumis \in Seq(LumiItems)
      /\ \A x \in Range(lumis) : RunOf(x) \in Range(runs)
      /\ \A x \in Range(lumis) : \A e \in Span(x) : e \in 0 .. N - 1 /\ SameLumi(x, Event(e))
      /\ \A e \in 0 .. N - 1 : Once(lumis, e)
      /\ \A k \in 1 .. Len(job.runs) : \E x \in Range(runs) : x.run = job.runs[k].run
      /\ \A k \in 1 .. Len(job.lumis) : \E x \in Range(lumis) : x.run = job.lumis[k].run /\ x.lumi = job.lumis[k].lumi
  BY MergedLists
<1>2. FillIndexIntoFile = <<>> \o f
  BY Zenon DEF FillIndexIntoFile, MergedRuns, MergedLumis
<1> HIDE DEF runs, lumis
<1>3. /\ all \in Seq(Entries) /\ W = R + L
      /\ \A k \in 1 .. R :
           /\ all[k].orderRun = Position(runs, runs[k].phid, runs[k].run) /\ all[k].orderLumi = -1
           /\ all[k].entry = RunEntry(runs[k].run) /\ all[k].first = -1 /\ all[k].end = -1
           /\ all[k].phid = runs[k].phid /\ all[k].run = runs[k].run /\ all[k].lumi = 0
      /\ \A k \in 1 .. L :
           /\ all[R + k].orderRun = Position(runs, lumis[k].phid, lumis[k].run)
           /\ all[R + k].orderLumi \in Nat
           /\ all[R + k].entry = LumiEntry(lumis[k].run, lumis[k].lumi)
           /\ all[R + k].first = lumis[k].first /\ all[R + k].end = lumis[k].end
           /\ all[R + k].phid = lumis[k].phid /\ all[R + k].run = lumis[k].run
           /\ all[R + k].lumi = lumis[k].lumi
  BY <1>1, EntriesOfLists, Zenon
<1> HIDE DEF all
<1>4. /\ W \in Nat /\ DOMAIN all = 1 .. W /\ (\A k \in 1 .. W : all[k] \in Entries)
      /\ R \in Nat /\ L \in Nat
      /\ (\A k \in 1 .. R : runs[k] \in RunItems /\ runs[k] \in Range(runs))
      /\ (\A k \in 1 .. L : lumis[k] \in LumiItems /\ lumis[k] \in Range(lumis))
      /\ (\A x \in Range(runs) : \E k \in 1 .. R : x = runs[k])
      /\ (\A x \in Range(lumis) : \E k \in 1 .. L : x = lumis[k])
  <2>1. W \in Nat /\ DOMAIN all = 1 .. W /\ \A k \in 1 .. W : all[k] \in Entries
    BY <1>3
  <2>2. R \in Nat /\ (\A k \in 1 .. R : runs[k] \in RunItems) /\ Range(runs) = {runs[k] : k \in 1 .. R}
    BY <1>1, RangeOf
  <2>3. L \in Nat /\ (\A k \in 1 .. L : lumis[k] \in LumiItems) /\ Range(lumis) = {lumis[k] : k \in 1 .. L}
    BY <1>1, RangeOf
  <2> HIDE DEF R, L, W
  <2> QED
    BY <2>1, <2>2, <2>3
<1>5. Keyed(1 .. W, key, 4)
  <2>1. \A k \in 1 .. W : <<all[k].orderRun, all[k].orderLumi, all[k].entry, k>> \in Tuples(4)
    <3> TAKE k \in 1 .. W
    <3>1. all[k].orderRun \in Int /\ all[k].orderLumi \in Int /\ all[k].entry \in Int /\ k \in Int
      <4>1. all[k] \in Entries
        BY <1>4
      <4> QED
        BY <4>1 DEF Entries
    <3> QED
      BY <3>1 DEF Tuples
  <2>2. \A k, l \in 1 .. W : <<all[k].orderRun, all[k].orderLumi, all[k].entry, k>>
                              = <<all[l].orderRun, all[l].orderLumi, all[l].entry, l>> => k = l
    OBVIOUS
  <2> QED
    BY <1>4, <2>1, <2>2 DEF Keyed
<1>6. \A k \in 1 .. W : key[k] = <<all[k].orderRun, all[k].orderLumi, all[k].entry, k>>
  BY <1>4
<1> HIDE DEF key
<1>7. /\ DOMAIN order = 1 .. W
      /\ \A i \in 1 .. W : order[i] \in 1 .. W
      /\ \A k \in 1 .. W : \E i \in 1 .. W : order[i] = k
      /\ \A i, j \in 1 .. W : i < j => Before(key[order[i]], key[order[j]])
      /\ \A i, j \in 1 .. W : order[i] = order[j] => i = j
  <2>1. order = Ordered(1 .. W, key)
    BY <1>4
  <2> HIDE DEF order
  <2>2. LET s == Ordered(1 .. W, key)
        IN /\ Len(s) = W /\ DOMAIN s = 1 .. W
           /\ \A i \in 1 .. W : s[i] \in 1 .. W
           /\ \A k \in 1 .. W : \E i \in 1 .. W : s[i] = k
           /\ \A i, j \in 1 .. W : i < j => Before(key[s[i]], key[s[j]])
           /\ \A i, j \in 1 .. W : s[i] = s[j] => i = j
    <3>1. all \in Seq(Entries) /\ 4 \in Nat
      BY <1>3
    <3> QED
      BY <1>5, <3>1, Rearranged
  <2> QED
    BY <2>1, <2>2, Zenon
<1> HIDE DEF order
<1>8. f \in Seq(Entries) /\ Len(f) = W /\ <<>> \o f = f /\ DOMAIN f = 1 .. W /\ \A i \in 1 .. W : f[i] = all[order[i]]
  <2>1. f \in [1 .. W -> Entries] /\ \A i \in 1 .. W : f[i] = all[order[i]]
    BY <1>4, <1>7
  <2> HIDE DEF f
  <2>2. f \in Seq(Entries) /\ Len(f) = W /\ <<>> \o f = f
    BY <1>4, <2>1, SeqOfFunction
  <2> QED
    BY <2>1, <2>2
<1> DEFINE list == FillIndexIntoFile
<1>9. list = f
  BY <1>2, <1>8
<1> HIDE DEF f, list, R, L, W
<1>10. ASSUME NEW q \in 1 .. W, q \notin 1 .. R PROVE \E k \in 1 .. L : q = R + k
  <2>1. q - R \in 1 .. L /\ q = R + (q - R)
    BY <1>3, <1>4, <1>10 DEF R, L, W
  <2> QED
    BY <2>1
<1>11. (\A k \in 1 .. R : k \in 1 .. W) /\ (\A k \in 1 .. L : R + k \in 1 .. W)
  BY <1>3, <1>4 DEF R, L, W
<1>12. \A k \in 1 .. R : Span(all[k]) = {}
  <2> TAKE k \in 1 .. R
  <2>1. all[k].first = -1 /\ all[k].end = -1
    BY <1>3 DEF R, L, W
  <2> QED
    BY <2>1 DEF Span
<1>13. \A k \in 1 .. L : Span(all[R + k]) = Span(lumis[k])
  <2> TAKE k \in 1 .. L
  <2>1. all[R + k].first = lumis[k].first /\ all[R + k].end = lumis[k].end
    BY <1>3 DEF R, L, W
  <2> QED
    BY <2>1 DEF Span
<1>14. ASSUME NEW i \in 1 .. W, NEW e \in Span(list[i])
       PROVE  \E k \in 1 .. L : order[i] = R + k /\ e \in Span(lumis[k])
  <2>1. list[i] = all[order[i]] /\ order[i] \in 1 .. W
    BY <1>7, <1>8, <1>9
  <2>2. order[i] \notin 1 .. R
    BY <1>12, <1>14, <2>1
  <2>3. PICK k \in 1 .. L : order[i] = R + k
    BY <1>10, <2>1, <2>2
  <2> QED
    BY <1>13, <1>14, <2>1, <2>3
<1>15. \A i \in 1 .. W : Span(list[i]) \subseteq 0 .. N - 1
  <2> TAKE i \in 1 .. W
  <2>1. ASSUME NEW e \in Span(list[i]) PROVE e \in 0 .. N - 1
    <3>1. PICK k \in 1 .. L : order[i] = R + k /\ e \in Span(lumis[k])
      BY <1>14
    <3> QED
      BY <1>1, <1>4, <3>1
  <2> QED
    BY <2>1
<1>16. ASSUME NEW e \in 0 .. N - 1
       PROVE  /\ Cardinality({k \in DOMAIN list : e \in Span(list[k])}) = 1
              /\ \A k \in DOMAIN list : e \in Span(list[k]) =>
                   list[k].phid = Event(e).phid /\ list[k].run = Event(e).run /\ list[k].lumi = Event(e).lumi
  <2>1. PICK k \in 1 .. L : /\ e \in Span(lumis[k])
                            /\ \A l \in 1 .. L : e \in Span(lumis[l]) => l = k
    BY <1>1 DEF Once, L
  <2>2. PICK i \in 1 .. W : order[i] = R + k
    BY <1>7, <1>11
  <2>3. list[i] = all[R + k] /\ e \in Span(list[i])
    BY <1>8, <1>9, <1>13, <2>1, <2>2
  <2>4. ASSUME NEW j \in 1 .. W, e \in Span(list[j]) PROVE j = i
    <3>1. PICK l \in 1 .. L : order[j] = R + l /\ e \in Span(lumis[l])
      BY <1>14, <2>4
    <3>2. l = k
      BY <2>1, <3>1
    <3> QED
      BY <1>7, <2>2, <3>1, <3>2
  <2>5. {j \in DOMAIN list : e \in Span(list[j])} = {i}
    BY <1>8, <1>9, <2>3, <2>4
  <2>6. Cardinality({i}) = 1
    BY FS_Singleton
  <2>7. SameLumi(lumis[k], Event(e))
    BY <1>1, <1>4, <2>1 DEF L
  <2>8. list[i].phid = lumis[k].phid /\ list[i].run = lumis[k].run /\ list[i].lumi = lumis[k].lumi
    BY <1>3, <2>3 DEF R, L
  <2>9. list[i].phid = Event(e).phid /\ list[i].run = Event(e).run /\ list[i].lumi = Event(e).lumi
    BY <2>7, <2>8 DEF SameLumi
  <2> QED
    BY <1>8, <1>9, <2>4, <2>5, <2>6, <2>9
<1>17. ASSUME NEW r \in DOMAIN job.runs
       PROVE  \E k \in DOMAIN list : list[k].run = job.runs[r].run /\ list[k].lumi = 0
                                       /\ job.runs[list[k].entry + 1].run = job.runs[r].run
  <2>1. r \in 1 .. Len(job.runs)
    BY JobTypes, RangeOf
  <2>2. PICK k \in 1 .. R : runs[k].run = job.runs[r].run
    <3>1. PICK x \in Range(runs) : x.run = job.runs[r].run
      BY <1>1, <2>1
    <3>2. PICK k \in 1 .. R : x = runs[k]
      BY <1>4 DEF R
    <3> QED
      BY <3>1, <3>2
  <2>3. all[k].run = job.runs[r].run /\ all[k].lumi = 0 /\ all[k].entry = RunEntry(job.runs[r].run)
    BY <1>3, <2>2 DEF R
  <2>4. PICK i \in 1 .. W : order[i] = k
    BY <1>7, <1>11
  <2>5. list[i] = all[k] /\ i \in DOMAIN list
    BY <1>8, <1>9, <2>4
  <2>6. job.runs[RunEntry(job.runs[r].run) + 1].run = job.runs[r].run
    BY <2>1, EntriesOfTrees
  <2> QED
    BY <2>3, <2>5, <2>6
<1>18. ASSUME NEW l \in DOMAIN job.lumis
       PROVE  \E k \in DOMAIN list : list[k].run = job.lumis[l].run /\ list[k].lumi = job.lumis[l].lumi
                                       /\ job.lumis[list[k].entry + 1] = job.lumis[l]
  <2>1. l \in 1 .. Len(job.lumis)
    BY JobTypes, RangeOf
  <2>2. PICK k \in 1 .. L : lumis[k].run = job.lumis[l].run /\ lumis[k].lumi = job.lumis[l].lumi
    <3>1. PICK x \in Range(lumis) : x.run = job.lumis[l].run /\ x.lumi = job.lumis[l].lumi
      BY <1>1, <2>1
    <3>2. PICK k \in 1 .. L : x = lumis[k]
      BY <1>4 DEF L
    <3> QED
      BY <3>1, <3>2
  <2>3. /\ all[R + k].run = job.lumis[l].run /\ all[R + k].lumi = job.lumis[l].lumi
        /\ all[R + k].entry = LumiEntry(job.lumis[l].run, job.lumis[l].lumi)
    BY <1>3, <2>2 DEF R, L
  <2>4. PICK i \in 1 .. W : order[i] = R + k
    BY <1>7, <1>11
  <2>5. list[i] = all[R + k] /\ i \in DOMAIN list
    BY <1>8, <1>9, <2>4
  <2>6. job.lumis[LumiEntry(job.lumis[l].run, job.lumis[l].lumi) + 1] = job.lumis[l]
    BY <2>1, EntriesOfTrees
  <2> QED
    BY <2>3, <2>5, <2>6
<1>19. ASSUME NEW k \in DOMAIN list, list[k].lumi # 0
       PROVE  \E j \in 1 .. k - 1 : /\ list[j].lumi = 0 /\ list[j].run = list[k].run /\ list[j].phid = list[k].phid
                                    /\ \A i \in j .. k : list[i].orderRun = list[k].orderRun
  <2>1. k \in 1 .. W /\ list[k] = all[order[k]] /\ order[k] \in 1 .. W
    BY <1>7, <1>8, <1>9, <1>19
  <2>2. order[k] \notin 1 .. R
    <3> SUFFICES ASSUME order[k] \in 1 .. R PROVE FALSE
      OBVIOUS
    <3>1. all[order[k]].lumi = 0
      BY <1>3 DEF R
    <3> QED
      BY <1>19, <2>1, <3>1
  <2>3. PICK l \in 1 .. L : order[k] = R + l
    BY <1>10, <2>1, <2>2
  <2>4. /\ list[k].orderRun = Position(runs, lumis[l].phid, lumis[l].run) /\ list[k].orderLumi \in Nat
        /\ list[k].phid = lumis[l].phid /\ list[k].run = lumis[l].run
    BY <1>3, <2>1, <2>3 DEF R, L
  <2> DEFINE p == Position(runs, lumis[l].phid, lumis[l].run)
  <2>5. p \in 1 .. R /\ runs[p].phid = lumis[l].phid /\ runs[p].run = lumis[l].run
    <3>1. RunOf(lumis[l]) \in Range(runs)
      BY <1>1, <1>4 DEF L
    <3>2. PICK m \in 1 .. R : RunOf(lumis[l]) = runs[m]
      BY <1>4, <3>1 DEF R
    <3>3. runs[m].phid = lumis[l].phid /\ runs[m].run = lumis[l].run
      BY <3>2 DEF RunOf
    <3>4. LET P == Position(runs, runs[m].phid, runs[m].run)
          IN P \in 1 .. R /\ runs[P].phid = runs[m].phid /\ runs[P].run = runs[m].run
      BY <1>1, PositionIsFirst DEF R
    <3> QED
      BY <3>3, <3>4
  <2> HIDE DEF p
  <2>6. all[p].orderRun = p /\ all[p].orderLumi = -1 /\ all[p].lumi = 0 /\ all[p].phid = list[k].phid /\ all[p].run = list[k].run
    BY <1>3, <2>4, <2>5 DEF R, p
  <2>7. PICK j \in 1 .. W : order[j] = p
    BY <1>7, <1>11, <2>5
  <2>8. list[j] = all[p]
    BY <1>8, <1>9, <2>7
  <2> DEFINE a == key[order[j]]
             b == key[order[k]]
  <2>9. /\ a = <<list[j].orderRun, list[j].orderLumi, list[j].entry, p>>
        /\ b = <<list[k].orderRun, list[k].orderLumi, list[k].entry, order[k]>>
    BY <1>6, <1>7, <2>1, <2>7, <2>8
  <2>10. \A i \in 1 .. W : key[order[i]] \in Tuples(4) /\ key[order[i]][1] = list[i].orderRun /\ list[i].orderRun \in Int
    <3> TAKE i \in 1 .. W
    <3>1. order[i] \in 1 .. W /\ list[i] = all[order[i]] /\ all[order[i]] \in Entries
      BY <1>4, <1>7, <1>8, <1>9
    <3>2. key[order[i]] \in Tuples(4)
      BY <1>5, <3>1 DEF Keyed
    <3>3. key[order[i]][1] = all[order[i]].orderRun
      BY <1>6, <3>1
    <3> QED
      BY <3>1, <3>2, <3>3 DEF Entries
  <2>11. Before(a, b)
    <3>1. a[1] = b[1] /\ a[2] = -1 /\ b[2] \in Nat
      BY <2>4, <2>6, <2>8, <2>9 DEF p
    <3>2. 2 \in DOMAIN a /\ a[2] < b[2] /\ \A m \in 1 .. 2 - 1 : m = 1
      BY <2>9, <3>1
    <3> QED
      BY <3>1, <3>2 DEF Before
  <2>12. j < k
    <3>1. a # b
      BY <2>10, <2>11, BeforeIsStrict
    <3>2. j # k
      BY <3>1
    <3>3. ~(k < j)
      <4> SUFFICES ASSUME k < j PROVE FALSE
        OBVIOUS
      <4>1. Before(b, a)
        BY <1>7, <2>1
      <4>2. a \in Tuples(4) /\ b \in Tuples(4)
        BY <2>1, <2>10
      <4> HIDE DEF a, b
      <4>3. Before(a, a)
        BY <2>11, <4>1, <4>2, BeforeIsTransitive
      <4> QED
        BY <4>2, <4>3, BeforeIsStrict
    <3> QED
      BY <1>4, <2>1, <3>2, <3>3 DEF W
  <2>13. ASSUME NEW i \in 1 .. W, NEW m \in 1 .. W, i < m PROVE list[i].orderRun <= list[m].orderRun
    <3> DEFINE x == key[order[i]]
               y == key[order[m]]
    <3>1. Before(x, y) /\ x \in Tuples(4) /\ y \in Tuples(4) /\ x[1] = list[i].orderRun /\ y[1] = list[m].orderRun
      BY <1>7, <2>10, <2>13
    <3> HIDE DEF x, y
    <3>2. x[1] <= y[1]
      BY <3>1, FirstOfBefore
    <3> QED
      BY <3>1, <3>2
  <2>14. list[j].orderRun = list[k].orderRun
    BY <2>4, <2>6, <2>8 DEF p
  <2>15. ASSUME NEW i \in j .. k PROVE list[i].orderRun = list[k].orderRun
    <3>1. i \in 1 .. W /\ (i = j \/ i = k \/ (j < i /\ i < k))
      BY <1>4, <2>1 DEF W
    <3>2. CASE j < i /\ i < k
      <4>1. list[j].orderRun <= list[i].orderRun /\ list[i].orderRun <= list[k].orderRun
        BY <2>1, <2>13, <3>1, <3>2
      <4> QED
        BY <2>1, <2>10, <2>14, <3>1, <4>1
    <3> QED
      BY <2>14, <3>1, <3>2
  <2>16. j \in 1 .. k - 1
    BY <1>4, <2>1, <2>12 DEF W
  <2> QED
    BY <2>6, <2>8, <2>15, <2>16
<1>20. list \in Seq(Entries) /\ Len(list) = W
  BY <1>8, <1>9
<1>21. IndexOfTrees(list)
  BY <1>16, <1>17, <1>18, <1>19 DEF IndexOfTrees, Span
<1> QED
  BY <1>15, <1>20, <1>21 DEF list

-----------------------------------------------------------------------------
(* The event tree.                                                            *)

Branches == {"Aux", "Lists"} \cup Products

Trees ==
  [entries : Nat, autoFlush : Nat, learningEntries : Nat, caching : BOOLEAN, entry : Int, forIndex : [Streams -> Int],
   cache : [learning : BOOLEAN, first : Int, branches : SUBSET Branches], raw : BOOLEAN, trained : SUBSET Branches,
   trainNow : BOOLEAN, switchOver : Int, ok : BOOLEAN]

\* No training has begun.
Untrained(t) == t.switchOver = -1 /\ ~t.raw

GoodTree(t) ==
  /\ t \in Trees /\ t.ok
  /\ t.trainNow => Untrained(t)
  /\ t.raw => t.caching /\ t.cache.learning /\ t.switchOver >= 0 /\ t.entry < t.switchOver
  /\ ~t.raw /\ t.switchOver >= 0 => ~t.cache.learning
  /\ t.switchOver >= 0 => t.trained \cup {"Aux", "Lists"} \subseteq t.cache.branches

\* The tree and its streams are the same, at some entry.
SameTree(t, u, entry) ==
  /\ u.entry = entry /\ u.entries = t.entries /\ u.forIndex = t.forIndex
  /\ Untrained(t) /\ ~t.trainNow => Untrained(u) /\ ~u.trainNow

LEMMA ConstructedTreeIsGood ==
  ASSUME job \in Jobs
  PROVE  LET t == ConstructedTree(N, job.tree.autoFlush, job.tree.learning, job.tree.caching, Streams)
         IN GoodTree(t) /\ Untrained(t) /\ ~t.trainNow /\ t.entries = N
<1> DEFINE least == Min({job.tree.learning, job.tree.autoFlush})
           t == ConstructedTree(N, job.tree.autoFlush, job.tree.learning, job.tree.caching, Streams)
<1>1. N \in Nat /\ job.tree.autoFlush \in Nat /\ job.tree.learning \in Nat /\ job.tree.caching \in BOOLEAN
  BY JobTypes
<1>2. least \in Nat
  <2> DEFINE A == {job.tree.learning, job.tree.autoFlush}
  <2>1. A \subseteq Nat /\ A # {}
    BY <1>1
  <2> HIDE DEF A
  <2>2. Min(A) \in A
    BY <2>1, LeastIsMin
  <2> QED
    BY <2>1, <2>2 DEF A
<1>3. t = [entries |-> N, autoFlush |-> job.tree.autoFlush, learningEntries |-> least,
           caching |-> job.tree.caching, entry |-> -1, forIndex |-> [s \in Streams |-> -1],
           cache |-> [learning |-> TRUE, first |-> 0, branches |-> {}], raw |-> FALSE, trained |-> {},
           trainNow |-> FALSE, switchOver |-> -1, ok |-> TRUE]
  BY Zenon DEF ConstructedTree
<1> HIDE DEF least, t
<1>4. t \in Trees
  BY <1>1, <1>2, <1>3 DEF Trees
<1>5. /\ t.ok /\ ~t.trainNow /\ ~t.raw /\ t.switchOver = -1 /\ t.entries = N
  BY <1>3
<1> QED
  BY <1>4, <1>5 DEF GoodTree, Untrained, t

LEMMA GetEntryGood ==
  ASSUME NEW t, GoodTree(t), NEW branch \in Branches
  PROVE  GoodTree(GetEntry(t, branch)) /\ SameTree(t, GetEntry(t, branch), t.entry)
<1> DEFINE c == [t.cache EXCEPT !.branches = @ \cup {branch}]
           u == [t EXCEPT !.cache = c, !.trained = @ \cup {branch}]
<1>1. t \in Trees
  BY DEF GoodTree
<1>2. CASE t.caching /\ t.cache.learning /\ t.raw
  <2>1. GetEntry(t, branch) = u
    BY <1>1, <1>2 DEF GetEntry, Trees
  <2>2. c \in [learning : BOOLEAN, first : Int, branches : SUBSET Branches] /\ c.learning = t.cache.learning
        /\ c.branches = t.cache.branches \cup {branch}
    BY <1>1 DEF Trees
  <2> HIDE DEF c
  <2>3. /\ u \in Trees /\ u.ok = t.ok /\ u.trainNow = t.trainNow /\ u.raw = t.raw /\ u.caching = t.caching
        /\ u.switchOver = t.switchOver /\ u.entry = t.entry /\ u.entries = t.entries /\ u.forIndex = t.forIndex
        /\ u.cache = c /\ u.trained = t.trained \cup {branch}
    BY <1>1, <2>2 DEF Trees
  <2> HIDE DEF u
  <2>4. GoodTree(u)
    BY <2>2, <2>3 DEF GoodTree, Untrained
  <2>5. SameTree(t, u, t.entry)
    BY <2>3 DEF SameTree, Untrained
  <2> QED
    BY <2>1, <2>4, <2>5
<1>3. CASE ~(t.caching /\ t.cache.learning /\ t.raw)
  <2>1. GetEntry(t, branch) = t
    BY <1>3 DEF GetEntry
  <2> QED
    BY <2>1 DEF SameTree
<1> QED
  BY <1>2, <1>3

LEMMA MovedTree ==
  ASSUME NEW t, GoodTree(t), NEW entry \in Int
  PROVE  LET u == MoveTo(t, entry)
         IN /\ u \in Trees /\ SameTree(t, u, entry) /\ u.ok /\ u.raw = t.raw /\ u.caching = t.caching
            /\ u.trainNow = t.trainNow /\ u.trained = t.trained /\ u.switchOver = t.switchOver
            /\ u.cache.learning = t.cache.learning /\ u.cache.branches = t.cache.branches
<1> DEFINE first == IF Refills(t, entry) THEN entry ELSE t.cache.first
           c == [t.cache EXCEPT !.first = first]
           u == [t EXCEPT !.entry = entry, !.cache = c]
<1>1. t \in Trees /\ t.ok
  BY DEF GoodTree
<1>2. MoveTo(t, entry) = u
  BY <1>1 DEF MoveTo, Trees
<1>3. first \in Int
  BY <1>1 DEF Trees
<1> HIDE DEF first
<1>4. c \in [learning : BOOLEAN, first : Int, branches : SUBSET Branches] /\ c.learning = t.cache.learning
      /\ c.branches = t.cache.branches
  BY <1>1, <1>3 DEF Trees
<1> HIDE DEF c
<1>5. /\ u \in Trees /\ u.ok = t.ok /\ u.trainNow = t.trainNow /\ u.raw = t.raw /\ u.caching = t.caching
      /\ u.switchOver = t.switchOver /\ u.entry = entry /\ u.entries = t.entries /\ u.forIndex = t.forIndex
      /\ u.cache = c /\ u.trained = t.trained
  BY <1>1, <1>4 DEF Trees
<1> HIDE DEF u
<1> QED
  BY <1>1, <1>2, <1>4, <1>5 DEF SameTree, Untrained

LEMMA SetEntryNumberGood ==
  ASSUME NEW t, GoodTree(t), NEW entry \in Int
  PROVE  GoodTree(SetEntryNumber(t, entry)) /\ SameTree(t, SetEntryNumber(t, entry), entry)
<1> DEFINE u == MoveTo(t, entry)
           v == StartIfDue(u)
           w == StopIfDone(v)
<1>1. /\ u \in Trees /\ SameTree(t, u, entry) /\ u.ok /\ u.raw = t.raw /\ u.caching = t.caching
      /\ u.trainNow = t.trainNow /\ u.trained = t.trained /\ u.switchOver = t.switchOver
      /\ u.cache.learning = t.cache.learning /\ u.cache.branches = t.cache.branches
  BY MovedTree
<1>2. SetEntryNumber(t, entry) = w
  BY DEF SetEntryNumber
<1> HIDE DEF u
<1>3. /\ v \in Trees /\ SameTree(t, v, entry) /\ v.ok
      /\ v.trainNow => Untrained(v)
      /\ v.raw => v.caching /\ v.cache.learning /\ v.switchOver >= 0
      /\ ~v.raw /\ v.switchOver >= 0 => ~v.cache.learning
      /\ v.switchOver >= 0 => v.trained \cup {"Aux", "Lists"} \subseteq v.cache.branches
  <2>1. CASE u.caching /\ u.trainNow /\ u.entry >= 0
    <3> DEFINE at == u.entry + u.learningEntries
               c == [learning |-> TRUE, first |-> at, branches |-> {"Aux", "Lists"}]
               x == [u EXCEPT !.ok = @ /\ ~u.raw, !.raw = TRUE, !.switchOver = at, !.cache = c]
               y == [x EXCEPT !.trainNow = FALSE, !.trained = {}]
    <3>1. StartTraining(u) = x
      BY <2>1 DEF StartTraining
    <3>2. v = y
      BY <2>1, <3>1 DEF StartIfDue
    <3>3. at \in Int /\ at >= 0 /\ u.entry = entry
      BY <1>1, <2>1 DEF Trees, SameTree
    <3> HIDE DEF at
    <3>4. c \in [learning : BOOLEAN, first : Int, branches : SUBSET Branches] /\ c.learning = TRUE
          /\ c.branches = {"Aux", "Lists"}
      BY <3>3 DEF Branches
    <3> HIDE DEF c
    <3>5. ~u.raw
      BY <1>1, <2>1 DEF GoodTree, Untrained
    <3>6. /\ x \in Trees /\ x.ok /\ x.raw = TRUE /\ x.switchOver = at /\ x.cache = c /\ x.caching = u.caching
          /\ x.entry = u.entry /\ x.entries = u.entries /\ x.forIndex = u.forIndex
      BY <1>1, <3>3, <3>4, <3>5 DEF Trees
    <3> HIDE DEF x
    <3>7. /\ y \in Trees /\ y.ok /\ y.raw = TRUE /\ y.switchOver = at /\ y.cache = c /\ y.caching = u.caching
          /\ y.entry = u.entry /\ y.entries = u.entries /\ y.forIndex = u.forIndex
          /\ y.trainNow = FALSE /\ y.trained = {}
      BY <3>6 DEF Trees
    <3> HIDE DEF y, v
    <3>8. t.trainNow
      BY <1>1, <2>1
    <3> QED
      BY <1>1, <2>1, <3>2, <3>3, <3>4, <3>7, <3>8 DEF SameTree, Untrained
  <2>2. CASE ~(u.caching /\ u.trainNow /\ u.entry >= 0)
    <3>1. v = u
      BY <2>2 DEF StartIfDue
    <3> HIDE DEF v
    <3> QED
      BY <1>1, <3>1 DEF GoodTree, Untrained, SameTree
  <2> QED
    BY <2>1, <2>2
<1> HIDE DEF v
<1>4. CASE v.caching /\ v.cache.learning /\ v.switchOver >= 0 /\ v.entry >= v.switchOver
  <2> DEFINE c == [v.cache EXCEPT !.learning = FALSE]
             x == [v EXCEPT !.cache = c, !.raw = FALSE]
  <2>1. w = x
    BY <1>3, <1>4 DEF StopIfDone, StopTraining, Trees
  <2>2. c \in [learning : BOOLEAN, first : Int, branches : SUBSET Branches] /\ c.learning = FALSE
        /\ c.branches = v.cache.branches
    BY <1>3 DEF Trees
  <2> HIDE DEF c
  <2>3. /\ x \in Trees /\ x.ok = v.ok /\ x.trainNow = v.trainNow /\ x.raw = FALSE /\ x.caching = v.caching
        /\ x.switchOver = v.switchOver /\ x.entry = v.entry /\ x.entries = v.entries /\ x.forIndex = v.forIndex
        /\ x.cache = c /\ x.trained = v.trained
    BY <1>3, <2>2 DEF Trees
  <2> HIDE DEF x, w
  <2>4. GoodTree(x)
    BY <1>3, <2>2, <2>3 DEF GoodTree, Untrained
  <2>5. SameTree(t, x, entry)
    BY <1>3, <2>3 DEF SameTree, Untrained
  <2> QED
    BY <1>2, <2>1, <2>4, <2>5
<1>5. CASE ~(v.caching /\ v.cache.learning /\ v.switchOver >= 0 /\ v.entry >= v.switchOver)
  <2>1. w = v
    BY <1>5 DEF StopIfDone
  <2>2. v.entry \in Int /\ v.switchOver \in Int
    BY <1>3 DEF Trees
  <2> HIDE DEF w
  <2>3. GoodTree(v)
    BY <1>3, <1>5, <2>2 DEF GoodTree
  <2> QED
    BY <1>2, <1>3, <2>1, <2>3
<1> QED
  BY <1>4, <1>5

LEMMA TrainCacheGood ==
  ASSUME NEW t, GoodTree(t), Untrained(t), ~t.trainNow
  PROVE  LET u == TrainCache(t, "Aux")
         IN GoodTree(u) /\ Untrained(u) /\ ~u.trainNow /\ u.entries = t.entries /\ u.entry = t.entry /\ u.forIndex = t.forIndex
<1> DEFINE c == [learning |-> FALSE, first |-> 0, branches |-> {"Aux"}]
           u == [t EXCEPT !.cache = c, !.trained = @ \cup {"Aux"}]
<1>1. t \in Trees
  BY DEF GoodTree
<1>2. CASE ~t.caching
  BY <1>2 DEF TrainCache
<1>3. CASE t.caching
  <2>1. TrainCache(t, "Aux") = u
    BY <1>3 DEF TrainCache
  <2>2. c \in [learning : BOOLEAN, first : Int, branches : SUBSET Branches] /\ c.learning = FALSE
    BY DEF Branches
  <2> HIDE DEF c
  <2>3. /\ u \in Trees /\ u.ok = t.ok /\ u.trainNow = t.trainNow /\ u.raw = t.raw /\ u.caching = t.caching
        /\ u.switchOver = t.switchOver /\ u.entry = t.entry /\ u.entries = t.entries /\ u.forIndex = t.forIndex
    BY <1>1, <2>2 DEF Trees, Branches
  <2> HIDE DEF u
  <2>4. ~t.raw /\ t.switchOver = -1 /\ t.ok
    BY DEF GoodTree, Untrained
  <2>5. Untrained(u) /\ ~u.trainNow
    BY <2>3, <2>4 DEF Untrained
  <2>6. ~(u.switchOver >= 0)
    BY <2>3, <2>4
  <2>7. GoodTree(u)
    BY <2>3, <2>4, <2>5, <2>6 DEF GoodTree
  <2> QED
    BY <2>1, <2>3, <2>5, <2>7
<1> QED
  BY <1>2, <1>3

LEMMA ResetTrainingGood ==
  ASSUME NEW t, GoodTree(t), Untrained(t)
  PROVE  LET u == ResetTraining(t)
         IN GoodTree(u) /\ u.entries = t.entries /\ u.forIndex = t.forIndex
<1> DEFINE u == [t EXCEPT !.trainNow = TRUE]
<1>1. t \in Trees
  BY DEF GoodTree
<1>2. ResetTraining(t) = u
  BY DEF ResetTraining
<1>3. /\ u \in Trees /\ u.ok = t.ok /\ u.raw = t.raw /\ u.caching = t.caching /\ u.cache = t.cache /\ u.trained = t.trained
      /\ u.switchOver = t.switchOver /\ u.entry = t.entry /\ u.entries = t.entries /\ u.forIndex = t.forIndex
  BY <1>1 DEF Trees
<1> HIDE DEF u
<1> QED
  BY <1>2, <1>3 DEF GoodTree, Untrained

LEMMA InsertEntryForIndexGood ==
  ASSUME NEW t, GoodTree(t), NEW s \in Streams
  PROVE  LET u == InsertEntryForIndex(t, s)
         IN /\ GoodTree(u) /\ u.entries = t.entries /\ (Untrained(t) => Untrained(u)) /\ u.trainNow = t.trainNow
            /\ u.forIndex[s] = t.entry /\ \A r \in Streams \ {s} : u.forIndex[r] = t.forIndex[r]
<1> DEFINE g == [t.forIndex EXCEPT ![s] = t.entry]
           u == [t EXCEPT !.forIndex = g]
<1>1. t \in Trees
  BY DEF GoodTree
<1>2. InsertEntryForIndex(t, s) = u
  BY <1>1 DEF InsertEntryForIndex, Trees
<1>3. g \in [Streams -> Int] /\ g[s] = t.entry /\ \A r \in Streams \ {s} : g[r] = t.forIndex[r]
  BY <1>1 DEF Trees
<1> HIDE DEF g
<1>4. /\ u \in Trees /\ u.ok = t.ok /\ u.raw = t.raw /\ u.caching = t.caching /\ u.cache = t.cache /\ u.trained = t.trained
      /\ u.switchOver = t.switchOver /\ u.entry = t.entry /\ u.entries = t.entries /\ u.trainNow = t.trainNow
      /\ u.forIndex = g
  BY <1>1, <1>3 DEF Trees
<1> HIDE DEF u
<1> QED
  BY <1>2, <1>3, <1>4 DEF GoodTree, Untrained

LEMMA EntryMovedAside ==
  ASSUME NEW t, GoodTree(t), Untrained(t), NEW entry \in Int
  PROVE  LET u == [t EXCEPT !.entry = entry]
         IN GoodTree(u) /\ Untrained(u) /\ u.entries = t.entries /\ u.forIndex = t.forIndex /\ u.trainNow = t.trainNow
<1> DEFINE u == [t EXCEPT !.entry = entry]
<1>1. t \in Trees
  BY DEF GoodTree
<1>2. /\ u \in Trees /\ u.ok = t.ok /\ u.raw = t.raw /\ u.caching = t.caching /\ u.cache = t.cache /\ u.trained = t.trained
      /\ u.switchOver = t.switchOver /\ u.entries = t.entries /\ u.trainNow = t.trainNow
      /\ u.forIndex = t.forIndex
  BY <1>1 DEF Trees
<1> HIDE DEF u
<1> QED
  BY <1>2 DEF GoodTree, Untrained, u

\* Looking for event numbers leaves the tree at its entry.
LEMMA FindEventNumbersGood ==
  ASSUME NEW t, GoodTree(t)
  PROVE  LET u == FindEventNumbers(t) IN GoodTree(u) /\ SameTree(t, u, t.entry)
<1> DEFINE L == t.entries
           Look(u, n) == SetEntryNumber(GetEntry(SetEntryNumber(u, n - 1), "Aux"), u.entry)
           Body(f, n) == IF n = 0 THEN t ELSE Look(f[n - 1], n)
           found == CHOOSE f : f = [n \in 0 .. L |-> Body(f, n)]
           S == {u \in Trees : GoodTree(u)}
           step == [p \in (1 .. L) \X S |-> Look(p[2], p[1])]
<1>1. L \in Nat /\ (\A n \in 1 .. L : n - 1 \in Int /\ n - 1 \in 0 .. L /\ n \in 0 .. L) /\ t \in S
  <2>1. t \in Trees
    BY DEF GoodTree
  <2>2. L \in Nat
    BY <2>1 DEF Trees
  <2> HIDE DEF L
  <2> QED
    BY <2>1, <2>2
<1>2. FindEventNumbers(t) = found[L]
  BY Zenon DEF FindEventNumbers
<1>3. ASSUME NEW u, GoodTree(u), NEW n \in 1 .. L PROVE GoodTree(Look(u, n)) /\ SameTree(u, Look(u, n), u.entry)
  <2> DEFINE a == SetEntryNumber(u, n - 1)
             b == GetEntry(a, "Aux")
             c == SetEntryNumber(b, u.entry)
  <2>1. u.entry \in Int /\ n - 1 \in Int /\ "Aux" \in Branches
    BY <1>1, <1>3 DEF GoodTree, Trees, Branches
  <2>2. GoodTree(a) /\ SameTree(u, a, n - 1)
    BY <1>3, <2>1, SetEntryNumberGood
  <2>3. GoodTree(b) /\ SameTree(a, b, a.entry)
    <3> HIDE DEF a
    <3> QED
      BY <2>1, <2>2, GetEntryGood
  <2>4. GoodTree(c) /\ SameTree(b, c, u.entry)
    <3> HIDE DEF b
    <3> QED
      BY <2>1, <2>3, SetEntryNumberGood
  <2> HIDE DEF a, b
  <2> QED
    BY <2>2, <2>3, <2>4 DEF SameTree, a, b
<1>4. Recurses(L, S, t, step)
  <2>1. ASSUME NEW p \in (1 .. L) \X S PROVE Look(p[2], p[1]) \in S
    <3> DEFINE u == Look(p[2], p[1])
    <3>1. GoodTree(p[2]) /\ p[1] \in 1 .. L
      OBVIOUS
    <3>2. GoodTree(u)
      <4> HIDE DEF Look
      <4> QED
        BY <1>3, <3>1
    <3> HIDE DEF u
    <3> QED
      BY <3>2 DEF GoodTree, u
  <2> HIDE DEF S, Look
  <2>2. step \in [(1 .. L) \X S -> S]
    BY <2>1
  <2> HIDE DEF step, L
  <2> QED
    BY <1>1, <2>2, RecursionExists
<1> HIDE DEF Look, L
<1>5. \E f : f = [n \in 0 .. L |-> Body(f, n)]
  <2>1. PICK f \in [0 .. L -> S] : f[0] = t /\ \A n \in 1 .. L : f[n] = step[<<n, f[n - 1]>>]
    BY <1>4 DEF Recurses
  <2>2. ASSUME NEW n \in 0 .. L PROVE f[n] = Body(f, n)
    <3>1. CASE n = 0
      BY <2>1, <3>1
    <3>2. CASE n # 0
      <4>1. n \in 1 .. L /\ n - 1 \in 0 .. L
        BY <1>1, <3>2
      <4> DEFINE prev == f[n - 1]
      <4>2. prev \in S
        BY <2>1, <4>1
      <4> HIDE DEF prev, S
      <4>3. <<n, prev>> \in (1 .. L) \X S
        BY <4>1, <4>2
      <4>4. step[<<n, prev>>] = Look(prev, n)
        BY <4>3
      <4>5. f[n] = step[<<n, prev>>]
        BY <2>1, <4>1 DEF prev
      <4> QED
        BY <3>2, <4>4, <4>5 DEF prev
    <3> QED
      BY <3>1, <3>2
  <2>3. f = [n \in 0 .. L |-> Body(f, n)]
    <3> HIDE DEF Body
    <3> QED
      BY <2>1, <2>2
  <2> QED
    BY <2>3
<1>6. found = [n \in 0 .. L |-> Body(found, n)]
  <2> HIDE DEF Body
  <2> QED
    BY <1>5, Zenon
<1> HIDE DEF found
<1>7. \A n \in 0 .. L : found[n] = Body(found, n)
  <2> HIDE DEF Body
  <2> QED
    BY <1>6
<1> DEFINE A == {n \in 0 .. L : GoodTree(found[n]) /\ SameTree(t, found[n], t.entry)}
<1>8. 0 \in A
  <2>1. found[0] = t /\ 0 \in 0 .. L
    BY <1>1, <1>7
  <2> QED
    BY <2>1 DEF SameTree
<1>9. ASSUME NEW n \in 1 .. L, n - 1 \in A PROVE n \in A
  <2> DEFINE prev == found[n - 1]
  <2>1. found[n] = Look(prev, n) /\ n \in 0 .. L
    <3>1. n \in 0 .. L /\ n # 0
      BY <1>1
    <3> QED
      BY <1>7, <3>1
  <2>2. GoodTree(prev) /\ SameTree(t, prev, t.entry)
    BY <1>9
  <2> HIDE DEF prev
  <2>3. GoodTree(Look(prev, n)) /\ SameTree(prev, Look(prev, n), prev.entry)
    BY <1>3, <2>2
  <2>4. SameTree(t, Look(prev, n), t.entry)
    BY <2>2, <2>3 DEF SameTree
  <2> QED
    BY <2>1, <2>3, <2>4
<1>10. \A n \in 0 .. L : n \in A
  <2> HIDE DEF A
  <2> QED
    BY <1>1, <1>8, <1>9, CountUp
<1>11. L \in 0 .. L
  BY <1>1
<1> QED
  BY <1>2, <1>10, <1>11

-----------------------------------------------------------------------------
(* The items.                                                                 *)

ItemRecords == [type : {"run", "lumi", "event"}, entry : Int, run : Nat, lumi : Nat, key : Tuples(7)]

\* Items can be read: their events are in the tree.
ReadableItems(list) ==
  /\ list \in Seq(ItemRecords)
  /\ \A i \in 1 .. Len(list) : list[i].type = "event" => list[i].entry \in 0 .. N - 1

\* The event of an entry is among the items.
HasEvent(list, e) == \E i \in 1 .. Len(list) : list[i].type = "event" /\ list[i].entry = e

KeyAt(x, a, b, c, d) == Place(x) \o <<a, b, c, d>>

LEMMA KeyOfPlace ==
  ASSUME job \in Jobs, NEW x \in Entries, NEW a \in Int, NEW b \in Int, NEW c \in Int, NEW d \in Int
  PROVE  /\ KeyAt(x, a, b, c, d) \in Tuples(7)
         /\ KeyAt(x, a, b, c, d)[4] = a /\ KeyAt(x, a, b, c, d)[6] = c /\ KeyAt(x, a, b, c, d)[7] = d
<1> DEFINE s == Place(x)
           t == <<a, b, c, d>>
           key == s \o t
<1>1. s \in Seq(Int) /\ Len(s) = 3
  BY DEF Place, Entries
<1>2. t \in Seq(Int) /\ Len(t) = 4 /\ t[1] = a /\ t[3] = c /\ t[4] = d
  OBVIOUS
<1> HIDE DEF s, t
<1>3. /\ key \in Seq(Int) /\ Len(key) = Len(s) + Len(t)
      /\ \A i \in 1 .. Len(t) : key[Len(s) + i] = t[i]
  <2>1. s \in Seq(Int) /\ t \in Seq(Int)
    BY <1>1, <1>2
  <2> QED
    BY <2>1, Joined
<1> HIDE DEF key
<1>4. Len(key) = 7
  BY <1>1, <1>2, <1>3
<1>5. key \in Tuples(7)
  <2>1. key \in [1 .. Len(key) -> Int]
    BY <1>3
  <2> QED
    BY <1>4, <2>1 DEF Tuples
<1>6. key[3 + 1] = t[1] /\ key[3 + 3] = t[3] /\ key[3 + 4] = t[4]
  BY <1>1, <1>2, <1>3
<1>7. key[4] = a /\ key[6] = c /\ key[7] = d
  BY <1>2, <1>6
<1>8. KeyAt(x, a, b, c, d) = key
  BY DEF KeyAt, key, s, t
<1> QED
  BY <1>5, <1>7, <1>8

LEMMA FiniteImage ==
  ASSUME NEW S, IsFiniteSet(S), NEW f
  PROVE  IsFiniteSet({f[x] : x \in S})
<1> DEFINE T == {f[x] : x \in S}
           g == [x \in S |-> f[x]]
<1>1. g \in Surjection(S, T)
  BY DEF Surjection
<1> HIDE DEF g, T
<1>2. IsFiniteSet(T)
  BY <1>1, FS_Surjection
<1> QED
  BY <1>2 DEF T

LEMMA ItemsInOrderReadable ==
  ASSUME job \in Jobs, NEW entries \in Seq(Entries),
         \A k \in 1 .. Len(entries) : Span(entries[k]) \subseteq 0 .. N - 1
  PROVE  /\ ReadableItems(ItemsInOrder(entries))
         /\ \A k \in 1 .. Len(entries) : \A e \in Span(entries[k]) : HasEvent(ItemsInOrder(entries), e)
<1> DEFINE all == UNION {ItemsOf(entries[k], k) : k \in DOMAIN entries}
           key == [i \in all |-> i.key]
           L == Len(entries)
           Header(k) == Item(IF entries[k].lumi = 0 THEN "run" ELSE "lumi", entries[k].entry, entries[k].run,
                             entries[k].lumi, Place(entries[k]) \o <<0, 0, 0, k>>)
           Given(k, e) == Item("event", e, entries[k].run, entries[k].lumi,
                               Place(entries[k]) \o <<1, IF job.sort THEN Event(e).event ELSE e, e, k>>)
<1>1. /\ DOMAIN entries = 1 .. L /\ L \in Nat /\ \A k \in 1 .. L : entries[k] \in Entries
      /\ \A k \in 1 .. L : Span(entries[k]) \subseteq 0 .. N - 1
      /\ \A k \in 1 .. L : entries[k].first \in Int /\ entries[k].end \in Int /\ k \in Int
  <2>1. DOMAIN entries = 1 .. L /\ L \in Nat /\ \A k \in 1 .. L : entries[k] \in Entries
    OBVIOUS
  <2>2. \A k \in 1 .. L : entries[k].first \in Int /\ entries[k].end \in Int
    <3> HIDE DEF L
    <3> QED
      BY <2>1 DEF Entries
  <2> QED
    BY <2>1, <2>2
<1>2. \A k \in 1 .. L : ItemsOf(entries[k], k) = {Header(k)} \cup {Given(k, e) : e \in Span(entries[k])}
  BY DEF ItemsOf, Span
<1>3. ASSUME NEW k \in 1 .. L
      PROVE  /\ Header(k) \in ItemRecords /\ Header(k).type # "event"
             /\ Header(k).key[4] = 0 /\ Header(k).key[7] = k
  <2> DEFINE x == entries[k]
             p == KeyAt(x, 0, 0, 0, k)
  <2>1. p \in Tuples(7) /\ p[4] = 0 /\ p[7] = k
    <3>1. x \in Entries /\ k \in Int
      BY <1>1
    <3> HIDE DEF x
    <3> QED
      BY <3>1, KeyOfPlace
  <2>2. x.entry \in Int /\ x.run \in Nat /\ x.lumi \in Nat
    BY <1>1 DEF Entries
  <2>3. Header(k) = [type |-> IF x.lumi = 0 THEN "run" ELSE "lumi", entry |-> x.entry, run |-> x.run, lumi |-> x.lumi, key |-> p]
    BY DEF Item, KeyAt
  <2> HIDE DEF p, Header, x
  <2> QED
    BY <2>1, <2>2, <2>3 DEF ItemRecords
<1>4. ASSUME NEW k \in 1 .. L, NEW e \in Span(entries[k])
      PROVE  /\ Given(k, e) \in ItemRecords /\ Given(k, e).entry = e /\ e \in 0 .. N - 1
             /\ Given(k, e).type = "event"
             /\ Given(k, e).key[4] = 1 /\ Given(k, e).key[6] = e /\ Given(k, e).key[7] = k
  <2> DEFINE x == entries[k]
             n == IF job.sort THEN Event(e).event ELSE e
             p == KeyAt(x, 1, n, e, k)
  <2>1. e \in 0 .. N - 1 /\ e \in Int
    BY <1>1
  <2>2. n \in Int
    <3>1. e + 1 \in 1 .. N
      BY <2>1, JobTypes
    <3>2. job.events[e + 1] \in EventRecords
      BY <3>1, JobTypes DEF N
    <3> QED
      BY <2>1, <3>2 DEF Event, EventRecords
  <2>3. p \in Tuples(7) /\ p[4] = 1 /\ p[6] = e /\ p[7] = k
    <3>1. x \in Entries /\ k \in Int
      BY <1>1
    <3> HIDE DEF x, n
    <3> QED
      BY <2>1, <2>2, <3>1, KeyOfPlace
  <2>4. x.run \in Nat /\ x.lumi \in Nat
    BY <1>1 DEF Entries
  <2>5. Given(k, e) = [type |-> "event", entry |-> e, run |-> x.run, lumi |-> x.lumi, key |-> p]
    BY DEF Item, KeyAt
  <2> HIDE DEF p, Given, x
  <2> QED
    BY <2>1, <2>3, <2>4, <2>5 DEF ItemRecords
<1> HIDE DEF Header, Given
<1>5. ASSUME NEW i \in all
      PROVE  \E k \in 1 .. L : i = Header(k) \/ \E e \in Span(entries[k]) : i = Given(k, e)
  BY <1>1, <1>2
<1>6. IsFiniteSet(all)
  <2>1. ASSUME NEW k \in 1 .. L PROVE IsFiniteSet(ItemsOf(entries[k], k))
    <3> DEFINE A == Span(entries[k])
               B == {Given(k, e) : e \in A}
    <3>1. IsFiniteSet(A)
      <4> DEFINE a == entries[k].first
                 b == entries[k].end - 1
      <4>1. a \in Int /\ b \in Int /\ A = a .. b
        BY <1>1 DEF Span
      <4> HIDE DEF a, b, A
      <4> QED
        BY <4>1, FS_Interval
    <3> HIDE DEF A
    <3> DEFINE f == [e \in A |-> Given(k, e)]
    <3>2. IsFiniteSet(B)
      <4>1. B = {f[e] : e \in A}
        OBVIOUS
      <4> HIDE DEF f, B
      <4> QED
        BY <3>1, <4>1, FiniteImage
    <3> HIDE DEF B
    <3>3. IsFiniteSet({Header(k)}) 
      BY FS_Singleton
    <3>4. IsFiniteSet({Header(k)} \cup B)
      BY <3>2, <3>3, FS_Union
    <3> QED
      BY <1>2, <3>4 DEF A, B
  <2> DEFINE C == {ItemsOf(entries[k], k) : k \in 1 .. L}
  <2>2. IsFiniteSet(1 .. L)
    <3>1. 1 \in Int /\ L \in Int
      BY <1>1
    <3> HIDE DEF L
    <3> QED
      BY <3>1, FS_Interval
  <2>3. IsFiniteSet(C)
    <3> DEFINE f == [k \in 1 .. L |-> ItemsOf(entries[k], k)]
    <3>1. C = {f[k] : k \in 1 .. L}
      OBVIOUS
    <3> HIDE DEF f, C, L
    <3> QED
      BY <2>2, <3>1, FiniteImage
  <2>4. \A c \in C : IsFiniteSet(c)
    BY <2>1
  <2> HIDE DEF C
  <2>5. IsFiniteSet(UNION C)
    BY <2>3, <2>4, FS_UNION
  <2> QED
    BY <1>1, <2>5 DEF C
<1>7. \A i \in all : i \in ItemRecords
  BY <1>3, <1>4, <1>5
<1>8. ASSUME NEW i \in all, NEW j \in all, i.key = j.key PROVE i = j
  <2>1. PICK k \in 1 .. L : i = Header(k) \/ \E e \in Span(entries[k]) : i = Given(k, e)
    BY <1>5
  <2>2. PICK l \in 1 .. L : j = Header(l) \/ \E e \in Span(entries[l]) : j = Given(l, e)
    BY <1>5
  <2>3. i.key[7] = k /\ j.key[7] = l
    BY <1>3, <1>4, <2>1, <2>2
  <2>4. k = l
    BY <1>8, <2>3
  <2>5. CASE i = Header(k)
    <3>1. i.key[4] = 0
      BY <1>3, <2>5
    <3>2. j.key[4] # 1
      BY <1>8, <3>1
    <3>3. j = Header(l)
      BY <1>4, <2>2, <3>2
    <3> QED
      BY <2>4, <2>5, <3>3
  <2>6. CASE i # Header(k)
    <3>1. PICK e \in Span(entries[k]) : i = Given(k, e)
      BY <2>1, <2>6
    <3>2. i.key[4] = 1 /\ i.key[6] = e
      BY <1>4, <3>1
    <3>3. j # Header(l)
      BY <1>3, <1>8, <3>2
    <3>4. PICK d \in Span(entries[l]) : j = Given(l, d)
      BY <2>2, <3>3
    <3>5. j.key[6] = d
      BY <1>4, <3>4
    <3> QED
      BY <1>8, <2>4, <3>1, <3>2, <3>4, <3>5
  <2> QED
    BY <2>5, <2>6
<1> HIDE DEF all
<1>9. Keyed(all, key, 7)
  <2>1. \A i \in all : i.key \in Tuples(7)
    BY <1>7 DEF ItemRecords
  <2> QED
    BY <1>8, <2>1 DEF Keyed
<1> DEFINE s == Ordered(all, key)
<1>10. s \in Seq(all) /\ \A i \in all : \E k \in 1 .. Len(s) : s[k] = i
  <2> HIDE DEF key
  <2> QED
    BY <1>6, <1>9, OrderedLists
<1>11. ItemsInOrder(entries) = s
  BY Zenon DEF ItemsInOrder, all
<1> HIDE DEF s
<1>12. s \in Seq(ItemRecords) /\ \A i \in 1 .. Len(s) : s[i] \in all
  <2>1. all \subseteq ItemRecords
    BY <1>7
  <2> QED
    BY <1>10, <2>1, SeqWiden
<1>13. ASSUME NEW i \in all, i.type = "event" PROVE i.entry \in 0 .. N - 1
  <2>1. PICK k \in 1 .. L : i = Header(k) \/ \E e \in Span(entries[k]) : i = Given(k, e)
    BY <1>5 DEF all
  <2>2. PICK e \in Span(entries[k]) : i = Given(k, e)
    BY <1>3, <1>13, <2>1
  <2> QED
    BY <1>4, <2>2
<1>14. ASSUME NEW k \in 1 .. L, NEW e \in Span(entries[k]) PROVE HasEvent(s, e)
  <2>1. Given(k, e) \in all
    BY <1>1, <1>2 DEF all
  <2>2. PICK i \in 1 .. Len(s) : s[i] = Given(k, e)
    BY <1>10, <2>1
  <2> QED
    BY <1>4, <2>2 DEF HasEvent
<1> QED
  BY <1>11, <1>12, <1>13, <1>14 DEF ReadableItems

-----------------------------------------------------------------------------
(* The file and its streams.                                                  *)

Reasons == {"EventsOrLumisSelectedByID", "NoEventsInFile", "EventsToBeSorted", "MaxEventsTooSmall",
            "MaxLumisTooSmall", "DuplicateEventsRemoved"}
Failures == {"", "assert", "Configuration", "checkRunConsistency"}
Keys == job.before \cup {EventKey(e) : e \in 0 .. N - 1}

Files ==
  [iter : Nat \ {0}, announced : BOOLEAN, aux : Int, shifts : Nat, lastRead : Int, numbers : BOOLEAN,
   seen : SUBSET Keys, checking : BOOLEAN, whyNot : SUBSET Reasons, open : BOOLEAN, failed : Failures]

\* The event auxiliary is the one read last.
AuxIsLast(f) == f.lastRead # -1 => f.aux = f.lastRead

SameFile(f, g) ==
  /\ g.iter = f.iter /\ g.announced = f.announced /\ g.numbers = f.numbers /\ g.seen = f.seen
  /\ g.checking = f.checking /\ g.whyNot = f.whyNot /\ g.open = f.open

Unreadable == \E q \in Products, e \in 0 .. N - 1 : <<q, e>> \in job.bad

\* What a stream was given is of its event.
StreamsAgree(t, of) ==
  /\ of \in [Streams -> [event : Int, aux : Int]]
  /\ \A s \in Streams : of[s].event # -1 =>
       of[s].event \in 0 .. N - 1 /\ t.forIndex[s] = of[s].event /\ of[s].aux = of[s].event

FileKept(f, t, list) ==
  /\ f \in Files /\ AuxIsLast(f)
  /\ GoodTree(t) /\ t.entries = N
  /\ f.open \/ (Untrained(t) /\ ~t.trainNow)
  /\ ReadableItems(list)
  /\ f.announced => f.iter \in 1 .. Len(list)

\* The inductive invariant.
FileInv ==
  /\ job \in Jobs
  /\ FileKept(file, tree, items) /\ StreamsAgree(tree, events)
  /\ failing \in BOOLEAN /\ (failing => Unreadable)
  /\ RebuiltIndex

LEMMA CheckedFile ==
  ASSUME NEW f \in Files, NEW holds, NEW why \in Failures
  PROVE  LET g == Check(f, holds, why)
         IN g \in Files /\ SameFile(f, g) /\ g.aux = f.aux /\ g.lastRead = f.lastRead
<1> DEFINE g == [f EXCEPT !.failed = why]
<1>1. g \in Files /\ SameFile(f, g) /\ g.aux = f.aux /\ g.lastRead = f.lastRead
  BY DEF Files, SameFile
<1>2. Check(f, holds, why) = f \/ Check(f, holds, why) = g
  BY DEF Check, Fail
<1>3. SameFile(f, f)
  BY DEF SameFile
<1> HIDE DEF g
<1> QED
  BY <1>1, <1>2, <1>3

LEMMA FillEventAuxiliaryReads ==
  ASSUME NEW f \in Files, AuxIsLast(f), NEW t, GoodTree(t), t.entries = N, NEW entry \in Int
  PROVE  LET x == FillEventAuxiliary([f |-> f, t |-> t], entry)
         IN /\ x.f \in Files /\ AuxIsLast(x.f) /\ SameFile(f, x.f) /\ x.f.failed = f.failed
            /\ GoodTree(x.t) /\ x.t.entries = N /\ x.t.forIndex = t.forIndex
            /\ Untrained(t) /\ ~t.trainNow => Untrained(x.t) /\ ~x.t.trainNow
            /\ entry \in 0 .. N - 1 => x.f.aux = entry /\ x.t.entry = entry
<1> DEFINE x == FillEventAuxiliary([f |-> f, t |-> t], entry)
           u == SetEntryNumber(t, entry)
           v == GetEntry(u, "Aux")
           g == [f EXCEPT !.aux = u.entry, !.shifts = 0, !.lastRead = u.entry]
<1>1. t \in Trees /\ N \in Nat
  <2>1. t \in Trees
    BY DEF GoodTree
  <2> QED
    BY <2>1 DEF Trees
<1>2. SameFile(f, f)
  BY DEF SameFile
<1>3. CASE ~IsCurrent(t, entry)
  <2>1. x = [f |-> f, t |-> t]
    BY <1>3 DEF FillEventAuxiliary
  <2>2. entry \notin 0 .. N - 1
    BY <1>1, <1>3 DEF IsCurrent
  <2> HIDE DEF x
  <2>3. x.f = f /\ x.t = t
    BY <2>1
  <2> QED
    BY <1>2, <2>2, <2>3 DEF x
<1>4. CASE IsCurrent(t, entry)
  <2>1. x = FillThisEventAuxiliary([f |-> f, t |-> u])
    BY <1>4 DEF FillEventAuxiliary
  <2>2. GoodTree(u) /\ SameTree(t, u, entry)
    BY SetEntryNumberGood
  <2>3. GoodTree(v) /\ SameTree(u, v, u.entry)
    <3>1. "Aux" \in Branches
      BY DEF Branches
    <3> HIDE DEF u
    <3> QED
      BY <2>2, <3>1, GetEntryGood
  <2>4. u.entry = entry /\ v.entry = entry /\ v.entries = N /\ u.entries = N /\ v.forIndex = t.forIndex /\ u.forIndex = t.forIndex
    BY <2>2, <2>3 DEF SameTree
  <2>5. Untrained(t) /\ ~t.trainNow => Untrained(u) /\ ~u.trainNow /\ Untrained(v) /\ ~v.trainNow
    BY <2>2, <2>3 DEF SameTree
  <2>6. entry >= 0 /\ entry # -1
    BY <1>4 DEF IsCurrent
  <2> HIDE DEF u, v
  <2>7. CASE f.lastRead = u.entry
    <3>1. x = [f |-> f, t |-> u]
      BY <2>1, <2>7 DEF FillThisEventAuxiliary
    <3> HIDE DEF x
    <3>2. x.f = f /\ x.t = u
      BY <3>1
    <3>3. f.aux = entry
      BY <2>4, <2>6, <2>7 DEF AuxIsLast
    <3> QED
      BY <1>2, <2>2, <2>4, <2>5, <3>2, <3>3 DEF x
  <2>8. CASE f.lastRead # u.entry
    <3>1. x = [f |-> g, t |-> v]
      BY <2>1, <2>8 DEF FillThisEventAuxiliary, v
    <3>2. g \in Files /\ g.aux = entry /\ g.lastRead = entry /\ SameFile(f, g) /\ g.failed = f.failed
      BY <2>4 DEF Files, SameFile
    <3> HIDE DEF x, g
    <3>3. x.f = g /\ x.t = v
      BY <3>1
    <3>4. AuxIsLast(g)
      BY <3>2 DEF AuxIsLast
    <3> QED
      BY <2>3, <2>4, <2>5, <3>2, <3>3, <3>4 DEF x
  <2> QED
    BY <2>7, <2>8
<1> QED
  BY <1>3, <1>4

LEMMA DuplicateCheckerInitialized ==
  ASSUME job \in Jobs, NEW f \in Files, AuxIsLast(f), NEW t, GoodTree(t), t.entries = N, Untrained(t), ~t.trainNow
  PROVE  LET x == InitializeDuplicateChecker([f |-> f, t |-> t])
         IN /\ x.f \in Files /\ AuxIsLast(x.f) /\ SameFile(f, x.f)
            /\ GoodTree(x.t) /\ Untrained(x.t) /\ x.t.entries = N /\ x.t.forIndex = t.forIndex
<1> DEFINE x == InitializeDuplicateChecker([f |-> f, t |-> t])
           u == [t EXCEPT !.entry = t.entry + 1]
           first == FillEventAuxiliary([f |-> f, t |-> u], t.entry + 1)
           v == SetEntryNumber(first.t, -1)
<1>1. CASE ~job.check
  <2>1. x = [f |-> f, t |-> t]
    BY <1>1 DEF InitializeDuplicateChecker
  <2> HIDE DEF x
  <2>2. x.f = f /\ x.t = t
    BY <2>1
  <2> QED
    BY <2>2 DEF SameFile, x
<1>2. CASE job.check
  <2>1. x = [f |-> first.f, t |-> v]
    <3>1. t \in Trees
      BY DEF GoodTree
    <3>2. [t EXCEPT !.entry = @ + 1] = u
      BY <3>1 DEF Trees
    <3> HIDE DEF u
    <3> QED
      BY <1>2, <3>2, Zenon DEF InitializeDuplicateChecker
  <2>2. t.entry + 1 \in Int
    BY DEF GoodTree, Trees
  <2>3. GoodTree(u) /\ Untrained(u) /\ u.entries = N /\ u.forIndex = t.forIndex /\ ~u.trainNow
    BY <2>2, EntryMovedAside
  <2> HIDE DEF u
  <2>4. /\ first.f \in Files /\ AuxIsLast(first.f) /\ SameFile(f, first.f)
        /\ GoodTree(first.t) /\ first.t.entries = N /\ first.t.forIndex = u.forIndex
        /\ Untrained(first.t) /\ ~first.t.trainNow
    BY <2>2, <2>3, FillEventAuxiliaryReads
  <2> HIDE DEF first
  <2> DEFINE w == first.t
  <2>5. GoodTree(v) /\ SameTree(w, v, -1)
    <3>1. GoodTree(w) /\ -1 \in Int
      BY <2>4
    <3> QED
      BY <3>1, SetEntryNumberGood
  <2>6. x.f = first.f /\ x.t = v
    BY <2>1
  <2> HIDE DEF v, x
  <2> QED
    BY <2>3, <2>4, <2>5, <2>6 DEF SameTree, x
<1> QED
  BY <1>1, <1>2

LEMMA NextItemIsAhead ==
  ASSUME FileKept(file, tree, items)
  PROVE  NextItem \in file.iter .. Len(items) \cup {Len(items) + 1}
<1> DEFINE A == {i \in file.iter .. Len(items) : ~PassedOver(i)}
<1>1. file.iter \in Nat /\ Len(items) \in Nat
  <2>1. items \in Seq(ItemRecords)
    BY DEF FileKept, ReadableItems
  <2>2. file.iter \in Nat
    BY DEF FileKept, Files
  <2> QED
    BY <2>1, <2>2
<1>2. A \subseteq Nat /\ A \subseteq file.iter .. Len(items)
  BY <1>1
<1>3. NextItem = First(A, Len(items) + 1)
  BY DEF NextItem
<1> HIDE DEF A
<1>4. CASE A = {}
  BY <1>3, <1>4 DEF First
<1>5. CASE A # {}
  BY <1>2, <1>3, <1>5, LeastIsMin DEF First
<1> QED
  BY <1>4, <1>5

LEMMA Initially == Init => FileInv
<1> SUFFICES ASSUME Init PROVE FileInv
  OBVIOUS
<1>1. job \in Jobs /\ items = <<>> /\ index = <<>> /\ failing = FALSE /\ file = NotOpened
  BY DEF Init
<1>2. GoodTree(tree) /\ Untrained(tree) /\ ~tree.trainNow /\ tree.entries = N
  BY <1>1, ConstructedTreeIsGood DEF Init
<1>3. file \in Files /\ file.lastRead = -1 /\ file.announced = FALSE
  <2>1. NotOpened \in Files /\ NotOpened.lastRead = -1 /\ NotOpened.announced = FALSE
    BY DEF NotOpened, Files, Failures
  <2> QED
    BY <1>1, <2>1
<1>4. ReadableItems(items)
  BY <1>1 DEF ReadableItems
<1>5. FileKept(file, tree, items)
  BY <1>2, <1>3, <1>4 DEF FileKept, AuxIsLast
<1>6. StreamsAgree(tree, events)
  BY DEF Init, StreamsAgree
<1>7. RebuiltIndex
  BY <1>1 DEF RebuiltIndex
<1> QED
  BY <1>1, <1>5, <1>6, <1>7 DEF FileInv

\* The job does not change.
LEMMA InvariantStep ==
  ASSUME FileInv, job' = job, FileKept(file', tree', items'), StreamsAgree(tree', events'),
         failing' \in BOOLEAN, failing' => Unreadable,
         index' = index \/ (job.old => index' = <<>> \/ IndexOfTrees(index'))
  PROVE  FileInv'
<1>1. N' = N /\ Files' = Files /\ Unreadable' = Unreadable
  BY DEF N, Files, Keys, EventKey, Event, Unreadable
<1>2. FileKept(file, tree, items)'
  BY <1>1 DEF FileKept, ReadableItems
<1>3. StreamsAgree(tree, events)'
  BY <1>1 DEF StreamsAgree
<1>4. RebuiltIndex'
  <2>1. ASSUME index' = index PROVE job.old => index' = <<>> \/ IndexOfTrees(index')
    <3>1. job.old => index = <<>> \/ IndexOfTrees(index)
      BY Zenon DEF FileInv, RebuiltIndex, IndexOfTrees
    <3> QED
      BY <2>1, <3>1
  <2>2. CASE job.old /\ index' # <<>>
    <3>1. IndexOfTrees(index')
      BY <2>1, <2>2
    <3> QED
      BY <2>2, <3>1, SMTT(30) DEF IndexOfTrees, RebuiltIndex, N, Event
  <2>3. CASE ~(job.old /\ index' # <<>>)
    BY <2>3 DEF RebuiltIndex
  <2> QED
    BY <2>2, <2>3
<1>5. job' \in Jobs
  BY DEF FileInv
<1> QED
  BY <1>1, <1>2, <1>3, <1>4, <1>5 DEF FileInv

LEMMA FastClonableReasons ==
  ASSUME NEW list
  PROVE  WhyNotFastClonable(list) \in SUBSET Reasons
BY DEF WhyNotFastClonable, Reasons

LEMMA OpenKeeps == FileInv /\ Open => FileInv'
<1> SUFFICES ASSUME FileInv, Open PROVE FileInv'
  OBVIOUS
<1>1. job \in Jobs /\ FileKept(file, tree, items) /\ StreamsAgree(tree, events) /\ failing \in BOOLEAN /\ (failing => Unreadable)
  BY DEF FileInv
<1>2. ~file.open /\ job' = job /\ failing' = failing /\ events' = events
  BY DEF Open
<1> DEFINE trained == TrainCache(tree, "Aux")
           x == InitializeDuplicateChecker([f |-> Constructed, t |-> trained])
<1>3. PICK entries \in {IF ~job.old THEN job.index ELSE IF LumisHaveRuns THEN FillIndexIntoFile ELSE <<>>} :
        Opened(entries, ItemsInOrder(entries), x)
  BY Zenon DEF Open
<1>4. /\ entries \in Seq(Entries) /\ \A k \in 1 .. Len(entries) : Span(entries[k]) \subseteq 0 .. N - 1
      /\ job.old => entries = <<>> \/ IndexOfTrees(entries)
  <2>1. CASE ~job.old
    <3>1. entries = job.index
      BY <2>1
    <3> QED
      BY <1>1, <2>1, <3>1, JobTypes
  <2>2. CASE job.old /\ LumisHaveRuns
    <3>1. entries = FillIndexIntoFile
      BY <2>2
    <3> QED
      BY <1>1, <2>2, <3>1, FilledIndexIsOfTrees
  <2>3. CASE job.old /\ ~LumisHaveRuns
    BY <2>3
  <2> QED
    BY <2>1, <2>2, <2>3
<1> DEFINE list == ItemsInOrder(entries)
<1>5. ReadableItems(list)
  BY <1>1, <1>4, ItemsInOrderReadable
<1>6. GoodTree(trained) /\ Untrained(trained) /\ ~trained.trainNow /\ trained.entries = N /\ trained.forIndex = tree.forIndex
  <2>1. GoodTree(tree) /\ Untrained(tree) /\ ~tree.trainNow /\ tree.entries = N
    BY <1>1, <1>2 DEF FileKept
  <2> QED
    BY <2>1, TrainCacheGood
<1>7. Constructed \in Files /\ AuxIsLast(Constructed) /\ Constructed.announced = FALSE /\ Constructed.open = TRUE
  <2> DEFINE checking == job.check /\ ~NoDuplicatesInFile
             seen == IF checking THEN job.before ELSE {}
             numbers == job.old \/ job.check
  <2>1. checking \in BOOLEAN /\ numbers \in BOOLEAN /\ seen \in SUBSET Keys
    BY DEF Keys
  <2>2. Constructed = [NotOpened EXCEPT !.open = TRUE, !.numbers = numbers, !.checking = checking, !.seen = seen]
    BY DEF Constructed
  <2> HIDE DEF checking, seen, numbers
  <2>3. NotOpened \in Files /\ NotOpened.lastRead = -1 /\ NotOpened.announced = FALSE
    BY DEF NotOpened, Files, Failures
  <2> QED
    BY <2>1, <2>2, <2>3 DEF Files, AuxIsLast
<1> HIDE DEF trained
<1>8. /\ x.f \in Files /\ AuxIsLast(x.f) /\ SameFile(Constructed, x.f)
      /\ GoodTree(x.t) /\ Untrained(x.t) /\ x.t.entries = N /\ x.t.forIndex = trained.forIndex
  BY <1>1, <1>6, <1>7, DuplicateCheckerInitialized
<1> HIDE DEF x
<1> DEFINE f1 == Check(x.f, job.old => LumisHaveRuns, "assert")
           f2 == Check(f1, RunOffset(list) >= 0, "Configuration")
           f3 == [f2 EXCEPT !.whyNot = WhyNotFastClonable(list)]
           u == x.t
<1>9. f1 \in Files /\ SameFile(x.f, f1) /\ f1.aux = x.f.aux /\ f1.lastRead = x.f.lastRead
  <2>1. "assert" \in Failures
    BY DEF Failures
  <2> QED
    BY <1>8, <2>1, CheckedFile
<1> HIDE DEF f1
<1>10. f2 \in Files /\ SameFile(f1, f2) /\ f2.aux = f1.aux /\ f2.lastRead = f1.lastRead
  <2>1. "Configuration" \in Failures
    BY DEF Failures
  <2> QED
    BY <1>9, <2>1, CheckedFile
<1> HIDE DEF f2
<1>11. f3 \in Files /\ f3.announced = f2.announced /\ f3.open = f2.open /\ f3.aux = f2.aux /\ f3.lastRead = f2.lastRead
  <2> DEFINE why == WhyNotFastClonable(list)
  <2>1. why \in SUBSET Reasons
    BY FastClonableReasons
  <2>2. f3 = [f2 EXCEPT !.whyNot = why]
    OBVIOUS
  <2> HIDE DEF why, f3
  <2> QED
    BY <1>10, <2>1, <2>2 DEF Files
<1> HIDE DEF f3
<1>12. GoodTree(ResetTraining(u)) /\ ResetTraining(u).entries = N /\ ResetTraining(u).forIndex = tree.forIndex
  <2>1. GoodTree(u) /\ Untrained(u) /\ u.entries = N /\ u.forIndex = tree.forIndex
    BY <1>6, <1>8
  <2> HIDE DEF u
  <2> QED
    BY <2>1, ResetTrainingGood
<1>13. index' = entries /\ items' = list /\ file' = f3 /\ tree' = ResetTraining(u)
  BY <1>3, Zenon DEF Opened, f1, f2, f3
<1>14. FileKept(file', tree', items')
  <2>1. f3.announced = FALSE /\ f3.open = TRUE /\ AuxIsLast(f3)
    BY <1>7, <1>8, <1>9, <1>10, <1>11 DEF SameFile, AuxIsLast
  <2> HIDE DEF list, u
  <2> QED
    BY <1>5, <1>11, <1>12, <1>13, <2>1 DEF FileKept
<1>15. StreamsAgree(tree', events')
  <2> HIDE DEF u
  <2> QED
    BY <1>1, <1>2, <1>12, <1>13 DEF StreamsAgree
<1> QED
  BY <1>1, <1>2, <1>4, <1>13, <1>14, <1>15, InvariantStep

LEMMA AnnounceKeeps == FileInv /\ GetNextItemType => FileInv'
<1> SUFFICES ASSUME FileInv, GetNextItemType PROVE FileInv'
  OBVIOUS
<1>1. /\ job \in Jobs /\ FileKept(file, tree, items) /\ StreamsAgree(tree, events)
      /\ failing \in BOOLEAN /\ (failing => Unreadable)
  BY DEF FileInv
<1>2. /\ job' = job /\ index' = index /\ items' = items /\ failing' = failing /\ events' = events
      /\ file.open /\ NextItem <= Len(items)
  BY DEF GetNextItemType, Running
<1>3. NextItem \in 1 .. Len(items) /\ items \in Seq(ItemRecords)
  <2>1. file.iter \in Nat \ {0} /\ items \in Seq(ItemRecords)
    BY <1>1 DEF FileKept, Files, ReadableItems
  <2>2. NextItem \in file.iter .. Len(items) \cup {Len(items) + 1} /\ Len(items) \in Nat
    BY <1>1, <2>1, NextItemIsAhead
  <2> QED
    BY <1>2, <2>1, <2>2
<1> DEFINE i == NextItem
           f == [file EXCEPT !.iter = i, !.announced = TRUE]
           seen == IF file.checking THEN file.seen \cup {EventKey(items[i].entry)} ELSE file.seen
           g == [f EXCEPT !.seen = seen]
           x == FillEventAuxiliary([f |-> g, t |-> tree], items[i].entry)
<1>4. f \in Files /\ AuxIsLast(f) /\ f.iter = i /\ f.announced /\ f.open = file.open /\ f.checking = file.checking /\ f.seen = file.seen
  <2>1. i \in Nat \ {0}
    BY <1>3
  <2> HIDE DEF i
  <2> QED
    BY <1>1, <2>1 DEF FileKept, Files, AuxIsLast
<1>5. CASE items[i].type # "event"
  <2>1. file' = f /\ tree' = tree
    BY <1>5, Zenon DEF GetNextItemType
  <2> HIDE DEF f
  <2>2. FileKept(file', tree', items')
    BY <1>1, <1>2, <1>3, <1>4, <2>1 DEF FileKept
  <2>3. StreamsAgree(tree', events')
    BY <1>1, <1>2, <2>1
  <2> QED
    BY <1>1, <1>2, <2>2, <2>3, InvariantStep
<1>6. CASE items[i].type = "event"
  <2> DEFINE e == items[i].entry
  <2>1. e \in 0 .. N - 1 /\ e \in Int
    BY <1>1, <1>3, <1>6 DEF FileKept, ReadableItems
  <2>2. seen \in SUBSET Keys
    <3>1. file.seen \in SUBSET Keys
      BY <1>1 DEF FileKept, Files
    <3>2. EventKey(e) \in Keys
      BY <2>1 DEF Keys
    <3> QED
      BY <3>1, <3>2
  <2>3. file' = x.f /\ tree' = x.t
    <3>1. [f EXCEPT !.seen = IF file.checking THEN @ \cup {EventKey(items[i].entry)} ELSE @] = g
      BY <1>4 DEF Files
    <3> HIDE DEF g
    <3> QED
      BY <1>6, <3>1, Zenon DEF GetNextItemType
  <2> HIDE DEF seen, f
  <2>4. g \in Files /\ AuxIsLast(g) /\ g.iter = i /\ g.announced /\ g.open = file.open
    BY <1>4, <2>2 DEF Files, AuxIsLast
  <2> HIDE DEF g, e
  <2>5. /\ x.f \in Files /\ AuxIsLast(x.f) /\ SameFile(g, x.f)
        /\ GoodTree(x.t) /\ x.t.entries = N /\ x.t.forIndex = tree.forIndex
    <3>1. GoodTree(tree) /\ tree.entries = N
      BY <1>1 DEF FileKept
    <3>2. x = FillEventAuxiliary([f |-> g, t |-> tree], e)
      BY DEF e
    <3> QED
      BY <2>1, <2>4, <3>1, <3>2, FillEventAuxiliaryReads
  <2> HIDE DEF x, i
  <2>6. FileKept(file', tree', items')
    <3>1. x.f.announced /\ x.f.iter = i /\ x.f.open
      BY <1>2, <2>4, <2>5 DEF SameFile
    <3>2. i \in 1 .. Len(items)
      BY <1>3 DEF i
    <3> QED
      BY <1>1, <1>2, <2>3, <2>5, <3>1, <3>2 DEF FileKept
  <2>7. StreamsAgree(tree', events')
    BY <1>1, <1>2, <2>3, <2>5 DEF StreamsAgree
  <2> QED
    BY <1>1, <1>2, <2>6, <2>7, InvariantStep
<1> QED
  BY <1>5, <1>6

LEMMA FirstEventIsEntry ==
  ASSUME FileKept(file, tree, items), NEW i
  PROVE  FirstEvent(items, i) \in Int
<1> DEFINE of == {k \in DOMAIN items : items[k].type = "event" /\ items[k].run = items[i].run
                                         /\ (items[i].type = "lumi" => items[k].lumi = items[i].lumi)}
<1>1. items \in Seq(ItemRecords) /\ DOMAIN items = 1 .. Len(items) /\ \A k \in DOMAIN items : items[k] \in ItemRecords
  BY DEF FileKept, ReadableItems
<1>2. of \subseteq Nat /\ of \subseteq DOMAIN items
  BY <1>1
<1>3. FirstEvent(items, i) = IF of = {} THEN -1 ELSE items[Min(of)].entry
  BY Zenon DEF FirstEvent
<1> HIDE DEF of
<1>4. CASE of # {}
  <2>1. Min(of) \in DOMAIN items
    BY <1>2, <1>4, LeastIsMin
  <2>2. items[Min(of)].entry \in Int
    BY <1>1, <2>1 DEF ItemRecords
  <2> QED
    BY <1>3, <1>4, <2>2
<1> QED
  BY <1>3, <1>4

LEMMA ReadItemKeeps ==
  ASSUME FileInv, file.open, file.announced, NEW holds, ReadItem(holds)
  PROVE  FileInv'
<1>1. /\ job \in Jobs /\ FileKept(file, tree, items) /\ StreamsAgree(tree, events)
      /\ failing \in BOOLEAN /\ (failing => Unreadable)
      /\ file \in Files /\ AuxIsLast(file) /\ GoodTree(tree) /\ tree.entries = N
  BY DEF FileInv, FileKept
<1> DEFINE f == Check(file, holds, "assert")
           x == TimeOfFirstEvent(f)
           g == [x.f EXCEPT !.iter = @ + 1, !.announced = FALSE]
<1>2. /\ job' = job /\ index' = index /\ items' = items /\ failing' = failing /\ events' = events
      /\ file' \in {x.f, g} /\ tree' = x.t
  BY DEF ReadItem
<1>3. f \in Files /\ SameFile(file, f) /\ AuxIsLast(f)
  <2>1. "assert" \in Failures
    BY DEF Failures
  <2>2. f \in Files /\ SameFile(file, f) /\ f.aux = file.aux /\ f.lastRead = file.lastRead
    BY <1>1, <2>1, CheckedFile
  <2> QED
    BY <1>1, <2>2 DEF AuxIsLast
<1> HIDE DEF f
<1>4. /\ x.f \in Files /\ AuxIsLast(x.f) /\ SameFile(f, x.f)
      /\ GoodTree(x.t) /\ x.t.entries = N /\ x.t.forIndex = tree.forIndex
  <2>1. CASE job.old
    <3> DEFINE e == FirstEvent(items, f.iter)
    <3>1. e \in Int
      BY <1>1, FirstEventIsEntry
    <3>2. x = FillEventAuxiliary([f |-> f, t |-> tree], e)
      BY <2>1 DEF TimeOfFirstEvent
    <3> HIDE DEF e, x
    <3> QED
      BY <1>1, <1>3, <3>1, <3>2, FillEventAuxiliaryReads
  <2>2. CASE ~job.old
    <3>1. x = [f |-> f, t |-> tree]
      BY <2>2 DEF TimeOfFirstEvent
    <3> HIDE DEF x
    <3>2. x.f = f /\ x.t = tree
      BY <3>1
    <3> QED
      BY <1>1, <1>3, <3>2 DEF SameFile
  <2> QED
    BY <2>1, <2>2
<1> HIDE DEF x
<1>5. x.f.iter = file.iter /\ x.f.open = file.open
  BY <1>3, <1>4 DEF SameFile
<1>6. g \in Files /\ AuxIsLast(g) /\ g.announced = FALSE /\ g.open = x.f.open
  <2> DEFINE y == x.f
  <2>1. y \in Files /\ AuxIsLast(y) /\ g = [y EXCEPT !.iter = @ + 1, !.announced = FALSE]
    BY <1>4
  <2> HIDE DEF y, g
  <2>2. y.iter + 1 \in Nat \ {0}
    BY <2>1 DEF Files
  <2>3. g \in Files /\ AuxIsLast(g) /\ g.announced = FALSE /\ g.open = y.open
    BY <2>1, <2>2 DEF Files, AuxIsLast
  <2> QED
    BY <2>3 DEF y
<1> HIDE DEF g
<1>7. FileKept(file', tree', items')
  <2>1. file.iter \in 1 .. Len(items) /\ ReadableItems(items)
    BY <1>1 DEF FileKept
  <2>2. CASE file' = x.f
    BY <1>2, <1>4, <1>5, <2>1, <2>2 DEF FileKept
  <2>3. CASE file' = g
    BY <1>2, <1>4, <1>5, <1>6, <2>1, <2>3 DEF FileKept
  <2> QED
    BY <1>2, <2>2, <2>3
<1>8. StreamsAgree(tree', events')
  BY <1>1, <1>2, <1>4 DEF StreamsAgree
<1> QED
  BY <1>1, <1>2, <1>7, <1>8, InvariantStep

LEMMA ReadEventKeeps ==
  ASSUME FileInv, NEW s \in Streams, ReadEvent(s)
  PROVE  FileInv'
<1>1. /\ job \in Jobs /\ FileKept(file, tree, items) /\ StreamsAgree(tree, events)
      /\ file \in Files /\ AuxIsLast(file) /\ GoodTree(tree) /\ tree.entries = N /\ ReadableItems(items)
      /\ file.announced => file.iter \in 1 .. Len(items)
  BY DEF FileInv, FileKept
<1> DEFINE e == items[file.iter].entry
           x == FillEventAuxiliary([f |-> file, t |-> tree], e)
           f == [x.f EXCEPT !.shifts = @ + 1]
           t == GetEntry(x.t, "Lists")
           u == InsertEntryForIndex(t, s)
           g == [f EXCEPT !.iter = @ + 1, !.announced = FALSE]
           got == [events EXCEPT ![s] = [event |-> e, aux |-> f.aux]]
           why == "checkRunConsistency"
<1>2. /\ job' = job /\ index' = index /\ items' = items /\ failing' = FALSE /\ tree' = u
      /\ file.open /\ file.announced /\ items[file.iter].type = "event" /\ events[s].event = -1
      /\ \/ file' = g /\ events' = got
         \/ file' = Fail(f, why) /\ events' = events
  BY DEF ReadEvent, At, Running, Here
<1>3. e \in 0 .. N - 1 /\ e \in Int
  BY <1>1, <1>2 DEF ReadableItems
<1> HIDE DEF e
<1>4. /\ x.f \in Files /\ AuxIsLast(x.f) /\ SameFile(file, x.f)
      /\ GoodTree(x.t) /\ x.t.entries = N /\ x.t.forIndex = tree.forIndex
      /\ x.f.aux = e /\ x.t.entry = e
  BY <1>1, <1>3, FillEventAuxiliaryReads
<1> HIDE DEF x
<1>5. f \in Files /\ AuxIsLast(f) /\ SameFile(file, f) /\ f.aux = e
  <2>1. f \in Files /\ AuxIsLast(f) /\ SameFile(x.f, f) /\ f.aux = x.f.aux
    BY <1>4 DEF Files, AuxIsLast, SameFile
  <2> HIDE DEF f
  <2> QED
    BY <1>4, <2>1 DEF SameFile
<1> HIDE DEF f
<1>6. GoodTree(t) /\ t.entry = e /\ t.entries = N /\ t.forIndex = tree.forIndex
  <2>1. "Lists" \in Branches
    BY DEF Branches
  <2> DEFINE v == x.t
  <2>2. GoodTree(v)
    BY <1>4
  <2>3. GoodTree(t) /\ SameTree(v, t, v.entry)
    BY <2>1, <2>2, GetEntryGood
  <2> HIDE DEF t
  <2> QED
    BY <1>4, <2>3 DEF SameTree
<1> HIDE DEF t
<1>7. /\ GoodTree(u) /\ u.entries = N /\ u.forIndex[s] = e
      /\ \A r \in Streams \ {s} : u.forIndex[r] = tree.forIndex[r]
  BY <1>6, InsertEntryForIndexGood
<1> HIDE DEF u
<1>8. g \in Files /\ AuxIsLast(g) /\ g.announced = FALSE /\ g.open
  <2>1. g \in Files /\ AuxIsLast(g) /\ g.announced = FALSE /\ g.open = f.open
    <3>1. f.iter + 1 \in Nat \ {0}
      BY <1>5 DEF Files
    <3> QED
      BY <1>5, <3>1 DEF Files, AuxIsLast
  <2> HIDE DEF g
  <2> QED
    BY <1>2, <1>5, <2>1 DEF SameFile
<1>9. Fail(f, why) \in Files /\ AuxIsLast(Fail(f, why)) /\ SameFile(file, Fail(f, why))
  <2>1. why \in Failures
    BY DEF Failures
  <2>2. CASE f.failed = ""
    <3> DEFINE h == [f EXCEPT !.failed = why]
    <3>1. Fail(f, why) = h
      BY <2>2 DEF Fail
    <3>2. h \in Files /\ AuxIsLast(h) /\ SameFile(f, h)
      BY <1>5, <2>1 DEF Files, AuxIsLast, SameFile
    <3> HIDE DEF h
    <3> QED
      BY <1>5, <3>1, <3>2 DEF SameFile
  <2>3. CASE f.failed # ""
    BY <1>5, <2>3 DEF Fail
  <2> QED
    BY <2>2, <2>3
<1> HIDE DEF g, why
<1>10. FileKept(file', tree', items')
  <2>1. CASE file' = g
    BY <1>1, <1>2, <1>7, <1>8, <2>1 DEF FileKept
  <2>2. CASE file' = Fail(f, why)
    <3> DEFINE h == Fail(f, why)
    <3>1. h.open /\ h.iter = file.iter
      BY <1>2, <1>9 DEF SameFile
    <3> HIDE DEF h
    <3> QED
      BY <1>1, <1>2, <1>7, <1>9, <2>2, <3>1 DEF FileKept, h
  <2> QED
    BY <1>2, <2>1, <2>2
<1>11. StreamsAgree(u, events)
  BY <1>1, <1>2, <1>7 DEF StreamsAgree
<1>12. StreamsAgree(u, got)
  <2>1. got \in [Streams -> [event : Int, aux : Int]]
    BY <1>1, <1>3, <1>5 DEF StreamsAgree
  <2>2. got[s].event = e /\ got[s].aux = e /\ \A r \in Streams \ {s} : got[r] = events[r]
    BY <1>1, <1>5 DEF StreamsAgree
  <2> HIDE DEF got
  <2> QED
    BY <1>3, <1>7, <1>11, <2>1, <2>2 DEF StreamsAgree
<1>13. StreamsAgree(tree', events')
  BY <1>2, <1>11, <1>12
<1>14. failing' \in BOOLEAN /\ (failing' => Unreadable)
  BY <1>2
<1> QED
  BY <1>2, <1>10, <1>13, <1>14, InvariantStep

LEMMA GetProductKeeps ==
  ASSUME FileInv, NEW s \in Streams, NEW product \in Products, GetProduct(s, product)
  PROVE  FileInv'
<1>1. /\ job \in Jobs /\ FileKept(file, tree, items) /\ StreamsAgree(tree, events)
      /\ failing \in BOOLEAN /\ (failing => Unreadable) /\ GoodTree(tree)
  BY DEF FileInv, FileKept
<1>2. /\ job' = job /\ index' = index /\ items' = items /\ file' = file /\ events' = events
      /\ file.open /\ events[s].event # -1 /\ failing' = Throws(s, product)
      /\ tree' = IF failing THEN tree ELSE GetEntry(tree, product)
  BY DEF GetProduct, Running
<1>3. GoodTree(tree') /\ tree'.entries = tree.entries /\ tree'.forIndex = tree.forIndex
  <2>1. product \in Branches
    BY DEF Branches
  <2>2. GoodTree(GetEntry(tree, product)) /\ SameTree(tree, GetEntry(tree, product), tree.entry)
    BY <1>1, <2>1, GetEntryGood
  <2> QED
    BY <1>1, <1>2, <2>2 DEF SameTree
<1>4. FileKept(file', tree', items')
  BY <1>1, <1>2, <1>3 DEF FileKept
<1>5. StreamsAgree(tree', events')
  BY <1>1, <1>2, <1>3 DEF StreamsAgree
<1>6. failing' \in BOOLEAN /\ (failing' => Unreadable)
  <2>1. Throws(s, product) \in BOOLEAN
    BY DEF Throws
  <2>2. ASSUME <<product, EntryNumberForIndex(s)>> \in job.bad PROVE Unreadable
    <3>1. EntryNumberForIndex(s) \in 0 .. N - 1
      BY <1>1, <1>2 DEF StreamsAgree, EntryNumberForIndex
    <3> QED
      BY <2>2, <3>1 DEF Unreadable
  <2> QED
    BY <1>1, <1>2, <2>1, <2>2 DEF Throws
<1> QED
  BY <1>2, <1>4, <1>5, <1>6, InvariantStep

LEMMA EndEventKeeps ==
  ASSUME FileInv, NEW s \in Streams, EndEvent(s)
  PROVE  FileInv'
<1>1. /\ FileKept(file, tree, items) /\ StreamsAgree(tree, events)
      /\ failing \in BOOLEAN /\ (failing => Unreadable)
  BY DEF FileInv
<1>2. /\ job' = job /\ index' = index /\ items' = items /\ file' = file /\ tree' = tree /\ failing' = failing
      /\ events' = [events EXCEPT ![s] = [event |-> -1, aux |-> -1]]
  BY DEF EndEvent
<1>3. StreamsAgree(tree, events')
  <2>1. events' \in [Streams -> [event : Int, aux : Int]]
    BY <1>1, <1>2 DEF StreamsAgree
  <2>2. events'[s].event = -1 /\ \A r \in Streams \ {s} : events'[r] = events[r]
    BY <1>1, <1>2 DEF StreamsAgree
  <2> QED
    BY <1>1, <2>1, <2>2 DEF StreamsAgree
<1> QED
  BY <1>1, <1>2, <1>3, InvariantStep

LEMMA JumpKeeps ==
  ASSUME FileInv, NEW i \in DOMAIN items, NEW t, GoodTree(t), t.entries = N, t.forIndex = tree.forIndex,
         NEW numbers \in BOOLEAN, JumpTo(i, t, numbers)
  PROVE  FileInv'
<1>1. /\ FileKept(file, tree, items) /\ StreamsAgree(tree, events)
      /\ failing \in BOOLEAN /\ (failing => Unreadable) /\ file \in Files /\ AuxIsLast(file) /\ ReadableItems(items)
  BY DEF FileInv, FileKept
<1> DEFINE f == [file EXCEPT !.iter = i, !.checking = FALSE, !.seen = {}, !.numbers = numbers]
<1>2. /\ job' = job /\ index' = index /\ items' = items /\ failing' = failing /\ events' = events
      /\ file' = f /\ tree' = t /\ file.open /\ ~file.announced
  BY DEF JumpTo, Running
<1>3. i \in Nat \ {0}
  <2>1. items \in Seq(ItemRecords)
    BY <1>1 DEF ReadableItems
  <2>2. i \in 1 .. Len(items)
    BY <2>1
  <2> QED
    BY <2>2
<1>4. f \in Files /\ AuxIsLast(f) /\ f.announced = file.announced /\ f.open = file.open
  BY <1>1, <1>3 DEF Files, AuxIsLast
<1> HIDE DEF f
<1>5. FileKept(file', tree', items')
  BY <1>1, <1>2, <1>4 DEF FileKept
<1>6. StreamsAgree(tree', events')
  BY <1>1, <1>2 DEF StreamsAgree
<1> QED
  BY <1>1, <1>2, <1>5, <1>6, InvariantStep

LEMMA NextKeeps == FileInv /\ [Next]_vars => FileInv'
<1> SUFFICES ASSUME FileInv, [Next]_vars PROVE FileInv'
  OBVIOUS
<1>1. GoodTree(tree) /\ tree.entries = N /\ file \in Files /\ FileKept(file, tree, items)
  BY DEF FileInv, FileKept
<1>2. CASE Open
  BY <1>2, OpenKeeps
<1>3. CASE GetNextItemType
  BY <1>3, AnnounceKeeps
<1>4. CASE ReadRun
  <2>1. file.open /\ file.announced
    BY <1>4 DEF ReadRun, At, Running
  <2>2. PICK holds : ReadItem(holds)
    BY <1>4 DEF ReadRun
  <2> QED
    BY <2>1, <2>2, ReadItemKeeps
<1>5. CASE ReadLuminosityBlock
  <2>1. file.open /\ file.announced
    BY <1>5 DEF ReadLuminosityBlock, At, Running
  <2>2. PICK holds : ReadItem(holds)
    BY <1>5 DEF ReadLuminosityBlock
  <2> QED
    BY <2>1, <2>2, ReadItemKeeps
<1>6. ASSUME NEW s \in Streams, ReadEvent(s) \/ EndEvent(s) PROVE FileInv'
  BY <1>6, ReadEventKeeps, EndEventKeeps
<1>7. ASSUME NEW s \in Streams, NEW product \in Products, GetProduct(s, product) PROVE FileInv'
  BY <1>7, GetProductKeeps
<1>8. ASSUME NEW i \in DOMAIN items, SkipBack(i) PROVE FileInv'
  <2>1. JumpTo(i, tree, file.numbers) /\ file.numbers \in BOOLEAN
    BY <1>1, <1>8 DEF SkipBack, Files
  <2> QED
    BY <1>1, <2>1, JumpKeeps
<1>9. ASSUME NEW i \in DOMAIN items, GoToEvent(i) PROVE FileInv'
  <2> DEFINE t == IF file.numbers THEN tree ELSE FindEventNumbers(tree)
  <2>1. JumpTo(i, t, TRUE)
    BY <1>9 DEF GoToEvent
  <2>2. GoodTree(FindEventNumbers(tree)) /\ SameTree(tree, FindEventNumbers(tree), tree.entry)
    BY <1>1, FindEventNumbersGood
  <2>3. GoodTree(t) /\ t.entries = N /\ t.forIndex = tree.forIndex
    BY <1>1, <2>2 DEF SameTree
  <2> HIDE DEF t
  <2> QED
    BY <2>1, <2>3, JumpKeeps
<1>10. CASE UNCHANGED vars
  BY <1>10, InvariantStep DEF vars, FileInv
<1>11. Finished => UNCHANGED vars
  BY DEF Finished
<1> QED
  BY <1>2, <1>3, <1>4, <1>5, <1>6, <1>7, <1>8, <1>9, <1>10, <1>11 DEF Next

\* What an opened file does: the tree and its caches are in order, the items can
\* be read, and what the streams were given is of their events.
THEOREM FileInvariant == Spec => []FileInv
BY Initially, NextKeeps, PTL DEF Spec

\* Wherever the source moves the event tree, a stream gets the products of its
\* own event, with the auxiliary of that event, and the caches follow the training.
THEOREM StreamsRead == Spec => []StreamsReadTheirEvents
<1>1. FileInv => StreamsReadTheirEvents
  <2> SUFFICES ASSUME FileInv PROVE StreamsReadTheirEvents
    OBVIOUS
  <2>1. StreamsAgree(tree, events) /\ (failing => Unreadable) /\ GoodTree(tree)
    BY DEF FileInv, FileKept
  <2>2. CacheFollowsTraining
    BY <2>1 DEF CacheFollowsTraining, GoodTree
  <2>3. ASSUME NEW s \in Streams, events[s].event # -1
        PROVE  /\ EntryNumberForIndex(s) = events[s].event /\ events[s].aux = events[s].event
               /\ \A p \in Products : Throws(s, p) => Unreadable
    <3>1. events[s].event \in 0 .. N - 1 /\ EntryNumberForIndex(s) = events[s].event /\ events[s].aux = events[s].event
      BY <2>1, <2>3 DEF StreamsAgree, EntryNumberForIndex
    <3>2. ASSUME NEW p \in Products, <<p, EntryNumberForIndex(s)>> \in job.bad PROVE Unreadable
      BY <3>1, <3>2 DEF Unreadable
    <3> QED
      BY <2>1, <3>1, <3>2 DEF Throws
  <2>4. EntriesAgree
    BY <2>3 DEF EntriesAgree, Unreadable
  <2> QED
    BY <2>2, <2>4 DEF StreamsReadTheirEvents
<1> QED
  BY <1>1, FileInvariant, PTL

\* The index made of the trees of an old file names every event, run and block
\* once, at its entry, and a run before its blocks.
THEOREM IndexIsRebuilt == Spec => []RebuiltIndex
<1>1. FileInv => RebuiltIndex
  BY DEF FileInv
<1> QED
  BY <1>1, FileInvariant, PTL

-----------------------------------------------------------------------------
(* Fast cloning.                                                              *)

\* The events are listed in the order of their entries.
EventsAscend(list) ==
  \A i, j \in 1 .. Len(list) :
    i < j /\ list[i].type = "event" /\ list[j].type = "event" => list[i].entry < list[j].entry

Unfailed(f) == f.failed = ""

\* The output may copy the trees of the file, and the source has not jumped.
Copied == file.open /\ Unfailed(file) /\ file.whyNot = {} /\ jumps = 0

\* Nothing is passed over, and what was given is what lies before the position.
CopyInv ==
  /\ jumps \in Nat /\ (~file.open => given = <<>>)
  /\ Copied =>
       /\ job.skip = {} /\ file.checking = FALSE
       /\ N > 0 /\ (job.maxEvents < 0 \/ N <= job.maxEvents)
       /\ EventsAscend(items) /\ \A e \in 0 .. N - 1 : HasEvent(items, e)
       /\ given \in Seq(Nat) /\ Len(given) <= N /\ \A n \in 1 .. Len(given) : given[n] = n - 1
       /\ \A i \in 1 .. Len(items) :
            items[i].type = "event" => (i < file.iter <=> items[i].entry < Len(given))

\* A part of a sequence is picked in its order.
PickedBy(list, at, order) ==
  /\ Pick(list, at) = [k \in 1 .. Len(order) |-> list[order[k]]]
  /\ Len(order) \in Nat /\ Len(Pick(list, at)) = Len(order)
  /\ \A x \in at : \E k \in 1 .. Len(order) : order[k] = x
  /\ \A k, l \in 1 .. Len(order) : k < l => order[k] < order[l]

LEMMA PickInOrder ==
  ASSUME NEW T, NEW list \in Seq(T), NEW at, at \subseteq 1 .. Len(list)
  PROVE  \E order \in Seq(at) : PickedBy(list, at, order)
<1> DEFINE key == [k \in at |-> <<k>>]
           order == Ordered(at, key)
           r == [k \in 1 .. Len(order) |-> list[order[k]]]
<1>1. IsFiniteSet(at)
  <2>1. IsFiniteSet(1 .. Len(list)) /\ at \in SUBSET (1 .. Len(list))
    BY FS_Interval
  <2> QED
    BY <2>1, FS_Subset
<1>2. Keyed(at, key, 1)
  <2>1. \A k \in at : <<k>> \in Tuples(1)
    BY DEF Tuples
  <2>2. \A k, l \in at : <<k>> = <<l>> => k = l
    OBVIOUS
  <2> QED
    BY <2>1, <2>2 DEF Keyed
<1>3. /\ order \in Seq(at) /\ Len(order) \in Nat
      /\ \A x \in at : \E k \in 1 .. Len(order) : order[k] = x
      /\ \A k, l \in 1 .. Len(order) : k < l => Before(key[order[k]], key[order[l]])
  <2> HIDE DEF key
  <2> QED
    BY <1>1, <1>2, OrderedLists
<1>4. Pick(list, at) = <<>> \o [k \in DOMAIN order |-> list[order[k]]]
  BY Zenon DEF Pick
<1> HIDE DEF order
<1>5. DOMAIN order = 1 .. Len(order) /\ \A k \in 1 .. Len(order) : order[k] \in at
  BY <1>3
<1>6. r \in Seq(T) /\ Len(r) = Len(order) /\ <<>> \o r = r
  <2>1. \A k \in 1 .. Len(order) : list[order[k]] \in T
    BY <1>5, RangeOf
  <2>2. r \in [1 .. Len(order) -> T]
    BY <2>1
  <2> HIDE DEF r
  <2> QED
    BY <1>3, <2>2, SeqOfFunction
<1>7. Pick(list, at) = r
  BY <1>4, <1>5, <1>6
<1>8. ASSUME NEW k \in 1 .. Len(order), NEW l \in 1 .. Len(order), k < l PROVE order[k] < order[l]
  <2>1. Before(<<order[k]>>, <<order[l]>>)
    BY <1>3, <1>5, <1>8
  <2> QED
    BY <2>1 DEF Before
<1> QED
  BY <1>3, <1>6, <1>7, <1>8 DEF PickedBy

\* The order of the iteration, as setIfFastClonable looks at it.
LEMMA EntryOrder ==
  ASSUME NEW list, ReadableItems(list), IterationWillBeInEntryOrder(list)
  PROVE  EventsAscend(list)
<1> DEFINE at == {k \in DOMAIN list : list[k].type = "event"}
           p == Pick(list, at)
<1>1. list \in Seq(ItemRecords) /\ DOMAIN list = 1 .. Len(list) /\ at \subseteq 1 .. Len(list)
  BY DEF ReadableItems
<1>2. \A k \in 1 .. Len(p) - 1 : p[k].entry < p[k + 1].entry
  BY Zenon DEF IterationWillBeInEntryOrder
<1>3. \A i \in 1 .. Len(list) : i \in at <=> list[i].type = "event"
  BY <1>1
<1>4. \A i \in at : list[i].entry \in Int
  BY <1>1, <1>3 DEF ReadableItems
<1> HIDE DEF at
<1> PICK order \in Seq(at) : PickedBy(list, at, order)
  BY <1>1, PickInOrder
<1>5. /\ p = [k \in 1 .. Len(order) |-> list[order[k]]]
      /\ Len(order) \in Nat /\ Len(p) = Len(order)
      /\ \A x \in at : \E k \in 1 .. Len(order) : order[k] = x
      /\ \A k, l \in 1 .. Len(order) : k < l => order[k] < order[l]
  BY DEF PickedBy
<1> HIDE DEF p
<1> DEFINE size == Len(order)
<1>6. size \in Nat /\ \A k \in 1 .. size : order[k] \in at /\ p[k] = list[order[k]] /\ p[k].entry \in Int
  BY <1>4, <1>5
<1>7. ASSUME NEW k \in 1 .. size, NEW l \in 1 .. size, k < l PROVE p[k].entry < p[l].entry
  <2> DEFINE M == size - k
             A == {n \in 0 .. M : n = 0 \/ p[k].entry < p[k + n].entry}
  <2>1. M \in Nat /\ 0 \in A
    BY <1>6
  <2>2. ASSUME NEW n \in 1 .. M, n - 1 \in A PROVE n \in A
    <3>1. k + (n - 1) \in 1 .. size - 1 /\ k + n \in 1 .. size /\ k + (n - 1) + 1 = k + n
      BY <1>6
    <3>2. p[k + (n - 1)].entry < p[k + n].entry
      BY <1>2, <1>5, <3>1
    <3>3. n - 1 = 0 \/ p[k].entry < p[k + (n - 1)].entry
      BY <2>2
    <3>4. p[k].entry \in Int /\ p[k + n].entry \in Int /\ p[k + (n - 1)].entry \in Int
      BY <1>6, <3>1
    <3>5. p[k].entry < p[k + n].entry
      <4>1. CASE n - 1 = 0
        <5>1. k + (n - 1) = k
          BY <4>1
        <5> QED
          BY <3>2, <5>1
      <4>2. CASE p[k].entry < p[k + (n - 1)].entry
        BY <3>2, <3>4, <4>2
      <4> QED
        BY <3>3, <4>1, <4>2
    <3> QED
      BY <3>5
  <2> HIDE DEF A, M
  <2>3. \A n \in 0 .. M : n \in A
    BY <2>1, <2>2, CountUp
  <2>4. l - k \in 0 .. M /\ l - k # 0 /\ k + (l - k) = l
    BY <1>6, <1>7 DEF M
  <2> QED
    BY <2>3, <2>4 DEF A
<1>8. ASSUME NEW i \in 1 .. Len(list), NEW j \in 1 .. Len(list), i < j, i \in at, j \in at
      PROVE  list[i].entry < list[j].entry
  <2>1. PICK k \in 1 .. size : order[k] = i
    BY <1>5, <1>8
  <2>2. PICK l \in 1 .. size : order[l] = j
    BY <1>5, <1>8
  <2>3. ~(l < k) /\ l # k
    BY <1>5, <1>8, <2>1, <2>2
  <2>4. k < l
    BY <1>6, <2>3
  <2> QED
    BY <1>6, <1>7, <2>1, <2>2, <2>4
<1> QED
  BY <1>3, <1>8 DEF EventsAscend

LEMMA NothingSpeaksAgainst ==
  ASSUME NEW list, WhyNotFastClonable(list) = {}
  PROVE  /\ job.skip = {} /\ N # 0 /\ IterationWillBeInEntryOrder(list)
         /\ ~(job.maxEvents >= 0 /\ N > job.maxEvents) /\ ~(job.check /\ ~NoDuplicatesInFile)
<1>1. ASSUME job.skip # {} PROVE FALSE
  <2>1. "EventsOrLumisSelectedByID" \in WhyNotFastClonable(list)
    BY <1>1 DEF WhyNotFastClonable
  <2> QED
    BY <2>1
<1>2. ASSUME N = 0 PROVE FALSE
  <2>1. "NoEventsInFile" \in WhyNotFastClonable(list)
    BY <1>2 DEF WhyNotFastClonable
  <2> QED
    BY <2>1
<1>3. ASSUME ~IterationWillBeInEntryOrder(list) PROVE FALSE
  <2>1. "EventsToBeSorted" \in WhyNotFastClonable(list)
    BY <1>2, <1>3 DEF WhyNotFastClonable
  <2> QED
    BY <2>1
<1>4. ASSUME job.maxEvents >= 0, N > job.maxEvents PROVE FALSE
  <2>1. "MaxEventsTooSmall" \in WhyNotFastClonable(list)
    BY <1>2, <1>4 DEF WhyNotFastClonable
  <2> QED
    BY <2>1
<1>5. ASSUME job.check, ~NoDuplicatesInFile PROVE FALSE
  <2>1. "DuplicateEventsRemoved" \in WhyNotFastClonable(list)
    BY <1>2, <1>5 DEF WhyNotFastClonable
  <2> QED
    BY <2>1
<1> QED
  BY <1>1, <1>2, <1>3, <1>4, <1>5

\* A file whose checks fail is not used.
LEMMA ChecksHold ==
  ASSUME NEW f \in Files, NEW holds, NEW why, why # "", Unfailed(Check(f, holds, why))
  PROVE  holds /\ Unfailed(f)
<1>1. ASSUME ~holds, Unfailed(f) PROVE FALSE
  <2>1. Check(f, holds, why) = [f EXCEPT !.failed = why]
    BY <1>1 DEF Check, Fail, Unfailed
  <2> QED
    BY <2>1 DEF Files, Unfailed
<1>2. ASSUME ~Unfailed(f) PROVE FALSE
  BY <1>2 DEF Check, Fail, Unfailed
<1> QED
  BY <1>1, <1>2

\* Without events to skip and without duplicates the iteration does not move on.
LEMMA NothingIsPassedOver ==
  ASSUME FileKept(file, tree, items), job.skip = {}, ~file.checking
  PROVE  NextItem = IF file.iter <= Len(items) THEN file.iter ELSE Len(items) + 1
<1> DEFINE A == {i \in file.iter .. Len(items) : ~PassedOver(i)}
<1>1. file.iter \in Nat /\ Len(items) \in Nat
  <2>1. items \in Seq(ItemRecords)
    BY DEF FileKept, ReadableItems
  <2>2. file.iter \in Nat
    BY DEF FileKept, Files
  <2> QED
    BY <2>1, <2>2
<1>2. A = file.iter .. Len(items)
  BY DEF PassedOver
<1>3. NextItem = First(A, Len(items) + 1)
  BY DEF NextItem
<1> HIDE DEF A
<1>4. CASE file.iter > Len(items)
  <2>1. A = {}
    BY <1>1, <1>2, <1>4
  <2> QED
    BY <1>1, <1>3, <1>4, <2>1 DEF First
<1>5. CASE file.iter <= Len(items)
  <2>1. file.iter \in A /\ A \subseteq Nat /\ \A i \in A : file.iter <= i
    BY <1>1, <1>2, <1>5
  <2>2. Min(A) \in A /\ \A i \in A : Min(A) <= i
    BY <2>1, LeastIsMin
  <2>3. Min(A) = file.iter
    BY <1>1, <2>1, <2>2
  <2> QED
    BY <1>3, <1>5, <2>1, <2>3 DEF First
<1> QED
  BY <1>1, <1>4, <1>5

\* A step that gives no event and moves over none.
LEMMA CopyStep ==
  ASSUME CopyInv, job' = job, items' = items, jumps' = jumps, given' = given, file.open, file'.open,
         Unfailed(file') => Unfailed(file),
         file'.whyNot = file.whyNot, file'.checking = file.checking,
         Copied' => \A i \in 1 .. Len(items) : items[i].type = "event" => (i < file'.iter <=> i < file.iter)
  PROVE  CopyInv'
<1>1. N' = N
  BY DEF N
<1>2. Copied' => Copied
  BY Zenon DEF Copied, Unfailed
<1> QED
  BY <1>1, <1>2 DEF CopyInv, EventsAscend, HasEvent

LEMMA OpenCopies == FileInv /\ CopyInv /\ Open => CopyInv'
<1> SUFFICES ASSUME FileInv, CopyInv, Open PROVE CopyInv'
  OBVIOUS
<1>1. job \in Jobs /\ FileKept(file, tree, items) /\ jumps \in Nat /\ given = <<>>
  BY DEF FileInv, CopyInv, Open
<1>2. ~file.open /\ job' = job /\ given' = given /\ jumps' = jumps /\ N' = N
  BY DEF Open, N
<1> SUFFICES ASSUME Copied'
             PROVE  /\ job.skip = {} /\ file'.checking = FALSE
                    /\ N > 0 /\ (job.maxEvents < 0 \/ N <= job.maxEvents)
                    /\ EventsAscend(items') /\ \A e \in 0 .. N - 1 : HasEvent(items', e)
                    /\ \A i \in 1 .. Len(items') : items'[i].type = "event" => ~(i < file'.iter) /\ items'[i].entry >= 0
  <2>1. given' = <<>> /\ Len(given') = 0 /\ given' \in Seq(Nat) /\ N \in Nat
    BY <1>1, <1>2, JobTypes
  <2>2. ASSUME EventsAscend(items') PROVE EventsAscend(items)'
    BY <2>2 DEF EventsAscend
  <2>3. ASSUME NEW e \in 0 .. N - 1, HasEvent(items', e) PROVE HasEvent(items, e)'
    BY <2>3 DEF HasEvent
  <2>4. ReadableItems(items)'
    BY OpenKeeps DEF FileInv, FileKept
  <2>5. ASSUME NEW i \in 1 .. Len(items'), items'[i].type = "event" PROVE items'[i].entry \in Int
    BY <1>2, <2>4, <2>5 DEF ReadableItems
  <2>6. Len(given') <= N /\ \A n \in 1 .. Len(given') : given'[n] = n - 1
    BY <2>1
  <2>7. ASSUME Copied',
               \A i \in 1 .. Len(items') : items'[i].type = "event" => ~(i < file'.iter) /\ items'[i].entry >= 0
        PROVE  \A i \in 1 .. Len(items') : items'[i].type = "event" => (i < file'.iter <=> items'[i].entry < Len(given'))
    BY <2>1, <2>5, <2>7
  <2> QED
    BY <1>1, <1>2, <2>1, <2>2, <2>3, <2>6, <2>7, Zenon DEF CopyInv
<1> DEFINE trained == TrainCache(tree, "Aux")
           x == InitializeDuplicateChecker([f |-> Constructed, t |-> trained])
<1>3. PICK entries \in {IF ~job.old THEN job.index ELSE IF LumisHaveRuns THEN FillIndexIntoFile ELSE <<>>} :
        Opened(entries, ItemsInOrder(entries), x)
  BY Zenon DEF Open
<1> DEFINE list == ItemsInOrder(entries)
<1>4. GoodTree(trained) /\ Untrained(trained) /\ ~trained.trainNow /\ trained.entries = N
  <2>1. GoodTree(tree) /\ Untrained(tree) /\ ~tree.trainNow /\ tree.entries = N
    BY <1>1, <1>2 DEF FileKept
  <2> QED
    BY <2>1, TrainCacheGood
<1>5. /\ Constructed \in Files /\ AuxIsLast(Constructed) /\ Constructed.iter = 1
      /\ Constructed.checking = (job.check /\ ~NoDuplicatesInFile)
  <2> DEFINE checking == job.check /\ ~NoDuplicatesInFile
             seen == IF checking THEN job.before ELSE {}
             numbers == job.old \/ job.check
  <2>1. checking \in BOOLEAN /\ numbers \in BOOLEAN /\ seen \in SUBSET Keys
    BY DEF Keys
  <2>2. Constructed = [NotOpened EXCEPT !.open = TRUE, !.numbers = numbers, !.checking = checking, !.seen = seen]
    BY DEF Constructed
  <2> HIDE DEF checking, seen, numbers
  <2>3. NotOpened \in Files /\ NotOpened.lastRead = -1 /\ NotOpened.iter = 1
    BY DEF NotOpened, Files, Failures
  <2>4. Constructed \in Files /\ AuxIsLast(Constructed) /\ Constructed.iter = 1 /\ Constructed.checking = checking
    BY <2>1, <2>2, <2>3 DEF Files, AuxIsLast
  <2> QED
    BY <2>4 DEF checking
<1> HIDE DEF trained
<1>6. x.f \in Files /\ SameFile(Constructed, x.f)
  BY <1>1, <1>4, <1>5, DuplicateCheckerInitialized
<1> HIDE DEF x
<1> DEFINE f1 == Check(x.f, job.old => LumisHaveRuns, "assert")
           f2 == Check(f1, RunOffset(list) >= 0, "Configuration")
           f3 == [f2 EXCEPT !.whyNot = WhyNotFastClonable(list)]
<1>7. f1 \in Files /\ SameFile(x.f, f1)
  <2>1. "assert" \in Failures
    BY DEF Failures
  <2> QED
    BY <1>6, <2>1, CheckedFile
<1>8. Unfailed(f1) => (job.old => LumisHaveRuns)
  BY <1>6, ChecksHold
<1> HIDE DEF f1
<1>9. f2 \in Files /\ SameFile(f1, f2)
  <2>1. "Configuration" \in Failures
    BY DEF Failures
  <2> QED
    BY <1>7, <2>1, CheckedFile
<1>10. Unfailed(f2) => Unfailed(f1)
  BY <1>7, ChecksHold
<1> HIDE DEF f2
<1>11. f3.whyNot = WhyNotFastClonable(list) /\ f3.failed = f2.failed /\ f3.iter = f2.iter /\ f3.checking = f2.checking
  <2> DEFINE why == WhyNotFastClonable(list)
  <2>1. f3 = [f2 EXCEPT !.whyNot = why]
    OBVIOUS
  <2> HIDE DEF why, f3
  <2>2. f3.whyNot = why /\ f3.failed = f2.failed /\ f3.iter = f2.iter /\ f3.checking = f2.checking
    BY <1>9, <2>1 DEF Files
  <2> QED
    BY <2>2 DEF why
<1> HIDE DEF f3
<1>12. items' = list /\ file' = f3
  BY <1>3, Zenon DEF Opened, f1, f2, f3
<1>13. WhyNotFastClonable(list) = {} /\ (job.old => LumisHaveRuns)
  <2>1. Unfailed(f2) /\ f3.whyNot = {}
    BY <1>11, <1>12, Zenon DEF Copied, Unfailed
  <2> QED
    BY <1>8, <1>10, <1>11, <2>1
<1>14. /\ job.skip = {} /\ N # 0 /\ IterationWillBeInEntryOrder(list)
       /\ ~(job.maxEvents >= 0 /\ N > job.maxEvents) /\ ~(job.check /\ ~NoDuplicatesInFile)
  BY <1>13, NothingSpeaksAgainst
<1>15. N > 0 /\ (job.maxEvents < 0 \/ N <= job.maxEvents)
  <2>1. N \in Nat /\ job.maxEvents \in Int
    BY <1>1, JobTypes
  <2> QED
    BY <1>14, <2>1
<1>16. file'.iter = 1 /\ file'.checking = FALSE
  BY <1>5, <1>6, <1>7, <1>9, <1>11, <1>12, <1>14 DEF SameFile
<1>17. /\ entries \in Seq(Entries) /\ \A k \in 1 .. Len(entries) : Span(entries[k]) \subseteq 0 .. N - 1
       /\ \A e \in 0 .. N - 1 : \E k \in 1 .. Len(entries) : e \in Span(entries[k])
  <2>1. CASE ~job.old
    <3>1. entries = job.index
      BY <2>1
    <3>2. \A e \in 0 .. N - 1 : \E k \in 1 .. Len(job.index) : e \in Span(job.index[k])
      BY <1>1, <2>1, JobsAssumption, Zenon DEF Span, N
    <3> QED
      BY <1>1, <3>1, <3>2, JobTypes
  <2>2. CASE job.old
    <3>1. entries = FillIndexIntoFile
      BY <1>13, <2>2
    <3>2. /\ entries \in Seq(Entries) /\ IndexOfTrees(entries)
          /\ \A k \in 1 .. Len(entries) : Span(entries[k]) \subseteq 0 .. N - 1
      BY <1>1, <1>13, <2>2, <3>1, FilledIndexIsOfTrees
    <3>3. ASSUME NEW e \in 0 .. N - 1 PROVE \E k \in 1 .. Len(entries) : e \in Span(entries[k])
      <4> DEFINE K == {k \in DOMAIN entries : e \in entries[k].first .. entries[k].end - 1}
      <4>1. Cardinality(K) = 1
        BY <3>2 DEF IndexOfTrees
      <4>2. K # {}
        <5>1. ASSUME K = {} PROVE Cardinality({}) = 1
          BY <4>1, <5>1, Zenon
        <5>2. 0 # 1
          OBVIOUS
        <5> QED
          BY <5>1, <5>2, FS_EmptySet, Zenon
      <4>3. DOMAIN entries = 1 .. Len(entries)
        BY <3>2
      <4> QED
        BY <4>2, <4>3 DEF Span
    <3> QED
      BY <3>2, <3>3
  <2> QED
    BY <2>1, <2>2
<1>18. /\ ReadableItems(list)
       /\ \A k \in 1 .. Len(entries) : \A e \in Span(entries[k]) : HasEvent(list, e)
  BY <1>1, <1>17, ItemsInOrderReadable
<1>19. \A e \in 0 .. N - 1 : HasEvent(list, e)
  BY <1>17, <1>18
<1> HIDE DEF list
<1>20. EventsAscend(list)
  BY <1>14, <1>18, EntryOrder
<1>21. ASSUME NEW i \in 1 .. Len(list), list[i].type = "event" PROVE ~(i < 1) /\ list[i].entry >= 0
  BY <1>18, <1>21 DEF ReadableItems
<1> QED
  BY <1>12, <1>14, <1>15, <1>16, <1>19, <1>20, <1>21

LEMMA AnnounceCopies == FileInv /\ CopyInv /\ GetNextItemType => CopyInv'
<1> SUFFICES ASSUME FileInv, CopyInv, GetNextItemType PROVE CopyInv'
  OBVIOUS
<1>1. /\ job \in Jobs /\ FileKept(file, tree, items) /\ file \in Files /\ AuxIsLast(file)
      /\ GoodTree(tree) /\ tree.entries = N
  BY DEF FileInv, FileKept
<1>2. /\ job' = job /\ items' = items /\ jumps' = jumps /\ given' = given
      /\ file.open /\ Unfailed(file) /\ NextItem <= Len(items)
  BY Zenon DEF GetNextItemType, Running, Unfailed
<1>3. NextItem \in 1 .. Len(items) /\ items \in Seq(ItemRecords)
  <2>1. file.iter \in Nat \ {0} /\ items \in Seq(ItemRecords)
    BY <1>1 DEF FileKept, Files, ReadableItems
  <2>2. NextItem \in file.iter .. Len(items) \cup {Len(items) + 1} /\ Len(items) \in Nat
    BY <1>1, <2>1, NextItemIsAhead
  <2> QED
    BY <1>2, <2>1, <2>2
<1> DEFINE i == NextItem
           f == [file EXCEPT !.iter = i, !.announced = TRUE]
           seen == IF file.checking THEN file.seen \cup {EventKey(items[i].entry)} ELSE file.seen
           g == [f EXCEPT !.seen = seen]
           x == FillEventAuxiliary([f |-> g, t |-> tree], items[i].entry)
<1>4. /\ f \in Files /\ AuxIsLast(f) /\ f.iter = i /\ f.open = file.open /\ f.checking = file.checking
      /\ f.whyNot = file.whyNot /\ f.seen = file.seen
  <2>1. i \in Nat \ {0}
    BY <1>3
  <2> HIDE DEF i
  <2> QED
    BY <1>1, <2>1 DEF Files, AuxIsLast
<1>5. file'.iter = i /\ file'.open = file.open /\ file'.checking = file.checking /\ file'.whyNot = file.whyNot
  <2>1. CASE items[i].type # "event"
    <3>1. file' = f
      BY <2>1, Zenon DEF GetNextItemType
    <3> QED
      BY <1>4, <3>1
  <2>2. CASE items[i].type = "event"
    <3> DEFINE e == items[i].entry
    <3>1. e \in 0 .. N - 1 /\ e \in Int
      BY <1>1, <1>3, <2>2 DEF FileKept, ReadableItems
    <3>2. seen \in SUBSET Keys
      <4>1. file.seen \in SUBSET Keys
        BY <1>1 DEF Files
      <4>2. EventKey(e) \in Keys
        BY <3>1 DEF Keys
      <4> QED
        BY <4>1, <4>2
    <3>3. file' = x.f
      <4>1. [f EXCEPT !.seen = IF file.checking THEN @ \cup {EventKey(items[i].entry)} ELSE @] = g
        BY <1>4 DEF Files
      <4> HIDE DEF g
      <4> QED
        BY <2>2, <4>1, Zenon DEF GetNextItemType
    <3> HIDE DEF seen, f
    <3>4. /\ g \in Files /\ AuxIsLast(g) /\ g.iter = i /\ g.open = file.open /\ g.checking = file.checking
          /\ g.whyNot = file.whyNot
      BY <1>4, <3>2 DEF Files, AuxIsLast
    <3> HIDE DEF g, e
    <3>5. SameFile(g, x.f)
      <4>1. x = FillEventAuxiliary([f |-> g, t |-> tree], e)
        BY DEF e
      <4> QED
        BY <1>1, <3>1, <3>4, <4>1, FillEventAuxiliaryReads
    <3> HIDE DEF x, i
    <3> QED
      BY <3>3, <3>4, <3>5 DEF SameFile
  <2> QED
    BY <2>1, <2>2
<1> HIDE DEF i, f, g, x, seen
<1>6. ASSUME Copied' PROVE i = file.iter
  <2>1. Copied
    BY <1>2, <1>5, <1>6 DEF Copied
  <2>2. job.skip = {} /\ ~file.checking
    BY <2>1 DEF CopyInv
  <2>3. NextItem = IF file.iter <= Len(items) THEN file.iter ELSE Len(items) + 1
    BY <1>1, <2>2, NothingIsPassedOver
  <2>4. Len(items) \in Nat
    BY <1>3
  <2> QED
    BY <1>2, <2>3, <2>4 DEF i
<1> QED
  BY <1>2, <1>5, <1>6, CopyStep

LEMMA ReadItemCopies ==
  ASSUME FileInv, CopyInv, file.open, file.announced, Unfailed(file), items[file.iter].type # "event",
         NEW holds, ReadItem(holds)
  PROVE  CopyInv'
<1>1. /\ job \in Jobs /\ FileKept(file, tree, items)
      /\ file \in Files /\ AuxIsLast(file) /\ GoodTree(tree) /\ tree.entries = N
  BY DEF FileInv, FileKept
<1> DEFINE f == Check(file, holds, "assert")
           x == TimeOfFirstEvent(f)
           g == [x.f EXCEPT !.iter = @ + 1, !.announced = FALSE]
<1>2. /\ job' = job /\ items' = items /\ jumps' = jumps /\ given' = given
      /\ file' = IF Unfailed(x.f) THEN g ELSE x.f
  BY Zenon DEF ReadItem, Unfailed
<1>3. f \in Files /\ SameFile(file, f) /\ AuxIsLast(f)
  <2>1. "assert" \in Failures
    BY DEF Failures
  <2>2. f \in Files /\ SameFile(file, f) /\ f.aux = file.aux /\ f.lastRead = file.lastRead
    BY <1>1, <2>1, CheckedFile
  <2> QED
    BY <1>1, <2>2 DEF AuxIsLast
<1> HIDE DEF f
<1>4. x.f \in Files /\ SameFile(f, x.f)
  <2>1. CASE job.old
    <3> DEFINE e == FirstEvent(items, f.iter)
    <3>1. e \in Int
      BY <1>1, FirstEventIsEntry
    <3>2. x = FillEventAuxiliary([f |-> f, t |-> tree], e)
      BY <2>1 DEF TimeOfFirstEvent
    <3> HIDE DEF e, x
    <3> QED
      BY <1>1, <1>3, <3>1, <3>2, FillEventAuxiliaryReads
  <2>2. CASE ~job.old
    <3>1. x = [f |-> f, t |-> tree]
      BY <2>2 DEF TimeOfFirstEvent
    <3> HIDE DEF x
    <3>2. x.f = f
      BY <3>1
    <3> QED
      BY <1>3, <3>2 DEF SameFile
  <2> QED
    BY <2>1, <2>2
<1> HIDE DEF x
<1>5. SameFile(file, x.f)
  BY <1>3, <1>4 DEF SameFile
<1>6. /\ g.iter = file.iter + 1 /\ g.open = file.open /\ g.checking = file.checking /\ g.whyNot = file.whyNot
  <2> DEFINE y == x.f
  <2>1. y \in Files /\ SameFile(file, y) /\ g = [y EXCEPT !.iter = @ + 1, !.announced = FALSE]
    BY <1>4, <1>5
  <2> HIDE DEF y, g
  <2> QED
    BY <2>1 DEF Files, SameFile
<1> HIDE DEF g
<1>7. CASE Unfailed(x.f)
  <2>1. file' = g
    BY <1>2, <1>7
  <2>2. ASSUME NEW i \in 1 .. Len(items), items[i].type = "event" PROVE i < file.iter + 1 <=> i < file.iter
    <3>1. i # file.iter /\ file.iter \in Nat
      BY <1>1, <2>2 DEF Files
    <3> QED
      BY <3>1
  <2> QED
    BY <1>2, <1>6, <2>1, <2>2, CopyStep
<1>8. CASE ~Unfailed(x.f)
  <2>1. file' = x.f
    BY <1>2, <1>8
  <2>2. ~Copied'
    BY <1>8, <2>1 DEF Copied
  <2> QED
    BY <1>2, <1>5, <2>1, <2>2, CopyStep DEF SameFile
<1> QED
  BY <1>7, <1>8

LEMMA ReadEventCopies ==
  ASSUME FileInv, CopyInv, NEW s \in Streams, ReadEvent(s)
  PROVE  CopyInv'
<1>1. /\ job \in Jobs /\ file \in Files /\ AuxIsLast(file) /\ GoodTree(tree) /\ tree.entries = N /\ ReadableItems(items)
      /\ file.announced => file.iter \in 1 .. Len(items)
  BY DEF FileInv, FileKept
<1> DEFINE e == items[file.iter].entry
           x == FillEventAuxiliary([f |-> file, t |-> tree], e)
           f == [x.f EXCEPT !.shifts = @ + 1]
           g == [f EXCEPT !.iter = @ + 1, !.announced = FALSE]
           h == Fail(f, "checkRunConsistency")
<1>2. /\ job' = job /\ items' = items /\ jumps' = jumps /\ N' = N
      /\ file.open /\ Unfailed(file) /\ file.announced /\ items[file.iter].type = "event"
      /\ \/ file' = g /\ given' = IF jumps = 0 THEN Append(given, e) ELSE given
         \/ file' = h /\ given' = given
  BY Zenon DEF ReadEvent, At, Running, Here, N, Unfailed
<1>3. e \in 0 .. N - 1 /\ e \in Int /\ file.iter \in 1 .. Len(items) /\ file.iter \in Nat
  BY <1>1, <1>2 DEF ReadableItems, Files
<1> HIDE DEF e
<1>4. x.f \in Files /\ SameFile(file, x.f) /\ x.f.failed = file.failed
  BY <1>1, <1>3, FillEventAuxiliaryReads
<1> HIDE DEF x
<1>5. f \in Files /\ SameFile(file, f) /\ Unfailed(f)
  <2>1. f \in Files /\ SameFile(x.f, f) /\ f.failed = x.f.failed
    BY <1>4 DEF Files, SameFile
  <2> HIDE DEF f
  <2>2. Unfailed(f)
    BY <1>2, <1>4, <2>1, Zenon DEF Unfailed
  <2> QED
    BY <1>4, <2>1, <2>2 DEF SameFile
<1> HIDE DEF f
<1>6. /\ g.iter = file.iter + 1 /\ g.open = file.open /\ g.checking = file.checking /\ g.whyNot = file.whyNot
  BY <1>5 DEF Files, SameFile
<1>7. ~Unfailed(h) /\ h.open = file.open /\ h.checking = file.checking /\ h.whyNot = file.whyNot
  BY <1>5 DEF Files, SameFile, Fail, Unfailed
<1> HIDE DEF g, h
<1>8. CASE file' = h /\ given' = given
  <2>1. ~Copied'
    BY <1>7, <1>8 DEF Copied
  <2> QED
    BY <1>2, <1>7, <1>8, <2>1, CopyStep
<1>9. CASE file' = g /\ ~Copied
  <2>1. ~Copied' /\ file'.open
    BY <1>2, <1>6, <1>9 DEF Copied
  <2>2. jumps' \in Nat
    BY <1>2 DEF CopyInv
  <2> QED
    BY <2>1, <2>2 DEF CopyInv
<1>10. CASE file' = g /\ given' = (IF jumps = 0 THEN Append(given, e) ELSE given) /\ Copied
  <2> DEFINE m == Len(given)
  <2>1. /\ job.skip = {} /\ file.checking = FALSE /\ N > 0 /\ (job.maxEvents < 0 \/ N <= job.maxEvents)
        /\ EventsAscend(items) /\ \A d \in 0 .. N - 1 : HasEvent(items, d)
        /\ given \in Seq(Nat) /\ m <= N /\ \A n \in 1 .. m : given[n] = n - 1
        /\ \A i \in 1 .. Len(items) : items[i].type = "event" => (i < file.iter <=> items[i].entry < m)
        /\ jumps = 0
    BY <1>10 DEF CopyInv, Copied
  <2>2. m \in Nat /\ N \in Nat
    BY <1>1, <2>1, JobTypes
  <2>3. \A i \in 1 .. Len(items) : items[i].type = "event" => items[i].entry \in 0 .. N - 1
    BY <1>1 DEF ReadableItems
  <2>4. ~(e < m)
    BY <1>2, <1>3, <2>1 DEF e
  <2>5. ASSUME m < e PROVE FALSE
    <3>1. m \in 0 .. N - 1
      BY <1>3, <2>2, <2>5
    <3>2. PICK j \in 1 .. Len(items) : items[j].type = "event" /\ items[j].entry = m
      BY <2>1, <3>1 DEF HasEvent
    <3>3. ~(j < file.iter)
      BY <2>1, <2>2, <3>2
    <3>4. j # file.iter
      BY <1>3, <2>2, <2>5, <3>2 DEF e
    <3>5. file.iter < j
      BY <1>3, <3>3, <3>4
    <3>6. e < m
      BY <1>2, <1>3, <2>1, <3>2, <3>5 DEF EventsAscend, e
    <3> QED
      BY <2>4, <3>6
  <2>6. e = m
    BY <1>3, <2>2, <2>4, <2>5
  <2>7. given' = Append(given, m)
    BY <1>10, <2>1, <2>6
  <2>8. /\ given' \in Seq(Nat) /\ Len(given') = m + 1 /\ given'[m + 1] = m
        /\ \A n \in 1 .. m : given'[n] = given[n]
    BY <2>1, <2>2, <2>7
  <2>9. m + 1 <= N
    BY <1>3, <2>2, <2>6
  <2>10. ASSUME NEW n \in 1 .. m + 1 PROVE given'[n] = n - 1
    <3>1. n = m + 1 \/ n \in 1 .. m
      BY <2>2
    <3> QED
      BY <2>1, <2>2, <2>8, <3>1
  <2>11. ASSUME NEW i \in 1 .. Len(items), items[i].type = "event"
         PROVE  i < file.iter + 1 <=> items[i].entry < m + 1
    <3>1. items[i].entry \in Int
      BY <2>3, <2>11
    <3>2. CASE i = file.iter
      BY <1>3, <2>2, <2>6, <3>2 DEF e
    <3>3. CASE i < file.iter
      BY <1>3, <2>1, <2>2, <2>11, <3>1, <3>3
    <3>4. CASE file.iter < i
      <4>1. e < items[i].entry
        BY <1>2, <1>3, <2>1, <2>11, <3>4 DEF EventsAscend, e
      <4> QED
        BY <1>3, <2>2, <2>6, <3>1, <3>4, <4>1
    <3> QED
      BY <1>3, <3>2, <3>3, <3>4
  <2>12. jumps' = 0 /\ file'.open /\ file'.iter = file.iter + 1 /\ file'.checking = FALSE
    BY <1>2, <1>6, <1>10, <2>1
  <2> HIDE DEF m
  <2>13. EventsAscend(items') /\ \A d \in 0 .. N - 1 : HasEvent(items', d)
    BY <1>2, <2>1
  <2>14. EventsAscend(items)' /\ \A d \in 0 .. N - 1 : HasEvent(items, d)'
    BY <2>13 DEF EventsAscend, HasEvent
  <2> QED
    BY <1>2, <2>1, <2>8, <2>9, <2>10, <2>11, <2>12, <2>14 DEF CopyInv
<1> QED
  BY <1>2, <1>8, <1>9, <1>10

LEMMA NextCopies == FileInv /\ CopyInv /\ [Next]_vars => CopyInv'
<1> SUFFICES ASSUME FileInv, CopyInv, [Next]_vars PROVE CopyInv'
  OBVIOUS
<1>1. CASE Open
  BY <1>1, OpenCopies
<1>2. CASE GetNextItemType
  BY <1>2, AnnounceCopies
<1>3. CASE ReadRun
  <2>1. file.open /\ file.announced /\ Unfailed(file) /\ items[file.iter].type # "event"
    BY <1>3 DEF ReadRun, At, Running, Unfailed
  <2>2. PICK holds : ReadItem(holds)
    BY <1>3 DEF ReadRun
  <2> QED
    BY <2>1, <2>2, ReadItemCopies
<1>4. CASE ReadLuminosityBlock
  <2>1. file.open /\ file.announced /\ Unfailed(file) /\ items[file.iter].type # "event"
    BY <1>4 DEF ReadLuminosityBlock, At, Running, Unfailed
  <2>2. PICK holds : ReadItem(holds)
    BY <1>4 DEF ReadLuminosityBlock
  <2> QED
    BY <2>1, <2>2, ReadItemCopies
<1>5. ASSUME UNCHANGED <<job, items, file, given, jumps>> PROVE CopyInv'
  <2>1. N' = N
    BY <1>5 DEF N
  <2> QED
    BY <1>5, <2>1 DEF CopyInv, Copied, EventsAscend, HasEvent
<1>6. ASSUME NEW s \in Streams, ReadEvent(s) \/ EndEvent(s) PROVE CopyInv'
  BY <1>5, <1>6, ReadEventCopies DEF EndEvent
<1>7. ASSUME NEW s \in Streams, NEW product \in Products, GetProduct(s, product) PROVE CopyInv'
  BY <1>5, <1>7 DEF GetProduct
<1>8. ASSUME NEW i, NEW t, NEW numbers, JumpTo(i, t, numbers) PROVE CopyInv'
  <2>1. jumps' = jumps + 1 /\ jumps \in Nat /\ file.open
    BY <1>8, Zenon DEF JumpTo, Running, CopyInv
  <2>2. file'.open
    BY <1>8, <2>1 DEF JumpTo, FileInv, FileKept, Files
  <2>3. jumps' \in Nat /\ jumps' # 0
    BY <2>1
  <2>4. ~Copied'
    BY <2>3, Zenon DEF Copied
  <2> QED
    BY <2>2, <2>3, <2>4 DEF CopyInv
<1>9. ASSUME NEW i \in DOMAIN items, SkipBack(i) \/ GoToEvent(i) PROVE CopyInv'
  BY <1>8, <1>9 DEF SkipBack, GoToEvent
<1>10. CASE UNCHANGED vars \/ Finished
  BY <1>5, <1>10 DEF vars, Finished
<1> QED
  BY <1>1, <1>2, <1>3, <1>4, <1>6, <1>7, <1>9, <1>10 DEF Next

\* If nothing speaks against fast cloning, a file gives every event of its tree in
\* the order of the tree, as the copied tree has them; and a rebuilt index is that
\* of the trees.
THEOREM CopiesAreFaithful == Spec => []IndexCoversTheTrees
<1>1. Init => CopyInv
  <2> SUFFICES ASSUME Init PROVE CopyInv
    OBVIOUS
  <2>1. file.open = FALSE /\ given = <<>> /\ jumps = 0
    BY DEF Init, NotOpened
  <2> QED
    BY <2>1 DEF CopyInv, Copied
<1>2. ASSUME FileInv, CopyInv PROVE FastCloneIsFaithful
  <2> SUFFICES ASSUME jumps = 0, Running, file.whyNot = {}
               PROVE  (\A n \in DOMAIN given : given[n] = n - 1) /\ (AtEnd => Len(given) = N)
    BY DEF FastCloneIsFaithful
  <2>1. Copied /\ job \in Jobs /\ FileKept(file, tree, items) /\ ReadableItems(items) /\ file.iter \in Nat
    BY <1>2 DEF Copied, Running, FileInv, FileKept, Files, Unfailed
  <2>2. /\ job.skip = {} /\ ~file.checking /\ N > 0 /\ (job.maxEvents < 0 \/ N <= job.maxEvents)
        /\ \A e \in 0 .. N - 1 : HasEvent(items, e)
        /\ given \in Seq(Nat) /\ Len(given) <= N /\ \A n \in 1 .. Len(given) : given[n] = n - 1
        /\ \A i \in 1 .. Len(items) : items[i].type = "event" => (i < file.iter <=> items[i].entry < Len(given))
    BY <1>2, <2>1 DEF CopyInv
  <2>3. DOMAIN given = 1 .. Len(given) /\ Len(given) \in Nat /\ N \in Nat /\ job.maxEvents \in Int
        /\ items \in Seq(ItemRecords) /\ Len(items) \in Nat /\ DOMAIN items = 1 .. Len(items)
    BY <2>1, <2>2, JobTypes DEF ReadableItems
  <2>4. NextItem = IF file.iter <= Len(items) THEN file.iter ELSE Len(items) + 1
    BY <2>1, <2>2, NothingIsPassedOver
  <2>5. PICK last \in 1 .. Len(items) : items[last].type = "event" /\ items[last].entry = N - 1
    <3>1. N - 1 \in 0 .. N - 1
      BY <2>2, <2>3
    <3> QED
      BY <2>2, <3>1 DEF HasEvent
  <2>6. ASSUME last < file.iter PROVE Len(given) = N
    <3>1. N - 1 < Len(given)
      BY <2>2, <2>5, <2>6
    <3>2. Len(given) <= N
      BY <2>2
    <3>3. Len(given) \in Nat /\ N \in Nat
      BY <2>3
    <3> QED
      BY <3>1, <3>2, <3>3
  <2>7. ASSUME NextItem > Len(items) PROVE Len(given) = N
    <3>1. last < file.iter
      BY <2>1, <2>3, <2>4, <2>7
    <3> QED
      BY <2>6, <3>1
  <2>8. ASSUME NextItem <= Len(items), ~Allowed(NextItem) PROVE FALSE
    <3>1. NextItem = file.iter
      BY <2>1, <2>3, <2>4, <2>8
    <3>2. file.iter \in 1 .. Len(items) /\ items[file.iter].type = "event" /\ ~(job.maxEvents < 0) /\ ~(Len(given) < job.maxEvents)
      BY <2>3, <2>8, <3>1 DEF Allowed
    <3>3. items[file.iter].entry \in 0 .. N - 1
      BY <2>1, <3>2 DEF ReadableItems
    <3>4. Len(given) >= N
      BY <2>2, <2>3, <3>2
    <3>5. items[file.iter].entry < Len(given)
      BY <2>3, <3>3, <3>4
    <3> QED
      BY <2>1, <2>2, <3>2, <3>5
  <2>9. AtEnd => Len(given) = N
    <3>1. NextItem \in Nat
      BY <2>1, <2>3, <2>4
    <3>2. NextItem > Len(items) \/ NextItem <= Len(items)
      BY <2>3, <3>1
    <3> QED
      BY <2>7, <2>8, <3>2, Zenon DEF AtEnd
  <2> QED
    BY <2>2, <2>3, <2>9
<1>3. FileInv => RebuiltIndex
  BY DEF FileInv
<1>4. FileInv /\ CopyInv => IndexCoversTheTrees
  BY <1>2, <1>3 DEF IndexCoversTheTrees
<1> QED
  BY <1>1, <1>4, FileInvariant, NextCopies, PTL DEF Spec

===============================================================================
