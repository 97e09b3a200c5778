--------------------------- MODULE ConditionsProofs ---------------------------
(***************************************************************************)
(* Proofs about the conditions tools: upload sessions, uploads through the *)
(* drop box, the tests of a global tag and the tools on databases and on   *)
(* credentials, for any number of clients, jobs, users, tasks, retries and *)
(* tools, and any files, tags, IOVs, payloads and accounts.                *)
(***************************************************************************)
EXTENDS CondDBFWUploads, DropBoxUpload, GlobalTagTests, CondDBTools,
        FiniteSetTheorems, SequenceTheorems, WellFoundedInduction, TLAPS

-----------------------------------------------------------------------------
(* Least and greatest times. *)

LEMMA LeastNat ==
  ASSUME NEW T, T \subseteq Nat, T # {}
  PROVE  \E x \in T : \A y \in T : x <= y
<1> DEFINE R == {ss \in Nat \X Nat : ss[1] < ss[2]}
<1>1. IsWellFoundedOn(R, Nat)
  BY NatLessThanWellFounded, Zenon DEF OpToRel
<1>2. \E x \in T : \A y \in T : ~(<<y, x>> \in R)
  <2> HIDE DEF R
  <2> QED
    BY <1>1, WFMin, Zenon
<1>3. PICK x \in T : \A y \in T : ~(<<y, x>> \in R)
  BY <1>2
<1>4. \A y \in T : x <= y
  <2> SUFFICES ASSUME NEW y \in T PROVE x <= y
    OBVIOUS
  <2>1. <<y, x>> \in Nat \X Nat
    OBVIOUS
  <2>2. ~(y < x)
    BY <1>3, <2>1
  <2> QED
    BY <2>2
<1> QED
  BY <1>4

LEMMA GreatestNat ==
  ASSUME NEW T, T \subseteq Nat, T # {}, NEW bound \in Nat, \A y \in T : y <= bound
  PROVE  \E x \in T : \A y \in T : y <= x
<1> DEFINE D == {bound - y : y \in T}
<1>1. D \subseteq Nat /\ D # {}
  <2>1. \A y \in T : bound - y \in Nat
    OBVIOUS
  <2> QED
    BY <2>1, Zenon
<1>2. PICK d \in D : \A e \in D : d <= e
  <2> HIDE DEF D
  <2> QED
    BY <1>1, LeastNat
<1>3. PICK x \in T : d = bound - x
  OBVIOUS
<1>4. ASSUME NEW y \in T PROVE y <= x
  <2>1. d <= bound - y
    BY <1>2
  <2> QED
    BY <1>3, <2>1
<1> QED
  BY <1>4

\* A finite set as a sequence holds every element of the set and no other.
LEMMA SequenceOfSet ==
  ASSUME NEW S, IsFiniteSet(S)
  PROVE  /\ SetToSeq(S) \in Seq(S)
         /\ \A x \in S : \E i \in 1 .. Len(SetToSeq(S)) : SetToSeq(S)[i] = x
         /\ S # {} => Len(SetToSeq(S)) > 0
<1> DEFINE n == Cardinality(S)
<1>1. n \in Nat /\ ExistsBijection(1 .. n, S)
  BY FS_CardinalityType
<1>2. PICK f \in Bijection(1 .. n, S) : TRUE
  BY <1>1 DEF ExistsBijection
<1>3. f \in [1 .. n -> S] /\ IsInjective(f)
  BY <1>2 DEF Bijection, Injection, IsInjective
<1>4. SetToSeq(S) \in [1 .. n -> S] /\ IsInjective(SetToSeq(S))
  BY <1>3 DEF SetToSeq
<1> DEFINE q == SetToSeq(S)
<1>5. q \in Injection(1 .. n, S)
  BY <1>4 DEF Injection, IsInjective
<1>6. IsFiniteSet(1 .. n) /\ Cardinality(1 .. n) = n
  BY <1>1, FS_Interval
<1>7. q \in Surjection(1 .. n, S)
  <2> HIDE DEF q
  <2> QED
    BY <1>5, <1>6, FS_Injection
<1>8. q \in Seq(S) /\ Len(q) = n
  <2> HIDE DEF q
  <2> QED
    BY <1>1, <1>4, <1>5 DEF Injection
<1>9. S # {} => n > 0
  BY <1>1, FS_EmptySet
<1> QED
  BY <1>7, <1>8, <1>9 DEF Surjection

-----------------------------------------------------------------------------
(* Lists in ascending order, and sequences laid end to end. *)

LEMMA CountUp ==
  ASSUME NEW L \in Nat, NEW A, 0 \in A, \A n \in 1 .. L : n - 1 \in A => n \in A
  PROVE  \A n \in 0 .. L : n \in A
<1> DEFINE Bad == {n \in 0 .. L : n \notin A}
<1>1. SUFFICES ASSUME Bad # {} PROVE FALSE
  OBVIOUS
<1>2. Bad \subseteq Nat
  OBVIOUS
<1>3. PICK n \in Bad : \A m \in Bad : n <= m
  <2> HIDE DEF Bad
  <2> QED
    BY <1>1, <1>2, LeastNat
<1>4. n \in 0 .. L /\ n \notin A /\ n # 0
  OBVIOUS
<1>5. n - 1 \in 0 .. L /\ n - 1 < n /\ n \in 1 .. L
  BY <1>4
<1>6. n - 1 \notin Bad
  <2> HIDE DEF Bad
  <2> QED
    BY <1>3, <1>4, <1>5
<1> QED
  BY <1>4, <1>5, <1>6

Below(S, i) == {j \in S : j < i}

LEMMA RankGrows ==
  ASSUME NEW S, S \subseteq Int, IsFiniteSet(S), NEW i \in S
  PROVE  /\ IsFiniteSet(Below(S, i)) /\ Cardinality(Below(S, i)) \in 0 .. Cardinality(S) - 1
         /\ \A j \in S : j < i => Cardinality(Below(S, j)) < Cardinality(Below(S, i))
<1>1. \A j \in S : /\ IsFiniteSet(Below(S, j)) /\ Cardinality(Below(S, j)) \in Nat
                   /\ IsFiniteSet(Below(S, j) \cup {j})
                   /\ Cardinality(Below(S, j) \cup {j}) = Cardinality(Below(S, j)) + 1
  <2> TAKE j \in S
  <2>1. Below(S, j) \in SUBSET S /\ j \notin Below(S, j)
    BY DEF Below
  <2>2. IsFiniteSet(Below(S, j))
    BY <2>1, FS_Subset
  <2> QED
    BY <2>1, <2>2, FS_AddElement, FS_CardinalityType
<1>2. Cardinality(Below(S, i)) + 1 <= Cardinality(S)
  <2>1. Below(S, i) \cup {i} \in SUBSET S
    BY DEF Below
  <2>2. Cardinality(Below(S, i) \cup {i}) <= Cardinality(S)
    BY <2>1, FS_Subset
  <2> QED
    BY <1>1, <2>2
<1>3. ASSUME NEW j \in S, j < i PROVE Cardinality(Below(S, j)) < Cardinality(Below(S, i))
  <2>1. Below(S, j) \cup {j} \in SUBSET Below(S, i)
    <3>1. \A x \in S : x \in Int
      OBVIOUS
    <3>2. \A x \in S : x < j => x < i
      BY <1>3, <3>1
    <3> QED
      BY <1>3, <3>2 DEF Below
  <2>2. Cardinality(Below(S, j) \cup {j}) <= Cardinality(Below(S, i))
    BY <1>1, <2>1, FS_Subset
  <2>3. Cardinality(Below(S, j) \cup {j}) = Cardinality(Below(S, j)) + 1
    BY <1>1
  <2>4. Cardinality(Below(S, i)) \in Nat /\ Cardinality(Below(S, j)) \in Nat
    BY <1>1
  <2> QED
    BY <2>2, <2>3, <2>4
<1>4. Cardinality(S) \in Nat
  BY FS_CardinalityType
<1>5. IsFiniteSet(Below(S, i)) /\ Cardinality(Below(S, i)) \in Nat
  BY <1>1
<1>6. Cardinality(Below(S, i)) \in 0 .. Cardinality(S) - 1
  BY <1>2, <1>4, <1>5
<1> QED
  BY <1>3, <1>5, <1>6, Zenon

\* For every rank there is exactly one element.
LEMMA RankIsOnce ==
  ASSUME NEW S, S \subseteq Int, IsFiniteSet(S)
  PROVE  /\ \A i, j \in S : Cardinality(Below(S, i)) = Cardinality(Below(S, j)) => i = j
         /\ \A k \in 1 .. Cardinality(S) : \E i \in S : Cardinality(Below(S, i)) = k - 1
<1> DEFINE n == Cardinality(S)
           T == 0 .. n - 1
           rank == [i \in S |-> Cardinality(Below(S, i))]
<1>1. n \in Nat
  BY FS_CardinalityType
<1>2. \A i, j \in S : Cardinality(Below(S, i)) = Cardinality(Below(S, j)) => i = j
  <2> TAKE i, j \in S
  <2>1. i < j \/ j < i \/ i = j
    OBVIOUS
  <2>2. /\ Cardinality(Below(S, i)) \in Int /\ Cardinality(Below(S, j)) \in Int
        /\ i < j => Cardinality(Below(S, i)) < Cardinality(Below(S, j))
        /\ j < i => Cardinality(Below(S, j)) < Cardinality(Below(S, i))
    <3>1. Cardinality(Below(S, i)) \in 0 .. Cardinality(S) - 1
      BY RankGrows
    <3>2. Cardinality(Below(S, j)) \in 0 .. Cardinality(S) - 1
      BY RankGrows
    <3>3. i < j => Cardinality(Below(S, i)) < Cardinality(Below(S, j))
      BY RankGrows
    <3>4. j < i => Cardinality(Below(S, j)) < Cardinality(Below(S, i))
      BY RankGrows
    <3> QED
      BY <3>1, <3>2, <3>3, <3>4
  <2> QED
    BY <2>1, <2>2
<1>3. IsFiniteSet(T) /\ Cardinality(T) = n
  BY <1>1, FS_Interval, SMTT(30)
<1>4. rank \in Injection(S, T)
  <2>1. \A i \in S : Cardinality(Below(S, i)) \in T
    BY RankGrows
  <2> HIDE DEF T
  <2> QED
    BY <1>2, <2>1 DEF Injection, IsInjective
<1>5. rank \in Surjection(S, T)
  <2> HIDE DEF rank, T
  <2> QED
    BY <1>3, <1>4, FS_Injection
<1>6. ASSUME NEW k \in 1 .. n PROVE \E i \in S : Cardinality(Below(S, i)) = k - 1
  <2>1. k - 1 \in T
    BY <1>1
  <2> HIDE DEF T
  <2> QED
    BY <1>5, <2>1 DEF Surjection
<1> QED
  BY <1>2, <1>6

LEMMA Joined ==
  ASSUME NEW T, NEW s \in Seq(T), NEW t \in Seq(T)
  PROVE  /\ s \o t \in Seq(T) /\ Len(s \o t) = Len(s) + Len(t)
         /\ \A i \in 1 .. Len(s) : (s \o t)[i] = s[i]
         /\ \A i \in 1 .. Len(t) : (s \o t)[Len(s) + i] = t[i]
OBVIOUS

LEMMA RangeJoined ==
  ASSUME NEW T, NEW s \in Seq(T), NEW t \in Seq(T)
  PROVE  Range(s \o t) = Range(s) \cup Range(t)
<1> DEFINE r == s \o t
<1>1. /\ Len(r) = Len(s) + Len(t) /\ r \in Seq(T)
      /\ \A i \in 1 .. Len(s) : r[i] = s[i]
      /\ \A i \in 1 .. Len(t) : r[Len(s) + i] = t[i]
  BY Joined
<1> HIDE DEF r
<1>2. /\ DOMAIN s = 1 .. Len(s) /\ DOMAIN t = 1 .. Len(t) /\ DOMAIN r = 1 .. Len(s) + Len(t)
      /\ Len(s) \in Nat /\ Len(t) \in Nat
  BY <1>1
<1>3. ASSUME NEW x \in Range(r) PROVE x \in Range(s) \cup Range(t)
  <2>1. PICK i \in 1 .. Len(s) + Len(t) : x = r[i]
    BY <1>2 DEF Range
  <2>2. CASE i \in 1 .. Len(s)
    BY <1>1, <1>2, <2>1, <2>2 DEF Range
  <2>3. CASE i \notin 1 .. Len(s)
    <3>1. i - Len(s) \in 1 .. Len(t) /\ i = Len(s) + (i - Len(s))
      BY <1>2, <2>3
    <3>2. x = t[i - Len(s)]
      BY <1>1, <2>1, <3>1
    <3> QED
      BY <1>2, <3>1, <3>2 DEF Range
  <2> QED
    BY <2>2, <2>3
<1>4. ASSUME NEW x \in Range(s) PROVE x \in Range(r)
  <2>1. PICK i \in 1 .. Len(s) : x = s[i]
    BY <1>2 DEF Range
  <2>2. i \in DOMAIN r /\ x = r[i]
    BY <1>1, <1>2, <2>1
  <2> QED
    BY <2>2 DEF Range
<1>5. ASSUME NEW x \in Range(t) PROVE x \in Range(r)
  <2>1. PICK i \in 1 .. Len(t) : x = t[i]
    BY <1>2 DEF Range
  <2>2. Len(s) + i \in DOMAIN r /\ x = r[Len(s) + i]
    BY <1>1, <1>2, <2>1
  <2> QED
    BY <2>2 DEF Range
<1> QED
  BY <1>3, <1>4, <1>5 DEF r

\* The first n of some sequences laid end to end.
Flat(f, seqs, i) == IF i = 1 THEN seqs[i] ELSE f[i - 1] \o seqs[i]

Flattens(f, seqs, n, T) == f \in [1 .. n -> Seq(T)] /\ \A i \in 1 .. n : f[i] = Flat(f, seqs, i)

LEMMA FlatteningExists ==
  ASSUME NEW T, NEW L \in Nat, NEW seqs \in [1 .. L -> Seq(T)]
  PROVE  \E f : Flattens(f, seqs, L, T)
<1> DEFINE A == {n \in 0 .. L : \E f : Flattens(f, seqs, n, T)}
<1>1. 0 \in A
  <2>1. Flattens([i \in {} |-> <<>>], seqs, 0, T)
    BY DEF Flattens
  <2> QED
    BY <2>1
<1>2. ASSUME NEW n \in 1 .. L, n - 1 \in A PROVE n \in A
  <2>1. PICK f : Flattens(f, seqs, n - 1, T)
    BY <1>2
  <2>2. f \in [1 .. n - 1 -> Seq(T)] /\ \A i \in 1 .. n - 1 : f[i] = Flat(f, seqs, i)
    BY <2>1 DEF Flattens
  <2> DEFINE next == Flat(f, seqs, n)
             g == [i \in 1 .. n |-> IF i = n THEN next ELSE f[i]]
  <2>3. next \in Seq(T)
    <3>1. CASE n = 1
      BY <3>1 DEF Flat
    <3>2. CASE n # 1
      <4>1. n - 1 \in 1 .. n - 1 /\ n \in 1 .. L
        BY <3>2
      <4>2. f[n - 1] \in Seq(T) /\ seqs[n] \in Seq(T)
        BY <2>2, <4>1
      <4>3. f[n - 1] \o seqs[n] \in Seq(T)
        BY <4>2
      <4> QED
        BY <3>2, <4>3 DEF Flat
    <3> QED
      BY <3>1, <3>2
  <2> HIDE DEF next
  <2>4. g \in [1 .. n -> Seq(T)]
    <3>1. ASSUME NEW i \in 1 .. n PROVE (IF i = n THEN next ELSE f[i]) \in Seq(T)
      <4>1. i = n \/ i \in 1 .. n - 1
        OBVIOUS
      <4> QED
        BY <2>2, <2>3, <4>1
    <3> QED
      BY <3>1
  <2>5. ASSUME NEW i \in 1 .. n PROVE g[i] = Flat(g, seqs, i)
    <3>1. i = 1 \/ (i - 1 \in 1 .. n /\ i - 1 # n)
      OBVIOUS
    <3>2. i # 1 => g[i - 1] = f[i - 1]
      BY <3>1
    <3> HIDE DEF g
    <3>3. Flat(g, seqs, i) = Flat(f, seqs, i)
      BY <3>2 DEF Flat
    <3>4. CASE i = n
      BY <3>3, <3>4 DEF g, next
    <3>5. CASE i # n
      <4>1. i \in 1 .. n - 1 /\ g[i] = f[i]
        BY <3>5 DEF g
      <4> QED
        BY <2>2, <3>3, <4>1
    <3> QED
      BY <3>4, <3>5
  <2>6. Flattens(g, seqs, n, T)
    <3> HIDE DEF g
    <3> QED
      BY <2>4, <2>5 DEF Flattens
  <2> QED
    BY <2>6
<1>3. \A n \in 0 .. L : n \in A
  <2> HIDE DEF A
  <2> QED
    BY <1>1, <1>2, CountUp
<1> QED
  BY <1>3

\* What is in the sequences, and nothing else, is in the long one.
LEMMA Flattened ==
  ASSUME NEW T, NEW seqs \in Seq(Seq(T))
  PROVE  /\ FlattenSeq(seqs) \in Seq(T)
         /\ \A x : x \in Range(FlattenSeq(seqs)) <=> \E k \in 1 .. Len(seqs) : x \in Range(seqs[k])
<1> DEFINE L == Len(seqs)
<1>1. L \in Nat /\ seqs \in [1 .. L -> Seq(T)] /\ (L = 0 => seqs = <<>>)
  OBVIOUS
<1>2. CASE L = 0
  <2>1. FlattenSeq(seqs) = <<>>
    BY <1>1, <1>2 DEF FlattenSeq
  <2>2. <<>> \in Seq(T) /\ Range(<<>>) = {} /\ 1 .. L = {}
    BY <1>2 DEF Range
  <2> QED
    BY <2>1, <2>2
<1>3. CASE L # 0
  <2> DEFINE flat == CHOOSE f : f = [i \in 1 .. L |-> Flat(f, seqs, i)]
  <2>1. FlattenSeq(seqs) = flat[L]
    BY <1>3, Zenon DEF FlattenSeq, Flat
  <2>2. \E f : f = [i \in 1 .. L |-> Flat(f, seqs, i)] /\ Flattens(f, seqs, L, T)
    <3>1. PICK f : Flattens(f, seqs, L, T)
      <4> HIDE DEF L
      <4> QED
        BY <1>1, FlatteningExists
    <3>2. f = [i \in 1 .. L |-> Flat(f, seqs, i)]
      <4> HIDE DEF L
      <4> QED
        BY <3>1 DEF Flattens
    <3> QED
      BY <3>1, <3>2
  <2>3. flat = [i \in 1 .. L |-> Flat(flat, seqs, i)]
    <3> HIDE DEF L
    <3> QED
      BY <2>2, Zenon
  <2> HIDE DEF flat, L
  <2>4. \A i \in 1 .. L : flat[i] = Flat(flat, seqs, i)
    BY <2>3
  <2> DEFINE Good(n) == /\ flat[n] \in Seq(T)
                        /\ \A x : x \in Range(flat[n]) <=> \E k \in 1 .. n : x \in Range(seqs[k])
             A == {n \in 0 .. L : n = 0 \/ Good(n)}
  <2>5. 0 \in A
    BY <1>1
  <2>6. ASSUME NEW n \in 1 .. L, n - 1 \in A PROVE n \in A
    <3>1. n \in 0 .. L /\ seqs[n] \in Seq(T)
      BY <1>1
    <3>2. CASE n = 1
      <4>1. flat[n] = seqs[n]
        BY <2>4, <3>2 DEF Flat
      <4>2. \A k \in 1 .. n : k = n
        BY <3>2
      <4>3. n \in 1 .. n
        BY <3>2
      <4>4. Good(n)
        BY <3>1, <4>1, <4>2, <4>3, Zenon
      <4> QED
        BY <3>1, <4>4
    <3>3. CASE n # 1
      <4>1. flat[n] = flat[n - 1] \o seqs[n]
        BY <2>4, <3>3 DEF Flat
      <4>2. Good(n - 1)
        BY <2>6, <3>3
      <4>3. flat[n] \in Seq(T)
        BY <3>1, <4>1, <4>2
      <4>4. Range(flat[n]) = Range(flat[n - 1]) \cup Range(seqs[n])
        <5> DEFINE a == flat[n - 1]
                   b == seqs[n]
        <5>1. a \in Seq(T) /\ b \in Seq(T)
          BY <3>1, <4>2
        <5> HIDE DEF a, b
        <5>2. Range(a \o b) = Range(a) \cup Range(b)
          BY <5>1, RangeJoined
        <5> QED
          BY <4>1, <5>2 DEF a, b
      <4>5. Good(n)
        BY <4>2, <4>3, <4>4
      <4> QED
        BY <3>1, <4>5
    <3> QED
      BY <3>2, <3>3
  <2>7. \A n \in 0 .. L : n \in A
    <3> HIDE DEF A
    <3> QED
      BY <1>1, <2>5, <2>6, CountUp
  <2>8. Good(L)
    <3>1. L \in 0 .. L
      BY <1>1
    <3> QED
      BY <1>3, <2>7, <3>1
  <2> QED
    BY <2>1, <2>8 DEF L
<1> QED
  BY <1>2, <1>3


\* Ascending lists the members of a set, each once, the least first.
LEMMA AscendingLists ==
  ASSUME NEW S, S \subseteq Nat, IsFiniteSet(S)
  PROVE  /\ Ascending(S) \in Seq(S) /\ Range(Ascending(S)) = S
         /\ S # {} => Ascending(S)[1] \in S /\ \A i \in S : Ascending(S)[1] <= i
<1> DEFINE n == Cardinality(S)
           s == [k \in 1 .. n |-> CHOOSE i \in S : Cardinality({j \in S : j < i}) = k - 1]
<1>1. n \in Nat /\ S \subseteq Int
  BY FS_CardinalityType
<1>2. ASSUME NEW k \in 1 .. n PROVE s[k] \in S /\ Cardinality(Below(S, s[k])) = k - 1
  <2> DEFINE Ranked(i) == Cardinality({j \in S : j < i}) = k - 1
  <2>1. s[k] = CHOOSE i \in S : Ranked(i)
    BY Zenon
  <2>2. \A i \in S : Ranked(i) <=> Cardinality(Below(S, i)) = k - 1
    BY DEF Below
  <2>3. \E i \in S : Cardinality(Below(S, i)) = k - 1
    BY <1>1, RankIsOnce
  <2> HIDE DEF Ranked, s
  <2> QED
    BY <2>1, <2>2, <2>3
<1>3. s \in [1 .. n -> S]
  <2> DEFINE RankedAt(k) == CHOOSE i \in S : Cardinality({j \in S : j < i}) = k - 1
  <2>1. s = [k \in 1 .. n |-> RankedAt(k)]
    BY Zenon
  <2> HIDE DEF s, RankedAt, n
  <2> QED
    BY <1>2, <2>1
<1>4. Ascending(S) = <<>> \o s
  BY Zenon DEF Ascending
<1>5. ASSUME NEW i \in S PROVE \E k \in 1 .. n : s[k] = i
  <2>1. Cardinality(Below(S, i)) \in 0 .. n - 1
    BY <1>1, RankGrows
  <2>2. Cardinality(Below(S, i)) + 1 \in 1 .. n
        /\ (Cardinality(Below(S, i)) + 1) - 1 = Cardinality(Below(S, i))
    BY <1>1, <2>1
  <2>3. PICK k \in 1 .. n : Cardinality(Below(S, i)) = k - 1
    <3> HIDE DEF n
    <3> QED
      BY <2>2
  <2>4. \A x, y \in S : Cardinality(Below(S, x)) = Cardinality(Below(S, y)) => x = y
    BY <1>1, RankIsOnce
  <2>5. s[k] \in S /\ Cardinality(Below(S, s[k])) = k - 1
    BY <1>2
  <2> HIDE DEF s, n
  <2> QED
    BY <2>3, <2>4, <2>5
<1> HIDE DEF s, n
<1>6. s \in Seq(S) /\ Len(s) = n /\ DOMAIN s = 1 .. n
  BY <1>1, <1>3
<1>7. Ascending(S) = s
  BY <1>4, <1>6
<1>8. Range(s) = S
  BY <1>3, <1>5, <1>6 DEF Range
<1>9. ASSUME NEW i \in S PROVE s[1] \in S /\ s[1] <= i
  <2>1. PICK k \in 1 .. n : s[k] = i
    BY <1>5
  <2>2. 1 \in 1 .. n
    BY <1>1, <2>1
  <2>3. s[1] \in S /\ Cardinality(Below(S, s[1])) = 0
    BY <1>2, <2>2
  <2>4. i < s[1] => Cardinality(Below(S, i)) < 0
    BY <1>1, <2>3, RankGrows
  <2>5. Cardinality(Below(S, i)) \in Nat
    <3>1. Cardinality(Below(S, i)) \in 0 .. Cardinality(S) - 1
      BY <1>1, RankGrows
    <3> QED
      BY <3>1
  <2>6. ~(i < s[1])
    BY <2>4, <2>5
  <2>7. i \in Int /\ s[1] \in Int
    BY <1>1, <2>3
  <2> QED
    BY <2>3, <2>6, <2>7
<1> QED
  BY <1>6, <1>7, <1>8, <1>9

\* A sequence with what each member of a list gives, which is at most one element.
LEMMA ListOf ==
  ASSUME NEW T, NEW S, NEW list \in Seq(S), NEW f \in [S -> Seq(T)]
  PROVE  LET long == FlattenSeq([n \in DOMAIN list |-> f[list[n]]])
         IN  /\ long \in Seq(T)
             /\ \A x : x \in Range(long) <=> \E i \in Range(list) : x \in Range(f[i])
<1> DEFINE seqs == [n \in DOMAIN list |-> f[list[n]]]
<1>1. /\ seqs \in Seq(Seq(T)) /\ Len(seqs) = Len(list) /\ DOMAIN list = 1 .. Len(list)
      /\ \A n \in 1 .. Len(list) : seqs[n] = f[list[n]]
  <2>1. DOMAIN list = 1 .. Len(list) /\ Len(list) \in Nat /\ \A n \in 1 .. Len(list) : list[n] \in S
    OBVIOUS
  <2>2. seqs \in [1 .. Len(list) -> Seq(T)]
    BY <2>1
  <2> QED
    BY <2>1, <2>2
<1> HIDE DEF seqs
<1>2. /\ FlattenSeq(seqs) \in Seq(T)
      /\ \A x : x \in Range(FlattenSeq(seqs)) <=> \E k \in 1 .. Len(seqs) : x \in Range(seqs[k])
  BY <1>1, Flattened
<1>3. \A x : (\E k \in 1 .. Len(seqs) : x \in Range(seqs[k])) <=> \E i \in Range(list) : x \in Range(f[i])
  <2>1. \A k \in 1 .. Len(seqs) : list[k] \in Range(list) /\ seqs[k] = f[list[k]]
    BY <1>1 DEF Range
  <2>2. \A i \in Range(list) : \E k \in 1 .. Len(seqs) : seqs[k] = f[i]
    BY <1>1 DEF Range
  <2> QED
    BY <2>1, <2>2, Zenon
<1> QED
  BY <1>2, <1>3 DEF seqs

-----------------------------------------------------------------------------
(* IOV sequences. *)

\* The IOV valid at a time is the last that begins by then.
LEMMA ValidIov ==
  ASSUME NEW iovs, NEW payloads, IsIovSequence(iovs, payloads), NEW time \in Int, HasIov(iovs, time)
  PROVE  LET iov == IntervalAt(iovs, time)
         IN  /\ iov \in iovs /\ iov.since <= time
             /\ \A other \in iovs : other.since <= time => other.since <= iov.since
<1> DEFINE T == {iov.since : iov \in {other \in iovs : other.since <= time}}
<1>1. iovs \subseteq [since : Nat, hash : payloads]
  BY DEF IsIovSequence
<1>2. T \subseteq Nat /\ T # {} /\ time \in Nat /\ \A y \in T : y <= time
  <2>1. PICK iov \in iovs : iov.since <= time
    BY DEF HasIov
  <2>2. iov.since \in Nat
    BY <1>1, <2>1
  <2>3. T \subseteq Nat /\ \A y \in T : y <= time
    BY <1>1
  <2> QED
    BY <2>1, <2>2, <2>3
<1>3. PICK since \in T : \A y \in T : y <= since
  <2> HIDE DEF T
  <2> QED
    BY <1>2, GreatestNat
<1>4. \E iov \in iovs : /\ iov.since <= time
                        /\ \A other \in iovs : other.since <= time => other.since <= iov.since
  BY <1>3
<1> QED
  BY <1>4 DEF IntervalAt

LEMMA IntervalIs ==
  ASSUME NEW iovs, NEW payloads, IsIovSequence(iovs, payloads), NEW time \in Int,
         NEW iov \in iovs, iov.since <= time,
         \A other \in iovs : other.since <= time => other.since <= iov.since
  PROVE  HasIov(iovs, time) /\ IntervalAt(iovs, time) = iov
<1>1. HasIov(iovs, time)
  BY DEF HasIov
<1> DEFINE found == IntervalAt(iovs, time)
<1>2. /\ found \in iovs /\ found.since <= time
      /\ \A other \in iovs : other.since <= time => other.since <= found.since
  BY <1>1, ValidIov
<1> HIDE DEF found
<1>3. found.since \in Nat /\ iov.since \in Nat /\ found.since <= iov.since /\ iov.since <= found.since
  BY <1>2 DEF IsIovSequence
<1>4. found = iov
  BY <1>2, <1>3 DEF IsIovSequence
<1> QED
  BY <1>1, <1>4 DEF found

LEMMA SincesAre ==
  ASSUME NEW iovs, NEW payloads, IsIovSequence(iovs, payloads)
  PROVE  IsFiniteSet(SincesOf(iovs)) /\ SincesOf(iovs) \subseteq Nat
<1>1. IsFiniteSet(iovs) /\ iovs \subseteq [since : Nat, hash : payloads]
  BY DEF IsIovSequence
<1>2. [iov \in iovs |-> iov.since] \in Surjection(iovs, SincesOf(iovs))
  BY DEF SincesOf, Surjection
<1>3. IsFiniteSet(SincesOf(iovs))
  BY <1>1, <1>2, FS_Surjection
<1> QED
  BY <1>1, <1>3 DEF SincesOf

\* What an import inserts: an IOV at each start, unless it is there, and the
\* overlays.
IsInserted(x, src, found, exists, begin, end, a) ==
  \/ \E start \in StartsIn(src, begin, end) :
       x \in Range(ImportedAt(src, found, exists, start, a.reserialize))
  \/ /\ exists /\ a.override
     /\ \E since \in SincesOf(found) :
          begin <= since /\ since <= end /\ x \in Range(OverlaidAt(src, since))

LEMMA InsertionsAre ==
  ASSUME NEW src, NEW from, IsIovSequence(src, from), NEW found, NEW to, IsIovSequence(found, to),
         NEW begin \in Nat, NEW end \in Nat, NEW exists \in BOOLEAN, NEW a, a.override \in BOOLEAN
  PROVE  /\ \E T : Insertions(src, found, exists, begin, end, a) \in Seq(T)
         /\ \A x : x \in Range(Insertions(src, found, exists, begin, end, a)) <=> IsInserted(x, src, found, exists, begin, end, a)
<1> DEFINE S == StartsIn(src, begin, end)
           I == {since \in SincesOf(found) : begin <= since /\ since <= end}
           H == {ImportedHash(IntervalAt(src, s).hash, a.reserialize) : s \in S} \cup {IntervalAt(src, s).hash : s \in I}
           T == [since : Nat, hash : H]
           f == [s \in S |-> ImportedAt(src, found, exists, s, a.reserialize)]
           g == [s \in I |-> OverlaidAt(src, s)]
<1>1. S \subseteq Nat /\ IsFiniteSet(S)
  <2> DEFINE R == {since \in SincesOf(src) : begin < since /\ since <= end}
  <2>1. R \in SUBSET SincesOf(src) /\ SincesOf(src) \subseteq Nat /\ IsFiniteSet(SincesOf(src))
    BY SincesAre
  <2>2. S = R \cup {begin}
    BY DEF StartsIn
  <2> HIDE DEF S, R
  <2>3. IsFiniteSet(R)
    BY <2>1, FS_Subset
  <2> QED
    BY <2>1, <2>2, <2>3, FS_AddElement
<1>2. I \subseteq Nat /\ IsFiniteSet(I)
  <2>1. I \in SUBSET SincesOf(found) /\ SincesOf(found) \subseteq Nat /\ IsFiniteSet(SincesOf(found))
    BY SincesAre
  <2> HIDE DEF I
  <2> QED
    BY <2>1, FS_Subset
<1>3. f \in [S -> Seq(T)]
  <2> SUFFICES ASSUME NEW s \in S PROVE ImportedAt(src, found, exists, s, a.reserialize) \in Seq(T)
    OBVIOUS
  <2> DEFINE iov == [since |-> s, hash |-> ImportedHash(IntervalAt(src, s).hash, a.reserialize)]
  <2>1. iov \in T
    BY <1>1
  <2>2. ImportedAt(src, found, exists, s, a.reserialize) \in {<<>>, <<iov>>}
    BY DEF ImportedAt
  <2> HIDE DEF T, iov
  <2>3. <<>> \in Seq(T) /\ <<iov>> \in Seq(T)
    BY <2>1
  <2> QED
    BY <2>2, <2>3, Zenon
<1>4. g \in [I -> Seq(T)]
  <2> SUFFICES ASSUME NEW s \in I PROVE OverlaidAt(src, s) \in Seq(T)
    OBVIOUS
  <2> DEFINE iov == [since |-> s, hash |-> IntervalAt(src, s).hash]
  <2>1. iov \in T
    BY <1>2
  <2>2. OverlaidAt(src, s) \in {<<>>, <<iov>>}
    BY DEF OverlaidAt
  <2> HIDE DEF T, iov
  <2>3. <<>> \in Seq(T) /\ <<iov>> \in Seq(T)
    BY <2>1
  <2> QED
    BY <2>2, <2>3, Zenon
<1> DEFINE starts == Ascending(S)
           inside == Ascending(I)
           copied == FlattenSeq([n \in DOMAIN starts |-> ImportedAt(src, found, exists, starts[n], a.reserialize)])
           overlaid == FlattenSeq([n \in DOMAIN inside |-> OverlaidAt(src, inside[n])])
<1>5. Insertions(src, found, exists, begin, end, a) = copied \o (IF exists /\ a.override THEN overlaid ELSE <<>>)
  BY Zenon DEF Insertions, Overlays
<1>6. copied \in Seq(T) /\ \A x : x \in Range(copied) <=> \E s \in S : x \in Range(f[s])
  <2>1. starts \in Seq(S) /\ Range(starts) = S
    <3> HIDE DEF S
    <3> QED
      BY <1>1, AscendingLists
  <2> HIDE DEF starts, T
  <2>2. [n \in DOMAIN starts |-> ImportedAt(src, found, exists, starts[n], a.reserialize)] = [n \in DOMAIN starts |-> f[starts[n]]]
    <3>1. \A n \in DOMAIN starts : starts[n] \in S
      BY <2>1
    <3> QED
      BY <3>1
  <2>3. copied = FlattenSeq([n \in DOMAIN starts |-> f[starts[n]]])
    BY <2>2
  <2> HIDE DEF f, copied, S
  <2>4. /\ FlattenSeq([n \in DOMAIN starts |-> f[starts[n]]]) \in Seq(T)
        /\ \A x : x \in Range(FlattenSeq([n \in DOMAIN starts |-> f[starts[n]]]))
                   <=> \E s \in Range(starts) : x \in Range(f[s])
    BY <1>3, <2>1, ListOf
  <2> QED
    BY <2>1, <2>3, <2>4
<1>7. overlaid \in Seq(T) /\ \A x : x \in Range(overlaid) <=> \E s \in I : x \in Range(g[s])
  <2>1. inside \in Seq(I) /\ Range(inside) = I
    <3> HIDE DEF I
    <3> QED
      BY <1>2, AscendingLists
  <2> HIDE DEF inside, T
  <2>2. [n \in DOMAIN inside |-> OverlaidAt(src, inside[n])] = [n \in DOMAIN inside |-> g[inside[n]]]
    <3>1. \A n \in DOMAIN inside : inside[n] \in I
      BY <2>1
    <3> QED
      BY <3>1
  <2>3. overlaid = FlattenSeq([n \in DOMAIN inside |-> g[inside[n]]])
    BY <2>2
  <2> HIDE DEF g, overlaid, I
  <2>4. /\ FlattenSeq([n \in DOMAIN inside |-> g[inside[n]]]) \in Seq(T)
        /\ \A x : x \in Range(FlattenSeq([n \in DOMAIN inside |-> g[inside[n]]]))
                   <=> \E s \in Range(inside) : x \in Range(g[s])
    BY <1>4, <2>1, ListOf
  <2> QED
    BY <2>1, <2>3, <2>4
<1>8. \A x : x \in Range(copied) <=> \E s \in S : x \in Range(ImportedAt(src, found, exists, s, a.reserialize))
  <2> HIDE DEF copied, S
  <2> QED
    BY <1>6
<1>9. \A x : x \in Range(overlaid) <=> \E s \in SincesOf(found) : begin <= s /\ s <= end /\ x \in Range(OverlaidAt(src, s))
  <2>1. \A s \in I : g[s] = OverlaidAt(src, s)
    OBVIOUS
  <2>2. \A x : x \in Range(overlaid) <=> \E s \in I : x \in Range(OverlaidAt(src, s))
    <3> HIDE DEF overlaid, I, g
    <3> QED
      BY <1>7, <2>1
  <2> HIDE DEF overlaid, g
  <2> QED
    BY <2>2
<1> DEFINE rest == IF exists /\ a.override THEN overlaid ELSE <<>>
<1>10. rest \in Seq(T) /\ \A x : x \in Range(rest) <=> exists /\ a.override /\ x \in Range(overlaid)
  <2> HIDE DEF overlaid, T
  <2>1. Range(<<>>) = {} /\ <<>> \in Seq(T)
    BY DEF Range
  <2> QED
    BY <1>7, <2>1
<1> HIDE DEF copied, rest, T, overlaid
<1>11. copied \o rest \in Seq(T) /\ Range(copied \o rest) = Range(copied) \cup Range(rest)
  BY <1>6, <1>10, RangeJoined
<1>12. Insertions(src, found, exists, begin, end, a) = copied \o rest
  BY <1>5 DEF rest
<1> HIDE DEF S, f, g, I
<1> QED
  BY <1>8, <1>9, <1>10, <1>11, <1>12 DEF S, IsInserted

LEMMA OneOrNone == \A x : Range(<<x>>) = {x} /\ Range(<<>>) = {}
<1>1. \A x : DOMAIN <<x>> = {1} /\ <<x>>[1] = x
  OBVIOUS
<1>2. DOMAIN <<>> = {}
  OBVIOUS
<1> QED
  BY <1>1, <1>2 DEF Range

\* What flush keeps of the insertions: the last one at each since.
LEMMA LatestOfEach ==
  ASSUME NEW T, NEW insertions \in Seq(T)
  PROVE  LET latest == {n \in DOMAIN insertions : \A later \in DOMAIN insertions :
                          later > n => insertions[later].since # insertions[n].since}
             new == {insertions[n] : n \in latest}
         IN  /\ IsFiniteSet(new) /\ new \subseteq Range(insertions)
             /\ SincesOf(new) = SincesOf(Range(insertions))
             /\ \A x, y \in new : x.since = y.since => x = y
<1> DEFINE L == Len(insertions)
           latest == {n \in DOMAIN insertions : \A later \in DOMAIN insertions :
                        later > n => insertions[later].since # insertions[n].since}
           new == {insertions[n] : n \in latest}
<1>1. DOMAIN insertions = 1 .. L /\ L \in Nat /\ IsFiniteSet(1 .. L)
  BY FS_Interval
<1>2. new \subseteq Range(insertions)
  BY DEF Range
<1>3. IsFiniteSet(new)
  <2>1. insertions \in [1 .. L -> Range(insertions)]
    BY <1>1 DEF Range
  <2>2. insertions \in Surjection(1 .. L, Range(insertions))
    BY <1>1, <2>1 DEF Surjection, Range
  <2>3. IsFiniteSet(Range(insertions))
    BY <1>1, <2>2, FS_Surjection
  <2>4. new \in SUBSET Range(insertions)
    BY <1>2
  <2> HIDE DEF new
  <2> QED
    BY <2>3, <2>4, FS_Subset
<1>4. ASSUME NEW n \in 1 .. L PROVE \E k \in latest : insertions[k].since = insertions[n].since
  <2> DEFINE Same == {m \in 1 .. L : insertions[m].since = insertions[n].since}
  <2>1. Same \subseteq Nat /\ n \in Same /\ \A m \in Same : m <= L
    BY <1>1
  <2>2. PICK k \in Same : \A m \in Same : m <= k
    <3> HIDE DEF Same, L
    <3> QED
      BY <1>1, <2>1, GreatestNat
  <2>3. k \in 1 .. L /\ \A m \in 1 .. L : m > k => insertions[m].since # insertions[n].since
    <3>1. \A m \in 1 .. L : m > k => ~(m <= k)
      BY <1>1
    <3> QED
      BY <2>2, <3>1
  <2> QED
    BY <1>1, <2>2, <2>3
<1>5. SincesOf(new) = SincesOf(Range(insertions))
  <2>1. \A x \in Range(insertions) : \E y \in new : y.since = x.since
    <3> SUFFICES ASSUME NEW x \in Range(insertions) PROVE \E y \in new : y.since = x.since
      OBVIOUS
    <3>1. PICK n \in 1 .. L : x = insertions[n]
      BY <1>1 DEF Range
    <3>2. PICK k \in latest : insertions[k].since = insertions[n].since
      BY <1>4
    <3> QED
      BY <3>1, <3>2
  <2> HIDE DEF new
  <2> QED
    BY <1>2, <2>1 DEF SincesOf
<1>6. ASSUME NEW k \in latest, NEW m \in latest, insertions[k].since = insertions[m].since
      PROVE  k = m
  <2>1. k \in 1 .. L /\ m \in 1 .. L /\ ~(k > m) /\ ~(m > k)
    BY <1>1, <1>6
  <2> HIDE DEF latest, L
  <2> QED
    BY <1>1, <2>1
<1>7. \A x, y \in new : x.since = y.since => x = y
  BY <1>6
<1> QED
  BY <1>2, <1>3, <1>5, <1>7

\* Flush changes the IOVs of one tag: the new ones take the place of those at
\* their sinces.
Overlay(iovs, new) == {iov \in iovs : iov.since \notin SincesOf(new)} \cup new
WithNew(base, tag, new) == [base EXCEPT !.tags[tag].iovs = Overlay(@, new)]

LEMMA FlushedIs ==
  ASSUME NEW T, NEW insertions \in Seq(T), NEW base, NEW tag
  PROVE  \E new : /\ IsFiniteSet(new) /\ new \subseteq Range(insertions)
                  /\ SincesOf(new) = SincesOf(Range(insertions))
                  /\ \A x, y \in new : x.since = y.since => x = y
                  /\ Flushed(base, tag, insertions) = WithNew(base, tag, new)
<1> DEFINE latest == {n \in DOMAIN insertions : \A later \in DOMAIN insertions :
                        later > n => insertions[later].since # insertions[n].since}
           new == {insertions[n] : n \in latest}
<1>1. Flushed(base, tag, insertions) = WithNew(base, tag, new)
  BY Zenon DEF Flushed, WithNew, Overlay
<1>2. /\ IsFiniteSet(new) /\ new \subseteq Range(insertions)
      /\ SincesOf(new) = SincesOf(Range(insertions))
      /\ \A x, y \in new : x.since = y.since => x = y
  BY LatestOfEach
<1> HIDE DEF new
<1> QED
  BY <1>1, <1>2

LEMMA OverlayIsSequence ==
  ASSUME NEW iovs, NEW payloads, IsIovSequence(iovs, payloads), NEW stored, payloads \subseteq stored,
         NEW new, IsFiniteSet(new), new \subseteq [since : Nat, hash : stored],
         \A x, y \in new : x.since = y.since => x = y
  PROVE  IsIovSequence(Overlay(iovs, new), stored)
<1> DEFINE kept == {iov \in iovs : iov.since \notin SincesOf(new)}
<1>1. kept \in SUBSET iovs /\ IsFiniteSet(iovs) /\ iovs \subseteq [since : Nat, hash : payloads]
  BY DEF IsIovSequence
<1>2. IsFiniteSet(kept \cup new)
  <2>1. IsFiniteSet(kept)
    <3> HIDE DEF kept
    <3> QED
      BY <1>1, FS_Subset
  <2> HIDE DEF kept
  <2> QED
    BY <2>1, FS_Union
<1>3. kept \cup new \subseteq [since : Nat, hash : stored]
  BY <1>1
<1>4. \A x \in new : x.since \in SincesOf(new)
  BY DEF SincesOf
<1>5. \A x, y \in kept \cup new : x.since = y.since => x = y
  BY <1>4 DEF IsIovSequence
<1> QED
  BY <1>2, <1>3, <1>5 DEF IsIovSequence, Overlay

-----------------------------------------------------------------------------
(* An import. *)

HasContent(payloads) == \A hash \in payloads : hash = [content |-> hash.content, format |-> hash.format]

LEMMA SameContent ==
  ASSUME NEW hash, hash = [content |-> hash.content, format |-> hash.format], NEW reserialize \in BOOLEAN
  PROVE  ImportedHash(hash, reserialize).content = hash.content
BY DEF ImportedHash

\* An import: the source src, the destination tag before and after it.
ImportOf(src, from, found, to, begin, end, exists, a, new) ==
  /\ IsIovSequence(src, from) /\ HasContent(from) /\ IsIovSequence(found, to)
  /\ begin \in Nat /\ end \in Nat /\ begin <= end /\ HasIov(src, begin)
  /\ exists \in BOOLEAN /\ a.override \in BOOLEAN /\ a.reserialize \in BOOLEAN
  /\ \A x \in new : x \in Range(Insertions(src, found, exists, begin, end, a))
  /\ SincesOf(new) = SincesOf(Range(Insertions(src, found, exists, begin, end, a)))

LEMMA InsertionsOf ==
  ASSUME NEW src, NEW from, NEW found, NEW to, NEW begin, NEW end, NEW exists, NEW a, NEW new,
         ImportOf(src, from, found, to, begin, end, exists, a, new)
  PROVE  \A x : x \in Range(Insertions(src, found, exists, begin, end, a)) <=>
                 IsInserted(x, src, found, exists, begin, end, a)
<1>1. /\ IsIovSequence(src, from) /\ IsIovSequence(found, to) /\ begin \in Nat /\ end \in Nat
      /\ exists \in BOOLEAN /\ a.override \in BOOLEAN
  BY DEF ImportOf
<1> QED
  BY <1>1, InsertionsAre

\* Each new IOV begins in the interval and says what the source says there.
SaysTheSource(x, src, begin, end) ==
  /\ x = [since |-> x.since, hash |-> x.hash]
  /\ x.since \in Nat /\ begin <= x.since /\ x.since <= end /\ HasIov(src, x.since)
  /\ x.hash.content = IntervalAt(src, x.since).hash.content

LEMMA NewSayTheSource ==
  ASSUME NEW src, NEW from, NEW found, NEW to, NEW begin, NEW end, NEW exists, NEW a, NEW new,
         ImportOf(src, from, found, to, begin, end, exists, a, new),
         NEW x \in Range(Insertions(src, found, exists, begin, end, a))
  PROVE  SaysTheSource(x, src, begin, end)
<1>0. \/ \E start \in StartsIn(src, begin, end) :
           x \in Range(ImportedAt(src, found, exists, start, a.reserialize))
      \/ \E since \in SincesOf(found) :
           begin <= since /\ since <= end /\ x \in Range(OverlaidAt(src, since))
  BY InsertionsOf, Zenon DEF IsInserted
<1> USE DEF ImportOf, SaysTheSource
<1>1. src \subseteq [since : Nat, hash : from] /\ found \subseteq [since : Nat, hash : to]
  BY DEF IsIovSequence
<1>2. \A time \in Nat : begin <= time => HasIov(src, time)
  BY <1>1 DEF HasIov
<1>3. ASSUME NEW time \in Nat, begin <= time
      PROVE  LET hash == IntervalAt(src, time).hash IN hash = [content |-> hash.content, format |-> hash.format]
  <2>1. IntervalAt(src, time) \in src
    BY <1>2, <1>3, ValidIov
  <2> QED
    BY <1>1, <2>1 DEF HasContent
<1>4. CASE \E start \in StartsIn(src, begin, end) :
             x \in Range(ImportedAt(src, found, exists, start, a.reserialize))
  <2>1. PICK start \in StartsIn(src, begin, end) :
           x \in Range(ImportedAt(src, found, exists, start, a.reserialize))
    BY <1>4
  <2>2. start \in Nat /\ begin <= start /\ start <= end
    BY <1>1 DEF StartsIn, SincesOf
  <2>3. x = [since |-> start, hash |-> ImportedHash(IntervalAt(src, start).hash, a.reserialize)]
    BY <2>1, OneOrNone DEF ImportedAt
  <2>4. x.hash.content = IntervalAt(src, start).hash.content
    BY <1>3, <2>2, <2>3, SameContent
  <2> QED
    BY <1>2, <2>2, <2>3, <2>4
<1>5. CASE \E since \in SincesOf(found) :
             begin <= since /\ since <= end /\ x \in Range(OverlaidAt(src, since))
  <2>1. PICK since \in SincesOf(found) :
           begin <= since /\ since <= end /\ x \in Range(OverlaidAt(src, since))
    BY <1>5
  <2>2. since \in Nat
    BY <1>1 DEF SincesOf
  <2>3. x = [since |-> since, hash |-> IntervalAt(src, since).hash]
    BY <2>1, OneOrNone DEF OverlaidAt
  <2> QED
    BY <1>2, <2>1, <2>2, <2>3
<1> QED
  BY <1>0, <1>4, <1>5

\* What an import finds and keeps in the interval says what the source says there.
LEMMA KeptSayTheSource ==
  ASSUME NEW src, NEW from, NEW found, NEW to, NEW begin, NEW end, NEW exists, NEW a, NEW new,
         ImportOf(src, from, found, to, begin, end, exists, a, new),
         exists /\ a.override,
         NEW x \in found, begin <= x.since, x.since <= end, x.since \notin SincesOf(new)
  PROVE  x.hash.content = IntervalAt(src, x.since).hash.content
<1> USE DEF ImportOf
<1>1. src \subseteq [since : Nat, hash : from] /\ found \subseteq [since : Nat, hash : to]
  BY DEF IsIovSequence
<1> DEFINE used == IntervalAt(src, x.since)
<1>2. \A y \in Range(Insertions(src, found, exists, begin, end, a)) : y.since # x.since
  BY DEF SincesOf
<1>3. x.since \in SincesOf(found) /\ x.since \in Nat
  BY <1>1 DEF SincesOf
<1>4. OverlaidAt(src, x.since) = <<>>
  <2>1. \A y : y \in Range(OverlaidAt(src, x.since)) => y.since # x.since
    BY <1>2, <1>3, InsertionsOf, Zenon DEF IsInserted
  <2>2. [since |-> x.since, hash |-> used.hash] \notin Range(OverlaidAt(src, x.since))
    BY <2>1
  <2> QED
    BY <2>2, OneOrNone DEF OverlaidAt
<1>5. used.since = x.since
  <2>1. <<[since |-> x.since, hash |-> used.hash]>> # <<>>
    OBVIOUS
  <2> QED
    BY <1>4, <2>1 DEF OverlaidAt
<1>6. HasIov(src, x.since) /\ used \in src
  <2>1. HasIov(src, x.since)
    BY <1>1, <1>3 DEF HasIov
  <2> QED
    BY <1>3, <2>1, ValidIov
<1>7. x.since \in StartsIn(src, begin, end)
  <2>1. x.since \in SincesOf(src)
    BY <1>5, <1>6 DEF SincesOf
  <2> QED
    BY <1>3, <2>1 DEF StartsIn
<1>8. [since |-> x.since, hash |-> used.hash] \in found
  <2>1. \A y : y \in Range(ImportedAt(src, found, exists, x.since, a.reserialize)) => y.since # x.since
    BY <1>2, <1>7, InsertionsOf, Zenon DEF IsInserted
  <2>2. [since |-> x.since, hash |-> ImportedHash(used.hash, a.reserialize)]
          \notin Range(ImportedAt(src, found, exists, x.since, a.reserialize))
    <3>1. [since |-> x.since, hash |-> ImportedHash(used.hash, a.reserialize)].since = x.since
      OBVIOUS
    <3> QED
      BY <2>1, <3>1, Zenon
  <2> QED
    BY <2>2, OneOrNone DEF ImportedAt
<1>9. x = [since |-> x.since, hash |-> used.hash]
  BY <1>8 DEF IsIovSequence
<1> QED
  BY <1>9

\* After an import the destination has an IOV at each start.
LEMMA StartsAreThere ==
  ASSUME NEW src, NEW from, NEW found, NEW to, NEW begin, NEW end, NEW exists, NEW a, NEW new,
         ImportOf(src, from, found, to, begin, end, exists, a, new),
         NEW start \in StartsIn(src, begin, end)
  PROVE  \E iov \in Overlay(found, new) : iov.since = start
<1> DEFINE used == IntervalAt(src, start)
           iov == [since |-> start, hash |-> ImportedHash(used.hash, a.reserialize)]
           same == exists /\ [since |-> start, hash |-> used.hash] \in found
<1>1. iov.since = start /\ [since |-> start, hash |-> used.hash].since = start
  OBVIOUS
<1>2. CASE same
  <2>1. [since |-> start, hash |-> used.hash] \in found
    BY <1>2
  <2> DEFINE old == [since |-> start, hash |-> used.hash]
  <2>2. CASE old.since \in SincesOf(new)
    BY <1>1, <2>2 DEF SincesOf, Overlay
  <2>3. CASE old.since \notin SincesOf(new)
    BY <1>1, <2>1, <2>3 DEF Overlay
  <2> QED
    BY <2>2, <2>3
<1>3. CASE ~same
  <2>1. ImportedAt(src, found, exists, start, a.reserialize) = <<iov>>
    BY <1>3, Zenon DEF ImportedAt
  <2> HIDE DEF iov
  <2>2. iov \in Range(ImportedAt(src, found, exists, start, a.reserialize))
    BY <2>1, OneOrNone
  <2>3. iov \in Range(Insertions(src, found, exists, begin, end, a))
    BY <2>2, InsertionsOf, Zenon DEF IsInserted
  <2>4. start \in SincesOf(new)
    BY <1>1, <2>3 DEF ImportOf, SincesOf
  <2> QED
    BY <2>4 DEF SincesOf, Overlay
<1> QED
  BY <1>2, <1>3

LEMMA InsideSaysTheSource ==
  ASSUME NEW src, NEW from, NEW found, NEW to, NEW begin, NEW end, NEW exists, NEW a, NEW new,
         ImportOf(src, from, found, to, begin, end, exists, a, new),
         NEW stored, IsIovSequence(Overlay(found, new), stored),
         (exists /\ a.override) \/ found = {},
         NEW time \in Nat, begin <= time, time <= end
  PROVE  ContentAt(Overlay(found, new), time) = ContentAt(src, time)
<1> DEFINE now == Overlay(found, new)
           w == IntervalAt(now, time)
           used == IntervalAt(src, w.since)
<1>1. /\ begin \in Nat /\ end \in Nat /\ HasIov(src, begin) /\ IsIovSequence(src, from)
      /\ src \subseteq [since : Nat, hash : from] /\ begin \in StartsIn(src, begin, end)
  BY DEF ImportOf, IsIovSequence, StartsIn
<1>2. PICK first \in now : first.since = begin
  BY <1>1, StartsAreThere
<1>3. /\ HasIov(now, time) /\ w \in now /\ w.since <= time
      /\ \A other \in now : other.since <= time => other.since <= w.since
  <2>1. HasIov(now, time)
    BY <1>2 DEF HasIov
  <2>2. IsIovSequence(now, stored)
    OBVIOUS
  <2> HIDE DEF now
  <2> QED
    BY <2>1, <2>2, ValidIov
<1>4. w.since \in Nat /\ begin <= w.since /\ w.since <= end
  <2>1. w.since \in Nat
    BY <1>3 DEF IsIovSequence
  <2> HIDE DEF w, now
  <2> QED
    BY <1>1, <1>2, <1>3, <2>1
<1>5. HasIov(src, w.since) /\ w.hash.content = used.hash.content
  <2>1. CASE w \in new
    <3>1. w \in Range(Insertions(src, found, exists, begin, end, a))
      BY <2>1 DEF ImportOf
    <3> HIDE DEF w
    <3> QED
      BY <3>1, NewSayTheSource DEF SaysTheSource
  <2>2. CASE w \notin new
    <3>1. w \in found /\ w.since \notin SincesOf(new)
      BY <1>3, <2>2 DEF Overlay
    <3> HIDE DEF w
    <3>2. w.hash.content = used.hash.content
      BY <1>4, <3>1, KeptSayTheSource
    <3>3. HasIov(src, w.since)
      BY <1>1, <1>4 DEF HasIov
    <3> QED
      BY <3>2, <3>3
  <2> QED
    BY <2>1, <2>2
<1>6. IntervalAt(src, time) = used /\ HasIov(src, time)
  <2>1. /\ used \in src /\ used.since <= w.since
        /\ \A other \in src : other.since <= w.since => other.since <= used.since
    <3> HIDE DEF w
    <3> QED
      BY <1>1, <1>4, <1>5, ValidIov
  <2>2. ASSUME NEW other \in src, other.since <= time PROVE other.since <= w.since
    <3>1. other.since \in Nat
      BY <1>1
    <3>2. CASE other.since <= begin
      <4> HIDE DEF w
      <4> QED
        BY <1>1, <1>4, <3>1, <3>2
    <3>3. CASE begin < other.since
      <4>1. other.since \in StartsIn(src, begin, end)
        BY <1>1, <2>2, <3>1, <3>3 DEF StartsIn, SincesOf
      <4>2. PICK iov \in now : iov.since = other.since
        BY <4>1, StartsAreThere
      <4> HIDE DEF w, now
      <4> QED
        BY <1>3, <2>2, <4>2
    <3> QED
      BY <1>1, <3>1, <3>2, <3>3
  <2> HIDE DEF used, w
  <2>3. used.since \in Nat /\ used.since <= time
    BY <1>1, <1>3, <1>4, <2>1
  <2>4. \A other \in src : other.since <= time => other.since <= used.since
    BY <2>1, <2>2
  <2> QED
    BY <1>1, <2>1, <2>3, <2>4, IntervalIs
<1> HIDE DEF used, w, now
<1>7. ContentAt(now, time) = {w.hash.content} /\ ContentAt(src, time) = {used.hash.content}
  BY <1>3, <1>6 DEF ContentAt, w
<1> QED
  BY <1>5, <1>7 DEF now

LEMMA OutsideIsUnchanged ==
  ASSUME NEW src, NEW from, NEW found, NEW to, NEW begin, NEW end, NEW exists, NEW a, NEW new,
         ImportOf(src, from, found, to, begin, end, exists, a, new),
         NEW stored, IsIovSequence(Overlay(found, new), stored),
         NEW time \in Int,
         time < begin \/ \E iov \in found : iov.since > end /\ iov.since <= time
  PROVE  ContentAt(Overlay(found, new), time) = ContentAt(found, time)
<1> DEFINE now == Overlay(found, new)
           w == IntervalAt(found, time)
<1>1. /\ begin \in Nat /\ end \in Nat /\ IsIovSequence(found, to)
      /\ found \subseteq [since : Nat, hash : to]
  BY DEF ImportOf, IsIovSequence
<1>2. \A x \in new : x.since \in Nat /\ begin <= x.since /\ x.since <= end
  <2> TAKE x \in new
  <2>1. x \in Range(Insertions(src, found, exists, begin, end, a))
    BY DEF ImportOf
  <2> QED
    BY <2>1, NewSayTheSource DEF SaysTheSource
<1>3. \A x \in found : x.since < begin \/ x.since > end => x \in now
  <2> SUFFICES ASSUME NEW x \in found, x.since < begin \/ x.since > end PROVE x.since \notin SincesOf(new)
    BY DEF Overlay
  <2>1. x.since \in Nat
    BY <1>1
  <2>2. \A y \in new : y.since # x.since
    BY <1>1, <1>2, <2>1
  <2> QED
    BY <2>2 DEF SincesOf
<1>4. CASE ~HasIov(found, time)
  <2>1. time < begin
    BY <1>4 DEF HasIov
  <2>2. \A x \in now : x \in found \/ (begin <= x.since /\ x.since \in Nat)
    BY <1>2 DEF Overlay
  <2>3. ~HasIov(now, time)
    <3> HIDE DEF now
    <3> QED
      BY <1>1, <1>4, <2>1, <2>2 DEF HasIov
  <2> QED
    BY <1>4, <2>3 DEF ContentAt
<1>5. CASE HasIov(found, time)
  <2>1. /\ w \in found /\ w.since <= time
        /\ \A other \in found : other.since <= time => other.since <= w.since
    BY <1>1, <1>5, ValidIov
  <2> HIDE DEF w
  <2>2. w.since \in Nat /\ (w.since < begin \/ w.since > end)
    <3>1. w.since \in Nat
      BY <1>1, <2>1
    <3>2. CASE time < begin
      BY <1>1, <2>1, <3>1, <3>2
    <3>3. CASE \E iov \in found : iov.since > end /\ iov.since <= time
      BY <1>1, <2>1, <3>1, <3>3
    <3> QED
      BY <3>1, <3>2, <3>3
  <2>3. w \in now
    BY <1>3, <2>1, <2>2
  <2>4. ASSUME NEW other \in now, other.since <= time PROVE other.since <= w.since
    <3>1. CASE other \in found
      BY <2>1, <2>4, <3>1
    <3>2. CASE other \in new
      <4>1. other.since \in Nat /\ begin <= other.since /\ other.since <= end
        BY <1>2, <3>2
      <4>2. ~(time < begin)
        BY <1>1, <2>4, <4>1
      <4>3. PICK iov \in found : iov.since > end /\ iov.since <= time
        BY <4>2
      <4>4. iov.since <= w.since /\ iov.since \in Nat
        BY <1>1, <2>1, <4>3
      <4> QED
        BY <1>1, <2>2, <4>1, <4>3, <4>4
    <3> QED
      BY <3>1, <3>2 DEF Overlay
  <2>5. HasIov(now, time) /\ IntervalAt(now, time) = w
    <3>1. IsIovSequence(now, stored)
      OBVIOUS
    <3> HIDE DEF now
    <3> QED
      BY <2>1, <2>3, <2>4, <3>1, IntervalIs
  <2> HIDE DEF now
  <2>6. ContentAt(now, time) = {w.hash.content} /\ ContentAt(found, time) = {w.hash.content}
    BY <1>5, <2>5 DEF ContentAt, w
  <2> QED
    BY <2>6 DEF now
<1> QED
  BY <1>4, <1>5

-----------------------------------------------------------------------------
(* The databases. *)

LEMMA TagIsDatabase ==
  ASSUME NEW base, IsDatabase(base), NEW tag \in DOMAIN base.tags
  PROVE  LET info == base.tags[tag]
         IN  /\ info = [payloadType |-> info.payloadType, timeType |-> info.timeType, sync |-> info.sync,
                        endOfValidity |-> info.endOfValidity, iovs |-> info.iovs]
             /\ IsIovSequence(info.iovs, base.payloads)
BY DEF IsDatabase, Range

LEMMA MoreIsStored ==
  ASSUME NEW iovs, NEW payloads, IsIovSequence(iovs, payloads), NEW stored, payloads \subseteq stored
  PROVE  IsIovSequence(iovs, stored)
BY DEF IsIovSequence

LEMMA NothingIsSequence ==
  ASSUME NEW payloads
  PROVE  IsIovSequence({}, payloads)
BY FS_EmptySet DEF IsIovSequence

\* A database with another tag, or with a tag changed.
LEMMA WithTagIs ==
  ASSUME NEW base, IsDatabase(base), NEW tag, NEW info,
         info = [payloadType |-> info.payloadType, timeType |-> info.timeType, sync |-> info.sync,
                 endOfValidity |-> info.endOfValidity, iovs |-> info.iovs],
         IsIovSequence(info.iovs, base.payloads)
  PROVE  LET b == WithTag(base, tag, info)
         IN  /\ IsDatabase(b) /\ b.payloads = base.payloads
             /\ DOMAIN b.tags = DOMAIN base.tags \cup {tag} /\ b.tags[tag] = info
<1> DEFINE b == WithTag(base, tag, info)
           tags == [t \in DOMAIN base.tags \cup {tag} |-> IF t = tag THEN info ELSE base.tags[t]]
<1>1. b = [tags |-> tags, payloads |-> base.payloads]
  BY DEF WithTag, IsDatabase
<1>2. DOMAIN tags = DOMAIN base.tags \cup {tag} /\ tags[tag] = info
  OBVIOUS
<1>3. ASSUME NEW i \in Range(tags) PROVE i = info \/ i \in Range(base.tags)
  BY DEF Range
<1> HIDE DEF tags, b
<1>4. IsDatabase(b)
  <2>1. b = [tags |-> b.tags, payloads |-> b.payloads] /\ b.tags = tags /\ b.payloads = base.payloads
    BY <1>1
  <2> QED
    BY <1>3, <2>1 DEF IsDatabase
<1> QED
  BY <1>1, <1>2, <1>4 DEF b

LEMMA OpenedIs ==
  ASSUME NEW base, IsDatabase(base), NEW tag, NEW from
  PROVE  LET b == OpenedTag(base, tag, from)
             iovs == IF HasTag(base, tag) THEN base.tags[tag].iovs ELSE {}
         IN  /\ IsDatabase(b) /\ b.payloads = base.payloads
             /\ tag \in DOMAIN b.tags /\ b.tags[tag].iovs = iovs
<1> DEFINE b == OpenedTag(base, tag, from)
           info == NewTag(from.payloadType, from.timeType, from.sync)
<1>1. CASE HasTag(base, tag)
  BY <1>1 DEF OpenedTag, HasTag
<1>2. CASE ~HasTag(base, tag)
  <2>1. /\ info = [payloadType |-> info.payloadType, timeType |-> info.timeType, sync |-> info.sync,
                   endOfValidity |-> info.endOfValidity, iovs |-> info.iovs]
        /\ info.iovs = {}
    BY DEF NewTag
  <2>2. b = WithTag(base, tag, info)
    BY <1>2 DEF OpenedTag
  <2> HIDE DEF info, b
  <2>3. IsIovSequence(info.iovs, base.payloads)
    BY <2>1, NothingIsSequence
  <2>4. IsDatabase(b) /\ b.payloads = base.payloads /\ tag \in DOMAIN b.tags /\ b.tags[tag] = info
    BY <2>1, <2>2, <2>3, WithTagIs
  <2> QED
    BY <1>2, <2>1, <2>4 DEF b
<1> QED
  BY <1>1, <1>2

\* A database to which payloads were copied.
LEMMA FilledIs ==
  ASSUME NEW base, IsDatabase(base), NEW copied, HasContent(copied)
  PROVE  LET b == [base EXCEPT !.payloads = @ \cup copied]
         IN  IsDatabase(b) /\ b.tags = base.tags /\ b.payloads = base.payloads \cup copied
<1> DEFINE b == [base EXCEPT !.payloads = @ \cup copied]
<1>1. b = [tags |-> base.tags, payloads |-> base.payloads \cup copied]
  <2>1. base = [tags |-> base.tags, payloads |-> base.payloads]
    BY DEF IsDatabase
  <2> DEFINE more == base.payloads \cup copied
  <2>2. b = [base EXCEPT !.payloads = more]
    BY Zenon
  <2> HIDE DEF more
  <2>3. [base EXCEPT !.payloads = more] = [tags |-> base.tags, payloads |-> more]
    BY <2>1
  <2> QED
    BY <2>2, <2>3 DEF more
<1> HIDE DEF b
<1>2. b = [tags |-> b.tags, payloads |-> b.payloads] /\ b.tags = base.tags
      /\ b.payloads = base.payloads \cup copied
  BY <1>1
<1>3. \A hash \in b.payloads : hash = [content |-> hash.content, format |-> hash.format]
  BY <1>2 DEF IsDatabase, HasContent
<1>4. \A info \in Range(b.tags) : IsIovSequence(info.iovs, b.payloads)
  <2>1. \A info \in Range(base.tags) : IsIovSequence(info.iovs, base.payloads)
    BY DEF IsDatabase
  <2> QED
    BY <1>2, <2>1, MoreIsStored
<1>5. IsDatabase(b)
  BY <1>2, <1>3, <1>4 DEF IsDatabase
<1> QED
  BY <1>2, <1>5 DEF b

LEMMA FlushKeeps ==
  ASSUME NEW base, IsDatabase(base), NEW tag \in DOMAIN base.tags, NEW new, IsFiniteSet(new),
         new \subseteq [since : Nat, hash : base.payloads], \A x, y \in new : x.since = y.since => x = y
  PROVE  LET b == WithNew(base, tag, new)
             now == Overlay(base.tags[tag].iovs, new)
         IN  /\ IsDatabase(b) /\ b.payloads = base.payloads
             /\ tag \in DOMAIN b.tags /\ b.tags[tag].iovs = now /\ IsIovSequence(now, base.payloads)
<1> DEFINE b == WithNew(base, tag, new)
           now == Overlay(base.tags[tag].iovs, new)
           info == [base.tags[tag] EXCEPT !.iovs = now]
<1>1. b = [tags |-> [base.tags EXCEPT ![tag] = info], payloads |-> base.payloads]
  BY DEF IsDatabase, WithNew
<1>2. /\ base.tags[tag] = [payloadType |-> base.tags[tag].payloadType, timeType |-> base.tags[tag].timeType,
                           sync |-> base.tags[tag].sync, endOfValidity |-> base.tags[tag].endOfValidity,
                           iovs |-> base.tags[tag].iovs]
      /\ IsIovSequence(base.tags[tag].iovs, base.payloads)
  BY TagIsDatabase
<1>3. IsIovSequence(now, base.payloads)
  BY <1>2, OverlayIsSequence
<1> HIDE DEF now
<1>4. /\ info = [payloadType |-> info.payloadType, timeType |-> info.timeType, sync |-> info.sync,
                 endOfValidity |-> info.endOfValidity, iovs |-> info.iovs]
      /\ info.iovs = now
  BY <1>2
<1> HIDE DEF info, b
<1>5. /\ b = [tags |-> b.tags, payloads |-> b.payloads] /\ b.payloads = base.payloads
      /\ b.tags = [base.tags EXCEPT ![tag] = info]
  BY <1>1
<1>6. DOMAIN b.tags = DOMAIN base.tags /\ b.tags[tag] = info /\ \A i \in Range(b.tags) : i = info \/ i \in Range(base.tags)
  BY <1>5 DEF Range
<1>7. IsDatabase(b)
  BY <1>3, <1>4, <1>5, <1>6 DEF IsDatabase
<1> QED
  BY <1>3, <1>4, <1>5, <1>6, <1>7 DEF b, now

BasesInv ==
  DOMAIN bases = DOMAIN FirstBases /\ \A name \in DOMAIN FirstBases : IsDatabase(bases[name])

LEMMA ImportBegins ==
  ASSUME NEW iovs, NEW payloads, IsIovSequence(iovs, payloads), iovs # {}, NEW given \in Nat
  PROVE  BeginOf(iovs, given) \in Nat /\ HasIov(iovs, BeginOf(iovs, given))
<1> DEFINE first == Ascending(SincesOf(iovs))[1]
<1>1. SincesOf(iovs) # {} /\ SincesOf(iovs) \subseteq Nat /\ IsFiniteSet(SincesOf(iovs))
  BY SincesAre DEF SincesOf
<1>2. first \in SincesOf(iovs)
  BY <1>1, AscendingLists
<1>3. BeginOf(iovs, given) = IF first > given THEN first ELSE given
  BY DEF BeginOf
<1> HIDE DEF first
<1>4. PICK iov \in iovs : iov.since = first
  BY <1>2 DEF SincesOf
<1>5. first \in Nat /\ first <= BeginOf(iovs, given) /\ BeginOf(iovs, given) \in Nat
  BY <1>1, <1>2, <1>3
<1> QED
  BY <1>4, <1>5 DEF HasIov

\* The payloads that an import copies are payloads.
LEMMA CopiedIs ==
  ASSUME NEW iovs, NEW payloads, IsIovSequence(iovs, payloads), HasContent(payloads),
         NEW begin \in Nat, NEW end \in Nat, HasIov(iovs, begin), NEW reserialize \in BOOLEAN
  PROVE  LET used == {IntervalAt(iovs, start) : start \in StartsIn(iovs, begin, end)}
         IN  HasContent({ImportedHash(iov.hash, reserialize) : iov \in used})
<1> DEFINE used == {IntervalAt(iovs, start) : start \in StartsIn(iovs, begin, end)}
<1>1. iovs \subseteq [since : Nat, hash : payloads]
  BY DEF IsIovSequence
<1>2. used \subseteq iovs
  <2> SUFFICES ASSUME NEW start \in StartsIn(iovs, begin, end) PROVE IntervalAt(iovs, start) \in iovs
    OBVIOUS
  <2>1. start \in Nat /\ begin <= start
    BY <1>1 DEF StartsIn, SincesOf
  <2>2. HasIov(iovs, start)
    BY <1>1, <2>1 DEF HasIov
  <2> QED
    BY <2>1, <2>2, ValidIov
<1>3. ASSUME NEW iov \in used
      PROVE  LET hash == ImportedHash(iov.hash, reserialize)
             IN  hash = [content |-> hash.content, format |-> hash.format]
  <2>1. iov.hash = [content |-> iov.hash.content, format |-> iov.hash.format]
    BY <1>1, <1>2 DEF HasContent
  <2> QED
    BY <2>1 DEF ImportedHash
<1> HIDE DEF used
<1> QED
  BY <1>3 DEF HasContent, used

LEMMA FlushStores ==
  ASSUME NEW T, NEW insertions \in Seq(T), NEW base, IsDatabase(base), NEW tag \in DOMAIN base.tags,
         Range(insertions) \subseteq [since : Nat, hash : base.payloads]
  PROVE  \E new : /\ new \subseteq Range(insertions) /\ SincesOf(new) = SincesOf(Range(insertions))
                  /\ LET b == Flushed(base, tag, insertions)
                         now == Overlay(base.tags[tag].iovs, new)
                     IN  /\ IsDatabase(b) /\ b.payloads = base.payloads
                         /\ tag \in DOMAIN b.tags /\ b.tags[tag].iovs = now /\ IsIovSequence(now, base.payloads)
<1>1. PICK new : /\ IsFiniteSet(new) /\ new \subseteq Range(insertions)
                 /\ SincesOf(new) = SincesOf(Range(insertions))
                 /\ \A x, y \in new : x.since = y.since => x = y
                 /\ Flushed(base, tag, insertions) = WithNew(base, tag, new)
  BY FlushedIs, ZenonT(40)
<1> DEFINE c == WithNew(base, tag, new)
           now == Overlay(base.tags[tag].iovs, new)
<1>2. new \subseteq [since : Nat, hash : base.payloads]
  BY <1>1
<1>3. /\ IsDatabase(c) /\ c.payloads = base.payloads
      /\ tag \in DOMAIN c.tags /\ c.tags[tag].iovs = now /\ IsIovSequence(now, base.payloads)
  BY <1>1, <1>2, FlushKeeps
<1>4. Flushed(base, tag, insertions) = c
  BY <1>1
<1> HIDE DEF c, now
<1>5. LET b == Flushed(base, tag, insertions)
      IN  /\ IsDatabase(b) /\ b.payloads = base.payloads
          /\ tag \in DOMAIN b.tags /\ b.tags[tag].iovs = now /\ IsIovSequence(now, base.payloads)
  BY <1>3, <1>4
<1> QED
  BY <1>1, <1>5 DEF now

\* What an import inserts, the database that it flushes, and what it promises of it.
FoundBy(from, base, tag) == OpenedTag(base, tag, from).tags[tag].iovs

InsertedBy(from, base, tag, begin, end, a) ==
  Insertions(from.iovs, FoundBy(from, base, tag), HasTag(base, tag), begin, end, a)

FilledBy(from, base, tag, begin, end, a) ==
  [OpenedTag(base, tag, from) EXCEPT !.payloads = @ \cup
     {ImportedHash(iov.hash, a.reserialize) :
        iov \in {IntervalAt(from.iovs, start) : start \in StartsIn(from.iovs, begin, end)}}]

AllStored(from, base, tag, begin, end, a) ==
  \A n \in DOMAIN InsertedBy(from, base, tag, begin, end, a) :
    InsertedBy(from, base, tag, begin, end, a)[n].hash \in FilledBy(from, base, tag, begin, end, a).payloads

WrittenBy(from, base, tag, begin, end, a) ==
  Flushed(FilledBy(from, base, tag, begin, end, a), tag, InsertedBy(from, base, tag, begin, end, a))

ImportPromises(source, from, base, tag, begin, end, a) ==
  LET b == WrittenBy(from, base, tag, begin, end, a)
      found == FoundBy(from, base, tag)
  IN  /\ IsDatabase(b) /\ HasTag(b, tag)
      /\ found = IF HasTag(base, tag) THEN base.tags[tag].iovs ELSE {}
      /\ \E new : /\ ImportOf(from.iovs, source.payloads, found, base.payloads, begin, end, HasTag(base, tag), a, new)
                  /\ b.tags[tag].iovs = Overlay(found, new)
                  /\ IsIovSequence(Overlay(found, new), b.payloads)

LEMMA ImportWrites ==
  ASSUME NEW source, IsDatabase(source), NEW base, IsDatabase(base), NEW input \in DOMAIN source.tags,
         NEW a, a.override \in BOOLEAN, a.reserialize \in BOOLEAN, NEW end \in Nat, NEW begin \in Nat,
         begin <= end, HasIov(source.tags[input].iovs, begin), NEW tag,
         AllStored(source.tags[input], base, tag, begin, end, a)
  PROVE  ImportPromises(source, source.tags[input], base, tag, begin, end, a)
<1> DEFINE from == source.tags[input]
           src == from.iovs
           opened == OpenedTag(base, tag, from)
           found == FoundBy(from, base, tag)
           insertions == InsertedBy(from, base, tag, begin, end, a)
           copied == {ImportedHash(iov.hash, a.reserialize) :
                        iov \in {IntervalAt(src, start) : start \in StartsIn(src, begin, end)}}
           filled == FilledBy(from, base, tag, begin, end, a)
           b == Flushed(filled, tag, insertions)
           exists == HasTag(base, tag)
<1>0. /\ found = opened.tags[tag].iovs /\ filled = [opened EXCEPT !.payloads = @ \cup copied]
      /\ insertions = Insertions(src, found, exists, begin, end, a)
      /\ b = WrittenBy(from, base, tag, begin, end, a)
  BY Zenon DEF FoundBy, FilledBy, InsertedBy, WrittenBy
<1> HIDE DEF found, insertions, filled
<1>1. IsIovSequence(src, source.payloads) /\ HasContent(source.payloads)
  BY TagIsDatabase DEF IsDatabase, HasContent
<1> HIDE DEF src
<1>2. /\ IsDatabase(opened) /\ opened.payloads = base.payloads /\ tag \in DOMAIN opened.tags
      /\ found = IF HasTag(base, tag) THEN base.tags[tag].iovs ELSE {}
  <2> HIDE DEF from
  <2> QED
    BY <1>0, OpenedIs
<1>3. IsIovSequence(found, base.payloads)
  BY <1>0, <1>2, TagIsDatabase
<1>4. HasContent(copied)
  <2>1. HasIov(src, begin)
    BY DEF src
  <2> QED
    BY <1>1, <2>1, CopiedIs
<1> HIDE DEF copied, opened
<1>5. IsDatabase(filled) /\ filled.tags = opened.tags /\ filled.payloads = base.payloads \cup copied
  BY <1>0, <1>2, <1>4, FilledIs
<1>6. exists \in BOOLEAN /\ HasIov(src, begin)
  BY DEF HasTag, src
<1>7. PICK T : insertions \in Seq(T)
  BY <1>0, <1>1, <1>3, <1>6, InsertionsAre
<1> HIDE DEF b, exists
<1>8. insertions = Insertions(src, found, exists, begin, end, a)
  BY <1>0
<1>9. \A new : new \subseteq Range(insertions) /\ SincesOf(new) = SincesOf(Range(insertions))
                => ImportOf(src, source.payloads, found, base.payloads, begin, end, exists, a, new)
  BY <1>1, <1>3, <1>6, <1>8 DEF ImportOf
<1>10. Range(insertions) \subseteq [since : Nat, hash : filled.payloads]
  <2> SUFFICES ASSUME NEW x \in Range(insertions) PROVE x \in [since : Nat, hash : filled.payloads]
    OBVIOUS
  <2>1. x \in Range(Insertions(src, found, exists, begin, end, a))
    BY <1>8
  <2>2. ImportOf(src, source.payloads, found, base.payloads, begin, end, exists, a, Range(insertions))
    BY <1>9
  <2>3. SaysTheSource(x, src, begin, end)
    BY <2>1, <2>2, NewSayTheSource
  <2>4. x.hash \in filled.payloads
    BY DEF AllStored, Range, insertions, filled, from
  <2> QED
    BY <2>3, <2>4 DEF SaysTheSource
<1>11. tag \in DOMAIN filled.tags /\ filled.tags[tag].iovs = found
  BY <1>0, <1>2, <1>5
<1>12. PICK new : /\ new \subseteq Range(insertions) /\ SincesOf(new) = SincesOf(Range(insertions))
                  /\ LET c == Flushed(filled, tag, insertions)
                         now == Overlay(filled.tags[tag].iovs, new)
                     IN  /\ IsDatabase(c) /\ c.payloads = filled.payloads
                         /\ tag \in DOMAIN c.tags /\ c.tags[tag].iovs = now /\ IsIovSequence(now, filled.payloads)
  BY <1>5, <1>7, <1>10, <1>11, FlushStores, Zenon
<1>13. /\ IsDatabase(b) /\ b.payloads = filled.payloads
       /\ tag \in DOMAIN b.tags /\ b.tags[tag].iovs = Overlay(found, new)
       /\ IsIovSequence(Overlay(found, new), filled.payloads)
  BY <1>11, <1>12 DEF b
<1>14. HasTag(b, tag)
  BY <1>13 DEF HasTag
<1> QED
  BY <1>0, <1>2, <1>9, <1>12, <1>13, <1>14 DEF ImportPromises, src, exists, found

LEMMA BasesChange ==
  ASSUME BasesInv, NEW name \in DOMAIN FirstBases, NEW base, IsDatabase(base),
         bases' = [bases EXCEPT ![name] = base]
  PROVE  BasesInv' /\ bases'[name] = base
BY DEF BasesInv

\* An import that rolls back changes nothing; one that commits leaves what it
\* promises.
LEMMA ImportStep ==
  ASSUME BasesInv, NEW a \in Imports, Import(a)
  PROVE  BasesInv' /\ ImportedIovs'
<1> DEFINE source == bases[a.from]
           base == bases[a.to]
           from == source.tags[a.inputTag]
           begin == BeginOf(from.iovs, a.begin)
<1>1. CASE RollBack("import", a)
  BY <1>1 DEF RollBack, Ran, BasesInv, ImportedIovs
<1>2. CASE /\ HasTag(source, a.inputTag) /\ from.iovs # {} /\ ~(a.end < begin)
           /\ ImportTo(a, from, begin) /\ ~RollBack("import", a)
  <2>1. /\ IsDatabase(source) /\ IsDatabase(base) /\ a.inputTag \in DOMAIN source.tags
        /\ a.end \in Nat /\ a.begin \in Nat /\ a.override \in BOOLEAN /\ a.reserialize \in BOOLEAN
        /\ a.from \in DOMAIN FirstBases /\ a.to \in DOMAIN FirstBases
    BY <1>2, ArgumentsAssumption DEF BasesInv, HasTag
  <2>2. begin \in Nat /\ HasIov(from.iovs, begin) /\ begin <= a.end
    <3>1. IsIovSequence(from.iovs, source.payloads)
      BY <2>1, TagIsDatabase
    <3>2. begin \in Nat /\ HasIov(from.iovs, begin)
      BY <1>2, <2>1, <3>1, ImportBegins
    <3> HIDE DEF begin
    <3> QED
      BY <1>2, <2>1, <3>2
  <2> DEFINE found == FoundBy(from, base, a.tag)
             b == WrittenBy(from, base, a.tag, begin, a.end, a)
  <2>3. /\ AllStored(from, base, a.tag, begin, a.end, a)
        /\ Commit("import", a, a.to, b)
    <3> HIDE DEF begin
    <3> QED
      BY <1>2, Zenon DEF ImportTo, AllStored, FoundBy, InsertedBy, FilledBy, WrittenBy
  <2>4. ImportPromises(source, from, base, a.tag, begin, a.end, a)
    <3> DEFINE end == a.end
               tag == a.tag
               input == a.inputTag
    <3>1. /\ IsDatabase(source) /\ IsDatabase(base) /\ input \in DOMAIN source.tags
          /\ a.override \in BOOLEAN /\ a.reserialize \in BOOLEAN /\ end \in Nat /\ begin \in Nat
          /\ begin <= end /\ HasIov(source.tags[input].iovs, begin)
          /\ AllStored(source.tags[input], base, tag, begin, end, a)
      BY <2>1, <2>2, <2>3
    <3>2. from = source.tags[input]
      OBVIOUS
    <3> HIDE DEF source, base, begin, end, tag, input, from
    <3>3. ImportPromises(source, source.tags[input], base, tag, begin, end, a)
      BY <3>1, ImportWrites, SMTT(60)
    <3> QED
      BY <3>2, <3>3 DEF end, tag
  <2>5. BasesInv' /\ bases'[a.to] = b
    BY <2>1, <2>3, <2>4, BasesChange DEF Commit, ImportPromises
  <2>6. last' = [tool |-> "import", count |-> last.count + 1, arguments |-> a, ok |-> TRUE, found |-> bases]
    BY <2>3 DEF Commit, Ran
  <2>7. PICK new : /\ ImportOf(from.iovs, source.payloads, found, base.payloads, begin, a.end, HasTag(base, a.tag), a, new)
                   /\ b.tags[a.tag].iovs = Overlay(found, new)
                   /\ IsIovSequence(Overlay(found, new), b.payloads)
    BY <2>4 DEF ImportPromises
  <2>8. FoundIovs(last)' = found /\ found = IF HasTag(base, a.tag) THEN base.tags[a.tag].iovs ELSE {}
    BY <2>4, <2>6 DEF FoundIovs, ImportPromises
  <2> HIDE DEF b, found
  <2> DEFINE now == Overlay(found, new)
             src == from.iovs
             exists == HasTag(base, a.tag)
             times == SincesOf(src) \cup SincesOf(found) \cup {begin, begin - 1, a.end, a.end + 1}
  <2>9. times \subseteq Int
    <3>1. src \subseteq [since : Nat, hash : source.payloads] /\ found \subseteq [since : Nat, hash : base.payloads]
      BY <2>7 DEF ImportOf, IsIovSequence
    <3>2. SincesOf(src) \subseteq Int /\ SincesOf(found) \subseteq Int
      BY <3>1 DEF SincesOf
    <3> HIDE DEF begin, src
    <3> QED
      BY <2>1, <2>2, <3>2
  <2>10. ASSUME a.override \/ found = {}, NEW time \in times, begin <= time, time <= a.end
         PROVE  ContentAt(now, time) = ContentAt(src, time)
    <3>1. time \in Nat
      <4> HIDE DEF begin, times
      <4> QED
        BY <2>2, <2>9, <2>10
    <3>2. (exists /\ a.override) \/ found = {}
      BY <2>8, <2>10
    <3> HIDE DEF begin, src, source, base, exists
    <3> QED
      BY <2>7, <2>10, <3>1, <3>2, InsideSaysTheSource DEF src, exists
  <2>11. ASSUME NEW time \in times,
                time < begin \/ \E iov \in {iov \in found : iov.since > a.end} : iov.since <= time
         PROVE  ContentAt(now, time) = ContentAt(found, time)
    <3>1. time \in Int /\ (time < begin \/ \E iov \in found : iov.since > a.end /\ iov.since <= time)
      BY <2>9, <2>11
    <3> HIDE DEF begin, source, base
    <3> QED
      BY <2>7, <3>1, OutsideIsUnchanged
  <2>12. \A iov \in now : iov.hash \in b.payloads
    BY <2>7 DEF IsIovSequence
  <2>13. bases'[a.to].tags[a.tag].iovs = now
    BY <2>5, <2>7
  <2> HIDE DEF now
  <2>14. ImportedIovs'
    <3>1. /\ last'.arguments = a /\ last'.found = bases
      BY <2>6
    <3> HIDE DEF begin, src, times
    <3> QED
      BY <2>5, <2>8, <2>10, <2>11, <2>12, <2>13, <3>1, SMTT(60) DEF ImportedIovs, times, src, begin
  <2> QED
    BY <2>5, <2>14
<1> QED
  BY <1>1, <1>2, Zenon DEF Import

LEMMA CopyStep ==
  ASSUME BasesInv, NEW a \in Copies, CopyIov(a)
  PROVE  BasesInv' /\ ImportedIovs'
<1> DEFINE base == bases[a.base]
           from == base.tags[a.inputTag]
           opened == OpenedTag(base, a.tag, from)
           since == IF a.destSince = NoTime THEN a.sourceSince ELSE a.destSince
           used == IntervalAt(from.iovs, a.sourceSince)
           copy == [since |-> since, hash |-> used.hash]
           b == Flushed(opened, a.tag, <<copy>>)
<1>1. CASE RollBack("copy", a)
  BY <1>1 DEF RollBack, Ran, BasesInv, ImportedIovs
<1>2. CASE /\ HasTag(base, a.inputTag) /\ HasIov(from.iovs, a.sourceSince) /\ Commit("copy", a, a.base, b)
  <2>1. /\ a.base \in DOMAIN FirstBases /\ a.sourceSince \in Nat /\ since \in Nat /\ IsDatabase(base)
        /\ a.inputTag \in DOMAIN base.tags
    BY <1>2, ArgumentsAssumption DEF BasesInv, HasTag
  <2>2. used \in from.iovs /\ from.iovs \subseteq [since : Nat, hash : base.payloads]
    <3>1. IsIovSequence(from.iovs, base.payloads)
      BY <2>1, TagIsDatabase
    <3> DEFINE iovs == from.iovs
    <3>2. HasIov(iovs, a.sourceSince) /\ IsIovSequence(iovs, base.payloads) /\ a.sourceSince \in Int
      <4>1. a.sourceSince \in Int
        BY <2>1
      <4>2. HasIov(from.iovs, a.sourceSince) /\ IsIovSequence(from.iovs, base.payloads)
        BY <1>2, <3>1, Zenon
      <4> HIDE DEF from, base
      <4> QED
        BY <4>1, <4>2
    <3>3. iovs \subseteq [since : Nat, hash : base.payloads]
      BY <3>2 DEF IsIovSequence
    <3> HIDE DEF iovs, base
    <3>4. IntervalAt(iovs, a.sourceSince) \in iovs
      BY <3>2, ValidIov
    <3> QED
      BY <3>3, <3>4 DEF iovs
  <2>3. IsDatabase(opened) /\ opened.payloads = base.payloads /\ a.tag \in DOMAIN opened.tags
    <3> HIDE DEF from, base
    <3> QED
      BY <2>1, OpenedIs
  <2> HIDE DEF opened, used, since
  <2>4. copy \in [since : Nat, hash : opened.payloads]
    BY <2>1, <2>2, <2>3
  <2> HIDE DEF copy
  <2>5. Range(<<copy>>) \subseteq [since : Nat, hash : opened.payloads] /\ <<copy>> \in Seq({copy})
    BY <2>4, OneOrNone
  <2>6. IsDatabase(b)
    <3>1. \E new : IsDatabase(Flushed(opened, a.tag, <<copy>>))
      BY <2>3, <2>5, FlushStores
    <3> QED
      BY <3>1
  <2> HIDE DEF b
  <2>7. BasesInv'
    BY <1>2, <2>1, <2>6, BasesChange DEF Commit
  <2>8. last'.tool = "copy"
    BY <1>2 DEF Commit, Ran
  <2> QED
    BY <2>7, <2>8 DEF ImportedIovs
<1> QED
  BY <1>1, <1>2, Zenon DEF CopyIov

LEMMA EditStep ==
  ASSUME BasesInv, NEW a \in Edits, EditTag(a)
  PROVE  BasesInv' /\ ImportedIovs'
<1> DEFINE base == bases[a.base]
           info == IF HasTag(base, a.tag) THEN base.tags[a.tag] ELSE NewTag(Omitted, Omitted, "any")
           b == WithTag(base, a.tag, Edited(info, a))
<1>1. CASE RollBack("edit", a)
  BY <1>1 DEF RollBack, Ran, BasesInv, ImportedIovs
<1>2. CASE Commit("edit", a, a.base, b)
  <2>1. last'.tool = "edit" /\ bases' = [bases EXCEPT ![a.base] = b]
    BY <1>2 DEF Commit, Ran
  <2>2. CASE a.base \notin DOMAIN bases
    <3> HIDE DEF b
    <3>1. DOMAIN bases' = DOMAIN bases /\ \A name \in DOMAIN bases : bases'[name] = bases[name]
      BY <2>1, <2>2
    <3> QED
      BY <2>1, <3>1 DEF BasesInv, ImportedIovs
  <2>3. CASE a.base \in DOMAIN bases
    <3>1. IsDatabase(base)
      BY <2>3 DEF BasesInv
    <3>2. /\ info = [payloadType |-> info.payloadType, timeType |-> info.timeType, sync |-> info.sync,
                     endOfValidity |-> info.endOfValidity, iovs |-> info.iovs]
          /\ IsIovSequence(info.iovs, base.payloads)
      <4>1. CASE HasTag(base, a.tag)
        BY <3>1, <4>1, TagIsDatabase DEF HasTag
      <4>2. CASE ~HasTag(base, a.tag)
        BY <4>2, NothingIsSequence DEF NewTag
      <4> QED
        BY <4>1, <4>2
    <3> DEFINE e == Edited(info, a)
    <3> HIDE DEF info
    <3>3. e = [payloadType |-> e.payloadType, timeType |-> e.timeType, sync |-> e.sync,
               endOfValidity |-> e.endOfValidity, iovs |-> e.iovs] /\ e.iovs = info.iovs
      <4>1. PICK p, t, s, v : e = [info EXCEPT !.payloadType = p, !.timeType = t, !.sync = s, !.endOfValidity = v]
        BY Zenon DEF Edited
      <4> HIDE DEF e
      <4> QED
        BY <3>2, <4>1
    <3> HIDE DEF e
    <3>4. IsDatabase(WithTag(base, a.tag, e))
      BY <3>1, <3>2, <3>3, WithTagIs
    <3>5. IsDatabase(b)
      BY <3>4 DEF e
    <3> HIDE DEF b
    <3>6. BasesInv'
      BY <2>1, <2>3, <3>5, BasesChange DEF BasesInv
    <3> QED
      BY <2>1, <3>6 DEF ImportedIovs
  <2> QED
    BY <2>2, <2>3
<1> QED
  BY <1>1, <1>2, Zenon DEF EditTag

-----------------------------------------------------------------------------
(* The file with credentials: how what was written so far is read. *)

Kinds == {"connection", "role", "/connection", "/role", "parameter"}
Elements(names, accounts) == [kind : Kinds, name : names, account : accounts]

\* The last element of a kind among the first n has a name.
LastIs(elements, n, kind, name) ==
  \E m \in 1 .. n : /\ elements[m].kind = kind /\ elements[m].name = name
                    /\ \A k \in (m + 1) .. n : elements[k].kind # kind

IsInRole(elements, n) ==
  \E m \in 1 .. n : /\ elements[m].kind = "role"
                    /\ \A k \in m .. n : elements[k].kind # "/role"

\* Element n is read as an entry for a key.
ReadsAs(elements, n, entry) ==
  /\ elements[n].kind = "parameter" /\ entry.account = elements[n].account
  /\ LastIs(elements, n, "connection", entry.key[1])
  /\ IF IsInRole(elements, n) THEN LastIs(elements, n, "role", entry.key[2]) ELSE entry.key[2] = DefaultRole

IsEntry(entry) == entry = [key |-> <<entry.key[1], entry.key[2]>>, account |-> entry.account]

Says(elements, entries) ==
  /\ \A entry \in entries : IsEntry(entry) /\ \E n \in 1 .. Len(elements) : ReadsAs(elements, n, entry)
  /\ \A n \in 1 .. Len(elements) :
       elements[n].kind = "parameter" => \E entry \in entries : ReadsAs(elements, n, entry)

LastOf(elements, n, kind) ==
  CHOOSE m \in 1 .. n : /\ elements[m].kind = kind
                        /\ \A k \in (m + 1) .. n : elements[k].kind # kind

LEMMA NameIs ==
  ASSUME NEW elements, NEW n \in Nat, NEW kind, NEW name, LastIs(elements, n, kind, name)
  PROVE  elements[LastOf(elements, n, kind)].name = name
<1> DEFINE IsLast(m) == elements[m].kind = kind /\ \A k \in (m + 1) .. n : elements[k].kind # kind
           final == CHOOSE m \in 1 .. n : IsLast(m)
<1>1. PICK m \in 1 .. n : IsLast(m) /\ elements[m].name = name
  BY DEF LastIs
<1>2. final \in 1 .. n /\ IsLast(final)
  <2> HIDE DEF IsLast
  <2> QED
    BY <1>1
<1> HIDE DEF final
<1>3. m = final
  <2>1. m < final \/ final < m \/ m = final
    BY <1>1, <1>2
  <2>2. CASE m < final
    <3>1. final \in (m + 1) .. n
      BY <1>1, <1>2, <2>2
    <3> QED
      BY <1>1, <1>2, <3>1
  <2>3. CASE final < m
    <3>1. m \in (final + 1) .. n
      BY <1>1, <1>2, <2>3
    <3> QED
      BY <1>1, <1>2, <3>1
  <2> QED
    BY <2>1, <2>2, <2>3
<1>4. elements[final].name = name
  BY <1>1, <1>3
<1> QED
  BY <1>4 DEF final, LastOf

\* What a file says is what is parsed.
LEMMA SaysIsParsed ==
  ASSUME NEW E, NEW elements \in Seq(E), NEW entries, Says(elements, entries)
  PROVE  Parsed(elements) = entries
<1> DEFINE L == Len(elements)
           Name(n, kind) == elements[LastOf(elements, n, kind)].name
           P == {m \in DOMAIN elements : elements[m].kind = "parameter"}
           Entry1(n) == [key |-> <<Name(n, "connection"), IF IsInRole(elements, n) THEN Name(n, "role") ELSE DefaultRole>>,
                         account |-> elements[n].account]
<1>1. Parsed(elements) = {Entry1(n) : n \in P}
  BY Zenon DEF Parsed, IsInRole, LastOf
<1>2. DOMAIN elements = 1 .. L /\ L \in Nat
  OBVIOUS
<1>3. ASSUME NEW n \in 1 .. L, NEW entry, IsEntry(entry), ReadsAs(elements, n, entry) PROVE Entry1(n) = entry
  <2>1. Name(n, "connection") = entry.key[1]
    BY <1>3, NameIs DEF ReadsAs
  <2>2. CASE IsInRole(elements, n)
    <3>1. Name(n, "role") = entry.key[2]
      BY <1>3, <2>2, NameIs DEF ReadsAs
    <3> HIDE DEF Name
    <3> QED
      BY <1>3, <2>1, <2>2, <3>1 DEF IsEntry, ReadsAs
  <2>3. CASE ~IsInRole(elements, n)
    <3> HIDE DEF Name
    <3> QED
      BY <1>3, <2>1, <2>3 DEF IsEntry, ReadsAs
  <2> QED
    BY <2>2, <2>3
<1> HIDE DEF Entry1
<1>4. ASSUME NEW entry \in entries PROVE \E n \in P : Entry1(n) = entry
  <2>1. PICK n \in 1 .. L : ReadsAs(elements, n, entry)
    BY DEF Says
  <2> QED
    BY <1>2, <1>3, <2>1 DEF Says, ReadsAs
<1>5. ASSUME NEW n \in P PROVE Entry1(n) \in entries
  <2>1. n \in 1 .. L /\ elements[n].kind = "parameter"
    BY <1>2
  <2>2. PICK entry \in entries : ReadsAs(elements, n, entry)
    BY <2>1 DEF Says
  <2> QED
    BY <1>3, <2>1, <2>2 DEF Says
<1> QED
  BY <1>1, <1>4, <1>5

\* What was read of the elements before stays; the new one counts at the end.
LEMMA Appending ==
  ASSUME NEW E, NEW F \in Seq(E), NEW e \in E
  PROVE  LET G == Append(F, e)
             L == Len(F)
         IN  /\ G \in Seq(E) /\ Len(G) = L + 1 /\ L \in Nat /\ G[L + 1] = e
             /\ \A n \in 1 .. L : G[n] = F[n]
OBVIOUS

LEMMA StillLast ==
  ASSUME NEW E, NEW F \in Seq(E), NEW e \in E, NEW n \in 1 .. Len(F), NEW kind, NEW name
  PROVE  LastIs(Append(F, e), n, kind, name) <=> LastIs(F, n, kind, name)
<1> DEFINE G == Append(F, e)
<1>1. Len(F) \in Nat /\ \A m \in 1 .. Len(F) : G[m] = F[m]
  OBVIOUS
<1> HIDE DEF G
<1>2. \A m \in 1 .. n : m \in 1 .. Len(F) /\ \A k \in (m + 1) .. n : k \in 1 .. Len(F)
  BY <1>1
<1>3. \A m \in 1 .. n : G[m] = F[m] /\ \A k \in (m + 1) .. n : G[k] = F[k]
  BY <1>1, <1>2
<1>4. LastIs(G, n, kind, name) <=> LastIs(F, n, kind, name)
  BY <1>3 DEF LastIs
<1> QED
  BY <1>4 DEF G

LEMMA StillInRole ==
  ASSUME NEW E, NEW F \in Seq(E), NEW e \in E, NEW n \in 1 .. Len(F)
  PROVE  IsInRole(Append(F, e), n) <=> IsInRole(F, n)
<1> DEFINE G == Append(F, e)
<1>1. Len(F) \in Nat /\ \A m \in 1 .. Len(F) : G[m] = F[m]
  OBVIOUS
<1> HIDE DEF G
<1>2. \A m \in 1 .. n : m \in 1 .. Len(F) /\ \A k \in m .. n : k \in 1 .. Len(F)
  BY <1>1
<1>3. \A m \in 1 .. n : G[m] = F[m] /\ \A k \in m .. n : G[k] = F[k]
  BY <1>1, <1>2
<1>4. IsInRole(G, n) <=> IsInRole(F, n)
  BY <1>3 DEF IsInRole
<1> QED
  BY <1>4 DEF G

LEMMA StillRead ==
  ASSUME NEW E, NEW F \in Seq(E), NEW e \in E, NEW n \in 1 .. Len(F), NEW entry
  PROVE  ReadsAs(Append(F, e), n, entry) <=> ReadsAs(F, n, entry)
<1> DEFINE G == Append(F, e)
<1>1. G[n] = F[n]
  OBVIOUS
<1>2. /\ LastIs(G, n, "connection", entry.key[1]) <=> LastIs(F, n, "connection", entry.key[1])
      /\ LastIs(G, n, "role", entry.key[2]) <=> LastIs(F, n, "role", entry.key[2])
      /\ IsInRole(G, n) <=> IsInRole(F, n)
  BY StillLast, StillInRole
<1> HIDE DEF G
<1>3. ReadsAs(G, n, entry) <=> ReadsAs(F, n, entry)
  BY <1>1, <1>2 DEF ReadsAs
<1> QED
  BY <1>3 DEF G

LEMMA NowLast ==
  ASSUME NEW E, NEW F \in Seq(E), NEW e \in E, NEW kind, NEW name
  PROVE  LET G == Append(F, e)
         IN  /\ e.kind = kind /\ e.name = name => LastIs(G, Len(G), kind, name)
             /\ e.kind # kind /\ LastIs(F, Len(F), kind, name) => LastIs(G, Len(G), kind, name)
<1> DEFINE G == Append(F, e)
           L == Len(F)
<1>1. Len(G) = L + 1 /\ L \in Nat /\ G[L + 1] = e /\ \A n \in 1 .. L : G[n] = F[n]
  OBVIOUS
<1> HIDE DEF G, L
<1>2. ASSUME e.kind = kind, e.name = name PROVE LastIs(G, L + 1, kind, name)
  <2>1. L + 1 \in 1 .. L + 1 /\ (L + 1 + 1) .. (L + 1) = {}
    BY <1>1
  <2> QED
    BY <1>1, <1>2, <2>1 DEF LastIs
<1>3. ASSUME e.kind # kind, LastIs(F, L, kind, name) PROVE LastIs(G, L + 1, kind, name)
  <2>1. PICK m \in 1 .. L : /\ F[m].kind = kind /\ F[m].name = name
                            /\ \A k \in (m + 1) .. L : F[k].kind # kind
    BY <1>3 DEF LastIs
  <2>2. m \in 1 .. L + 1 /\ G[m] = F[m] /\ \A k \in (m + 1) .. (L + 1) : k = L + 1 \/ (k \in (m + 1) .. L /\ k \in 1 .. L)
    BY <1>1
  <2>3. \A k \in (m + 1) .. (L + 1) : G[k].kind # kind
    BY <1>1, <1>3, <2>1, <2>2
  <2> QED
    BY <2>1, <2>2, <2>3 DEF LastIs
<1> QED
  BY <1>1, <1>2, <1>3 DEF G, L

LEMMA NowInRole ==
  ASSUME NEW E, NEW F \in Seq(E), NEW e \in E
  PROVE  LET G == Append(F, e)
         IN  /\ e.kind = "role" => IsInRole(G, Len(G))
             /\ e.kind = "/role" => ~IsInRole(G, Len(G))
             /\ e.kind \notin {"role", "/role"} => (IsInRole(G, Len(G)) <=> IsInRole(F, Len(F)))
<1> DEFINE G == Append(F, e)
           L == Len(F)
<1>1. Len(G) = L + 1 /\ L \in Nat /\ G[L + 1] = e /\ \A n \in 1 .. L : G[n] = F[n]
  OBVIOUS
<1> HIDE DEF G, L
<1>2. ASSUME e.kind = "role" PROVE IsInRole(G, L + 1)
  <2>1. L + 1 \in 1 .. L + 1 /\ \A k \in (L + 1) .. (L + 1) : k = L + 1
    BY <1>1
  <2> QED
    BY <1>1, <1>2, <2>1 DEF IsInRole
<1>3. ASSUME e.kind = "/role" PROVE ~IsInRole(G, L + 1)
  <2>1. \A m \in 1 .. L + 1 : L + 1 \in m .. (L + 1)
    BY <1>1
  <2> QED
    BY <1>1, <1>3, <2>1 DEF IsInRole
<1>4. ASSUME e.kind \notin {"role", "/role"} PROVE IsInRole(G, L + 1) <=> IsInRole(F, L)
  <2>1. ASSUME NEW m \in 1 .. L, F[m].kind = "role", \A k \in m .. L : F[k].kind # "/role" PROVE IsInRole(G, L + 1)
    <3>1. m \in 1 .. L + 1 /\ G[m] = F[m] /\ \A k \in m .. (L + 1) : k = L + 1 \/ (k \in m .. L /\ k \in 1 .. L)
      BY <1>1
    <3>2. \A k \in m .. (L + 1) : G[k].kind # "/role"
      BY <1>1, <1>4, <2>1, <3>1
    <3> QED
      BY <2>1, <3>1, <3>2 DEF IsInRole
  <2>2. ASSUME NEW m \in 1 .. L + 1, G[m].kind = "role", \A k \in m .. (L + 1) : G[k].kind # "/role" PROVE IsInRole(F, L)
    <3>1. m # L + 1
      BY <1>1, <1>4, <2>2
    <3>2. m \in 1 .. L /\ G[m] = F[m] /\ \A k \in m .. L : k \in m .. (L + 1) /\ k \in 1 .. L
      BY <1>1, <3>1
    <3>3. \A k \in m .. L : F[k].kind # "/role"
      BY <1>1, <2>2, <3>2
    <3> QED
      BY <2>2, <3>2, <3>3 DEF IsInRole
  <2> QED
    BY <2>1, <2>2 DEF IsInRole
<1> QED
  BY <1>1, <1>2, <1>3, <1>4 DEF G, L

\* An element that is no parameter says nothing, a parameter adds its entry.
LEMMA NowSays ==
  ASSUME NEW E, NEW F \in Seq(E), NEW e \in E, NEW S, Says(F, S)
  PROVE  /\ e.kind # "parameter" => Says(Append(F, e), S)
         /\ \A entry : /\ e.kind = "parameter" /\ IsEntry(entry)
                       /\ ReadsAs(Append(F, e), Len(F) + 1, entry)
                       => Says(Append(F, e), S \cup {entry})
<1> DEFINE G == Append(F, e)
           L == Len(F)
<1>1. Len(G) = L + 1 /\ L \in Nat /\ G[L + 1] = e /\ \A n \in 1 .. L : G[n] = F[n]
  OBVIOUS
<1>2. \A entry : \A n \in 1 .. L : ReadsAs(G, n, entry) <=> ReadsAs(F, n, entry)
  BY StillRead
<1> HIDE DEF G, L
<1>3. \A n \in 1 .. L + 1 : n = L + 1 \/ n \in 1 .. L
  BY <1>1
<1>4. \A entry \in S : IsEntry(entry) /\ \E n \in 1 .. Len(G) : ReadsAs(G, n, entry)
  <2>1. \A n \in 1 .. L : n \in 1 .. Len(G)
    BY <1>1
  <2> QED
    BY <1>2, <2>1 DEF Says, L
<1>5. \A n \in 1 .. L : G[n].kind = "parameter" => \E entry \in S : ReadsAs(G, n, entry)
  BY <1>1, <1>2 DEF Says, L
<1>6. ASSUME e.kind # "parameter" PROVE Says(G, S)
  BY <1>1, <1>3, <1>4, <1>5, <1>6 DEF Says
<1>7. ASSUME NEW entry, IsEntry(entry), ReadsAs(G, L + 1, entry) PROVE Says(G, S \cup {entry})
  <2>1. L + 1 \in 1 .. Len(G)
    BY <1>1
  <2> QED
    BY <1>1, <1>3, <1>4, <1>5, <1>7, <2>1 DEF Says
<1> QED
  BY <1>6, <1>7 DEF G, L

-----------------------------------------------------------------------------
(* The file with credentials: what is written. *)

\* What was written reads as the entries S; open is open, of conn and role.
IsWritten(out, E, open, conn, role, S) ==
  /\ out = [open |-> open, file |-> out.file] /\ out.file \in Seq(E)
  /\ Says(out.file, S)
  /\ open # <<>> => LastIs(out.file, Len(out.file), "connection", conn)
  /\ IsInRole(out.file, Len(out.file)) <=> Len(open) = 2
  /\ Len(open) = 2 => LastIs(out.file, Len(out.file), "role", role)

\* An element that is no parameter leads from what is open to what is open next.
Leads(e, open, conn, next, conn2, role2) ==
  /\ next # <<>> => \/ e.kind = "connection" /\ e.name = conn2
                    \/ e.kind # "connection" /\ conn2 = conn /\ open # <<>>
  /\ e.kind = "role" => Len(next) = 2
  /\ e.kind = "/role" => Len(next) # 2
  /\ e.kind \notin {"role", "/role"} => Len(next) # 2 /\ Len(open) # 2
  /\ Len(next) = 2 => e.kind = "role" /\ e.name = role2

\* An element that is no parameter where it is allowed.
LEMMA ElementWritten ==
  ASSUME NEW E, NEW out, NEW open, NEW next, NEW conn, NEW role, NEW S,
         IsWritten(out, E, open, conn, role, S), NEW e \in E, e.kind # "parameter",
         NEW conn2, NEW role2,
         Leads(e, open, conn, next, conn2, role2)
  PROVE  IsWritten([open |-> next, file |-> Append(out.file, e)], E, next, conn2, role2, S)
<1> DEFINE F == out.file
           G == Append(F, e)
           new == [open |-> next, file |-> G]
<1>1. /\ F \in Seq(E) /\ Says(F, S) /\ (open # <<>> => LastIs(F, Len(F), "connection", conn))
      /\ (IsInRole(F, Len(F)) <=> Len(open) = 2)
  BY DEF IsWritten
<1>2. G \in Seq(E) /\ Says(G, S)
  BY <1>1, NowSays
<1>3. next # <<>> => LastIs(G, Len(G), "connection", conn2)
  BY <1>1, NowLast DEF Leads
<1>4. IsInRole(G, Len(G)) <=> Len(next) = 2
  BY <1>1, NowInRole DEF Leads
<1>5. Len(next) = 2 => LastIs(G, Len(G), "role", role2)
  BY <1>1, NowLast DEF Leads
<1> HIDE DEF G
<1>6. new.open = next /\ new.file = G
  OBVIOUS
<1>7. new = [open |-> next, file |-> new.file]
  BY <1>6
<1> HIDE DEF new
<1>8. IsWritten(new, E, next, conn2, role2, S)
  BY <1>2, <1>3, <1>4, <1>5, <1>6, <1>7 DEF IsWritten
<1> QED
  BY <1>8 DEF new, G

\* A parameter is an entry of the connection and of the role that are open.
LEMMA ParameterWritten ==
  ASSUME NEW E, NEW out, NEW open, NEW conn, NEW role, NEW S,
         IsWritten(out, E, open, conn, role, S), NEW e \in E, e.kind = "parameter", open # <<>>,
         Len(open) # 2 => role = DefaultRole
  PROVE  IsWritten([open |-> open, file |-> Append(out.file, e)], E, open, conn, role,
                   S \cup {[key |-> <<conn, role>>, account |-> e.account]})
<1> DEFINE F == out.file
           G == Append(F, e)
           new == [open |-> open, file |-> G]
           entry == [key |-> <<conn, role>>, account |-> e.account]
<1>1. /\ F \in Seq(E) /\ Says(F, S) /\ LastIs(F, Len(F), "connection", conn)
      /\ (IsInRole(F, Len(F)) <=> Len(open) = 2)
      /\ (Len(open) = 2 => LastIs(F, Len(F), "role", role))
  BY DEF IsWritten
<1>2. G \in Seq(E) /\ Len(G) = Len(F) + 1 /\ G[Len(F) + 1] = e
  BY <1>1, Appending
<1>3. LastIs(G, Len(G), "connection", conn)
  BY <1>1, NowLast
<1>4. IsInRole(G, Len(G)) <=> Len(open) = 2
  BY <1>1, NowInRole
<1>5. Len(open) = 2 => LastIs(G, Len(G), "role", role)
  BY <1>1, NowLast
<1>6. entry.key[1] = conn /\ entry.key[2] = role /\ entry.account = e.account
      /\ entry.key = <<conn, role>>
  OBVIOUS
<1>7. IsEntry(entry)
  BY DEF IsEntry
<1> HIDE DEF entry
<1>8. ReadsAs(G, Len(F) + 1, entry)
  <2> HIDE DEF G
  <2>1. LastIs(G, Len(F) + 1, "connection", entry.key[1]) /\ entry.account = G[Len(F) + 1].account
        /\ G[Len(F) + 1].kind = "parameter"
    BY <1>2, <1>3, <1>6
  <2>2. CASE Len(open) = 2
    <3>1. IsInRole(G, Len(F) + 1) /\ LastIs(G, Len(F) + 1, "role", entry.key[2])
      BY <1>2, <1>4, <1>5, <1>6, <2>2
    <3> QED
      BY <2>1, <3>1 DEF ReadsAs
  <2>3. CASE Len(open) # 2
    <3>1. ~IsInRole(G, Len(F) + 1) /\ entry.key[2] = DefaultRole
      BY <1>2, <1>4, <1>6, <2>3
    <3> QED
      BY <2>1, <3>1 DEF ReadsAs
  <2> QED
    BY <2>2, <2>3
<1>9. Says(G, S \cup {entry})
  BY <1>1, <1>7, <1>8, NowSays
<1> HIDE DEF G
<1>10. new.open = open /\ new.file = G
  OBVIOUS
<1>11. new = [open |-> open, file |-> new.file]
  BY <1>10
<1> HIDE DEF new
<1>12. IsWritten(new, E, open, conn, role, S \cup {entry})
  BY <1>2, <1>3, <1>4, <1>5, <1>9, <1>10, <1>11 DEF IsWritten
<1> QED
  BY <1>12 DEF new, G, entry

LEMMA AppendOne ==
  ASSUME NEW T, NEW a \in T, NEW b \in T
  PROVE  Append(<<a>>, b) = <<a, b>>
<1>1. <<a>> \in Seq(T) /\ <<a, b>> \in Seq(T) /\ Len(<<a>>) = 1 /\ Len(<<a, b>>) = 2
  OBVIOUS
<1>2. <<a>>[1] = a /\ <<a, b>>[1] = a /\ <<a, b>>[2] = b
  OBVIOUS
<1> DEFINE one == <<a>>
           two == <<a, b>>
<1> HIDE DEF one, two
<1>3. Append(one, b) \in Seq(T) /\ Len(Append(one, b)) = 2 /\ Append(one, b)[1] = a /\ Append(one, b)[2] = b
  BY <1>1, <1>2 DEF one
<1>4. \A i \in 1 .. 2 : i = 1 \/ i = 2
  OBVIOUS
<1>5. Append(one, b) = two
  <2> DEFINE both == Append(one, b)
  <2> HIDE DEF both
  <2>1. both \in Seq(T) /\ two \in Seq(T) /\ Len(both) = 2 /\ Len(two) = 2 /\ both[1] = two[1] /\ both[2] = two[2]
    BY <1>1, <1>2, <1>3 DEF two, both
  <2>2. \A i \in 1 .. Len(both) : both[i] = two[i]
    BY <1>4, <2>1
  <2>3. both = two
    BY <2>1, <2>2, SeqEqual
  <2> QED
    BY <2>3 DEF both
<1> QED
  BY <1>5 DEF one, two

LEMMA ElementsAre ==
  ASSUME NEW names, NEW accounts, NEW kind \in Kinds, NEW name \in names, NEW account \in accounts
  PROVE  /\ Element(kind, name, account) \in Elements(names, accounts)
         /\ Element(kind, name, account).kind = kind /\ Element(kind, name, account).name = name
         /\ Element(kind, name, account).account = account
BY DEF Element, Elements

LEMMA OpenOf ==
  ASSUME NEW E, NEW out, NEW open, NEW conn, NEW role, NEW S, IsWritten(out, E, open, conn, role, S)
  PROVE  out.open = open
<1>1. out = [open |-> open, file |-> out.file]
  BY DEF IsWritten
<1> QED
  BY <1>1

LEMMA ConnectionClosed ==
  ASSUME NEW names, NEW accounts, NEW out, NEW before, NEW S, NEW name \in names, NEW account \in accounts,
         \/ IsWritten(out, Elements(names, accounts), <<>>, before, DefaultRole, S)
         \/ IsWritten(out, Elements(names, accounts), <<"connection">>, before, DefaultRole, S)
  PROVE  IsWritten(Write(out, "/connection", name, account), Elements(names, accounts), <<>>, before, DefaultRole, S)
<1> DEFINE e == Element("/connection", name, account)
           E == Elements(names, accounts)
<1>1. e \in E /\ e.kind = "/connection"
  BY ElementsAre DEF Kinds
<1>2. CASE IsWritten(out, E, <<>>, before, DefaultRole, S)
  <2>1. out.open = <<>>
    BY <1>2, OpenOf
  <2>2. Write(out, "/connection", name, account) = out
    BY <2>1 DEF Write
  <2> QED
    BY <1>2, <2>2
<1>3. CASE IsWritten(out, E, <<"connection">>, before, DefaultRole, S)
  <2>1. out.open = <<"connection">>
    BY <1>3, OpenOf
  <2>2. Write(out, "/connection", name, account) = [open |-> <<>>, file |-> Append(out.file, e)]
    BY <2>1 DEF Write
  <2>3. Len(<<>>) = 0 /\ Len(<<"connection">>) = 1
    OBVIOUS
  <2> DEFINE open == <<"connection">>
             next == <<>>
  <2> HIDE DEF e, E, open, next
  <2>4. Leads(e, open, before, next, before, DefaultRole)
    BY <1>1, <2>3 DEF Leads, open, next
  <2>5. IsWritten([open |-> next, file |-> Append(out.file, e)], E, next, before, DefaultRole, S)
    BY <1>1, <1>3, <2>4, ElementWritten DEF open
  <2> QED
    BY <2>2, <2>5 DEF e, E, next
<1> QED
  BY <1>2, <1>3

LEMMA ConnectionOpened ==
  ASSUME NEW names, NEW accounts, NEW out, NEW before, NEW S, NEW name \in names, NEW account \in accounts,
         IsWritten(out, Elements(names, accounts), <<>>, before, DefaultRole, S)
  PROVE  IsWritten(Write(out, "connection", name, account), Elements(names, accounts), <<"connection">>, name,
                   DefaultRole, S)
<1> DEFINE e == Element("connection", name, account)
           E == Elements(names, accounts)
<1>1. e \in E /\ e.kind = "connection" /\ e.name = name
  BY ElementsAre DEF Kinds
<1>2. out.open = <<>>
  BY OpenOf
<1>3. Write(out, "connection", name, account) = [open |-> <<"connection">>, file |-> Append(out.file, e)]
  BY <1>2 DEF Write
<1>4. Len(<<>>) = 0 /\ Len(<<"connection">>) = 1
  OBVIOUS
<1> HIDE DEF e
<1> DEFINE open == <<>>
           next == <<"connection">>
<1> HIDE DEF E, open, next
<1>5. Leads(e, open, before, next, name, DefaultRole)
  BY <1>1, <1>4 DEF Leads, open, next
<1>6. IsWritten([open |-> next, file |-> Append(out.file, e)], E, next, name, DefaultRole, S)
  BY <1>1, <1>5, ElementWritten DEF E, open
<1> QED
  BY <1>3, <1>6 DEF next, E

\* The account of the default role of the connection that is open.
LEMMA DefaultWritten ==
  ASSUME NEW names, NEW accounts, NEW out, NEW conn, NEW S, NEW name \in names, NEW account \in accounts,
         IsWritten(out, Elements(names, accounts), <<"connection">>, conn, DefaultRole, S)
  PROVE  IsWritten(Write(out, "parameter", name, account), Elements(names, accounts), <<"connection">>, conn,
                   DefaultRole, S \cup {[key |-> <<conn, DefaultRole>>, account |-> account]})
<1> DEFINE e == Element("parameter", name, account)
           E == Elements(names, accounts)
           open == <<"connection">>
<1>1. e \in E /\ e.kind = "parameter" /\ e.account = account
  BY ElementsAre DEF Kinds
<1>2. out.open = open
  BY OpenOf
<1>3. Write(out, "parameter", name, account) = [open |-> open, file |-> Append(out.file, e)]
  BY <1>2 DEF Write
<1>4. open # <<>>
  OBVIOUS
<1> HIDE DEF e, E, open
<1>5. IsWritten([open |-> open, file |-> Append(out.file, e)], E, open, conn, DefaultRole,
                S \cup {[key |-> <<conn, DefaultRole>>, account |-> e.account]})
  BY <1>1, <1>4, ParameterWritten DEF E, open
<1> QED
  BY <1>1, <1>3, <1>5 DEF open, E

LEMMA RoleOpened ==
  ASSUME NEW names, NEW accounts, NEW out, NEW conn, NEW S, NEW name \in names, NEW account \in accounts,
         IsWritten(out, Elements(names, accounts), <<"connection">>, conn, DefaultRole, S)
  PROVE  IsWritten(Write(out, "role", name, account), Elements(names, accounts), <<"connection", "role">>, conn,
                   name, S)
<1> DEFINE e == Element("role", name, account)
           E == Elements(names, accounts)
           open == <<"connection">>
           next == <<"connection", "role">>
<1>1. e \in E /\ e.kind = "role" /\ e.name = name
  BY ElementsAre DEF Kinds
<1>2. out.open = open
  BY OpenOf
<1>3. Append(open, "role") = next /\ Len(open) = 1 /\ Len(next) = 2 /\ Len(<<>>) = 0
  <2>1. Len(open) = 1 /\ Len(next) = 2 /\ Len(<<>>) = 0
    OBVIOUS
  <2>2. Append(open, "role") = next
    <3>1. "connection" \in Kinds /\ "role" \in Kinds
      BY DEF Kinds
    <3> QED
      BY <3>1, AppendOne
  <2> QED
    BY <2>1, <2>2
<1>4. Write(out, "role", name, account) = [open |-> next, file |-> Append(out.file, e)]
  BY <1>2, <1>3 DEF Write
<1> HIDE DEF e, E, open, next
<1>5. Leads(e, open, conn, next, conn, name)
  BY <1>1, <1>3 DEF Leads
<1>6. IsWritten([open |-> next, file |-> Append(out.file, e)], E, next, conn, name, S)
  BY <1>1, <1>5, ElementWritten DEF E, open
<1> QED
  BY <1>4, <1>6 DEF next, E

LEMMA RoleAccount ==
  ASSUME NEW names, NEW accounts, NEW out, NEW conn, NEW role, NEW S, NEW name \in names,
         NEW account \in accounts,
         IsWritten(out, Elements(names, accounts), <<"connection", "role">>, conn, role, S)
  PROVE  IsWritten(Write(out, "parameter", name, account), Elements(names, accounts), <<"connection", "role">>, conn,
                   role, S \cup {[key |-> <<conn, role>>, account |-> account]})
<1> DEFINE e == Element("parameter", name, account)
           E == Elements(names, accounts)
           open == <<"connection", "role">>
<1>1. e \in E /\ e.kind = "parameter" /\ e.account = account
  BY ElementsAre DEF Kinds
<1>2. out.open = open
  BY OpenOf
<1>3. Len(<<>>) = 0 /\ Len(open) = 2
  OBVIOUS
<1>4. Write(out, "parameter", name, account) = [open |-> open, file |-> Append(out.file, e)]
  BY <1>2, <1>3 DEF Write
<1> HIDE DEF e, E, open
<1>5. IsWritten([open |-> open, file |-> Append(out.file, e)], E, open, conn, role,
                S \cup {[key |-> <<conn, role>>, account |-> e.account]})
  BY <1>1, <1>3, ParameterWritten DEF E, open
<1> QED
  BY <1>1, <1>4, <1>5 DEF open, E

LEMMA RoleClosed ==
  ASSUME NEW names, NEW accounts, NEW out, NEW conn, NEW role, NEW S, NEW name \in names,
         NEW account \in accounts,
         IsWritten(out, Elements(names, accounts), <<"connection", "role">>, conn, role, S)
  PROVE  IsWritten(Write(out, "/role", name, account), Elements(names, accounts), <<"connection">>, conn,
                   DefaultRole, S)
<1> DEFINE e == Element("/role", name, account)
           E == Elements(names, accounts)
           open == <<"connection", "role">>
           next == <<"connection">>
<1>1. e \in E /\ e.kind = "/role"
  BY ElementsAre DEF Kinds
<1>2. out.open = open
  BY OpenOf
<1>3. Len(<<>>) = 0 /\ Len(open) = 2 /\ Len(next) = 1
  OBVIOUS
<1>4. Write(out, "/role", name, account) = [open |-> next, file |-> Append(out.file, e)]
  BY <1>2, <1>3 DEF Write
<1> HIDE DEF e, E, open, next
<1>5. Leads(e, open, conn, next, conn, DefaultRole)
  BY <1>1, <1>3 DEF Leads
<1>6. IsWritten([open |-> next, file |-> Append(out.file, e)], E, next, conn, DefaultRole, S)
  BY <1>1, <1>5, ElementWritten DEF E, open
<1> QED
  BY <1>4, <1>6 DEF next, E

-----------------------------------------------------------------------------
(* The entries of a file with credentials. *)

EntryOf(creds, key) == [key |-> key, account |-> creds[key]]

With(S, creds, keys) == S \cup {EntryOf(creds, k) : k \in keys}

\* Inside a connection, and in no role of it.
IsInside(out, names, accounts, conn, S) ==
  IsWritten(out, Elements(names, accounts), <<"connection">>, conn, DefaultRole, S)

IsBefore(out, names, accounts, conn, S) ==
  IsWritten(out, Elements(names, accounts), <<>>, conn, DefaultRole, S)

AreCredentials(creds, names, accounts) ==
  /\ \A k \in DOMAIN creds : k = <<k[1], k[2]>> /\ k[1] \in names /\ k[2] \in names /\ creds[k] \in accounts
  /\ DefaultRole \in names /\ NoAccount \in accounts

LEMMA RoleWritten ==
  ASSUME NEW names, NEW accounts, NEW out, NEW S, NEW creds, AreCredentials(creds, names, accounts),
         NEW key \in DOMAIN creds, IsInside(out, names, accounts, key[1], S)
  PROVE  IsInside(WriteRole(out, key, creds), names, accounts, key[1],
                  With(S, creds, {k \in {key} : k[2] # DefaultRole}))
<1>1. CASE key[2] = DefaultRole
  <2>1. WriteRole(out, key, creds) = out
    BY <1>1 DEF WriteRole
  <2>2. With(S, creds, {k \in {key} : k[2] # DefaultRole}) = S
    BY <1>1 DEF With
  <2> QED
    BY <2>1, <2>2
<1>2. CASE key[2] # DefaultRole
  <2> DEFINE conn == key[1]
             role == key[2]
             account == creds[key]
             a == Write(out, "role", role, NoAccount)
             b == Write(a, "parameter", role, account)
             c == Write(b, "/role", role, NoAccount)
             T == S \cup {[key |-> <<conn, role>>, account |-> account]}
             E == Elements(names, accounts)
  <2>1. conn \in names /\ role \in names /\ account \in accounts /\ NoAccount \in accounts /\ key = <<conn, role>>
    BY DEF AreCredentials
  <2>2. WriteRole(out, key, creds) = c
    BY <1>2 DEF WriteRole
  <2>3. T = With(S, creds, {k \in {key} : k[2] # DefaultRole})
    BY <1>2, <2>1 DEF EntryOf, With
  <2>4. IsWritten(out, E, <<"connection">>, conn, DefaultRole, S)
    BY DEF IsInside
  <2> HIDE DEF conn, role, account, T
  <2>5. IsWritten(a, E, <<"connection", "role">>, conn, role, S)
    BY <2>1, <2>4, RoleOpened
  <2> HIDE DEF a
  <2>6. IsWritten(b, E, <<"connection", "role">>, conn, role, T)
    BY <2>1, <2>5, RoleAccount DEF T
  <2> HIDE DEF b
  <2>7. IsWritten(c, E, <<"connection">>, conn, DefaultRole, T)
    BY <2>1, <2>6, RoleClosed
  <2> HIDE DEF c
  <2>8. IsInside(c, names, accounts, key[1], T)
    BY <2>7 DEF IsInside, conn
  <2> QED
    BY <2>2, <2>3, <2>8
<1> QED
  BY <1>1, <1>2

\* The first entry of a connection.
LEMMA ConnectionWritten ==
  ASSUME NEW names, NEW accounts, NEW out, NEW before, NEW S, NEW creds, AreCredentials(creds, names, accounts),
         NEW key \in DOMAIN creds,
         IsBefore(out, names, accounts, before, S) \/ IsInside(out, names, accounts, before, S)
  PROVE  IsInside(WriteConnection(out, key, creds), names, accounts, key[1],
                  With(S, creds, {<<key[1], DefaultRole>>} \cap DOMAIN creds))
<1> DEFINE conn == key[1]
           default == <<conn, DefaultRole>>
           account == creds[default]
           E == Elements(names, accounts)
           a == Write(out, "/connection", conn, NoAccount)
           b == Write(a, "connection", conn, NoAccount)
           c == Write(b, "parameter", DefaultRole, account)
<1>1. conn \in names /\ DefaultRole \in names /\ NoAccount \in accounts
  BY DEF AreCredentials
<1>2. IsWritten(a, E, <<>>, before, DefaultRole, S)
  <2> HIDE DEF conn
  <2> QED
    BY <1>1, ConnectionClosed DEF IsBefore, IsInside
<1>3. WriteConnection(out, key, creds) = IF default \in DOMAIN creds THEN c ELSE b
  BY DEF WriteConnection
<1>4. IsWritten(b, E, <<"connection">>, conn, DefaultRole, S)
  <2> HIDE DEF conn, a
  <2> QED
    BY <1>1, <1>2, ConnectionOpened
<1> HIDE DEF a, b
<1>5. CASE default \in DOMAIN creds
  <2> DEFINE T == S \cup {[key |-> <<conn, DefaultRole>>, account |-> account]}
  <2>1. account \in accounts
    BY <1>5 DEF AreCredentials
  <2>2. T = With(S, creds, {<<key[1], DefaultRole>>} \cap DOMAIN creds)
    BY <1>5 DEF EntryOf, With
  <2>3. IsWritten(c, E, <<"connection">>, conn, DefaultRole, T)
    <3> HIDE DEF conn, account
    <3> QED
      BY <1>1, <1>4, <2>1, DefaultWritten DEF T
  <2> HIDE DEF T
  <2>4. IsInside(c, names, accounts, key[1], T)
    <3> HIDE DEF c
    <3> QED
      BY <2>3 DEF IsInside, conn
  <2> HIDE DEF c
  <2> QED
    BY <1>3, <1>5, <2>2, <2>4
<1>6. CASE default \notin DOMAIN creds
  <2>1. S = With(S, creds, {<<key[1], DefaultRole>>} \cap DOMAIN creds)
    BY <1>6 DEF With
  <2>2. IsInside(b, names, accounts, key[1], S)
    BY <1>4 DEF IsInside
  <2> HIDE DEF c
  <2> QED
    BY <1>3, <1>6, <2>1, <2>2
<1> QED
  BY <1>5, <1>6

\* The keys whose accounts are in the file after n entries.
KeysUpTo(keys, creds, n) ==
  {k \in DOMAIN creds : \E i \in 1 .. n : \/ k = keys[i] /\ k[2] # DefaultRole
                                          \/ k = <<keys[i][1], DefaultRole>>}

EntriesUpTo(keys, creds, n) == With({}, creds, KeysUpTo(keys, creds, n))

IsFirst(keys, n) == n = 1 \/ keys[n][1] # keys[IF n = 1 THEN 1 ELSE n - 1][1]

LEMMA EntryWritten ==
  ASSUME NEW names, NEW accounts, NEW out, NEW creds, AreCredentials(creds, names, accounts),
         NEW keys \in Seq(DOMAIN creds), NEW n \in 1 .. Len(keys), NEW before,
         \/ n = 1 /\ IsBefore(out, names, accounts, before, {})
         \/ n # 1 /\ IsInside(out, names, accounts, keys[n - 1][1], EntriesUpTo(keys, creds, n - 1))
  PROVE  IsInside(Entry(out, keys[n], IsFirst(keys, n), creds), names, accounts, keys[n][1],
                  EntriesUpTo(keys, creds, n))
<1> DEFINE key == keys[n]
           S == EntriesUpTo(keys, creds, n - 1)
           opened == IF IsFirst(keys, n) THEN WriteConnection(out, key, creds) ELSE out
           default == IF IsFirst(keys, n) THEN {<<key[1], DefaultRole>>} \cap DOMAIN creds ELSE {}
           T == With(S, creds, default)
           own == {k \in {key} : k[2] # DefaultRole}
           U == With(T, creds, own)
<1>1. key \in DOMAIN creds /\ n \in Nat /\ Len(keys) \in Nat
  OBVIOUS
<1>2. n = 1 => S = {}
  BY DEF EntriesUpTo, KeysUpTo, With
<1>3. IsInside(opened, names, accounts, key[1], T)
  <2>1. CASE IsFirst(keys, n)
    <3>1. \E conn : IsBefore(out, names, accounts, conn, S) \/ IsInside(out, names, accounts, conn, S)
      BY <1>2
    <3>2. IsInside(WriteConnection(out, key, creds), names, accounts, key[1],
                   With(S, creds, {<<key[1], DefaultRole>>} \cap DOMAIN creds))
      <4> HIDE DEF key, S
      <4> QED
        BY <1>1, <3>1, ConnectionWritten
    <3>3. opened = WriteConnection(out, key, creds) /\ default = {<<key[1], DefaultRole>>} \cap DOMAIN creds
      BY <2>1
    <3> HIDE DEF opened, default, S, key
    <3> QED
      BY <3>2, <3>3
  <2>2. CASE ~IsFirst(keys, n)
    <3>1. n # 1 /\ keys[n - 1][1] = key[1]
      BY <2>2 DEF IsFirst
    <3>2. opened = out /\ T = S
      BY <2>2 DEF With
    <3> HIDE DEF opened, T, S
    <3> QED
      BY <3>1, <3>2 DEF S
  <2> QED
    BY <2>1, <2>2
<1>4. IsInside(WriteRole(opened, key, creds), names, accounts, key[1], U)
  <2> HIDE DEF opened, T, key
  <2> QED
    BY <1>1, <1>3, RoleWritten
<1>5. Entry(out, key, IsFirst(keys, n), creds) = WriteRole(opened, key, creds)
  BY DEF Entry
<1>6. KeysUpTo(keys, creds, n) = KeysUpTo(keys, creds, n - 1) \cup default \cup own
  <2>1. \A i \in 1 .. n : i = n \/ i \in 1 .. n - 1
    BY <1>1
  <2>2. \A i \in 1 .. n - 1 : i \in 1 .. n
    BY <1>1
  <2>3. n \in 1 .. n
    BY <1>1
  <2>4. ~IsFirst(keys, n) => n - 1 \in 1 .. n - 1 /\ keys[n - 1][1] = key[1]
    BY <1>1 DEF IsFirst
  <2>5. ASSUME NEW k \in KeysUpTo(keys, creds, n) PROVE k \in KeysUpTo(keys, creds, n - 1) \cup default \cup own
    <3>1. PICK i \in 1 .. n : \/ k = keys[i] /\ k[2] # DefaultRole
                              \/ k = <<keys[i][1], DefaultRole>>
      BY DEF KeysUpTo
    <3>2. k \in DOMAIN creds
      BY DEF KeysUpTo
    <3>3. CASE i \in 1 .. n - 1
      BY <3>1, <3>2, <3>3 DEF KeysUpTo
    <3>4. CASE i = n /\ k = key /\ k[2] # DefaultRole
      BY <3>4
    <3>5. CASE i = n /\ k = <<key[1], DefaultRole>> /\ IsFirst(keys, n)
      BY <3>2, <3>5
    <3>6. CASE i = n /\ k = <<key[1], DefaultRole>> /\ ~IsFirst(keys, n)
      BY <2>4, <3>2, <3>6 DEF KeysUpTo
    <3> QED
      BY <2>1, <3>1, <3>3, <3>4, <3>5, <3>6
  <2>6. ASSUME NEW k \in KeysUpTo(keys, creds, n - 1) \cup default \cup own PROVE k \in KeysUpTo(keys, creds, n)
    <3>1. CASE k \in KeysUpTo(keys, creds, n - 1)
      BY <2>2, <3>1 DEF KeysUpTo
    <3>2. CASE k \in default
      BY <2>3, <3>2 DEF KeysUpTo
    <3>3. CASE k \in own
      BY <1>1, <2>3, <3>3 DEF KeysUpTo
    <3> QED
      BY <2>6, <3>1, <3>2, <3>3
  <2> QED
    BY <2>5, <2>6
<1>7. EntriesUpTo(keys, creds, n) = U
  <2> HIDE DEF default, own
  <2> QED
    BY <1>6 DEF EntriesUpTo, With
<1> HIDE DEF U, opened
<1> QED
  BY <1>4, <1>5, <1>7

Begun == [open |-> <<>>, file |-> <<>>]

NextOf(f, keys, creds, n) ==
  IF n = 0 THEN Begun ELSE Entry(f[n - 1], keys[n], IsFirst(keys, n), creds)

WritesUpTo(f, keys, creds, L) == f = [n \in 0 .. L |-> NextOf(f, keys, creds, n)]

\* There is a function that writes entry after entry.
LEMMA WritingExists ==
  ASSUME NEW keys, NEW creds, NEW L \in Nat
  PROVE  \E f : WritesUpTo(f, keys, creds, L)
<1> DEFINE A == {n \in 0 .. L : \E f : WritesUpTo(f, keys, creds, n)}
<1>1. 0 \in A
  <2> DEFINE f == [n \in {0} |-> Begun]
  <2>1. 0 .. 0 = {0} /\ 0 \in 0 .. L
    OBVIOUS
  <2>2. f = [n \in 0 .. 0 |-> NextOf(f, keys, creds, n)]
    BY <2>1 DEF NextOf
  <2>3. WritesUpTo(f, keys, creds, 0)
    BY <2>2 DEF WritesUpTo
  <2> QED
    BY <2>1, <2>3
<1>2. ASSUME NEW n \in 1 .. L, n - 1 \in A PROVE n \in A
  <2>1. PICK f : WritesUpTo(f, keys, creds, n - 1)
    BY <1>2
  <2>2. \A i \in 0 .. n - 1 : f[i] = NextOf(f, keys, creds, i)
    BY <2>1, Zenon DEF WritesUpTo
  <2> DEFINE next == NextOf(f, keys, creds, n)
             g == [i \in 0 .. n |-> IF i = n THEN next ELSE f[i]]
  <2>3. ASSUME NEW i \in 0 .. n PROVE g[i] = NextOf(g, keys, creds, i)
    <3>1. i = 0 \/ (i - 1 \in 0 .. n /\ i - 1 # n)
      OBVIOUS
    <3>2. i # 0 => g[i - 1] = f[i - 1]
      BY <3>1
    <3>3. g[i] = IF i = n THEN next ELSE f[i]
      OBVIOUS
    <3> HIDE DEF g
    <3>4. NextOf(g, keys, creds, i) = NextOf(f, keys, creds, i)
      BY <3>2 DEF NextOf
    <3>5. i = n \/ i \in 0 .. n - 1
      OBVIOUS
    <3> QED
      BY <2>2, <3>3, <3>4, <3>5
  <2>4. g = [i \in 0 .. n |-> g[i]]
    OBVIOUS
  <2> HIDE DEF g
  <2>5. g = [i \in 0 .. n |-> NextOf(g, keys, creds, i)]
    BY <2>3, <2>4
  <2>6. WritesUpTo(g, keys, creds, n)
    BY <2>5 DEF WritesUpTo
  <2>7. n \in 0 .. L
    OBVIOUS
  <2> QED
    BY <2>6, <2>7
<1>3. \A n \in 0 .. L : n \in A
  <2> HIDE DEF A
  <2> QED
    BY <1>1, <1>2, CountUp
<1>4. L \in 0 .. L
  OBVIOUS
<1> QED
  BY <1>3, <1>4

LEMMA BegunIsBefore ==
  ASSUME NEW names, NEW accounts, NEW conn
  PROVE  IsBefore(Begun, names, accounts, conn, {})
<1> DEFINE E == Elements(names, accounts)
<1>1. Begun.open = <<>> /\ Begun.file = <<>> /\ Begun = [open |-> <<>>, file |-> Begun.file]
  BY DEF Begun
<1>2. <<>> \in Seq(E) /\ Len(<<>>) = 0 /\ 1 .. 0 = {}
  OBVIOUS
<1>3. Says(<<>>, {})
  BY <1>2 DEF Says
<1>4. ~IsInRole(<<>>, Len(<<>>))
  BY <1>2 DEF IsInRole
<1> HIDE DEF E
<1>5. IsWritten(Begun, E, <<>>, conn, DefaultRole, {})
  BY <1>1, <1>2, <1>3, <1>4 DEF IsWritten
<1> QED
  BY <1>5 DEF IsBefore, E

\* A file with the accounts of all keys reads as these accounts.
LEMMA FileReadsBack ==
  ASSUME NEW names, NEW accounts, NEW creds, AreCredentials(creds, names, accounts),
         NEW keys \in Seq(DOMAIN creds), Range(keys) = DOMAIN creds
  PROVE  Parsed(FileOf(creds, keys)) = {[key |-> key, account |-> creds[key]] : key \in DOMAIN creds}
<1> DEFINE L == Len(keys)
           write == CHOOSE f : f = [n \in 0 .. L |-> NextOf(f, keys, creds, n)]
<1>1. L \in Nat
  OBVIOUS
<1>2. FileOf(creds, keys) = write[L].file
  BY Zenon DEF FileOf, NextOf, IsFirst, Begun
<1>3. \E f : f = [n \in 0 .. L |-> NextOf(f, keys, creds, n)]
  <2>1. PICK f : WritesUpTo(f, keys, creds, L)
    <3> HIDE DEF L
    <3> QED
      BY <1>1, WritingExists
  <2> QED
    BY <2>1, Zenon DEF WritesUpTo
<1>4. write = [n \in 0 .. L |-> NextOf(write, keys, creds, n)]
  <2> HIDE DEF L
  <2> QED
    BY <1>3, Zenon
<1> HIDE DEF write
<1>5. \A n \in 0 .. L : write[n] = NextOf(write, keys, creds, n)
  BY <1>4, Zenon
<1> DEFINE A == {n \in 0 .. L : n = 0 \/ IsInside(write[n], names, accounts, keys[n][1], EntriesUpTo(keys, creds, n))}
<1>6. 0 \in A
  BY <1>1
<1>7. ASSUME NEW n \in 1 .. L, n - 1 \in A PROVE n \in A
  <2>1. n \in 0 .. L /\ n - 1 \in 0 .. L /\ n # 0 /\ n \in 1 .. Len(keys) /\ (n - 1 = 0 <=> n = 1)
    BY <1>1
  <2>2. write[n] = Entry(write[n - 1], keys[n], IsFirst(keys, n), creds)
    BY <1>5, <2>1 DEF NextOf
  <2>3. n = 1 => IsBefore(write[n - 1], names, accounts, "none", {})
    BY <1>5, <2>1, BegunIsBefore DEF NextOf
  <2>4. n # 1 => IsInside(write[n - 1], names, accounts, keys[n - 1][1], EntriesUpTo(keys, creds, n - 1))
    BY <1>7, <2>1
  <2>5. IsInside(Entry(write[n - 1], keys[n], IsFirst(keys, n), creds), names, accounts, keys[n][1],
                 EntriesUpTo(keys, creds, n))
    <3> HIDE DEF L, A
    <3> QED
      BY <2>1, <2>3, <2>4, EntryWritten
  <2> QED
    BY <2>1, <2>2, <2>5
<1>8. L \in A
  <2>1. \A n \in 0 .. L : n \in A
    <3> HIDE DEF A, L
    <3> QED
      BY <1>1, <1>6, <1>7, CountUp
  <2> QED
    BY <1>1, <2>1
<1> DEFINE all == {[key |-> key, account |-> creds[key]] : key \in DOMAIN creds}
           E == Elements(names, accounts)
<1>9. KeysUpTo(keys, creds, L) = DOMAIN creds
  <2>1. ASSUME NEW k \in DOMAIN creds PROVE k \in KeysUpTo(keys, creds, L)
    <3>1. PICK i \in 1 .. L : k = keys[i]
      BY DEF Range
    <3>2. k = <<k[1], k[2]>>
      BY DEF AreCredentials
    <3> QED
      BY <3>1, <3>2 DEF KeysUpTo
  <2> QED
    BY <2>1 DEF KeysUpTo
<1>10. EntriesUpTo(keys, creds, L) = all
  BY <1>9 DEF EntriesUpTo, With, EntryOf
<1>11. Says(write[L].file, all) /\ write[L].file \in Seq(E)
  <2>1. CASE L = 0
    <3>1. write[L] = Begun
      BY <1>1, <1>5, <2>1 DEF NextOf
    <3>2. DOMAIN creds = {}
      BY <2>1 DEF Range
    <3>3. all = {}
      BY <3>2
    <3>4. IsWritten(write[L], E, <<>>, "none", DefaultRole, {})
      BY <3>1, BegunIsBefore DEF IsBefore
    <3> QED
      BY <3>3, <3>4 DEF IsWritten
  <2>2. CASE L # 0
    <3>1. IsWritten(write[L], E, <<"connection">>, keys[L][1], DefaultRole, all)
      BY <1>8, <1>10, <2>2 DEF IsInside
    <3> HIDE DEF all, E, L
    <3> QED
      BY <3>1 DEF IsWritten
  <2> QED
    BY <2>1, <2>2
<1>12. Parsed(write[L].file) = all
  <2> HIDE DEF all, E, L
  <2> QED
    BY <1>11, SaysIsParsed
<1> QED
  BY <1>2, <1>12

-----------------------------------------------------------------------------
(* The credential store, its file, and the invariant of the tools. *)

LEMMA FiniteImage ==
  ASSUME NEW f, IsFiniteSet(DOMAIN f), f = [x \in DOMAIN f |-> f[x]]
  PROVE  IsFiniteSet({f[x] : x \in DOMAIN f})
<1> DEFINE T == {f[x] : x \in DOMAIN f}
<1>1. f \in Surjection(DOMAIN f, T)
  BY DEF Surjection
<1> HIDE DEF T
<1>2. IsFiniteSet(T)
  BY <1>1, FS_Surjection
<1> QED
  BY <1>2 DEF T

LEMMA FiniteJoined ==
  ASSUME NEW S, NEW T, IsFiniteSet(S), IsFiniteSet(T)
  PROVE  IsFiniteSet(S \cup T)
BY FS_Union

\* The keys of a store are finitely many pairs.
LEMMA KeysAre ==
  ASSUME NEW s, IsFiniteSet(s.permissions)
  PROVE  IsFiniteSet(KeysOf(s)) /\ \A k \in KeysOf(s) : k = <<k[1], k[2]>>
<1> DEFINE f == [p \in s.permissions |-> <<p.connection, p.role>>]
<1>1. DOMAIN f = s.permissions /\ f = [p \in DOMAIN f |-> f[p]]
  OBVIOUS
<1>2. KeysOf(s) = {f[p] : p \in DOMAIN f}
  BY DEF KeysOf
<1> HIDE DEF f
<1>3. IsFiniteSet({f[p] : p \in DOMAIN f})
  BY <1>1, FiniteImage
<1>4. \A k \in KeysOf(s) : k = <<k[1], k[2]>>
  BY DEF KeysOf
<1> QED
  BY <1>2, <1>3, <1>4

IsStore(s) == s = [connections |-> s.connections, permissions |-> s.permissions] /\ IsFiniteSet(s.permissions)

ToolsInv ==
  /\ BasesInv /\ ImportedIovs
  /\ IsStore(store)
  /\ ExportReadsBack
  /\ xml.written => IsFiniteSet(DOMAIN xml.creds)

LEMMA ConnectionAdded ==
  ASSUME NEW s, IsStore(s), NEW label, NEW account
  PROVE  IsStore(WithConnection(s, label, account))
<1> DEFINE c == [l \in DOMAIN s.connections \cup {label} |-> IF l = label THEN account ELSE s.connections[l]]
           t == WithConnection(s, label, account)
<1>1. t = [s EXCEPT !.connections = c]
  BY DEF WithConnection
<1>2. s = [connections |-> s.connections, permissions |-> s.permissions]
  BY DEF IsStore
<1> HIDE DEF c, t
<1>3. t = [connections |-> t.connections, permissions |-> t.permissions] /\ t.permissions = s.permissions
  BY <1>1, <1>2
<1>4. IsStore(t)
  BY <1>3 DEF IsStore
<1> QED
  BY <1>4 DEF t

LEMMA PermissionAdded ==
  ASSUME NEW s, IsStore(s), NEW grant
  PROVE  IsStore(WithPermission(s, grant))
<1> DEFINE kept == {p \in s.permissions : <<p.principal, p.role, p.connection>>
                                            # <<grant.principal, grant.role, grant.connection>>}
           all == kept \cup {grant}
           t == WithPermission(s, grant)
<1>1. t = [s EXCEPT !.permissions = all]
  BY DEF WithPermission
<1>2. s = [connections |-> s.connections, permissions |-> s.permissions] /\ IsFiniteSet(s.permissions)
  BY DEF IsStore
<1>3. kept \in SUBSET s.permissions
  OBVIOUS
<1> HIDE DEF kept
<1>4. IsFiniteSet(all)
  BY <1>2, <1>3, FS_Subset, FS_AddElement
<1> HIDE DEF all, t
<1>5. t = [connections |-> t.connections, permissions |-> t.permissions] /\ t.permissions = all
  BY <1>1, <1>2
<1>6. IsStore(t)
  BY <1>4, <1>5 DEF IsStore
<1> QED
  BY <1>6 DEF t

LEMMA AdministerStep ==
  ASSUME ToolsInv, NEW a \in Grants, Administer(a)
  PROVE  ToolsInv'
<1> DEFINE fewer == [connections |-> [l \in DOMAIN store.connections \ {a.label} |-> store.connections[l]],
                     permissions |-> {p \in store.permissions : p.label # a.label}]
           without == [store EXCEPT !.permissions = @ \ {a.grant}]
<1>1. /\ UNCHANGED <<bases, xml>> /\ last'.tool = "administer"
      /\ \/ store' = WithConnection(store, a.label, a.account)
         \/ store' = fewer
         \/ store' = WithPermission(store, a.grant)
         \/ store' = without
         \/ store' = store
  BY Zenon DEF Administer, Done
<1>2. store = [connections |-> store.connections, permissions |-> store.permissions]
      /\ IsFiniteSet(store.permissions) /\ IsStore(store)
  BY DEF ToolsInv, IsStore
<1>3. IsStore(fewer)
  <2>1. fewer.permissions \in SUBSET store.permissions
    OBVIOUS
  <2>2. fewer = [connections |-> fewer.connections, permissions |-> fewer.permissions]
    OBVIOUS
  <2> HIDE DEF fewer
  <2> QED
    BY <1>2, <2>1, <2>2, FS_Subset DEF IsStore
<1>4. IsStore(without)
  <2>1. without = [connections |-> without.connections, permissions |-> without.permissions]
        /\ without.permissions \in SUBSET store.permissions
    BY <1>2
  <2> HIDE DEF without
  <2> QED
    BY <1>2, <2>1, FS_Subset DEF IsStore
<1> HIDE DEF fewer, without
<1>5. IsStore(store')
  BY <1>1, <1>2, <1>3, <1>4, ConnectionAdded, PermissionAdded
<1> QED
  BY <1>1, <1>5 DEF ToolsInv, BasesInv, ImportedIovs, ExportReadsBack, IsStore

LEMMA ExportStep ==
  ASSUME ToolsInv, NEW keys \in SetToSeqs(KeysOf(store)), Export(keys)
  PROVE  ToolsInv'
<1> DEFINE K == KeysOf(store)
           creds == [key \in K |-> AccountOf(store, key)]
           names == {k[1] : k \in K} \cup {k[2] : k \in K} \cup {DefaultRole}
           accounts == {creds[k] : k \in K} \cup {NoAccount}
<1>1. IsFiniteSet(K) /\ \A k \in K : k = <<k[1], k[2]>>
  BY KeysAre DEF ToolsInv, IsStore
<1>2. /\ UNCHANGED <<bases, store>> /\ last'.tool = "export" /\ Range(keys) = K
      /\ xml' = [written |-> TRUE, creds |-> creds, elements |-> FileOf(creds, keys)]
  BY Zenon DEF Export, Done
<1>3. keys \in Seq(K)
  <2>1. Cardinality(K) \in Nat
    BY <1>1, FS_CardinalityType
  <2>2. keys \in [1 .. Cardinality(K) -> K]
    BY DEF SetToSeqs
  <2> HIDE DEF K
  <2> QED
    BY <2>1, <2>2
<1>4. DOMAIN creds = K
  OBVIOUS
<1>5. AreCredentials(creds, names, accounts)
  <2>1. \A k \in K : k[1] \in names /\ k[2] \in names /\ creds[k] \in accounts
    OBVIOUS
  <2>2. DefaultRole \in names /\ NoAccount \in accounts
    OBVIOUS
  <2> HIDE DEF creds, names, accounts, K
  <2> QED
    BY <1>1, <1>4, <2>1, <2>2 DEF AreCredentials
<1>6. Parsed(FileOf(creds, keys)) = {[key |-> key, account |-> creds[key]] : key \in DOMAIN creds}
  <2> HIDE DEF creds, names, accounts, K
  <2> QED
    BY <1>2, <1>3, <1>4, <1>5, FileReadsBack
<1>7. xml'.creds = creds /\ xml'.elements = FileOf(creds, keys) /\ xml'.written
  BY <1>2
<1> HIDE DEF creds
<1>8. ExportReadsBack'
  BY <1>6, <1>7 DEF ExportReadsBack
<1>9. IsFiniteSet(DOMAIN xml'.creds)
  BY <1>1, <1>4, <1>7
<1>10. last'.tool # "import" /\ bases' = bases /\ store' = store
  BY <1>2
<1> QED
  BY <1>8, <1>9, <1>10 DEF ToolsInv, BasesInv, ImportedIovs, IsStore

LEMMA ImportFileStep ==
  ASSUME ToolsInv, NEW force, ImportFile(force)
  PROVE  ToolsInv'
<1> DEFINE read == Parsed(xml.elements)
           creds == xml.creds
           kept == {p \in store.permissions : p.principal # Reader
                      \/ <<p.connection, p.role>> \notin {entry.key : entry \in read}}
           PermissionOf(entry) == [principal |-> Reader, connection |-> entry.key[1],
                                   role |-> entry.key[2], label |-> entry.account.user]
           granted == {PermissionOf(entry) : entry \in read}
<1>1. /\ xml.written /\ UNCHANGED <<bases, xml>> /\ last'.tool = "import file"
      /\ \E connections : store' = [connections |-> connections, permissions |-> kept \cup granted]
  BY Zenon DEF ImportFile, Done
<1>2. IsFiniteSet(read)
  <2> DEFINE f == [key \in DOMAIN creds |-> [key |-> key, account |-> creds[key]]]
  <2>1. read = {f[key] : key \in DOMAIN f}
    BY <1>1 DEF ToolsInv, ExportReadsBack
  <2>2. IsFiniteSet(DOMAIN f) /\ f = [key \in DOMAIN f |-> f[key]]
    BY <1>1 DEF ToolsInv
  <2> HIDE DEF f
  <2>3. IsFiniteSet({f[key] : key \in DOMAIN f})
    BY <2>2, FiniteImage
  <2> QED
    BY <2>1, <2>3
<1>3. IsFiniteSet(granted)
  <2> DEFINE f == [entry \in read |-> PermissionOf(entry)]
  <2>1. granted = {f[entry] : entry \in DOMAIN f} /\ DOMAIN f = read /\ f = [entry \in DOMAIN f |-> f[entry]]
    OBVIOUS
  <2> HIDE DEF f
  <2>2. IsFiniteSet({f[entry] : entry \in DOMAIN f})
    BY <1>2, <2>1, FiniteImage
  <2> QED
    BY <2>1, <2>2
<1>4. IsFiniteSet(kept)
  <2>1. kept \in SUBSET store.permissions
    OBVIOUS
  <2> HIDE DEF kept
  <2> QED
    BY <2>1, FS_Subset DEF ToolsInv, IsStore
<1> HIDE DEF kept, granted
<1>5. IsFiniteSet(kept \cup granted)
  BY <1>3, <1>4, FiniteJoined
<1>6. IsStore(store')
  <2> DEFINE both == kept \cup granted
  <2>1. IsFiniteSet(both)
    BY <1>5
  <2> HIDE DEF both
  <2>2. PICK connections : store' = [connections |-> connections, permissions |-> both]
    BY <1>1 DEF both
  <2> QED
    BY <2>1, <2>2 DEF IsStore
<1> QED
  BY <1>1, <1>6 DEF ToolsInv, BasesInv, ImportedIovs, ExportReadsBack, IsStore

ToolsSpec == ToolsInit /\ [][ToolsNext]_toolVars

LEMMA ToolsStart ==
  ASSUME ToolsInit
  PROVE  ToolsInv
<1>1. BasesInv
  BY DatabasesAssumption DEF ToolsInit, BasesInv
<1>2. last.tool = "none" /\ ~xml.written
  BY DEF ToolsInit, NoTool
<1>3. IsStore(store)
  BY StoreAssumption DEF ToolsInit, IsStore
<1> QED
  BY <1>1, <1>2, <1>3 DEF ToolsInv, ImportedIovs, ExportReadsBack

LEMMA ToolsStep ==
  ASSUME ToolsInv, [ToolsNext]_toolVars
  PROVE  ToolsInv'
<1>1. CASE UNCHANGED toolVars
  <2>1. bases' = bases /\ store' = store /\ xml' = xml /\ last' = last
    BY <1>1 DEF toolVars
  <2>2. ImportedIovs'
    BY <2>1 DEF ToolsInv, ImportedIovs
  <2> QED
    BY <2>1, <2>2 DEF ToolsInv, BasesInv, ExportReadsBack
<1>2. ASSUME BasesInv' /\ ImportedIovs', UNCHANGED <<store, xml>> PROVE ToolsInv'
  BY <1>2 DEF ToolsInv, ExportReadsBack, IsStore
<1>3. ASSUME NEW a \in Imports, Import(a) PROVE ToolsInv'
  <2>1. UNCHANGED <<store, xml>>
    BY <1>3 DEF Import
  <2> QED
    BY <1>2, <1>3, <2>1, ImportStep DEF ToolsInv
<1>4. ASSUME NEW a \in Copies, CopyIov(a) PROVE ToolsInv'
  <2>1. UNCHANGED <<store, xml>>
    BY <1>4 DEF CopyIov
  <2> QED
    BY <1>2, <1>4, <2>1, CopyStep DEF ToolsInv
<1>5. ASSUME NEW a \in Edits, EditTag(a) PROVE ToolsInv'
  <2>1. UNCHANGED <<store, xml>>
    BY <1>5 DEF EditTag
  <2> QED
    BY <1>2, <1>5, <2>1, EditStep DEF ToolsInv
<1> QED
  BY <1>1, <1>3, <1>4, <1>5, AdministerStep, ExportStep, ImportFileStep DEF ToolsNext

\* For any databases, credentials and command lines: what an import leaves at
\* every time of its interval is the payload of the source, nothing changes
\* before it or from the next IOV after it on, and an exported file reads back
\* as the credentials it was made of.
THEOREM CopiesSay == ToolsSpec => []CopiesSayTheSource
<1>1. ToolsInit => ToolsInv
  BY ToolsStart
<1>2. ToolsInv /\ [ToolsNext]_toolVars => ToolsInv'
  BY ToolsStep
<1>3. ToolsInv => CopiesSayTheSource
  BY DEF ToolsInv, CopiesSayTheSource
<1> QED
  BY <1>1, <1>2, <1>3, PTL DEF ToolsSpec

-----------------------------------------------------------------------------
(* Upload sessions.                                                          *)

USE ServiceAssumption, CommandsAssumption, FilesAssumption

\* The first since of some IOVs is one of theirs and the least.
LEMMA FirstSinceIsLeast ==
  ASSUME NEW iovs, iovs \subseteq IOV, iovs # {}
  PROVE  /\ FirstSince(iovs) \in Sinces(iovs) /\ FirstSince(iovs) \in Nat
         /\ \A iov \in iovs : FirstSince(iovs) <= iov.since
<1>1. Sinces(iovs) \subseteq Nat /\ Sinces(iovs) # {}
  BY DEF Sinces, IOV
<1>2. \E first \in Sinces(iovs) : \A since \in Sinces(iovs) : first <= since
  BY <1>1, LeastNat
<1>3. /\ FirstSince(iovs) \in Sinces(iovs)
      /\ \A since \in Sinces(iovs) : FirstSince(iovs) <= since
  BY <1>2 DEF FirstSince
<1> QED
  BY <1>1, <1>3 DEF Sinces

\* filter_iovs_by_fcsr starts at the IOV that is valid at the destination's
\* since, or at the first IOV when none is.
LEMMA MaxSinceBelowIsValid ==
  ASSUME NEW iovs, iovs \subseteq IOV, iovs # {}, NEW dest \in Nat
  PROVE  LET m == MaxSinceBelow(iovs, dest)
         IN  /\ m \in Sinces(iovs) /\ m \in Nat
             /\ \A iov \in iovs : iov.since <= dest => m <= dest /\ iov.since <= m
             /\ m > dest => \A iov \in iovs : m <= iov.since
<1> DEFINE below == {since \in Sinces(iovs) : since <= dest}
           m == MaxSinceBelow(iovs, dest)
<1>1. CASE below = {}
  <2>1. m = FirstSince(iovs)
    BY <1>1 DEF MaxSinceBelow
  <2> QED
    BY <1>1, <2>1, FirstSinceIsLeast DEF Sinces
<1>2. CASE below # {}
  <2>1. below \subseteq Nat /\ \A y \in below : y <= dest
    BY DEF Sinces, IOV
  <2>2. \E latest \in below : \A since \in below : since <= latest
    <3> HIDE DEF below
    <3> QED
      BY <1>2, <2>1, GreatestNat
  <2>3. m = CHOOSE latest \in below : \A since \in below : since <= latest
    BY <1>2 DEF MaxSinceBelow
  <2>4. m \in below /\ \A since \in below : since <= m
    <3> HIDE DEF below, m
    <3> QED
      BY <2>2, <2>3
  <2>5. \A iov \in iovs : iov.since <= dest => iov.since \in below
    BY DEF Sinces
  <2>6. m \in Nat /\ m <= dest /\ m \in Sinces(iovs)
    BY <2>1, <2>4
  <2> QED
    BY <2>4, <2>5, <2>6
<1> QED
  BY <1>1, <1>2

\* What is sent has its IOVs from the destination's since on, with payloads of
\* the source.
LEMMA ShiftedIsTyped ==
  ASSUME NEW iovs, iovs \subseteq IOV, iovs # {}, IsFiniteSet(iovs), NEW dest \in Nat
  PROVE  /\ Shifted(iovs, dest) \subseteq IOV /\ IsFiniteSet(Shifted(iovs, dest))
         /\ \A iov \in Shifted(iovs, dest) : iov.since >= dest
<1> DEFINE kept == {iov \in iovs : iov.since >= MaxSinceBelow(iovs, dest)}
           Moved(iov) == [since |-> IF iov.since < dest THEN dest ELSE iov.since, hash |-> iov.hash]
<1>1. Shifted(iovs, dest) = {Moved(iov) : iov \in kept}
  BY DEF Shifted
<1>2. \A iov \in iovs : Moved(iov) \in IOV /\ Moved(iov).since >= dest
  BY DEF IOV
<1>3. IsFiniteSet(kept)
  BY FS_Subset
<1>4. IsFiniteSet({Moved(iov) : iov \in kept})
  <2> DEFINE f == [iov \in kept |-> Moved(iov)]
             sent == {Moved(iov) : iov \in kept}
  <2>1. f \in Surjection(kept, sent)
    BY DEF Surjection
  <2> HIDE DEF f, sent, kept
  <2>2. IsFiniteSet(sent)
    BY <1>3, <2>1, FS_Surjection
  <2> QED
    BY <2>2 DEF sent
<1> QED
  BY <1>1, <1>2, <1>4

\* From the destination's since on the filtered IOVs say the same as the source.
LEMMA ShiftedSaysTheSame ==
  ASSUME NEW iovs, iovs \subseteq IOV, iovs # {}, NEW dest \in Nat,
         NEW time \in Nat, time >= dest
  PROVE  PayloadAt(Shifted(iovs, dest), time) = PayloadAt(iovs, time)
<1> DEFINE m == MaxSinceBelow(iovs, dest)
           Moved(iov) == [since |-> IF iov.since < dest THEN dest ELSE iov.since, hash |-> iov.hash]
           kept == {iov \in iovs : iov.since >= m}
           sent == {Moved(iov) : iov \in kept}
           LatestOf(set) == {i \in {iov \in set : iov.since <= time} :
             \A o \in {iov \in set : iov.since <= time} : o.since <= i.since}
<1>1. /\ m \in Nat /\ m \in Sinces(iovs)
      /\ \A iov \in iovs : iov.since <= dest => m <= dest /\ iov.since <= m
      /\ m > dest => \A iov \in iovs : m <= iov.since
  BY MaxSinceBelowIsValid
<1>2. Shifted(iovs, dest) = sent
  BY DEF Shifted
<1>3. \A iov \in iovs : iov.since \in Nat
  BY DEF IOV
<1>4. PayloadAt(iovs, time) = {iov.hash : iov \in LatestOf(iovs)}
      /\ PayloadAt(sent, time) = {iov.hash : iov \in LatestOf(sent)}
  BY DEF PayloadAt
<1> HIDE DEF m
<1>5. ASSUME NEW iov \in LatestOf(iovs)
      PROVE  iov \in kept /\ Moved(iov) \in LatestOf(sent)
  <2>1. iov \in iovs /\ iov.since <= time
        /\ \A o \in iovs : o.since <= time => o.since <= iov.since
    BY <1>5
  <2>2. PICK start \in iovs : start.since = m
    BY <1>1 DEF Sinces
  <2>3. iov.since >= m
    <3>1. CASE m <= time
      BY <2>1, <2>2, <3>1, <1>1, <1>3
    <3>2. CASE ~(m <= time)
      <4>1. m > dest
        BY <3>2, <1>1
      <4> QED
        BY <4>1, <1>1, <2>1, <3>2, <1>3
    <3> QED
      BY <3>1, <3>2
  <2>4. iov \in kept
    BY <2>1, <2>3
  <2>5. Moved(iov).since <= time
    BY <2>1, <1>3
  <2>6. ASSUME NEW o \in kept, Moved(o).since <= time PROVE Moved(o).since <= Moved(iov).since
    <3>1. o.since <= time
      BY <2>6, <1>3
    <3>2. o.since <= iov.since
      BY <2>1, <3>1
    <3> QED
      BY <3>2, <1>3, <2>1
  <2> QED
    BY <2>4, <2>5, <2>6
<1>6. ASSUME NEW iov \in kept, Moved(iov) \in LatestOf(sent)
      PROVE  iov \in LatestOf(iovs)
  <2>1. Moved(iov).since <= time
    BY <1>6
  <2>2. iov \in iovs /\ iov.since <= time
    BY <2>1, <1>3
  <2>3. ASSUME NEW o \in iovs, o.since <= time PROVE o.since <= iov.since
    <3>1. CASE o.since < m
      BY <3>1, <1>1, <1>3
    <3>2. CASE o.since >= m
      <4>1. o \in kept /\ Moved(o).since <= time
        BY <3>2, <2>3, <1>3
      <4>2. Moved(o).since <= Moved(iov).since
        BY <1>6, <4>1
      <4>3. CASE o.since > dest
        BY <4>2, <4>3, <1>3, <2>2
      <4>4. CASE o.since <= dest
        BY <4>4, <1>1, <1>3, <2>2
      <4> QED
        BY <4>3, <4>4, <1>3
    <3> QED
      BY <3>1, <3>2, <1>1, <1>3
  <2> QED
    BY <2>2, <2>3
<1>7. \A iov \in iovs : Moved(iov).hash = iov.hash
  OBVIOUS
<1>8. {iov.hash : iov \in LatestOf(sent)} = {iov.hash : iov \in LatestOf(iovs)}
  <2>1. ASSUME NEW i \in LatestOf(sent) PROVE \E iov \in LatestOf(iovs) : iov.hash = i.hash
    <3>1. PICK iov \in kept : i = Moved(iov)
      OBVIOUS
    <3> QED
      BY <3>1, <1>6, <1>7
  <2>2. ASSUME NEW iov \in LatestOf(iovs) PROVE \E i \in LatestOf(sent) : i.hash = iov.hash
    BY <1>5, <1>7
  <2> HIDE DEF LatestOf, sent
  <2> QED
    BY <2>1, <2>2
<1> QED
  BY <1>2, <1>4, <1>8


UploadsSpec == UploadsInit /\ [][UploadsNext]_uploadVars

\* The requests change one tag, payload or session at a time.
LEMMA ServeKeepsTheServer ==
  ASSUME NEW srv \in ServerType, ServerInv(srv), NEW client \in ClientType,
         ClientInv(client, srv), client.pc \in Requests
  PROVE  LET new == Serve(srv, client).server
         IN  /\ new \in ServerType /\ ServerInv(new)
             /\ srv.payloads \subseteq new.payloads /\ srv.stored \subseteq new.stored
<1> DEFINE new == Serve(srv, client).server
<1> SUFFICES /\ new \in ServerType /\ ServerInv(new)
             /\ srv.payloads \subseteq new.payloads /\ srv.stored \subseteq new.stored
  OBVIOUS
<1> HIDE DEF new
<1> USE DEF ServerType, ServerInv, ClientType, ClientInv, Served, NoSession, Hashes
<1>1. CASE client.pc = "tag"
  <2>1. new = srv
    BY <1>1 DEF new, Serve, GetTagDictionary
  <2> QED
    BY <2>1
<1>2. CASE client.pc = "session"
  <2>1. new = IF srv.lock[client.tag] # NoSession THEN srv
              ELSE [srv EXCEPT !.lock[client.tag] = srv.sessions + 1, !.sessions = srv.sessions + 1]
    BY <1>2 DEF new, Serve, OpenSession
  <2>2. CASE new = srv
    BY <2>2
  <2>3. CASE new # srv
    <3>1. /\ new.lock = [srv.lock EXCEPT ![client.tag] = srv.sessions + 1]
          /\ new.sessions = srv.sessions + 1
          /\ new.payloads = srv.payloads /\ new.iovs = srv.iovs /\ new.stored = srv.stored
          /\ new.timeType = srv.timeType
      BY <2>1, <2>3, <1>2
    <3>0. new \in ServerType
      <4> DEFINE locks == [srv.lock EXCEPT ![client.tag] = srv.sessions + 1]
      <4>1. locks \in [Tags -> Nat] /\ srv.sessions + 1 \in Nat
        OBVIOUS
      <4>2. new = [srv EXCEPT !.lock = locks, !.sessions = srv.sessions + 1]
        BY <2>1, <2>3, <1>2
      <4> HIDE DEF locks
      <4> QED
        BY <4>1, <4>2
    <3>2. \A tag \in Tags : new.lock[tag] <= new.sessions
      BY <3>1
    <3>3. ASSUME NEW one \in Tags, NEW other \in Tags,
                 new.lock[one] # NoSession, new.lock[one] = new.lock[other]
          PROVE  one = other
      BY <3>1, <3>3
    <3> QED
      BY <3>0, <3>1, <3>2, <3>3
  <2> QED
    BY <2>2, <2>3
<1>3. CASE client.pc = "fcsr" \/ client.pc = "hashes"
  <2>1. new = srv
    BY <1>3 DEF new, Serve, CheckHashes
  <2> QED
    BY <2>1
<1>4. CASE client.pc = "payload"
  <2>1. new = srv \/ new = [srv EXCEPT !.payloads = @ \cup {Head(client.toSend)}]
    BY <1>4 DEF new, Serve, StorePayload
  <2>2. Head(client.toSend) \in Strings
    BY <1>4
  <2>3. new \in ServerType
    <3> DEFINE stored == srv.payloads \cup {Head(client.toSend)}
    <3>1. stored \in SUBSET Strings /\ (new = srv \/ new = [srv EXCEPT !.payloads = stored])
      BY <2>1, <2>2
    <3> HIDE DEF stored
    <3> QED
      BY <3>1
  <2>4. /\ new.lock = srv.lock /\ new.iovs = srv.iovs /\ new.sessions = srv.sessions
        /\ new.stored = srv.stored /\ srv.payloads \subseteq new.payloads
    BY <2>1, <2>2
  <2> QED
    BY <2>3, <2>4
<1>5. CASE client.pc = "metadata"
  <2> DEFINE tag == TagOf(srv, client.session)
             kept == {iov \in srv.iovs[tag] : iov.since \notin Sinces(client.iovs)}
  <2>1. CASE IsOpen(srv, client.session)
    <3>1. tag \in Tags /\ srv.lock[tag] = client.session
      BY <2>1 DEF IsOpen, TagOf
    <3>2. new = [srv EXCEPT !.iovs[tag] = kept \cup client.iovs, !.lock[tag] = NoSession,
                            !.stored = @ \cup {client.session}]
      BY <1>5, <2>1 DEF new, Serve, UploadMetadata
    <3>3. kept \subseteq srv.iovs[tag]
      OBVIOUS
    <3> HIDE DEF tag, kept
    <3>4. /\ new.lock = [srv.lock EXCEPT ![tag] = NoSession]
          /\ new.iovs = [srv.iovs EXCEPT ![tag] = kept \cup client.iovs]
          /\ new.sessions = srv.sessions /\ new.payloads = srv.payloads
          /\ new.stored = srv.stored \cup {client.session}
          /\ new \in ServerType
      BY <3>1, <3>2, <3>3
    <3>5. \A t \in Tags : Hashes(new.iovs[t]) \subseteq new.payloads
      BY <1>5, <3>1, <3>3, <3>4
    <3> QED
      BY <3>1, <3>4, <3>5
  <2>2. CASE ~IsOpen(srv, client.session)
    <3>1. new = srv
      BY <1>5, <2>2 DEF new, Serve, UploadMetadata
    <3> QED
      BY <3>1
  <2> QED
    BY <2>1, <2>2
<1>6. CASE client.pc = "closing"
  <2> DEFINE tag == TagOf(srv, client.session)
  <2>1. CASE IsOpen(srv, client.session)
    <3>1. tag \in Tags /\ srv.lock[tag] = client.session
      BY <2>1 DEF IsOpen, TagOf
    <3>2. new = [srv EXCEPT !.lock[tag] = NoSession]
      BY <1>6, <2>1 DEF new, Serve, CloseSession
    <3> HIDE DEF tag
    <3>3. new.lock = [srv.lock EXCEPT ![tag] = NoSession] /\ new \in ServerType
      BY <3>1, <3>2
    <3>4. /\ new.iovs = srv.iovs /\ new.sessions = srv.sessions
          /\ new.stored = srv.stored /\ new.payloads = srv.payloads
      BY <3>1, <3>2
    <3> QED
      BY <3>1, <3>3, <3>4
  <2>2. CASE ~IsOpen(srv, client.session)
    <3>1. new = srv
      BY <1>6, <2>2 DEF new, Serve, CloseSession
    <3> QED
      BY <3>1
  <2> QED
    BY <2>1, <2>2
<1> QED
  BY <1>1, <1>2, <1>3, <1>4, <1>5, <1>6 DEF Requests

\* A tag is locked by a request only for the client that opens its session, and
\* is free again after the metadata and the closing request; a request that is
\* refused inside a session finds the session closed.
LEMMA ServeKeepsTheLocks ==
  ASSUME NEW srv \in ServerType, ServerInv(srv), NEW client \in ClientType,
         ClientInv(client, srv), client.pc \in Requests, NEW tag \in Tags,
         Serve(srv, client).server.lock[tag] # NoSession
  PROVE  LET reply == Serve(srv, client)
             lock == reply.server.lock[tag]
         IN  /\ \/ lock = srv.lock[tag]
                \/ client.pc = "session" /\ reply.ok /\ tag = client.tag /\ lock = reply.data
             /\ \/ client.pc \in {"metadata", "closing"}
                \/ client.pc \in {"hashes", "payload"} /\ ~reply.ok
                => lock # client.session
<1> USE DEF ServerType, ServerInv, ClientType, ClientInv, Served, NoSession
<1>1. CASE client.pc = "tag"
  BY <1>1 DEF Serve, GetTagDictionary
<1>2. CASE client.pc = "session"
  BY <1>2 DEF Serve, OpenSession
<1>3. CASE client.pc = "fcsr" \/ client.pc = "hashes"
  BY <1>3 DEF Serve, CheckHashes, IsOpen
<1>4. CASE client.pc = "payload"
  BY <1>4 DEF Serve, StorePayload, IsOpen
<1>5. CASE client.pc = "metadata" \/ client.pc = "closing"
  <2> DEFINE own == TagOf(srv, client.session)
             new == Serve(srv, client).server
  <2>1. CASE IsOpen(srv, client.session)
    <3>1. own \in Tags /\ srv.lock[own] = client.session
      BY <2>1 DEF IsOpen, TagOf
    <3>2. new.lock = [srv.lock EXCEPT ![own] = NoSession]
      BY <1>5, <2>1 DEF Serve, UploadMetadata, CloseSession
    <3> HIDE DEF own
    <3>3. new.lock[tag] = srv.lock[tag] /\ tag # own
      BY <3>1, <3>2
    <3>4. srv.lock[tag] # srv.lock[own]
      BY <3>1, <3>3
    <3> QED
      BY <1>5, <3>1, <3>3, <3>4
  <2>2. CASE ~IsOpen(srv, client.session)
    <3>1. new = srv
      BY <1>5, <2>2 DEF Serve, UploadMetadata, CloseSession
    <3> QED
      BY <1>5, <2>2, <3>1 DEF IsOpen
  <2> QED
    BY <2>1, <2>2
<1> QED
  BY <1>1, <1>2, <1>3, <1>4, <1>5 DEF Requests

\* No session is given to two tags or to two clients.
LEMMA ServeKeepsOwnLocks ==
  ASSUME NEW srv \in ServerType, ServerInv(srv), NEW client \in ClientType,
         ClientInv(client, srv), client.pc \in Requests,
         NEW other \in ClientType, OwnLock(other, srv)
  PROVE  LET reply == Serve(srv, client)
             new == reply.server
         IN  /\ OwnLock(other, new)
             /\ client.pc = "session" /\ reply.ok =>
                  /\ reply.data <= new.sessions
                  /\ \A tag \in Tags : new.lock[tag] = reply.data => client.tag = tag
<1> DEFINE reply == Serve(srv, client)
           new == reply.server
<1>0. \A tag \in Tags : new.lock[tag] # NoSession =>
        \/ new.lock[tag] = srv.lock[tag]
        \/ client.pc = "session" /\ reply.ok /\ tag = client.tag /\ new.lock[tag] = reply.data
  BY ServeKeepsTheLocks
<1> USE DEF ServerType, ServerInv, ClientType, ClientInv, Served, NoSession
<1>1. CASE client.pc = "session" /\ srv.lock[client.tag] = NoSession
  <2> DEFINE id == srv.sessions + 1
  <2>1. /\ new.sessions = id /\ new.lock = [srv.lock EXCEPT ![client.tag] = id]
        /\ reply.data = id
    BY <1>1 DEF Serve, OpenSession
  <2>2. \A tag \in Tags : new.lock[tag] = IF tag = client.tag THEN id ELSE srv.lock[tag]
    BY <2>1
  <2>3. \A tag \in Tags : srv.lock[tag] <= srv.sessions
    OBVIOUS
  <2>4. other.session <= srv.sessions /\ other.session \in Nat
    BY DEF OwnLock
  <2> HIDE DEF reply
  <2> QED
    BY <2>1, <2>2, <2>3, <2>4 DEF reply, OwnLock
<1>2. CASE ~(client.pc = "session" /\ srv.lock[client.tag] = NoSession)
  <2>1. new.sessions = srv.sessions /\ (client.pc = "session" => ~reply.ok)
    BY <1>2 DEF Requests, Serve, GetTagDictionary, OpenSession, CheckHashes, StorePayload,
            UploadMetadata, CloseSession
  <2>2. \A tag \in Tags : new.lock[tag] # NoSession => new.lock[tag] = srv.lock[tag]
    <3> HIDE DEF reply
    <3> QED
      BY <1>0, <2>1
  <2> HIDE DEF reply
  <2> QED
    BY <2>1, <2>2 DEF reply, OwnLock
<1> QED
  BY <1>1, <1>2

\* What the answers to the requests say.
LEMMA Replies ==
  ASSUME NEW srv \in ServerType, NEW client \in ClientType, client.pc \in Requests,
         client.tag \in Tags
  PROVE  LET reply == Serve(srv, client)
         IN  /\ client.pc = "tag" => reply.data \in Strings
             /\ client.pc = "session" => reply.data \in Nat
             /\ client.pc = "fcsr" => reply.data = Fcsr
             /\ client.pc = "hashes" => reply.data = Hashes(client.iovs) \ reply.server.payloads
             /\ client.pc = "payload" /\ reply.ok => Head(client.toSend) \in reply.server.payloads
             /\ client.pc = "metadata" /\ reply.ok => client.session \in reply.server.stored
<1> USE DEF ServerType, ClientType, Served
<1>1. CASE client.pc = "tag"
  BY <1>1 DEF Serve, GetTagDictionary
<1>2. CASE client.pc = "session"
  BY <1>2 DEF Serve, OpenSession
<1>3. CASE client.pc = "fcsr" \/ client.pc = "hashes"
  BY <1>3 DEF Serve, CheckHashes
<1>4. CASE client.pc = "payload"
  BY <1>4 DEF Serve, StorePayload
<1>5. CASE client.pc = "metadata"
  BY <1>5 DEF Serve, UploadMetadata
<1>6. CASE client.pc = "closing"
  BY <1>6
<1> QED
  BY <1>1, <1>2, <1>3, <1>4, <1>5, <1>6 DEF Requests

\* The service only gains payloads and uploads, so what a client has done stays
\* done.
LEMMA ClientsAreLeftAlone ==
  ASSUME NEW srv \in ServerType, NEW new \in ServerType, NEW client \in ClientType,
         srv.payloads \subseteq new.payloads, srv.stored \subseteq new.stored,
         ClientInv(client, srv)
  PROVE  ClientInv(client, new)
  BY DEF ClientInv

LEMMA ExitKeeps ==
  ASSUME NEW client \in ClientType, NEW srv
  PROVE  /\ Exit(client) \in ClientType /\ ClientInv(Exit(client), srv)
         /\ Exit(client).pc = "exited" /\ Exit(client).tag = client.tag
         /\ Exit(client).trouble = client.trouble
  BY DEF Exit, ClientType, ClientInv, Requests, Sending

LEMMA ExitUploadKeeps ==
  ASSUME NEW client \in ClientType, NEW srv, client.tag \in Tags
  PROVE  LET next == ExitUpload(client)
         IN  /\ next \in ClientType /\ ClientInv(next, srv)
             /\ next.pc \in {"closing", "exited"} /\ next.tag = client.tag
             /\ next.trouble = client.trouble /\ next.session = client.session
             /\ client.session # NoSession => next.pc = "closing"
  BY DEF ExitUpload, ClientType, ClientInv, Requests, Sending

\* The IOVs of a file or of the command line become those of the source.
LEMMA PreparedKeeps ==
  ASSUME NEW client \in ClientType, NEW srv, client.tag \in Tags, client.session = NoSession,
         NEW timeType \in Strings, NEW iovs \in SUBSET IOV, iovs # {}, IsFiniteSet(iovs),
         NEW since \in Nat
  PROVE  LET next == Prepared(client, timeType, iovs, since)
         IN  /\ next \in ClientType /\ ClientInv(next, srv)
             /\ next.pc = "session" /\ next.tag = client.tag
             /\ next.trouble = client.trouble /\ next.session = client.session
<1> DEFINE unit == IF timeType = "Run" THEN LumisPerRun ELSE 1
           Times(iov) == [since |-> iov.since * unit, hash |-> iov.hash]
           scaled == {Times(iov) : iov \in iovs}
           first == IF since = NoSince THEN FirstSince(scaled) ELSE since * unit
<1>1. unit \in Nat
  OBVIOUS
<1> HIDE DEF unit
<1>2. \A iov \in iovs : Times(iov) \in IOV
  BY <1>1 DEF IOV
<1>3. scaled \subseteq IOV /\ scaled # {}
  BY <1>2
<1>4. IsFiniteSet(scaled)
  <2> DEFINE f == [iov \in iovs |-> Times(iov)]
  <2>1. f \in Surjection(iovs, scaled)
    BY DEF Surjection
  <2> HIDE DEF f, scaled
  <2> QED
    BY <2>1, FS_Surjection
<1> HIDE DEF scaled
<1>5. first \in Nat
  BY <1>1, <1>3, FirstSinceIsLeast
<1>6. Prepared(client, timeType, iovs, since) =
        [client EXCEPT !.iovs = scaled, !.source = scaled, !.timeType = timeType,
                       !.since = first, !.pc = "session", !.attempt = 0]
  BY DEF Prepared, Ask, unit, scaled, ClientType
<1> DEFINE next == Prepared(client, timeType, iovs, since)
<1> HIDE DEF first, next
<1>7. next \in ClientType
  <2>1. scaled \in SUBSET IOV /\ next = [client EXCEPT !.iovs = scaled, !.source = scaled,
                 !.timeType = timeType, !.since = first, !.pc = "session", !.attempt = 0]
    BY <1>3, <1>6 DEF next
  <2> QED
    BY <1>5, <2>1 DEF ClientType, Requests
<1>8. /\ next.pc = "session" /\ next.tag = client.tag /\ next.session = client.session
      /\ next.trouble = client.trouble /\ next.iovs = scaled /\ next.source = scaled
  BY <1>6 DEF next, ClientType
<1>9. ClientInv(next, srv)
  BY <1>3, <1>4, <1>8 DEF ClientInv, Sending
<1> QED
  BY <1>7, <1>8, <1>9 DEF next

\* The filter by the first condition safe run leaves no hole.
LEMMA FcsrKeeps ==
  ASSUME NEW client \in ClientType, NEW srv, ClientInv(client, srv), client.pc = "fcsr",
         NEW reply, reply.data = Fcsr
  PROVE  LET next == GotFcsr(client, reply)
         IN  /\ next \in ClientType /\ ClientInv(next, srv)
             /\ next.pc \in {"closing", "exited", "hashes"} /\ next.tag = client.tag
             /\ next.trouble = client.trouble /\ next.session = client.session
             /\ client.session # NoSession => next.pc # "exited"
<1> DEFINE next == GotFcsr(client, reply)
           dest == IF reply.data > client.since THEN reply.data ELSE client.since
           sent == Shifted(client.iovs, dest)
<1>1. client.tag \in Tags
  BY DEF ClientInv, Requests
<1>2. CASE next = ExitUpload(client)
  BY <1>1, <1>2, ExitUploadKeeps
<1>3. CASE next # ExitUpload(client)
  <2>1. next = [client EXCEPT !.since = dest, !.iovs = sent, !.pc = "hashes", !.attempt = 0]
    BY <1>3 DEF GotFcsr, Ask, ClientType
  <2>2. dest \in Nat /\ dest >= Fcsr
    BY DEF ClientType
  <2>3. /\ client.iovs \subseteq IOV /\ client.iovs # {} /\ IsFiniteSet(client.iovs)
        /\ client.source = client.iovs
    BY DEF ClientInv, ClientType
  <2> HIDE DEF dest
  <2>4. sent \subseteq IOV /\ IsFiniteSet(sent) /\ \A iov \in sent : iov.since >= dest
    BY <2>2, <2>3, ShiftedIsTyped
  <2>5. \A time \in Nat : time >= dest => PayloadAt(sent, time) = PayloadAt(client.source, time)
    BY <2>2, <2>3, ShiftedSaysTheSame
  <2> HIDE DEF sent, next
  <2>6. next \in ClientType
    BY <2>1, <2>2, <2>4 DEF ClientType, Requests
  <2>7. /\ next.pc = "hashes" /\ next.tag = client.tag /\ next.trouble = client.trouble
        /\ next.session = client.session /\ next.iovs = sent /\ next.since = dest
        /\ next.source = client.source
    BY <2>1 DEF ClientType
  <2>8. Sinces(client.source) \cup {dest} \subseteq Nat
    BY <2>2, <2>3 DEF Sinces, IOV
  <2>9. Covered(next)
    BY <2>2, <2>4, <2>5, <2>7, <2>8 DEF Covered
  <2>10. ClientInv(next, srv)
    BY <1>1, <2>4, <2>7, <2>9 DEF ClientInv
  <2> QED
    BY <2>6, <2>7, <2>10 DEF next
<1> QED
  BY <1>2, <1>3

\* An answer takes a client to its next request with what that request needs.
LEMMA AnswerKeeps ==
  ASSUME NEW srv \in ServerType, NEW client \in ClientType, ClientInv(client, srv),
         client.pc \in Requests, Serve(srv, client).server \in ServerType,
         ClientInv(client, Serve(srv, client).server)
  PROVE  LET reply == Serve(srv, client)
             next == Answered(client, reply)
         IN  /\ next \in ClientType /\ ClientInv(next, reply.server)
             /\ next.pc # "new" /\ next.tag = client.tag /\ next.trouble = client.trouble
             /\ client.pc = "session" /\ reply.ok => next.session = reply.data /\ next.pc \in Requests
             /\ \/ next.session = client.session
                \/ client.pc = "session" /\ reply.ok /\ next.session = reply.data
             /\ \/ next.pc \in Requests \/ client.session = NoSession
                \/ client.pc \in {"metadata", "closing"}
                \/ client.pc \in {"hashes", "payload"} /\ ~reply.ok
<1> DEFINE reply == Serve(srv, client)
           new == reply.server
           next == Answered(client, reply)
           Kept == /\ next \in ClientType /\ ClientInv(next, new)
                   /\ next.pc # "new" /\ next.tag = client.tag /\ next.trouble = client.trouble
                   /\ client.pc = "session" /\ reply.ok
                        => next.session = reply.data /\ next.pc \in Requests
                   /\ \/ next.session = client.session
                      \/ client.pc = "session" /\ reply.ok /\ next.session = reply.data
                   /\ \/ next.pc \in Requests \/ client.session = NoSession
                      \/ client.pc \in {"metadata", "closing"}
                      \/ client.pc \in {"hashes", "payload"} /\ ~reply.ok
<1> SUFFICES Kept
  OBVIOUS
<1>0. client.tag \in Tags
  BY DEF ClientInv
<1>1. /\ client.pc = "tag" => reply.data \in Strings
      /\ client.pc = "session" => reply.data \in Nat
      /\ client.pc = "fcsr" => reply.data = Fcsr
      /\ client.pc = "hashes" => reply.data = Hashes(client.iovs) \ new.payloads
      /\ client.pc = "payload" /\ reply.ok => Head(client.toSend) \in new.payloads
      /\ client.pc = "metadata" /\ reply.ok => client.session \in new.stored
  BY <1>0, Replies
<1> HIDE DEF reply, new
<1>2. CASE client.pc = "closing" \/ (client.pc # "fcsr" /\ ~reply.ok)
  <2>1. next = Exit(client)
    BY <1>2 DEF Answered
  <2>2. client.pc \in {"tag", "session"} => client.session = NoSession
    BY DEF ClientInv
  <2>3. /\ next \in ClientType /\ ClientInv(next, new) /\ next.pc = "exited"
        /\ next.tag = client.tag /\ next.trouble = client.trouble
    BY <2>1, ExitKeeps
  <2>4. next.session = client.session
    BY <2>1 DEF Exit, ClientType
  <2> QED
    BY <1>2, <2>2, <2>3, <2>4 DEF Requests
<1>3. CASE client.pc = "fcsr"
  <2>1. next = GotFcsr(client, reply)
    BY <1>3 DEF Answered
  <2>2. ClientInv(client, new)
    BY DEF new, reply
  <2> QED
    BY <1>1, <1>3, <2>1, <2>2, FcsrKeeps DEF Requests
<1>4. CASE client.pc = "tag" /\ reply.ok
  <2> DEFINE given == {[since |-> client.metadata.since, hash |-> client.metadata.hash]}
  <2>1. next = Prepared(client, reply.data, given, client.metadata.since)
    BY <1>4 DEF Answered, GotTag
  <2>2. given \in SUBSET IOV /\ given # {} /\ client.metadata.since \in Nat
    BY DEF ClientType, Options, IOV
  <2>3. IsFiniteSet(given)
    BY FS_Singleton
  <2>4. client.session = NoSession
    BY <1>4 DEF ClientInv
  <2> HIDE DEF given, next
  <2>5. /\ next \in ClientType /\ ClientInv(next, new) /\ next.pc = "session"
        /\ next.tag = client.tag /\ next.trouble = client.trouble
        /\ next.session = client.session
    <3> DEFINE timeType == reply.data
               since == client.metadata.since
    <3>1. timeType \in Strings /\ since \in Nat /\ next = Prepared(client, timeType, given, since)
      BY <1>1, <1>4, <2>1, <2>2
    <3> HIDE DEF timeType, since
    <3> QED
      BY <1>0, <2>2, <2>3, <2>4, <3>1, PreparedKeeps, ZenonT(30)
  <2> QED
    BY <1>4, <2>4, <2>5
<1>5. CASE client.pc = "session" /\ reply.ok
  <2> DEFINE pc == IF client.metadata.filter # None /\ client.timeType # "Time"
                   THEN "fcsr" ELSE "hashes"
  <2>1. next = [client EXCEPT !.session = reply.data, !.pc = pc, !.attempt = 0]
    BY <1>5 DEF Answered, GotSession, Ask, ClientType
  <2>2. client.iovs = client.source /\ client.source # {} /\ IsFiniteSet(client.iovs)
        /\ client.session = NoSession
    BY <1>5 DEF ClientInv
  <2> HIDE DEF next
  <2>3. next \in ClientType
    BY <1>1, <1>5, <2>1 DEF ClientType, Requests
  <2>4. /\ next.pc = pc /\ next.tag = client.tag /\ next.trouble = client.trouble
        /\ next.session = reply.data /\ next.iovs = client.iovs /\ next.source = client.source
        /\ next.metadata = client.metadata /\ next.timeType = client.timeType
    BY <2>1 DEF ClientType
  <2>5. pc = "hashes" => Covered(next)
    BY <2>2, <2>4 DEF Covered
  <2>6. ClientInv(next, new)
    BY <1>0, <2>2, <2>4, <2>5 DEF ClientInv, Sending
  <2> QED
    BY <1>5, <2>2, <2>3, <2>4, <2>6 DEF Requests
<1>6. CASE client.pc = "hashes" /\ reply.ok
  <2>1. next = GotHashes(client, reply)
    BY <1>6 DEF Answered
  <2>2. IsFiniteSet(client.iovs) /\ Covered(client)
    BY <1>6 DEF ClientInv, Sending
  <2>3. CASE next = ExitUpload(client)
    BY <1>0, <1>6, <2>3, ExitUploadKeeps DEF Requests
  <2>4. CASE next # ExitUpload(client) /\ reply.data = {}
    <3>1. next = [client EXCEPT !.pc = "metadata", !.attempt = 0]
      BY <2>1, <2>4 DEF GotHashes, Ask
    <3> HIDE DEF next
    <3>2. next \in ClientType
      BY <3>1 DEF ClientType, Requests
    <3>3. /\ next.pc = "metadata" /\ next.tag = client.tag /\ next.trouble = client.trouble
          /\ next.session = client.session /\ next.iovs = client.iovs
          /\ next.source = client.source /\ next.since = client.since
          /\ next.metadata = client.metadata /\ next.timeType = client.timeType
      BY <3>1 DEF ClientType
    <3>4. Hashes(next.iovs) \subseteq new.payloads
      BY <1>1, <1>6, <2>4, <3>3
    <3>5. Covered(next)
      BY <2>2, <3>3 DEF Covered
    <3>6. ClientInv(next, new)
      BY <1>0, <3>3, <3>4, <3>5 DEF ClientInv
    <3> QED
      BY <1>6, <3>2, <3>3, <3>6 DEF Requests
  <2>5. CASE next # ExitUpload(client) /\ reply.data # {}
    <3> DEFINE rest == SetToSeq(reply.data)
    <3>1. next = [client EXCEPT !.toSend = rest, !.pc = "payload", !.attempt = 0]
      BY <2>1, <2>5 DEF GotHashes, Ask, ClientType
    <3>2. IsFiniteSet(reply.data) /\ reply.data \subseteq Strings
      <4> DEFINE f == [iov \in client.iovs |-> iov.hash]
      <4>1. f \in Surjection(client.iovs, Hashes(client.iovs))
        BY DEF Surjection, Hashes
      <4> HIDE DEF f
      <4>2. IsFiniteSet(Hashes(client.iovs))
        BY <2>2, <4>1, FS_Surjection
      <4>3. Hashes(client.iovs) \subseteq Strings
        BY DEF Hashes, ClientType, IOV
      <4> QED
        BY <1>1, <1>6, <4>2, <4>3, FS_Subset
    <3>3. /\ rest \in Seq(reply.data) /\ Len(rest) > 0
          /\ \A hash \in reply.data : \E i \in 1 .. Len(rest) : rest[i] = hash
      BY <2>5, <3>2, SequenceOfSet
    <3> HIDE DEF rest, next
    <3>4. rest \in Seq(Strings) /\ rest # <<>>
      BY <3>2, <3>3
    <3>5. next \in ClientType
      BY <3>1, <3>4 DEF ClientType, Requests
    <3>6. /\ next.pc = "payload" /\ next.tag = client.tag /\ next.trouble = client.trouble
          /\ next.session = client.session /\ next.iovs = client.iovs
          /\ next.source = client.source /\ next.since = client.since /\ next.toSend = rest
          /\ next.metadata = client.metadata /\ next.timeType = client.timeType
      BY <3>1 DEF ClientType
    <3>7. \A hash \in Hashes(next.iovs) :
            hash \in new.payloads \/ \E i \in 1 .. Len(rest) : rest[i] = hash
      BY <1>1, <1>6, <3>3, <3>6
    <3>8. Covered(next)
      BY <2>2, <3>6 DEF Covered
    <3>9. ClientInv(next, new)
      BY <1>0, <3>4, <3>6, <3>7, <3>8 DEF ClientInv
    <3> QED
      BY <1>6, <3>5, <3>6, <3>9 DEF Requests
  <2> QED
    BY <2>3, <2>4, <2>5
<1>7. CASE client.pc = "payload" /\ reply.ok
  <2> DEFINE rest == Tail(client.toSend)
             pc == IF rest = <<>> THEN "metadata" ELSE "payload"
  <2>1. next = [client EXCEPT !.toSend = rest, !.pc = pc, !.attempt = 0]
    BY <1>7 DEF Answered, PayloadSent, Ask, ClientType
  <2>2. /\ client.toSend \in Seq(Strings) /\ client.toSend # <<>> /\ Covered(client)
        /\ \A hash \in Hashes(client.iovs) :
             hash \in new.payloads \/ \E i \in 1 .. Len(client.toSend) : client.toSend[i] = hash
    BY <1>7 DEF ClientInv, ClientType, Sending, new, reply
  <2>3. rest \in Seq(Strings) /\ Len(rest) = Len(client.toSend) - 1
        /\ \A i \in 1 .. Len(rest) : rest[i] = client.toSend[i + 1]
    BY <2>2, HeadTailProperties
  <2>4. ASSUME NEW hash \in Hashes(client.iovs)
        PROVE  hash \in new.payloads \/ \E i \in 1 .. Len(rest) : rest[i] = hash
    <3>1. CASE \E i \in 1 .. Len(client.toSend) : client.toSend[i] = hash
      <4>1. PICK i \in 1 .. Len(client.toSend) : client.toSend[i] = hash
        BY <3>1
      <4>2. CASE i = 1
        <5>1. Head(client.toSend) = hash
          BY <2>2, <4>1, <4>2
        <5> QED
          BY <1>1, <1>7, <5>1
      <4>3. CASE i # 1
        <5>1. i - 1 \in 1 .. Len(rest)
          BY <2>2, <2>3, <4>3
        <5>2. rest[i - 1] = client.toSend[(i - 1) + 1] /\ (i - 1) + 1 = i
          BY <2>3, <5>1
        <5> QED
          BY <4>1, <5>1, <5>2
      <4> QED
        BY <4>2, <4>3
    <3> QED
      BY <2>2, <3>1
  <2> HIDE DEF rest, next
  <2>5. rest = <<>> => Hashes(client.iovs) \subseteq new.payloads
    BY <2>4
  <2>6. next \in ClientType
    BY <2>1, <2>3 DEF ClientType, Requests
  <2>7. /\ next.pc = pc /\ next.tag = client.tag /\ next.trouble = client.trouble
        /\ next.session = client.session /\ next.iovs = client.iovs
        /\ next.source = client.source /\ next.since = client.since /\ next.toSend = rest
        /\ next.metadata = client.metadata /\ next.timeType = client.timeType
    BY <2>1 DEF ClientType
  <2>8. Covered(next)
    BY <2>2, <2>7 DEF Covered
  <2>9. ClientInv(next, new)
    BY <1>0, <2>4, <2>5, <2>7, <2>8 DEF ClientInv
  <2> QED
    BY <1>7, <2>6, <2>7, <2>9 DEF Requests
<1>8. CASE client.pc = "metadata" /\ reply.ok
  <2>1. next = [client EXCEPT !.pc = "done"]
    BY <1>8 DEF Answered
  <2>2. Covered(client)
    BY <1>8 DEF ClientInv, Sending
  <2> HIDE DEF next
  <2>3. next \in ClientType
    BY <2>1 DEF ClientType
  <2>4. /\ next.pc = "done" /\ next.tag = client.tag /\ next.trouble = client.trouble
        /\ next.session = client.session /\ next.iovs = client.iovs
        /\ next.source = client.source /\ next.since = client.since
        /\ next.metadata = client.metadata /\ next.timeType = client.timeType
    BY <2>1 DEF ClientType
  <2>5. Covered(next)
    BY <2>2, <2>4 DEF Covered
  <2>6. ClientInv(next, new)
    BY <1>1, <1>8, <2>4, <2>5 DEF ClientInv, Requests
  <2> QED
    BY <1>8, <2>3, <2>4, <2>6
<1> QED
  BY <1>2, <1>3, <1>4, <1>5, <1>6, <1>7, <1>8 DEF Requests

\* A client that gives up closes its session, unless it was sending a payload
\* or closing the session already.
LEMMA FailureKeeps ==
  ASSUME NEW client \in ClientType, NEW srv, ClientInv(client, srv), client.pc \in Requests,
         NEW arrived \in BOOLEAN
  PROVE  LET next == Failed(client, arrived)
         IN  /\ next \in ClientType /\ ClientInv(next, srv)
             /\ next.pc # "new" /\ next.tag = client.tag /\ client.trouble \subseteq next.trouble
             /\ arrived => <<client.pc, "unanswered">> \in next.trouble
             /\ next.session = client.session
             /\ \/ next.pc \in Requests \/ client.session = NoSession
                \/ next.trouble \cap {<<"payload", "abandoned">>, <<"closing", "abandoned">>} # {}
<1> DEFINE answers == IF arrived THEN client.trouble \cup {<<client.pc, "unanswered">>}
                      ELSE client.trouble
           told == [client EXCEPT !.attempt = client.attempt + 1, !.trouble = answers]
           troubles == answers \cup {<<client.pc, "abandoned">>}
           lost == [told EXCEPT !.trouble = troubles]
           next == Failed(client, arrived)
<1> SUFFICES /\ next \in ClientType /\ ClientInv(next, srv)
             /\ next.pc # "new" /\ next.tag = client.tag /\ client.trouble \subseteq next.trouble
             /\ arrived => <<client.pc, "unanswered">> \in next.trouble
             /\ next.session = client.session
             /\ \/ next.pc \in Requests \/ client.session = NoSession
                \/ next.trouble \cap {<<"payload", "abandoned">>, <<"closing", "abandoned">>} # {}
  OBVIOUS
<1>1. client.trouble \subseteq answers /\ answers \in SUBSET (Requests \X Troubles)
      /\ troubles \in SUBSET (Requests \X Troubles)
  <2>1. client.trouble \in SUBSET (Requests \X Troubles)
    BY DEF ClientType
  <2>2. "unanswered" \in Troubles /\ "abandoned" \in Troubles
    BY DEF Troubles
  <2>3. /\ <<client.pc, "unanswered">> \in Requests \X Troubles
        /\ <<client.pc, "abandoned">> \in Requests \X Troubles
    BY <2>2, Zenon
  <2> DEFINE Pairs == Requests \X Troubles
  <2> HIDE DEF Pairs
  <2>4. client.trouble \in SUBSET Pairs /\ <<client.pc, "unanswered">> \in Pairs
        /\ <<client.pc, "abandoned">> \in Pairs
    BY <2>1, <2>3, Zenon DEF Pairs
  <2>5. client.trouble \subseteq answers /\ answers \in SUBSET Pairs /\ troubles \in SUBSET Pairs
    BY <2>4
  <2> QED
    BY <2>5, Zenon DEF Pairs
<1> HIDE DEF answers
<1>3. /\ told.pc = client.pc /\ told.tag = client.tag
      /\ told.session = client.session /\ told.trouble = answers
      /\ told.iovs = client.iovs /\ told.source = client.source /\ told.since = client.since
      /\ told.metadata = client.metadata /\ told.timeType = client.timeType
      /\ told.toSend = client.toSend
  BY DEF ClientType
<1>2. next = IF client.attempt + 1 < MaxAttempts THEN told ELSE NoMoreRetries(lost)
  <2>1. told = [client EXCEPT !.attempt = @ + 1,
                  !.trouble = IF arrived THEN @ \cup {<<client.pc, "unanswered">>} ELSE @]
    BY DEF ClientType, answers
  <2>2. lost = Troubled(told, "abandoned")
    BY <1>3 DEF Troubled
  <2> HIDE DEF told, lost
  <2> QED
    BY <2>1, <2>2 DEF Failed
<1> HIDE DEF next
<1>10. told \in ClientType
  <2>1. answers \in SUBSET (Requests \X Troubles)
    BY <1>1
  <2>2. client.attempt + 1 \in Nat
    BY DEF ClientType
  <2> QED
    BY <2>1, <2>2 DEF ClientType
<1>4. ClientInv(told, srv)
  <2> HIDE DEF told
  <2> QED
    BY <1>3 DEF ClientInv, Sending, Covered
<1> HIDE DEF told, troubles
<1>11. lost \in ClientType
  BY <1>1, <1>10 DEF ClientType
<1>5. /\ lost \in ClientType /\ lost.pc = client.pc /\ lost.tag = client.tag
      /\ lost.session = client.session /\ lost.trouble = answers \cup {<<client.pc, "abandoned">>}
  BY <1>3, <1>10, <1>11 DEF ClientType, troubles
<1> HIDE DEF lost
<1>6. client.tag \in Tags
  BY DEF ClientInv
<1>7. CASE next = told
  BY <1>1, <1>3, <1>4, <1>7, <1>10 DEF answers, Requests
<1>8. CASE next = ExitUpload(lost)
  <2>1. /\ next \in ClientType /\ ClientInv(next, srv)
        /\ next.pc \in {"closing", "exited"} /\ next.tag = lost.tag
        /\ next.trouble = lost.trouble /\ next.session = lost.session
        /\ lost.session # NoSession => next.pc = "closing"
    BY <1>5, <1>6, <1>8, ExitUploadKeeps
  <2> QED
    BY <1>1, <1>5, <2>1 DEF answers, Requests
<1>9. CASE next = Exit(lost) /\ client.pc \in {"tag", "payload", "closing"}
  <2>1. /\ next \in ClientType /\ ClientInv(next, srv) /\ next.pc = "exited"
        /\ next.tag = lost.tag /\ next.trouble = lost.trouble
    BY <1>5, <1>9, ExitKeeps
  <2>2. next.session = lost.session
    BY <1>5, <1>9 DEF Exit, ClientType
  <2>3. client.pc = "tag" => client.session = NoSession
    BY DEF ClientInv
  <2> QED
    BY <1>1, <1>5, <1>9, <2>1, <2>2, <2>3 DEF answers
<1> QED
  BY <1>2, <1>5, <1>7, <1>8, <1>9 DEF NoMoreRetries, Requests

\* One client moves and the service serves its request or does not: what must
\* be seen of the move is that the client still has, or now has, the locks that
\* it is the only one to account for.
LEMMA ClientMoves ==
  ASSUME UploadsInv, NEW c \in Clients, up[c].pc \in Requests,
         server' = server \/ server' = Serve(server, up[c]).server,
         NEW next \in ClientType, up' = [up EXCEPT ![c] = next],
         ClientInv(next, server'), OwnLock(next, server'),
         next.pc # "new", next.tag = up[c].tag, up[c].trouble \subseteq next.trouble,
         \A tag \in Tags :
           /\ server'.lock[tag] # NoSession
           /\ \/ server'.lock[tag] # server.lock[tag]
              \/ up[c].session = server'.lock[tag] /\ up[c].tag = tag
           => AccountsFor(next, tag, server'.lock[tag])
  PROVE  UploadsInv'
<1>1. /\ up \in [Clients -> ClientType] /\ server \in ServerType /\ ServerInv(server)
      /\ \A d \in Clients : ClientInv(up[d], server) /\ OwnLock(up[d], server)
      /\ \A tag \in Tags : server.lock[tag] # NoSession =>
           \E d \in Clients : AccountsFor(up[d], tag, server.lock[tag])
  BY DEF UploadsInv, UploadsTypeOK, LocksAreReturned
<1>2. /\ server' \in ServerType /\ ServerInv(server')
      /\ server.payloads \subseteq server'.payloads /\ server.stored \subseteq server'.stored
  BY <1>1, ServeKeepsTheServer
<1>3. up' \in [Clients -> ClientType] /\ up'[c] = next
      /\ \A d \in Clients : d # c => up'[d] = up[d]
  BY <1>1
<1>4. ASSUME NEW d \in Clients PROVE ClientInv(up'[d], server') /\ OwnLock(up'[d], server')
  <2>1. CASE d = c
    BY <1>3, <2>1
  <2>2. CASE d # c
    <3>1. ClientInv(up[d], server')
      BY <1>1, <1>2, ClientsAreLeftAlone
    <3>2. OwnLock(up[d], server')
      <4>1. CASE server' = server
        BY <1>1, <4>1
      <4>2. CASE server' # server
        <5> DEFINE client == up[c]
                   other == up[d]
        <5>1. client \in ClientType /\ ClientInv(client, server) /\ client.pc \in Requests
              /\ other \in ClientType /\ OwnLock(other, server)
          BY <1>1
        <5> HIDE DEF client, other
        <5>2. OwnLock(other, Serve(server, client).server)
          BY <1>1, <5>1, ServeKeepsOwnLocks
        <5> QED
          BY <4>2, <5>2 DEF client, other
      <4> QED
        BY <4>1, <4>2
    <3> QED
      BY <1>3, <2>2, <3>1, <3>2
  <2> QED
    BY <2>1, <2>2
<1>5. ASSUME NEW tag \in Tags, server'.lock[tag] # NoSession
      PROVE  \E d \in Clients : AccountsFor(up'[d], tag, server'.lock[tag])
  <2>1. CASE server'.lock[tag] # server.lock[tag]
    BY <1>3, <1>5, <2>1
  <2>2. CASE server'.lock[tag] = server.lock[tag]
    <3>1. PICK d \in Clients : AccountsFor(up[d], tag, server.lock[tag])
      BY <1>1, <1>5, <2>2
    <3>2. CASE d # c
      BY <1>3, <2>2, <3>1, <3>2
    <3>3. CASE d = c /\ up[c].session = server.lock[tag]
      <4>1. up[c].tag = tag
        BY <3>1, <3>3 DEF AccountsFor
      <4> QED
        BY <1>3, <1>5, <2>2, <3>3, <4>1
    <3>4. CASE d = c /\ up[c].session # server.lock[tag]
      <4>1. AccountsFor(next, tag, server.lock[tag])
        BY <3>1, <3>4 DEF AccountsFor
      <4> QED
        BY <1>3, <2>2, <4>1
    <3> QED
      BY <3>2, <3>3, <3>4
  <2> QED
    BY <2>1, <2>2
<1> QED
  BY <1>2, <1>3, <1>4, <1>5 DEF UploadsInv, UploadsTypeOK, LocksAreReturned

\* A new client has its metadata, and its IOVs if they are in a file.
LEMMA ConstructKeeps ==
  ASSUME NEW metadata \in Options, NEW client \in ClientType, client.tag = metadata.tag,
         client.session = NoSession, NEW srv
  PROVE  LET next == Constructed(client, metadata)
         IN  next \in ClientType /\ ClientInv(next, srv) /\ next.session = NoSession
<1> DEFINE next == Constructed(client, metadata)
<1>1. CASE ~Complete(metadata)
  <2>1. next = Exit(client)
    BY <1>1 DEF Constructed
  <2>2. Exit(client).session = NoSession
    BY DEF Exit, ClientType
  <2> QED
    BY <2>1, <2>2, ExitKeeps
<1>2. CASE Complete(metadata) /\ metadata.sourceDB # None
  <2> DEFINE file == Files[metadata.sourceDB]
             input == file.tags[metadata.inputTag]
             lacking == MissingIn(file, input.iovs)
             checked == [client EXCEPT !.missing = lacking]
  <2>1. next = Prepared(checked, input.timeType, input.iovs, metadata.since)
    BY <1>2 DEF Constructed
  <2>2. /\ input.iovs \in SUBSET IOV /\ IsFiniteSet(input.iovs) /\ input.iovs # {}
        /\ input.timeType \in Strings /\ metadata.since \in Nat
    BY <1>2 DEF Complete, Options
  <2>3. metadata.tag \in Tags
    BY <1>2 DEF Complete, Options
  <2> HIDE DEF input, file
  <2>4. lacking \in SUBSET Strings
    BY <2>2 DEF MissingIn, Hashes, IOV
  <2> HIDE DEF lacking, next
  <2>5. checked \in ClientType
    BY <2>4 DEF ClientType
  <2>6. checked.tag = metadata.tag /\ checked.session = NoSession
    BY DEF ClientType
  <2> HIDE DEF checked
  <2> DEFINE timeType == input.timeType
             iovs == input.iovs
             since == metadata.since
  <2>7. /\ iovs \in SUBSET IOV /\ IsFiniteSet(iovs) /\ iovs # {} /\ timeType \in Strings
        /\ since \in Nat /\ next = Prepared(checked, timeType, iovs, since)
    BY <2>1, <2>2
  <2> HIDE DEF timeType, iovs, since
  <2>8. next \in ClientType /\ ClientInv(next, srv) /\ next.session = checked.session
    BY <2>3, <2>5, <2>6, <2>7, PreparedKeeps, ZenonT(30)
  <2> QED
    BY <2>6, <2>8 DEF next
<1>3. CASE Complete(metadata) /\ metadata.sourceDB = None
  <2>1. next = [client EXCEPT !.missing = {metadata.hash}, !.pc = "tag", !.attempt = 0]
    BY <1>3 DEF Constructed, Ask, ClientType
  <2>2. metadata.tag \in Tags /\ {metadata.hash} \in SUBSET Strings
    BY <1>3 DEF Complete, Options
  <2> HIDE DEF next
  <2>3. next \in ClientType
    BY <2>1, <2>2 DEF ClientType, Requests
  <2>4. next.pc = "tag" /\ next.tag = metadata.tag /\ next.session = NoSession
    BY <2>1 DEF ClientType
  <2>5. ClientInv(next, srv)
    BY <2>2, <2>4 DEF ClientInv, Sending
  <2> QED
    BY <2>3, <2>4, <2>5 DEF next
<1> QED
  BY <1>1, <1>2, <1>3

LEMMA IdleIsTyped == Idle \in ClientType
<1>1. None \in Strings
  BY DEF Strings
<1>2. NoMetadata \in Options
  BY <1>1 DEF NoMetadata, NoSince, Options
<1>3. {} \in SUBSET Strings /\ {} \in SUBSET IOV /\ {} \in SUBSET (Requests \X Troubles)
      /\ <<>> \in Seq(Strings)
  OBVIOUS
<1> HIDE DEF NoMetadata
<1> QED
  BY <1>1, <1>2, <1>3 DEF Idle, NoSession, ClientType

LEMMA ConstructStep ==
  ASSUME UploadsInv, NEW c \in Clients, Construct(c)
  PROVE  UploadsInv'
<1>1. /\ up \in [Clients -> ClientType] /\ server \in ServerType /\ ServerInv(server)
      /\ \A d \in Clients : ClientInv(up[d], server) /\ OwnLock(up[d], server)
      /\ \A tag \in Tags : server.lock[tag] # NoSession =>
           \E d \in Clients : AccountsFor(up[d], tag, server.lock[tag])
  BY DEF UploadsInv, UploadsTypeOK, LocksAreReturned
<1>2. PICK command \in Commands :
        LET metadata == Metadata(command)
            client == [Idle EXCEPT !.metadata = metadata, !.tag = metadata.tag]
        IN  up' = [up EXCEPT ![c] = IF ArgumentsRaise(command) THEN Exit(client)
                                    ELSE Constructed(client, metadata)]
  BY DEF Construct
<1> DEFINE metadata == Metadata(command)
           client == [Idle EXCEPT !.metadata = metadata, !.tag = metadata.tag]
           next == IF ArgumentsRaise(command) THEN Exit(client) ELSE Constructed(client, metadata)
<1>3. metadata \in Options
  OBVIOUS
<1>4. up' = [up EXCEPT ![c] = next] /\ server' = server /\ up[c].pc = "new"
  BY <1>2 DEF Construct
<1> HIDE DEF metadata
<1>5. client.tag = metadata.tag /\ client.session = NoSession
  BY DEF Idle
<1>6. client \in ClientType
  <2>1. metadata.tag \in Tags \cup {None}
    BY <1>3 DEF Options
  <2>2. Idle \in ClientType
    BY IdleIsTyped
  <2> QED
    BY <1>3, <2>1, <2>2 DEF ClientType
<1> HIDE DEF client
<1>7. next \in ClientType /\ ClientInv(next, server) /\ next.session = NoSession
  <2>1. CASE next = Exit(client)
    <3>1. Exit(client).session = client.session
      BY <1>6 DEF Exit, ClientType
    <3> QED
      BY <1>5, <1>6, <2>1, <3>1, ExitKeeps
  <2>2. CASE next = Constructed(client, metadata)
    BY <1>3, <1>5, <1>6, <2>2, ConstructKeeps
  <2> QED
    BY <2>1, <2>2
<1> HIDE DEF next
<1>8. /\ up' \in [Clients -> ClientType] /\ up'[c] = next
      /\ \A d \in Clients : d # c => up'[d] = up[d]
  BY <1>1, <1>4, <1>7
<1>9. OwnLock(next, server)
  BY <1>1, <1>7 DEF OwnLock, NoSession, ServerType
<1>10. \A d \in Clients : ClientInv(up'[d], server') /\ OwnLock(up'[d], server')
  BY <1>1, <1>4, <1>7, <1>8, <1>9
<1>11. ASSUME NEW tag \in Tags, server'.lock[tag] # NoSession
       PROVE  \E d \in Clients : AccountsFor(up'[d], tag, server'.lock[tag])
  <2>1. PICK d \in Clients : AccountsFor(up[d], tag, server.lock[tag])
    BY <1>1, <1>4, <1>11
  <2>2. d # c
    BY <1>4, <2>1 DEF AccountsFor
  <2> QED
    BY <1>4, <1>8, <2>1, <2>2
<1> QED
  BY <1>1, <1>4, <1>8, <1>10, <1>11 DEF UploadsInv, UploadsTypeOK, LocksAreReturned

LEMMA PerformStep ==
  ASSUME UploadsInv, NEW c \in Clients, Perform(c)
  PROVE  UploadsInv'
<1> DEFINE client == up[c]
           reply == Serve(server, client)
           next == Answered(client, reply)
<1>1. /\ up \in [Clients -> ClientType] /\ server \in ServerType /\ ServerInv(server)
      /\ client \in ClientType /\ ClientInv(client, server) /\ OwnLock(client, server)
  BY DEF UploadsInv, UploadsTypeOK
<1>2. client.pc \in Requests /\ server' = reply.server /\ up' = [up EXCEPT ![c] = next]
  BY DEF Perform, Asking
<1>3. server' \in ServerType /\ ClientInv(client, server')
  <2> HIDE DEF client
  <2>1. /\ reply.server \in ServerType /\ ServerInv(reply.server)
        /\ server.payloads \subseteq reply.server.payloads
        /\ server.stored \subseteq reply.server.stored
    BY <1>1, <1>2, ServeKeepsTheServer
  <2> HIDE DEF reply
  <2> QED
    BY <1>1, <1>2, <2>1, ClientsAreLeftAlone
<1> HIDE DEF client
<1>4. /\ next \in ClientType /\ ClientInv(next, server')
      /\ next.pc # "new" /\ next.tag = client.tag /\ next.trouble = client.trouble
      /\ client.pc = "session" /\ reply.ok => next.session = reply.data /\ next.pc \in Requests
      /\ \/ next.session = client.session
         \/ client.pc = "session" /\ reply.ok /\ next.session = reply.data
      /\ \/ next.pc \in Requests \/ client.session = NoSession
         \/ client.pc \in {"metadata", "closing"}
         \/ client.pc \in {"hashes", "payload"} /\ ~reply.ok
  BY <1>1, <1>2, <1>3, AnswerKeeps
<1>5. \A tag \in Tags : server'.lock[tag] # NoSession =>
        /\ \/ server'.lock[tag] = server.lock[tag]
           \/ client.pc = "session" /\ reply.ok /\ tag = client.tag
              /\ server'.lock[tag] = reply.data
        /\ \/ client.pc \in {"metadata", "closing"}
           \/ client.pc \in {"hashes", "payload"} /\ ~reply.ok
           => server'.lock[tag] # client.session
  BY <1>1, <1>2, ServeKeepsTheLocks
<1>6. /\ OwnLock(client, reply.server)
      /\ client.pc = "session" /\ reply.ok =>
           /\ reply.data <= reply.server.sessions
           /\ \A tag \in Tags : reply.server.lock[tag] = reply.data => client.tag = tag
  BY <1>1, <1>2, ServeKeepsOwnLocks
<1> HIDE DEF reply, next
<1>7. OwnLock(next, server')
  BY <1>2, <1>4, <1>6 DEF OwnLock
<1>8. \A tag \in Tags :
        /\ server'.lock[tag] # NoSession
        /\ \/ server'.lock[tag] # server.lock[tag]
           \/ client.session = server'.lock[tag] /\ client.tag = tag
        => AccountsFor(next, tag, server'.lock[tag])
  <2> SUFFICES ASSUME NEW tag \in Tags, server'.lock[tag] # NoSession,
                      \/ server'.lock[tag] # server.lock[tag]
                      \/ client.session = server'.lock[tag] /\ client.tag = tag
               PROVE  AccountsFor(next, tag, server'.lock[tag])
    OBVIOUS
  <2>1. next.tag = tag
    BY <1>4, <1>5
  <2>2. next.session = server'.lock[tag] /\ next.pc \in Requests
    BY <1>1, <1>4, <1>5 DEF ClientInv
  <2> QED
    BY <1>4, <2>1, <2>2 DEF AccountsFor
<1> QED
  BY <1>1, <1>2, <1>4, <1>7, <1>8, ClientMoves DEF client, reply

\* The request fails or its answer does, with a service that may have served it.
LEMMA FailStep ==
  ASSUME UploadsInv, NEW c \in Clients, Fail(c)
  PROVE  UploadsInv'
<1> DEFINE client == up[c]
<1>1. /\ up \in [Clients -> ClientType] /\ server \in ServerType /\ ServerInv(server)
      /\ client \in ClientType /\ ClientInv(client, server) /\ OwnLock(client, server)
  BY DEF UploadsInv, UploadsTypeOK
<1>2. PICK arrived \in BOOLEAN :
        /\ server' = IF arrived THEN Serve(server, client).server ELSE server
        /\ up' = [up EXCEPT ![c] = Failed(client, arrived)]
  BY <1>1 DEF Fail
<1>3. client.pc \in Requests
  BY DEF Fail, Asking
<1> DEFINE next == Failed(client, arrived)
<1> HIDE DEF client
<1>4. server' \in ServerType /\ ClientInv(client, server') /\ OwnLock(client, server')
  <2>1. CASE server' = server
    BY <1>1, <2>1
  <2>2. CASE server' = Serve(server, client).server
    <3> DEFINE new == Serve(server, client).server
    <3>1. /\ new \in ServerType /\ server.payloads \subseteq new.payloads
          /\ server.stored \subseteq new.stored
      BY <1>1, <1>3, ServeKeepsTheServer
    <3>2. OwnLock(client, new)
      BY <1>1, <1>3, ServeKeepsOwnLocks
    <3> HIDE DEF new
    <3>3. ClientInv(client, new)
      BY <1>1, <3>1, ClientsAreLeftAlone
    <3> QED
      BY <2>2, <3>1, <3>2, <3>3 DEF new
  <2> QED
    BY <1>2, <2>1, <2>2
<1>5. /\ next \in ClientType /\ ClientInv(next, server')
      /\ next.pc # "new" /\ next.tag = client.tag /\ client.trouble \subseteq next.trouble
      /\ arrived => <<client.pc, "unanswered">> \in next.trouble
      /\ next.session = client.session
      /\ \/ next.pc \in Requests \/ client.session = NoSession
         \/ next.trouble \cap {<<"payload", "abandoned">>, <<"closing", "abandoned">>} # {}
  BY <1>1, <1>3, <1>4, FailureKeeps
<1> HIDE DEF next
<1>6. OwnLock(next, server')
  BY <1>4, <1>5 DEF OwnLock
<1>7. \A tag \in Tags : server'.lock[tag] # NoSession =>
        \/ server'.lock[tag] = server.lock[tag]
        \/ client.pc = "session" /\ tag = client.tag /\ arrived
  <2>1. CASE server' = server
    BY <2>1
  <2>2. CASE arrived /\ server' = Serve(server, client).server
    BY <1>1, <1>3, <2>2, ServeKeepsTheLocks
  <2> QED
    BY <1>2, <2>1, <2>2
<1>8. ASSUME NEW tag \in Tags, server'.lock[tag] # NoSession,
             \/ server'.lock[tag] # server.lock[tag]
             \/ client.session = server'.lock[tag] /\ client.tag = tag
      PROVE  AccountsFor(next, tag, server'.lock[tag])
  <2>1. CASE server'.lock[tag] # server.lock[tag]
    <3>1. <<"session", "unanswered">> \in next.trouble /\ next.tag = tag
      BY <1>5, <1>7, <1>8, <2>1
    <3> QED
      BY <1>5, <3>1 DEF AccountsFor
  <2>2. CASE client.session = server'.lock[tag] /\ client.tag = tag
    <3>1. next.session = server'.lock[tag] /\ next.tag = tag
      BY <1>5, <2>2
    <3>2. \/ next.pc \in Requests
          \/ next.trouble \cap {<<"payload", "abandoned">>, <<"closing", "abandoned">>} # {}
      BY <1>5, <1>8, <2>2
    <3> QED
      BY <1>5, <3>1, <3>2 DEF AccountsFor
  <2> QED
    BY <1>8, <2>1, <2>2
<1>9. server' = server \/ server' = Serve(server, client).server
  BY <1>2
<1> QED
  BY <1>2, <1>3, <1>5, <1>6, <1>8, <1>9, ClientMoves DEF client, next

\* An answer that cannot be decoded ends the client, not what it has locked.
LEMMA GarbleStep ==
  ASSUME UploadsInv, NEW c \in Clients, Garble(c)
  PROVE  UploadsInv'
<1> DEFINE client == up[c]
           troubles == client.trouble \cup {<<client.pc, "undecodable">>}
           heard == [client EXCEPT !.trouble = troubles]
           next == Exit(heard)
<1>1. /\ up \in [Clients -> ClientType] /\ server \in ServerType /\ ServerInv(server)
      /\ client \in ClientType /\ ClientInv(client, server) /\ OwnLock(client, server)
  BY DEF UploadsInv, UploadsTypeOK
<1>2. /\ client.pc \in Requests /\ server' = Serve(server, client).server
      /\ up' = [up EXCEPT ![c] = next]
  <2>1. heard = Troubled(client, "undecodable")
    BY DEF Troubled
  <2> HIDE DEF heard
  <2> QED
    BY <2>1 DEF Garble, Asking
<1> HIDE DEF client
<1>3. troubles \in SUBSET (Requests \X Troubles)
  <2>1. "undecodable" \in Troubles
    BY DEF Troubles
  <2>2. <<client.pc, "undecodable">> \in Requests \X Troubles
    BY <1>2, <2>1, Zenon
  <2>3. client.trouble \in SUBSET (Requests \X Troubles)
    BY <1>1 DEF ClientType
  <2> DEFINE Pairs == Requests \X Troubles
  <2>4. client.trouble \in SUBSET Pairs /\ <<client.pc, "undecodable">> \in Pairs
    BY <2>2, <2>3, Zenon DEF Pairs
  <2> HIDE DEF Pairs
  <2>5. troubles \in SUBSET Pairs
    BY <2>4
  <2> QED
    BY <2>5, Zenon DEF Pairs
<1> HIDE DEF troubles
<1>4. heard \in ClientType
  BY <1>1, <1>3 DEF ClientType
<1>5. heard.tag = client.tag /\ heard.session = client.session /\ heard.trouble = troubles
  BY <1>1 DEF ClientType
<1> HIDE DEF heard
<1>6. /\ next \in ClientType /\ ClientInv(next, server')
      /\ next.pc = "exited" /\ next.tag = client.tag /\ next.trouble = troubles
      /\ next.session = client.session
  BY <1>4, <1>5, ExitKeeps DEF Exit, ClientType
<1> HIDE DEF next
<1>7. OwnLock(client, server')
  BY <1>1, <1>2, ServeKeepsOwnLocks
<1>8. OwnLock(next, server')
  BY <1>6, <1>7 DEF OwnLock
<1>9. \A tag \in Tags : server'.lock[tag] # NoSession =>
        server'.lock[tag] = server.lock[tag] \/ tag = client.tag
  BY <1>1, <1>2, ServeKeepsTheLocks
<1>10. ASSUME NEW tag \in Tags, server'.lock[tag] # NoSession,
              \/ server'.lock[tag] # server.lock[tag]
              \/ client.session = server'.lock[tag] /\ client.tag = tag
       PROVE  AccountsFor(next, tag, server'.lock[tag])
  BY <1>2, <1>6, <1>9, <1>10 DEF AccountsFor, troubles
<1>11. client.trouble \subseteq next.trouble
  BY <1>6 DEF troubles
<1> QED
  BY <1>2, <1>6, <1>8, <1>10, <1>11, ClientMoves DEF client

\* Type correctness of the clients and the service, the locks and what each client
\* has left to send: what the properties of the uploads rest on.
THEOREM UploadsInvariant == UploadsSpec => []UploadsInv
<1>1. UploadsInit => UploadsInv
  <2> SUFFICES ASSUME UploadsInit PROVE UploadsInv
    OBVIOUS
  <2>1. Idle \in ClientType
    BY IdleIsTyped
  <2>2. /\ up \in [Clients -> ClientType]
        /\ \A c \in Clients : up[c].pc = "new" /\ up[c].session = NoSession
    BY <2>1 DEF UploadsInit, Idle
  <2>3. server \in ServerType
    BY DEF UploadsInit, ServerType, NoSession
  <2>4. ServerInv(server)
    BY DEF UploadsInit, ServerInv, NoSession, Hashes
  <2>5. \A c \in Clients : ClientInv(up[c], server) /\ OwnLock(up[c], server)
    BY <2>2, <2>3 DEF UploadsInit, ClientInv, OwnLock, Requests, Sending, NoSession
  <2>6. LocksAreReturned
    BY DEF UploadsInit, LocksAreReturned, NoSession
  <2> QED
    BY <2>2, <2>3, <2>4, <2>5, <2>6 DEF UploadsInv, UploadsTypeOK
<1>2. UploadsInv /\ [UploadsNext]_uploadVars => UploadsInv'
  <2> SUFFICES ASSUME UploadsInv, [UploadsNext]_uploadVars PROVE UploadsInv'
    OBVIOUS
  <2>1. CASE UNCHANGED uploadVars
    BY <2>1 DEF uploadVars, UploadsInv, UploadsTypeOK, LocksAreReturned
  <2>2. ASSUME NEW c \in Clients, Construct(c) PROVE UploadsInv'
    BY <2>2, ConstructStep
  <2>3. ASSUME NEW c \in Clients, Perform(c) PROVE UploadsInv'
    BY <2>3, PerformStep
  <2>4. ASSUME NEW c \in Clients, Fail(c) PROVE UploadsInv'
    BY <2>4, FailStep
  <2>5. ASSUME NEW c \in Clients, Garble(c) PROVE UploadsInv'
    BY <2>5, GarbleStep
  <2> QED
    BY <2>1, <2>2, <2>3, <2>4, <2>5 DEF UploadsNext
<1> QED
  BY <1>1, <1>2, PTL DEF UploadsSpec

\* However requests are lost, served twice or answered badly, the filter by the first
\* condition safe run leaves no hole, no IOV points at a payload the server misses, and
\* a lock is left only by a client that could not know of it.
THEOREM UploadsStore == UploadsSpec => []UploadsAreStored
<1>1. UploadsInv => UploadsAreStored
  BY DEF UploadsInv, UploadsAreStored, FilterLeavesNoHole, StoredWhole, ClientInv, ServerInv
<1> QED
  BY <1>1, UploadsInvariant, PTL

-----------------------------------------------------------------------------
(* Uploads through the drop box. *)

DropBoxSpec == DropBoxInit /\ [][DropBoxNext]_dropBoxVars

\* sys.exit keeps eight bits of the number of files that failed.
ShortLists == \A files \in Arguments : Len(files) < 256

LEMMA ExitCodes ==
  /\ \A status \in 0 .. 255 : ExitCode(status) = status
  /\ \A status \in {-1, -2, -3, -4, -5} : ExitCode(status) = status + 256
  /\ ExitCode(0) = 0 /\ ExitCode(1) = 1 /\ ExitCode(-1) = 255
  BY DEF ExitCode

\* The first of the files that are refused is refused.
LEMMA CheckedStatus ==
  ASSUME NEW files \in Seq(File),
         {i \in DOMAIN files : CheckStatus(files[i]) # 0} # {}
  PROVE  LET bad == {i \in DOMAIN files : CheckStatus(files[i]) # 0}
         IN  CheckStatus(files[CHOOSE i \in bad : \A k \in bad : i <= k]) \in {-3, -4, -5}
<1> DEFINE bad == {i \in DOMAIN files : CheckStatus(files[i]) # 0}
           first == CHOOSE i \in bad : \A k \in bad : i <= k
<1>1. bad \subseteq Nat /\ bad # {}
  OBVIOUS
<1>2. first \in bad
  <2> HIDE DEF bad
  <2> QED
    BY <1>1, LeastNat
<1> HIDE DEF first
<1>3. CheckStatus(files[first]) # 0 /\ files[first] \in File
  BY <1>2
<1> QED
  BY <1>3 DEF CheckStatus, File, Contents, first

LEMMA RestingIsTyped ==
  ASSUME NEW run \in Nat, NEW p, NEW items
  PROVE  /\ Resting(run) \in ProcessType /\ ProcessInv(p, Resting(run), items)
         /\ Resting(run).pc = "idle" /\ Resting(run).files = <<>> /\ Resting(run).run = run
         /\ Resting(run).status = 0 /\ Resting(run).dropBox.token = NoToken
  BY DEF Resting, Client, ProcessType, ProcessInv, Hosts, NoToken

LEMMA StartedIsTyped ==
  ASSUME NEW run \in Nat, NEW pc \in {"popcon", "check"}
  PROVE  LET next == [Resting(run) EXCEPT !.pc = pc]
         IN  /\ next \in ProcessType /\ next.pc = pc /\ next.files = <<>> /\ next.status = 0
             /\ next.run = run /\ next.dropBox.token = NoToken
<1> DEFINE rested == Resting(run)
<1>1. /\ rested \in ProcessType /\ rested.files = <<>> /\ rested.run = run
      /\ rested.status = 0 /\ rested.dropBox.token = NoToken
  BY RestingIsTyped
<1> HIDE DEF rested
<1>2. /\ [rested EXCEPT !.pc = pc] \in ProcessType /\ [rested EXCEPT !.pc = pc].pc = pc
      /\ [rested EXCEPT !.pc = pc].files = <<>> /\ [rested EXCEPT !.pc = pc].status = 0
      /\ [rested EXCEPT !.pc = pc].run = run
      /\ [rested EXCEPT !.pc = pc].dropBox.token = NoToken
  BY <1>1 DEF ProcessType
<1> QED
  BY <1>2 DEF rested

LEMMA EndedIsTyped ==
  ASSUME NEW q \in ProcessType, NEW status, ExitCode(status) \in Nat
  PROVE  LET next == Ended(q, status)
         IN  /\ next \in ProcessType /\ next.pc = "ended" /\ next.status = ExitCode(status)
             /\ next.files = q.files /\ next.run = q.run /\ next.dropBox = q.dropBox
BY DEF Ended, ProcessType

\* What was taken stays taken.
LEMMA TakenStays ==
  ASSUME NEW p \in Jobs \cup Users, NEW q \in ProcessType, NEW items, NEW more,
         items \subseteq more, ProcessInv(p, q, items)
  PROVE  ProcessInv(p, q, more)
<1>1. \A file : Took(items, p, q.run, file) => Took(more, p, q.run, file)
  BY DEF Took
<1> QED
  BY <1>1 DEF ProcessInv

\* One process takes a step: nothing of the others is lost.
LEMMA ProcessMoves ==
  ASSUME DropBoxInv, NEW p \in Jobs \cup Users, NEW next \in ProcessType,
         proc' = [proc EXCEPT ![p] = next],
         accepted \subseteq accepted', accepted' \subseteq ItemType,
         \A item \in accepted' : Arrived(item),
         ProcessInv(p, next, accepted'),
         p \in Jobs => JobInv(next, disk'[p]),
         disk' \in [Jobs -> [iovs : Contents \ {"unreadable"}, run : Nat]],
         \A j \in Jobs : j # p => disk'[j] = disk[j],
         jobTable' = jobTable,
         runTable' \in [Jobs -> Seq(RecordType)],
         \A j \in Jobs : runTable'[j] # runTable[j] =>
           \A i \in DOMAIN runTable'[j] : Reported(accepted', j, runTable'[j][i])
  PROVE  DropBoxInv'
<1>1. /\ proc \in [Jobs \cup Users -> ProcessType]
      /\ jobTable \in [Jobs -> {"unknown", "enabled", "disabled"}]
      /\ \A d \in Jobs \cup Users : ProcessInv(d, proc[d], accepted)
      /\ \A j \in Jobs : JobInv(proc[j], disk[j])
      /\ \A j \in Jobs : \A i \in DOMAIN runTable[j] : Reported(accepted, j, runTable[j][i])
  BY DEF DropBoxInv, DropBoxTypeOK
<1>2. /\ proc' \in [Jobs \cup Users -> ProcessType] /\ proc'[p] = next
      /\ \A d \in Jobs \cup Users : d # p => proc'[d] = proc[d]
  BY <1>1
<1>3. ASSUME NEW d \in Jobs \cup Users PROVE ProcessInv(d, proc'[d], accepted')
  <2>1. CASE d = p
    BY <1>2, <2>1
  <2>2. CASE d # p
    BY <1>1, <1>2, <2>2, TakenStays
  <2> QED
    BY <2>1, <2>2
<1>4. ASSUME NEW j \in Jobs PROVE JobInv(proc'[j], disk'[j])
  BY <1>1, <1>2
<1>5. ASSUME NEW j \in Jobs, NEW i \in DOMAIN runTable'[j]
      PROVE  Reported(accepted', j, runTable'[j][i])
  <2>1. CASE runTable'[j] # runTable[j]
    BY <2>1
  <2>2. CASE runTable'[j] = runTable[j]
    <3>1. Reported(accepted, j, runTable'[j][i])
      BY <1>1, <2>2
    <3> QED
      BY <3>1 DEF Reported
  <2> QED
    BY <2>1, <2>2
<1>6. DropBoxTypeOK'
  BY <1>1, <1>2 DEF DropBoxTypeOK
<1>7. FilesReachTheirHost'
  BY DEF FilesReachTheirHost
<1> QED
  BY <1>3, <1>4, <1>5, <1>6, <1>7 DEF DropBoxInv

\* A process that becomes idle, and one that leaves the tables and files alone.
LEMMA ProcessRests ==
  ASSUME DropBoxInv, NEW p \in Jobs \cup Users, proc' = [proc EXCEPT ![p] = Resting(@.run)],
         UNCHANGED <<disk, jobTable, accepted>>, runTable' \in [Jobs -> Seq(RecordType)],
         \A j \in Jobs : runTable'[j] # runTable[j] =>
           \A i \in DOMAIN runTable'[j] : Reported(accepted, j, runTable'[j][i])
  PROVE  DropBoxInv'
<1> DEFINE next == Resting(proc[p].run)
<1>1. proc[p].run \in Nat
  BY DEF DropBoxInv, DropBoxTypeOK, ProcessType
<1>2. next \in ProcessType /\ ProcessInv(p, next, accepted) /\ next.pc = "idle"
  BY <1>1, RestingIsTyped
<1>3. proc' = [proc EXCEPT ![p] = next]
  OBVIOUS
<1> HIDE DEF next
<1>4. p \in Jobs => JobInv(next, disk[p])
  BY <1>2 DEF JobInv
<1> QED
  BY <1>2, <1>3, <1>4, ProcessMoves DEF DropBoxInv, DropBoxTypeOK, FilesReachTheirHost

LEMMA ProcessGoesOn ==
  ASSUME DropBoxInv, NEW p \in Jobs \cup Users, NEW next \in ProcessType,
         proc' = [proc EXCEPT ![p] = next], UNCHANGED <<disk, jobTable, runTable, accepted>>,
         ProcessInv(p, next, accepted), p \in Jobs => JobInv(next, disk[p])
  PROVE  DropBoxInv'
BY ProcessMoves DEF DropBoxInv, DropBoxTypeOK, FilesReachTheirHost

LEMMA StartJobStep ==
  ASSUME DropBoxInv, NEW j \in Jobs, StartJob(j)
  PROVE  DropBoxInv'
<1> DEFINE run == proc[j].run + 1
           next == [Resting(run) EXCEPT !.pc = "popcon"]
           record == [run |-> run, status |-> startStatus, ended |-> FALSE, log |-> "absent"]
<1>1. proc' = [proc EXCEPT ![j] = next] /\ UNCHANGED <<disk, jobTable, accepted>>
  BY DEF StartJob
<1>2. run \in Nat
  BY DEF DropBoxInv, DropBoxTypeOK, ProcessType
<1>3. runTable' = runTable \/ runTable' = [runTable EXCEPT ![j] = Append(@, record)]
  BY DEF StartJob
<1>4. record \in RecordType /\ Reported(accepted, j, record)
  BY <1>2 DEF RecordType, Contents, startStatus, Reported
<1> HIDE DEF run, record
<1>5. next \in ProcessType /\ next.pc = "popcon" /\ next.files = <<>> /\ next.status = 0
      /\ next.dropBox.token = NoToken
  BY <1>2, StartedIsTyped
<1> HIDE DEF next
<1>6. ProcessInv(j, next, accepted) /\ JobInv(next, disk[j])
  BY <1>5 DEF ProcessInv, JobInv
<1>7. runTable \in [Jobs -> Seq(RecordType)]
      /\ \A k \in Jobs : \A i \in DOMAIN runTable[k] : Reported(accepted, k, runTable[k][i])
  BY DEF DropBoxInv, DropBoxTypeOK
<1>8. runTable' \in [Jobs -> Seq(RecordType)]
      /\ \A k \in Jobs : \A i \in DOMAIN runTable'[k] : Reported(accepted, k, runTable'[k][i])
  <2>1. CASE runTable' = runTable
    BY <1>7, <2>1
  <2>2. CASE runTable' = [runTable EXCEPT ![j] = Append(@, record)]
    <3> DEFINE longer == Append(runTable[j], record)
    <3>1. longer \in Seq(RecordType)
          /\ \A i \in DOMAIN longer : Reported(accepted, j, longer[i])
      BY <1>4, <1>7
    <3> HIDE DEF longer
    <3>2. runTable' = [runTable EXCEPT ![j] = longer]
      BY <2>2 DEF longer
    <3> QED
      BY <1>7, <3>1, <3>2
  <2> QED
    BY <1>3, <2>1, <2>2
<1> QED
  BY <1>1, <1>5, <1>6, <1>8, ProcessMoves DEF DropBoxInv, DropBoxTypeOK, FilesReachTheirHost

LEMMA EndJobStep ==
  ASSUME DropBoxInv, NEW j \in Jobs, EndJob(j)
  PROVE  DropBoxInv'
<1> DEFINE record == [run |-> proc[j].run, status |-> proc[j].status,
                      ended |-> TRUE, log |-> disk[j].iovs]
<1>1. proc' = [proc EXCEPT ![j] = Resting(@.run)] /\ UNCHANGED <<disk, jobTable, accepted>>
  BY DEF EndJob
<1>2. \/ runTable' = runTable
      \/ runTable' = [runTable EXCEPT ![j] = Append(@, record)]
      \/ \E i \in DOMAIN runTable[j] : runTable' = [runTable EXCEPT ![j][i] = record]
  BY DEF EndJob, RecordOf
<1>3. /\ proc[j] \in ProcessType /\ disk[j] \in [iovs : Contents \ {"unreadable"}, run : Nat]
      /\ ProcessInv(j, proc[j], accepted) /\ JobInv(proc[j], disk[j]) /\ proc[j].pc = "ended"
      /\ runTable \in [Jobs -> Seq(RecordType)]
      /\ \A k \in Jobs : \A i \in DOMAIN runTable[k] : Reported(accepted, k, runTable[k][i])
  BY DEF DropBoxInv, DropBoxTypeOK, EndJob
<1>4. record \in RecordType
  BY <1>3 DEF RecordType, ProcessType
<1>5. Reported(accepted, j, record)
  <2> SUFFICES ASSUME proc[j].status = 0, disk[j].iovs # "none"
               PROVE  \E item \in accepted : item.by = j /\ item.run = proc[j].run
    BY DEF Reported
  <2>1. proc[j].files \in Seq(File) /\ proc[j].files # <<>>
    BY <1>3 DEF JobInv, ProcessType
  <2>2. 1 \in DOMAIN proc[j].files
    BY <2>1
  <2>3. Took(accepted, j, proc[j].run, proc[j].files[1])
    BY <1>3, <2>2 DEF ProcessInv
  <2> QED
    BY <2>3 DEF Took
<1> HIDE DEF record
<1>6. runTable' \in [Jobs -> Seq(RecordType)]
      /\ \A k \in Jobs : \A i \in DOMAIN runTable'[k] : Reported(accepted, k, runTable'[k][i])
  <2>1. CASE runTable' = runTable
    BY <1>3, <2>1
  <2>2. ASSUME NEW longer \in Seq(RecordType), runTable' = [runTable EXCEPT ![j] = longer],
               \A i \in DOMAIN longer : Reported(accepted, j, longer[i])
        PROVE  runTable' \in [Jobs -> Seq(RecordType)]
               /\ \A k \in Jobs : \A i \in DOMAIN runTable'[k] :
                    Reported(accepted, k, runTable'[k][i])
    BY <1>3, <2>2
  <2>3. CASE runTable' = [runTable EXCEPT ![j] = Append(@, record)]
    <3>1. Append(runTable[j], record) \in Seq(RecordType)
          /\ \A i \in DOMAIN Append(runTable[j], record) :
               Reported(accepted, j, Append(runTable[j], record)[i])
      BY <1>3, <1>4, <1>5
    <3> QED
      BY <2>2, <2>3, <3>1
  <2>4. CASE \E i \in DOMAIN runTable[j] : runTable' = [runTable EXCEPT ![j][i] = record]
    <3>1. PICK i \in DOMAIN runTable[j] : runTable' = [runTable EXCEPT ![j][i] = record]
      BY <2>4
    <3> DEFINE merged == [runTable[j] EXCEPT ![i] = record]
    <3>2. merged \in Seq(RecordType) /\ \A k \in DOMAIN merged : Reported(accepted, j, merged[k])
      BY <1>3, <1>4, <1>5
    <3>3. runTable' = [runTable EXCEPT ![j] = merged]
      BY <3>1
    <3> HIDE DEF merged
    <3> QED
      BY <2>2, <3>2, <3>3
  <2> QED
    BY <1>2, <2>1, <2>3, <2>4
<1> QED
  BY <1>1, <1>6, ProcessRests

LEMMA PopconStep ==
  ASSUME DropBoxInv, NEW j \in Jobs, Popcon(j)
  PROVE  DropBoxInv'
<1>1. PICK iovs \in {"absent", "none", "some"}, fails \in BOOLEAN :
        /\ disk' = [disk EXCEPT ![j] = IF iovs = "absent" THEN Absent
                                       ELSE [iovs |-> iovs, run |-> proc[j].run]]
        /\ proc' = [proc EXCEPT ![j] = IF fails THEN Ended(@, 1) ELSE [@ EXCEPT !.pc = "upload"]]
  BY DEF Popcon
<1> DEFINE written == IF iovs = "absent" THEN Absent ELSE [iovs |-> iovs, run |-> proc[j].run]
           next == IF fails THEN Ended(proc[j], 1) ELSE [proc[j] EXCEPT !.pc = "upload"]
<1>2. /\ disk' = [disk EXCEPT ![j] = written] /\ proc' = [proc EXCEPT ![j] = next]
      /\ UNCHANGED <<jobTable, runTable, accepted>>
  BY <1>1 DEF Popcon
<1>3. /\ proc[j] \in ProcessType /\ disk \in [Jobs -> [iovs : Contents \ {"unreadable"}, run : Nat]]
      /\ ProcessInv(j, proc[j], accepted) /\ JobInv(proc[j], disk[j]) /\ proc[j].pc = "popcon"
  BY DEF DropBoxInv, DropBoxTypeOK, Popcon
<1>4. written \in [iovs : Contents \ {"unreadable"}, run : Nat]
      /\ (written.iovs = "absent" \/ written.run = proc[j].run)
  BY <1>3 DEF Absent, Contents, ProcessType
<1> HIDE DEF written
<1>5. /\ disk' \in [Jobs -> [iovs : Contents \ {"unreadable"}, run : Nat]] /\ disk'[j] = written
      /\ \A k \in Jobs : k # j => disk'[k] = disk[k]
  BY <1>2, <1>3, <1>4
<1>6. /\ next \in ProcessType
      /\ \/ next.pc = "ended" /\ next.status = 1
         \/ next.pc = "upload" /\ next.status = 0
      /\ next.files = <<>> /\ next.run = proc[j].run /\ next.dropBox = proc[j].dropBox
  <2>1. CASE fails
    <3>1. next = Ended(proc[j], 1) /\ ExitCode(1) = 1
      BY <2>1, ExitCodes
    <3> HIDE DEF next
    <3>2. /\ next \in ProcessType /\ next.pc = "ended" /\ next.status = 1
          /\ next.files = proc[j].files /\ next.run = proc[j].run /\ next.dropBox = proc[j].dropBox
      BY <1>3, <3>1, EndedIsTyped
    <3>3. proc[j].files = <<>>
      BY <1>3 DEF JobInv
    <3> QED
      BY <3>2, <3>3
  <2>2. CASE ~fails
    <3>1. next = [proc[j] EXCEPT !.pc = "upload"]
      BY <2>2
    <3> HIDE DEF next
    <3> QED
      BY <1>3, <3>1 DEF ProcessType, JobInv, ProcessInv
  <2> QED
    BY <2>1, <2>2
<1> HIDE DEF next
<1>7. ProcessInv(j, next, accepted)
  BY <1>3, <1>6 DEF ProcessInv
<1>8. JobInv(next, disk'[j])
  BY <1>4, <1>5, <1>6 DEF JobInv
<1> QED
  BY <1>2, <1>5, <1>6, <1>7, <1>8, ProcessMoves DEF DropBoxInv, DropBoxTypeOK, FilesReachTheirHost

LEMMA PopconUploadStep ==
  ASSUME DropBoxInv, NEW j \in Jobs, PopconUpload(j)
  PROVE  DropBoxInv'
<1> DEFINE sent == <<[data |-> disk[j], to |-> Destination[j]]>>
           next == CASE disk[j].iovs = "absent" -> Ended(proc[j], -1)
                     [] disk[j].iovs = "none" -> Ended(proc[j], 0)
                     [] disk[j].iovs = "some" -> [proc[j] EXCEPT !.pc = "check", !.files = sent]
<1>1. proc' = [proc EXCEPT ![j] = next] /\ UNCHANGED <<disk, jobTable, runTable, accepted>>
  BY DEF PopconUpload
<1>2. /\ proc[j] \in ProcessType /\ disk[j] \in [iovs : Contents \ {"unreadable"}, run : Nat]
      /\ ProcessInv(j, proc[j], accepted) /\ JobInv(proc[j], disk[j]) /\ proc[j].pc = "upload"
  BY DEF DropBoxInv, DropBoxTypeOK, PopconUpload
<1>3. CASE disk[j].iovs \in {"absent", "none"}
  <2>1. /\ next \in ProcessType /\ next.pc = "ended"
        /\ disk[j].iovs = "absent" => next.status # 0
        /\ next.files = <<>> /\ next.run = proc[j].run /\ next.dropBox = proc[j].dropBox
    <3>1. ExitCode(0) = 0 /\ ExitCode(-1) = 255
      BY ExitCodes
    <3>2. next = Ended(proc[j], 0) \/ next = Ended(proc[j], -1)
      BY <1>3
    <3>3. disk[j].iovs = "absent" => next = Ended(proc[j], -1)
      OBVIOUS
    <3> HIDE DEF next
    <3>4. proc[j].files = <<>>
      BY <1>2 DEF JobInv
    <3> QED
      BY <1>2, <3>1, <3>2, <3>3, <3>4, EndedIsTyped
  <2> HIDE DEF next
  <2>2. ProcessInv(j, next, accepted)
    BY <1>2, <2>1 DEF ProcessInv
  <2>3. JobInv(next, disk[j])
    BY <1>3, <2>1 DEF JobInv
  <2> QED
    BY <1>1, <2>1, <2>2, <2>3, ProcessGoesOn
<1>4. CASE disk[j].iovs = "some"
  <2>1. sent \in Seq(File) /\ Len(sent) = 1 /\ sent # <<>>
        /\ \A i \in DOMAIN sent : sent[i].data = disk[j]
    BY <1>2, ProcessesAssumption DEF File
  <2>2. next = [proc[j] EXCEPT !.pc = "check", !.files = sent]
    BY <1>4
  <2> HIDE DEF sent, next
  <2>3. /\ next \in ProcessType /\ next.pc = "check" /\ next.files = sent /\ next.status = 0
        /\ next.run = proc[j].run /\ next.dropBox = proc[j].dropBox
    BY <1>2, <2>1, <2>2 DEF ProcessType, ProcessInv
  <2>4. ProcessInv(j, next, accepted)
    <3>1. next.dropBox.token # NoToken =>
            next.dropBox.token = next.dropBox.hostname /\ next.dropBox.baseUrl = next.dropBox.hostname
      BY <1>2, <2>3 DEF ProcessInv
    <3>2. Len(sent) < 256
      BY <2>1
    <3> QED
      BY <2>3, <3>1, <3>2 DEF ProcessInv
  <2>5. JobInv(next, disk[j])
    BY <1>2, <1>4, <2>1, <2>3 DEF JobInv
  <2> QED
    BY <1>1, <2>3, <2>4, <2>5, ProcessGoesOn
<1> QED
  BY <1>2, <1>3, <1>4 DEF Contents

\* A user starts with the files of a list, or with one that the drop box has.
LEMMA UserStarts ==
  ASSUME DropBoxInv, NEW u \in Users, NEW files \in Seq(File), Len(files) < 256,
         proc' = [proc EXCEPT ![u] = [Resting(@.run + 1) EXCEPT !.pc = "check", !.files = files]],
         UNCHANGED <<disk, jobTable, runTable, accepted>>
  PROVE  DropBoxInv'
<1> DEFINE run == proc[u].run + 1
           started == [Resting(run) EXCEPT !.pc = "check"]
           next == [started EXCEPT !.files = files]
<1>1. run \in Nat /\ u \notin Jobs
  BY ProcessesAssumption DEF DropBoxInv, DropBoxTypeOK, ProcessType
<1>2. proc' = [proc EXCEPT ![u] = next]
  BY <1>1, RestingIsTyped DEF ProcessType
<1> HIDE DEF run
<1>3. started \in ProcessType /\ started.pc = "check" /\ started.status = 0
      /\ started.dropBox.token = NoToken
  BY <1>1, StartedIsTyped
<1> HIDE DEF started
<1>4. next \in ProcessType /\ next.pc = "check" /\ next.status = 0 /\ next.files = files
      /\ next.dropBox.token = NoToken
  BY <1>3 DEF ProcessType
<1> HIDE DEF next
<1>5. ProcessInv(u, next, accepted)
  BY <1>4 DEF ProcessInv
<1> QED
  BY <1>1, <1>2, <1>4, <1>5, ProcessGoesOn

LEMMA CheckFilesStep ==
  ASSUME DropBoxInv, NEW p \in Jobs \cup Users, CheckFiles(p)
  PROVE  DropBoxInv'
<1> DEFINE files == proc[p].files
           bad == {i \in DOMAIN files : CheckStatus(files[i]) # 0}
           status == CheckStatus(files[CHOOSE i \in bad : \A k \in bad : i <= k])
           next == IF bad = {} THEN [proc[p] EXCEPT !.pc = "next", !.at = 1]
                   ELSE Ended(proc[p], status)
<1>1. proc' = [proc EXCEPT ![p] = next] /\ UNCHANGED <<disk, jobTable, runTable, accepted>>
  BY DEF CheckFiles
<1>2. /\ proc[p] \in ProcessType /\ ProcessInv(p, proc[p], accepted) /\ proc[p].pc = "check"
      /\ p \in Jobs => JobInv(proc[p], disk[p])
  BY DEF DropBoxInv, DropBoxTypeOK, CheckFiles
<1>3. files \in Seq(File)
  BY <1>2 DEF ProcessType
<1>4. CASE bad = {}
  <2>1. next = [proc[p] EXCEPT !.pc = "next", !.at = 1]
    BY <1>4
  <2> HIDE DEF next
  <2>2. /\ next \in ProcessType /\ next.pc = "next" /\ next.at = 1 /\ next.status = 0
        /\ next.files = files /\ next.run = proc[p].run /\ next.dropBox = proc[p].dropBox
    BY <1>2, <2>1 DEF ProcessType, ProcessInv
  <2>3. ProcessInv(p, next, accepted)
    BY <1>2, <1>3, <2>2 DEF ProcessInv
  <2>4. p \in Jobs => JobInv(next, disk[p])
    BY <1>2, <2>2 DEF JobInv
  <2> QED
    BY <1>1, <2>2, <2>3, <2>4, ProcessGoesOn
<1>5. CASE bad # {}
  <2>1. status \in {-3, -4, -5}
    <3> HIDE DEF files
    <3> QED
      BY <1>3, <1>5, CheckedStatus
  <2> HIDE DEF status
  <2>2. ExitCode(status) \in Nat /\ ExitCode(status) # 0
    BY <2>1, ExitCodes
  <2>3. next = [proc[p] EXCEPT !.pc = "ended", !.status = ExitCode(status)]
    BY <1>5 DEF Ended
  <2> HIDE DEF next
  <2>4. /\ next \in ProcessType /\ next.pc = "ended" /\ next.status # 0
        /\ next.files = files /\ next.run = proc[p].run /\ next.dropBox = proc[p].dropBox
    BY <1>2, <2>2, <2>3 DEF ProcessType
  <2>5. ProcessInv(p, next, accepted)
    BY <1>2, <2>4 DEF ProcessInv
  <2>6. p \in Jobs => JobInv(next, disk[p])
    BY <1>2, <2>4 DEF JobInv
  <2> QED
    BY <1>1, <2>4, <2>5, <2>6, ProcessGoesOn
<1> QED
  BY <1>4, <1>5

LEMMA NextFileStep ==
  ASSUME DropBoxInv, NEW p \in Jobs \cup Users, NextFile(p)
  PROVE  DropBoxInv'
<1> DEFINE q == proc[p]
           to == q.files[q.at].to
           host == HostOf(to)
           hosted == setHost(q.dropBox, host)
<1>1. /\ q \in ProcessType /\ ProcessInv(p, q, accepted) /\ q.pc = "next"
      /\ q.at <= Len(q.files) /\ (p \in Jobs => JobInv(q, disk[p]))
      /\ UNCHANGED <<disk, jobTable, runTable, accepted>>
  BY DEF DropBoxInv, DropBoxTypeOK, NextFile
<1>2. /\ q.files \in Seq(File) /\ q.at \in 1 .. Len(q.files) /\ q.status < q.at
      /\ q.status \in Nat /\ to \in Databases /\ Len(q.files) < 256
      /\ q.status = 0 => \A i \in 1 .. q.at - 1 : Took(accepted, p, q.run, q.files[i])
  <2> HIDE DEF q
  <2>1. q.files \in Seq(File) /\ q.at \in 1 .. Len(q.files)
    BY <1>1 DEF ProcessType, ProcessInv
  <2>2. q.files[q.at] \in File
    BY <2>1
  <2> QED
    BY <1>1, <2>1, <2>2 DEF ProcessType, ProcessInv, File
<1>3. /\ host \in Hosts
      /\ hosted \in [hostname : Hosts, token : Hosts \cup {NoToken}, baseUrl : Hosts \cup {NoToken}]
      /\ hosted.hostname = host
      /\ hosted.token # NoToken => hosted.token = host /\ hosted.baseUrl = host
  <2>1. q.dropBox \in [hostname : Hosts, token : Hosts \cup {NoToken}, baseUrl : Hosts \cup {NoToken}]
        /\ (q.dropBox.token # NoToken =>
              q.dropBox.token = q.dropBox.hostname /\ q.dropBox.baseUrl = q.dropBox.hostname)
    BY <1>1 DEF ProcessType, ProcessInv
  <2>2. host \in Hosts
    BY DEF HostOf, Hosts
  <2> HIDE DEF host
  <2> QED
    BY <2>1, <2>2 DEF setHost
<1> DEFINE signed == signIn(hosted, hosted.hostname)
<1>4. CASE to = "other" /\ proc' = [proc EXCEPT ![p] = Counted(@, FALSE)]
  <2> DEFINE next == Counted(q, FALSE)
  <2>1. proc' = [proc EXCEPT ![p] = next]
    BY <1>4
  <2>2. /\ next \in ProcessType /\ next.pc = "next" /\ next.status = q.status + 1
        /\ next.files = q.files /\ next.run = q.run /\ next.at = q.at + 1
        /\ next.dropBox = q.dropBox
    <3>1. q.at + 1 \in Nat /\ q.status + 1 \in Nat
      BY <1>1 DEF ProcessType
    <3> HIDE DEF q
    <3> QED
      BY <1>1, <3>1 DEF Counted, ProcessType
  <2> HIDE DEF next
  <2>3. ProcessInv(p, next, accepted)
    <3> HIDE DEF q
    <3> QED
      BY <1>1, <1>2, <2>2, SMTT(30) DEF ProcessInv
  <2>4. p \in Jobs => JobInv(next, disk[p])
    BY <1>1, <2>2 DEF JobInv
  <2> QED
    BY <1>1, <2>1, <2>2, <2>3, <2>4, ProcessGoesOn
<1>5. CASE to # "other" /\ proc' = [proc EXCEPT ![p].dropBox = signed, ![p].pc = "file"]
  <2> DEFINE next == [q EXCEPT !.dropBox = signed, !.pc = "file"]
  <2>1. proc' = [proc EXCEPT ![p] = next]
    BY <1>1, <1>5 DEF DropBoxInv, DropBoxTypeOK
  <2>2. /\ signed \in [hostname : Hosts, token : Hosts \cup {NoToken}, baseUrl : Hosts \cup {NoToken}]
        /\ signed.hostname = host /\ signed.token = host /\ signed.baseUrl = host
    <3> HIDE DEF host, hosted
    <3> QED
      BY <1>3 DEF signIn
  <2> HIDE DEF signed
  <2>3. /\ next \in ProcessType /\ next.pc = "file" /\ next.status = q.status
        /\ next.files = q.files /\ next.run = q.run /\ next.at = q.at
        /\ next.dropBox = signed
    BY <1>1, <2>2 DEF ProcessType
  <2> HIDE DEF next
  <2>4. host # NoToken
    BY <1>3 DEF Hosts, NoToken
  <2>5. ProcessInv(p, next, accepted)
    <3> HIDE DEF q
    <3> QED
      BY <1>2, <1>5, <2>2, <2>3, <2>4 DEF ProcessInv
  <2>6. p \in Jobs => JobInv(next, disk[p])
    BY <1>1, <2>3 DEF JobInv
  <2> QED
    BY <1>1, <2>1, <2>3, <2>5, <2>6, ProcessGoesOn
<1>6. CASE \E authRet \in {-1, -2} : proc' = [proc EXCEPT ![p] = Ended(@, authRet)]
  <2>1. PICK authRet \in {-1, -2} : proc' = [proc EXCEPT ![p] = Ended(@, authRet)]
    BY <1>6
  <2> DEFINE next == Ended(q, authRet)
  <2>2. ExitCode(authRet) \in Nat /\ ExitCode(authRet) # 0
    BY ExitCodes
  <2>3. proc' = [proc EXCEPT ![p] = next]
    BY <2>1
  <2>4. /\ next \in ProcessType /\ next.pc = "ended" /\ next.status # 0
        /\ next.files = q.files /\ next.run = q.run /\ next.dropBox = q.dropBox
    BY <1>1, <2>2, EndedIsTyped
  <2> HIDE DEF next
  <2>5. ProcessInv(p, next, accepted)
    BY <1>1, <2>4 DEF ProcessInv
  <2>6. p \in Jobs => JobInv(next, disk[p])
    BY <1>1, <2>4 DEF JobInv
  <2> QED
    BY <1>1, <2>3, <2>4, <2>5, <2>6, ProcessGoesOn
<1> QED
  BY <1>4, <1>5, <1>6 DEF NextFile

LEMMA UploadFileStep ==
  ASSUME DropBoxInv, NEW p \in Jobs \cup Users, UploadFile(p)
  PROVE  DropBoxInv'
<1> DEFINE q == proc[p]
           file == q.files[q.at]
           item == [file |-> file, by |-> p, run |-> q.run,
                    host |-> q.dropBox.baseUrl, token |-> q.dropBox.token]
<1>1. /\ q \in ProcessType /\ ProcessInv(p, q, accepted) /\ q.pc = "file"
      /\ (p \in Jobs => JobInv(q, disk[p])) /\ UNCHANGED <<disk, jobTable, runTable>>
      /\ accepted \subseteq ItemType /\ \A it \in accepted : Arrived(it)
  BY DEF DropBoxInv, DropBoxTypeOK, UploadFile, FilesReachTheirHost
<1>2. /\ q.files \in Seq(File) /\ q.at \in 1 .. Len(q.files) /\ q.status < q.at
      /\ q.status \in Nat /\ Len(q.files) < 256 /\ file \in File /\ q.run \in Nat
      /\ q.status = 0 => \A i \in 1 .. q.at - 1 : Took(accepted, p, q.run, q.files[i])
  BY <1>1 DEF ProcessType, ProcessInv
<1>3. item \in ItemType /\ Arrived(item)
  <2>1. /\ q.dropBox.token = q.dropBox.hostname /\ q.dropBox.baseUrl = q.dropBox.hostname
        /\ q.dropBox.hostname = HostOf(file.to) /\ file.to # "other"
        /\ q.dropBox.hostname \in Hosts
    BY <1>1 DEF ProcessType, ProcessInv
  <2>2. p \in Jobs => file.data.run = q.run
    BY <1>1, <1>2 DEF JobInv
  <2> HIDE DEF file, q
  <2> QED
    BY <1>2, <2>1, <2>2 DEF ItemType, Arrived
<1>4. /\ accepted \subseteq accepted' /\ accepted' \subseteq accepted \cup {item}
      /\ \/ proc' = [proc EXCEPT ![p] = Ended(@, 1)]
         \/ proc' = [proc EXCEPT ![p] = Counted(@, FALSE)]
         \/ proc' = [proc EXCEPT ![p] = Counted(@, TRUE)] /\ item \in accepted'
  BY DEF UploadFile
<1>5. item.by = p /\ item.file = file /\ item.run = q.run
  OBVIOUS
<1>6. accepted' \subseteq ItemType /\ \A it \in accepted' : Arrived(it)
  <2> HIDE DEF item
  <2> QED
    BY <1>1, <1>3, <1>4
<1> HIDE DEF item
<1>7. ASSUME NEW next \in ProcessType, proc' = [proc EXCEPT ![p] = next],
             next.files = q.files, next.run = q.run, next.dropBox = q.dropBox,
             \/ next.pc = "ended" /\ next.status = 1
             \/ /\ next.pc = "next" /\ next.at = q.at + 1
                /\ \/ next.status = q.status + 1
                   \/ next.status = q.status /\ item \in accepted'
      PROVE  DropBoxInv'
  <2>1. next.dropBox.token # NoToken =>
          next.dropBox.token = next.dropBox.hostname /\ next.dropBox.baseUrl = next.dropBox.hostname
    BY <1>1, <1>7 DEF ProcessInv
  <2>2. ASSUME next.pc = "next", next.status = 0, NEW i \in 1 .. next.at - 1
        PROVE  Took(accepted', p, next.run, next.files[i])
    <3>1. q.status = 0 /\ item \in accepted' /\ i \in 1 .. q.at
      BY <1>2, <1>7, <2>2
    <3>2. CASE i = q.at
      BY <1>5, <1>7, <3>1, <3>2 DEF Took
    <3>3. CASE i # q.at
      <4>1. Took(accepted, p, q.run, q.files[i])
        BY <1>2, <3>1, <3>3
      <4> QED
        BY <1>4, <1>7, <4>1 DEF Took
    <3> QED
      BY <3>2, <3>3
  <2>3. next.pc = "next" => next.at \in 1 .. Len(next.files) + 1 /\ next.status < next.at
    BY <1>2, <1>7
  <2>4. ProcessInv(p, next, accepted')
    BY <1>2, <1>7, <2>1, <2>2, <2>3 DEF ProcessInv
  <2>5. p \in Jobs => JobInv(next, disk[p])
    BY <1>1, <1>7 DEF JobInv
  <2> QED
    BY <1>1, <1>4, <1>6, <1>7, <2>4, <2>5, ProcessMoves DEF DropBoxInv, DropBoxTypeOK
<1>8. CASE proc' = [proc EXCEPT ![p] = Ended(@, 1)]
  <2> DEFINE next == Ended(q, 1)
  <2>1. proc' = [proc EXCEPT ![p] = next]
    BY <1>8
  <2>2. /\ next \in ProcessType /\ next.pc = "ended" /\ next.status = 1
        /\ next.files = q.files /\ next.run = q.run /\ next.dropBox = q.dropBox
    <3>1. ExitCode(1) = 1
      BY ExitCodes
    <3> HIDE DEF q
    <3> QED
      BY <1>1, <3>1, EndedIsTyped
  <2> HIDE DEF next
  <2> QED
    BY <1>7, <2>1, <2>2
<1>9. ASSUME NEW result \in BOOLEAN, proc' = [proc EXCEPT ![p] = Counted(@, result)],
             result => item \in accepted'
      PROVE  DropBoxInv'
  <2> DEFINE next == Counted(q, result)
  <2>1. proc' = [proc EXCEPT ![p] = next]
    BY <1>9
  <2>2. /\ next \in ProcessType /\ next.pc = "next"
        /\ next.status = (IF result THEN q.status ELSE q.status + 1)
        /\ next.files = q.files /\ next.run = q.run /\ next.at = q.at + 1
        /\ next.dropBox = q.dropBox
    <3>1. q.at + 1 \in Nat /\ q.status + 1 \in Nat
      BY <1>1 DEF ProcessType
    <3> HIDE DEF q
    <3> QED
      BY <1>1, <3>1 DEF Counted, ProcessType
  <2> HIDE DEF next
  <2> QED
    BY <1>7, <1>9, <2>1, <2>2
<1> QED
  BY <1>4, <1>8, <1>9

LEMMA EndUploadStep ==
  ASSUME DropBoxInv, NEW p \in Jobs \cup Users, EndUpload(p)
  PROVE  DropBoxInv'
<1> DEFINE q == proc[p]
           next == Ended(q, q.status)
<1>1. /\ q \in ProcessType /\ ProcessInv(p, q, accepted) /\ q.pc = "next"
      /\ q.at > Len(q.files) /\ (p \in Jobs => JobInv(q, disk[p]))
      /\ proc' = [proc EXCEPT ![p] = next] /\ UNCHANGED <<disk, jobTable, runTable, accepted>>
  BY DEF DropBoxInv, DropBoxTypeOK, EndUpload
<1>2. /\ q.files \in Seq(File) /\ q.at = Len(q.files) + 1 /\ q.status \in 0 .. 255
      /\ q.status = 0 => \A i \in 1 .. Len(q.files) : Took(accepted, p, q.run, q.files[i])
  <2> HIDE DEF q
  <2>1. q.files \in Seq(File) /\ q.at \in Nat /\ q.status \in Nat
    BY <1>1 DEF ProcessType
  <2>2. q.at \in 1 .. Len(q.files) + 1 /\ q.status < q.at /\ Len(q.files) < 256
    BY <1>1 DEF ProcessInv
  <2>3. q.at = Len(q.files) + 1
    BY <1>1, <2>1, <2>2
  <2>4. q.at - 1 = Len(q.files)
    BY <2>1, <2>3
  <2>5. q.status \in 0 .. 255
    <3>1. ASSUME NEW length \in Nat, NEW status \in Nat, length < 256, status < length + 1
          PROVE  status \in 0 .. 255
      BY <3>1
    <3>2. Len(q.files) \in Nat /\ q.status < Len(q.files) + 1
      BY <2>1, <2>2, <2>3
    <3> QED
      BY <2>1, <2>2, <3>1, <3>2
  <2> QED
    BY <1>1, <2>1, <2>3, <2>4, <2>5 DEF ProcessInv
<1>3. ExitCode(q.status) = q.status /\ ExitCode(q.status) \in Nat
  <2> HIDE DEF q
  <2>1. q.status \in 0 .. 255
    BY <1>2
  <2> QED
    BY <2>1, ExitCodes
<1>4. /\ next \in ProcessType /\ next.pc = "ended" /\ next.status = q.status
      /\ next.files = q.files /\ next.run = q.run /\ next.dropBox = q.dropBox
  BY <1>1, <1>3, EndedIsTyped
<1> HIDE DEF next
<1>5. ProcessInv(p, next, accepted)
  <2> HIDE DEF q
  <2> QED
    BY <1>1, <1>2, <1>4 DEF ProcessInv
<1>6. p \in Jobs => JobInv(next, disk[p])
  BY <1>1, <1>4 DEF JobInv
<1> QED
  BY <1>1, <1>4, <1>5, <1>6, ProcessGoesOn

\* The files, hosts and statuses of the processes, and the file of its own run for each
\* job: what the property of the drop box rests on.
THEOREM DropBoxInvariant ==
  ASSUME ShortLists
  PROVE  DropBoxSpec => []DropBoxInv
<1>1. DropBoxInit => DropBoxInv
  <2> SUFFICES ASSUME DropBoxInit PROVE DropBoxInv
    OBVIOUS
  <2>1. /\ Resting(0) \in ProcessType /\ Resting(0).pc = "idle"
        /\ \A p \in Jobs \cup Users : ProcessInv(p, Resting(0), {})
    BY RestingIsTyped
  <2>2. /\ proc \in [Jobs \cup Users -> ProcessType]
        /\ \A p \in Jobs \cup Users : proc[p] = Resting(0)
    BY <2>1 DEF DropBoxInit
  <2>3. \A p \in Jobs \cup Users : ProcessInv(p, proc[p], accepted)
    BY <2>1, <2>2 DEF DropBoxInit
  <2>4. \A j \in Jobs : JobInv(proc[j], disk[j])
    BY <2>1, <2>2 DEF JobInv
  <2>5. \A j \in Jobs : runTable[j] = <<>>
    BY DEF DropBoxInit
  <2>6. disk \in [Jobs -> [iovs : Contents \ {"unreadable"}, run : Nat]]
    BY DEF DropBoxInit, Absent, Contents
  <2>7. DropBoxTypeOK
    BY <2>2, <2>6 DEF DropBoxInit, DropBoxTypeOK
  <2> QED
    BY <2>3, <2>4, <2>5, <2>7 DEF DropBoxInit, DropBoxInv, FilesReachTheirHost
<1>2. DropBoxInv /\ [DropBoxNext]_dropBoxVars => DropBoxInv'
  <2> SUFFICES ASSUME DropBoxInv, [DropBoxNext]_dropBoxVars PROVE DropBoxInv'
    OBVIOUS
  <2>1. CASE UNCHANGED dropBoxVars
    BY <2>1 DEF dropBoxVars, DropBoxInv, DropBoxTypeOK, FilesReachTheirHost
  <2>2. ASSUME NEW j \in Jobs, AddJob(j) \/ SetJob(j) PROVE DropBoxInv'
    <3>1. jobTable' \in [Jobs -> {"unknown", "enabled", "disabled"}]
      BY <2>2 DEF AddJob, SetJob, DropBoxInv, DropBoxTypeOK
    <3>2. UNCHANGED <<proc, disk, runTable, accepted>>
      BY <2>2 DEF AddJob, SetJob
    <3> QED
      BY <3>1, <3>2 DEF DropBoxInv, DropBoxTypeOK, FilesReachTheirHost
  <2>3. ASSUME NEW j \in Jobs, StartJob(j) PROVE DropBoxInv'
    BY <2>3, StartJobStep
  <2>4. ASSUME NEW j \in Jobs, EndJob(j) PROVE DropBoxInv'
    BY <2>4, EndJobStep
  <2>5. ASSUME NEW j \in Jobs, Kill(j) PROVE DropBoxInv'
    BY <2>5, ProcessRests DEF Kill, DropBoxInv, DropBoxTypeOK
  <2>6. ASSUME NEW j \in Jobs, Popcon(j) PROVE DropBoxInv'
    BY <2>6, PopconStep
  <2>7. ASSUME NEW j \in Jobs, PopconUpload(j) PROVE DropBoxInv'
    BY <2>7, PopconUploadStep
  <2>8. ASSUME NEW u \in Users, StartUpload(u) PROVE DropBoxInv'
    <3>1. PICK files \in Arguments :
            proc' = [proc EXCEPT ![u] = [Resting(@.run + 1) EXCEPT !.pc = "check",
                                                                 !.files = files]]
      BY <2>8 DEF StartUpload
    <3>2. files \in Seq(File) /\ Len(files) < 256
      BY ProcessesAssumption DEF ShortLists
    <3> QED
      BY <2>8, <3>1, <3>2, UserStarts DEF StartUpload
  <2>9. ASSUME NEW u \in Users, ReUpload(u) PROVE DropBoxInv'
    <3>1. PICK item \in accepted :
            proc' = [proc EXCEPT ![u] = [Resting(@.run + 1) EXCEPT
                                           !.pc = "check", !.files = <<item.file>>]]
      BY <2>9 DEF ReUpload
    <3>2. item.file \in File
      BY DEF DropBoxInv, DropBoxTypeOK, ItemType
    <3> DEFINE files == <<item.file>>
    <3>3. files \in Seq(File) /\ Len(files) < 256
      BY <3>2
    <3>4. proc' = [proc EXCEPT ![u] = [Resting(@.run + 1) EXCEPT !.pc = "check",
                                                               !.files = files]]
      BY <3>1
    <3> HIDE DEF files
    <3> QED
      BY <2>9, <3>3, <3>4, UserStarts DEF ReUpload
  <2>10. ASSUME NEW u \in Users, Read(u) PROVE DropBoxInv'
    BY <2>10, ProcessRests DEF Read, DropBoxInv, DropBoxTypeOK
  <2>11. ASSUME NEW p \in Jobs \cup Users, CheckFiles(p) PROVE DropBoxInv'
    BY <2>11, CheckFilesStep
  <2>12. ASSUME NEW p \in Jobs \cup Users, NextFile(p) PROVE DropBoxInv'
    BY <2>12, NextFileStep
  <2>13. ASSUME NEW p \in Jobs \cup Users, UploadFile(p) PROVE DropBoxInv'
    BY <2>13, UploadFileStep
  <2>14. ASSUME NEW p \in Jobs \cup Users, EndUpload(p) PROVE DropBoxInv'
    BY <2>14, EndUploadStep
  <2> QED
    BY <2>1, <2>2, <2>3, <2>4, <2>5, <2>6, <2>7, <2>8, <2>9, <2>10, <2>11, <2>12, <2>13, <2>14
       DEF DropBoxNext
<1> QED
  BY <1>1, <1>2, PTL DEF DropBoxSpec

\* Whoever shares the drop boxes and whenever a job is killed: what a drop box takes came
\* to its host with a token of it and is of the run that sent it, and a status of zero
\* means that everything was taken.
THEOREM DropBoxReports ==
  ASSUME ShortLists
  PROVE  DropBoxSpec => []SuccessIsReported
<1>1. DropBoxInv => SuccessIsReported
  BY DEF DropBoxInv, SuccessIsReported, ZeroMeansTaken, ProcessInv
<1> QED
  BY <1>1, DropBoxInvariant, PTL

-----------------------------------------------------------------------------
(* The tests of a global tag. *)

TestsSpec == TestsInit /\ [][TestsNext]_gtVars

LEMMA FirstIsNat ==
  ASSUME NEW positions \in SUBSET Readable
  PROVE  First(positions) \in Nat
<1>1. CASE positions = {}
  BY <1>1 DEF First
<1>2. CASE positions # {}
  <2>1. positions \subseteq Nat
    BY TagsAssumption DEF Readable
  <2>2. \E n \in positions : \A m \in positions : n <= m
    BY <1>2, <2>1, LeastNat
  <2> QED
    BY <1>2, <2>1, <2>2 DEF First
<1> QED
  BY <1>1, <1>2

\* A tag has at most one IOV valid at a time.
LEMMA OneIsValid ==
  ASSUME NEW proxy \in ProxyType, NEW time, NEW one \in Valid(Iovs(proxy), time),
         NEW other \in Valid(Iovs(proxy), time)
  PROVE  one = other
<1>1. Iovs(proxy) \subseteq [since : Nat, hash : PayloadHash]
      /\ \A a, b \in Iovs(proxy) : a.since = b.since => a = b
  BY TagsAssumption DEF Iovs, ProxyType
<1>2. one \in Iovs(proxy) /\ other \in Iovs(proxy)
      /\ one.since <= other.since /\ other.since <= one.since
  BY DEF Valid
<1>3. one.since = other.since
  BY <1>1, <1>2
<1> QED
  BY <1>1, <1>2, <1>3

LEMMA TimesAreNat ==
  ASSUME NEW proxy, NEW iteration \in Nat
  PROVE  TimeOf(proxy, iteration) \in Nat
<1>1. CASE TypeOf(proxy) \in DOMAIN StartTime
  BY <1>1, TagsAssumption, SMTT(30) DEF TimeOf
<1>2. CASE TypeOf(proxy) \notin DOMAIN StartTime
  BY <1>2 DEF TimeOf
<1> QED
  BY <1>1, <1>2

\* A request that is served leaves the IOV of its time, and its payload.
LEMMA GotIsValid ==
  ASSUME NEW proxy \in ProxyType, ProxyInv(proxy), NEW time \in Nat, Serves(proxy, time)
  PROVE  LET got == Got(proxy, time)
         IN  /\ got \in ProxyType /\ got.tag = proxy.tag /\ got.asked = time
             /\ got.served = proxy.served /\ got.read = proxy.read
             /\ got.current \in Valid(Iovs(proxy), time)
             /\ got.current.hash \in StoredHashes => got.buffer = got.current.hash
<1> DEFINE fetched == CHOOSE iov \in Valid(Iovs(proxy), time) : TRUE
           buffer == IF fetched.hash \in StoredHashes THEN fetched.hash ELSE proxy.buffer
<1>1. CASE IsCached(proxy, time)
  <2>1. Got(proxy, time) = [proxy EXCEPT !.asked = time]
    BY <1>1 DEF Got
  <2> QED
    BY <1>1, <2>1 DEF ProxyType, ProxyInv, IsCached
<1>2. CASE ~IsCached(proxy, time)
  <2>1. fetched \in Valid(Iovs(proxy), time)
    BY <1>2 DEF Serves
  <2>2. fetched \in [since : Nat, hash : PayloadHash]
    BY <2>1, TagsAssumption DEF Valid, Iovs, ProxyType
  <2>3. Got(proxy, time) = [proxy EXCEPT !.asked = time, !.current = fetched, !.buffer = buffer]
    BY <1>2 DEF Got, ProxyType
  <2> HIDE DEF fetched
  <2>4. buffer \in PayloadHash /\ (fetched.hash \in StoredHashes => buffer = fetched.hash)
    BY <2>2 DEF ProxyType
  <2> HIDE DEF buffer
  <2> QED
    BY <2>1, <2>2, <2>3, <2>4 DEF ProxyType
<1> QED
  BY <1>1, <1>2

LEMMA ServedAreFinite ==
  ASSUME TestsInv, NEW tag
  PROVE  IsFiniteSet(ServedOf(tag)) /\ Cardinality(ServedOf(tag)) \in Nat
<1>1. DOMAIN Entries = 1 .. Len(Entries) /\ Len(Entries) \in Nat
  BY TagsAssumption
<1>2. IsFiniteSet(DOMAIN Entries)
  BY <1>1, FS_Interval
<1>3. ServedOf(tag) \subseteq DOMAIN Entries
  BY DEF ServedOf, TestsInv, TestsTypeOK, Readable
<1>4. IsFiniteSet(ServedOf(tag))
  BY <1>2, <1>3, FS_Subset
<1> QED
  BY <1>4, FS_CardinalityType

\* A step of a task that neither reads nor writes a count.
LEMMA TaskMoves ==
  ASSUME TestsInv, test.kind = "perf", NEW w \in Readable, NEW next \in ProxyType,
         proxies' = [proxies EXCEPT ![w] = next], UNCHANGED <<test, requests>>,
         next.tag = proxies[w].tag, next.served = proxies[w].served, ProxyInv(next),
         proxies[w].pc # "served", next.pc # "served",
         next.pc = "add" =>
           0 <= next.read /\ next.read <= Cardinality(ServedOf(next.tag))
  PROVE  TestsInv'
<1>1. /\ proxies \in [Readable -> ProxyType]
      /\ \A n \in Readable : proxies[n].tag = Entries[n] /\ ProxyInv(proxies[n])
      /\ \A n \in Readable : proxies[n].served > 0 <=> proxies[n].pc = "served"
      /\ \A tag \in DOMAIN requests :
           /\ requests[tag] <= Cardinality(ServedOf(tag))
           /\ ServedOf(tag) # {} => requests[tag] >= 1
           /\ \A n \in Readable :
                proxies[n].tag = tag /\ proxies[n].pc = "add" =>
                  0 <= proxies[n].read /\ proxies[n].read <= Cardinality(ServedOf(tag))
  BY DEF TestsInv, TestsTypeOK, CountInv
<1>2. /\ proxies' \in [Readable -> ProxyType] /\ proxies'[w] = next
      /\ \A n \in Readable : n # w => proxies'[n] = proxies[n]
  BY <1>1
<1>3. \A tag : ServedOf(tag)' = ServedOf(tag)
  BY <1>1, <1>2 DEF ServedOf
<1>4. \A n \in Readable : proxies'[n].tag = Entries[n] /\ ProxyInv(proxies'[n])
  BY <1>1, <1>2
<1>5. \A n \in Readable : proxies'[n].served > 0 <=> proxies'[n].pc = "served"
  BY <1>1, <1>2
<1>6. ASSUME NEW tag \in DOMAIN requests PROVE CountInv(tag)'
  <2>1. ASSUME NEW n \in Readable, proxies'[n].tag = tag, proxies'[n].pc = "add"
        PROVE  0 <= proxies'[n].read /\ proxies'[n].read <= Cardinality(ServedOf(tag))
    BY <1>1, <1>2, <2>1
  <2> QED
    BY <1>1, <1>2, <1>3, <2>1 DEF CountInv
<1>7. TestsTypeOK'
  BY <1>2 DEF TestsInv, TestsTypeOK
<1> QED
  BY <1>4, <1>5, <1>6, <1>7 DEF TestsInv

LEMMA WorkerSteps ==
  ASSUME TestsInv, test.kind = "perf", NEW w \in Readable,
         \/ StartWorker(w) \/ LockPool(w) \/ CreateSession(w) \/ Reload(w) \/ Get(w)
         \/ ReadCount(w)
  PROVE  TestsInv'
<1> DEFINE q == proxies[w]
<1>1. /\ q \in ProxyType /\ ProxyInv(q) /\ q.tag = Entries[w]
      /\ proxies \in [Readable -> ProxyType] /\ UNCHANGED <<test, requests>>
  BY DEF TestsInv, TestsTypeOK, StartWorker, LockPool, CreateSession, Reload, Get, ReadCount
<1>2. ASSUME NEW pc \in {"session", "creating", "reload", "failed"}, Become(w, pc),
             q.pc # "served"
      PROVE  TestsInv'
  <2> DEFINE next == [q EXCEPT !.pc = pc]
  <2>1. proxies' = [proxies EXCEPT ![w] = next]
    BY <1>1, <1>2 DEF Become
  <2>2. /\ next \in ProxyType /\ next.pc = pc /\ next.tag = q.tag /\ next.served = q.served
        /\ next.current = q.current /\ next.buffer = q.buffer
    BY <1>1 DEF ProxyType
  <2> HIDE DEF next
  <2>3. ProxyInv(next)
    BY <1>1, <2>2 DEF ProxyInv
  <2> QED
    BY <1>1, <1>2, <2>1, <2>2, <2>3, TaskMoves
<1>3. CASE StartWorker(w) \/ LockPool(w) \/ CreateSession(w)
  <2>1. \E pc \in {"session", "creating", "reload", "failed"} : Become(w, pc)
    BY <1>3 DEF StartWorker, LockPool, CreateSession
  <2>2. q.pc # "served"
    BY <1>3 DEF StartWorker, LockPool, CreateSession
  <2> QED
    BY <1>2, <2>1, <2>2
<1>4. CASE Reload(w)
  <2> DEFINE next == [q EXCEPT !.current = NoIov, !.pc = "get"]
  <2>1. proxies' = [proxies EXCEPT ![w] = next] /\ q.pc = "reload"
    BY <1>1, <1>4 DEF Reload
  <2>2. NoIov \in [since : Nat, hash : PayloadHash]
    BY DEF NoIov, PayloadHash
  <2>3. /\ next \in ProxyType /\ next.pc = "get" /\ next.tag = q.tag
        /\ next.served = q.served /\ next.current = NoIov
    BY <1>1, <2>2 DEF ProxyType
  <2> HIDE DEF next
  <2>4. ProxyInv(next)
    BY <2>3 DEF ProxyInv
  <2> QED
    BY <1>1, <2>1, <2>3, <2>4, TaskMoves
<1>5. CASE Get(w)
  <2> DEFINE time == TimeOf(q, 0)
             got == Got(q, time)
             next == IF Serves(q, time) THEN [got EXCEPT !.pc = "count"]
                     ELSE [q EXCEPT !.pc = "failed"]
  <2>1. proxies' = [proxies EXCEPT ![w] = next] /\ q.pc = "get"
    BY <1>5 DEF Get
  <2>2. time \in Nat
    BY TimesAreNat
  <2> HIDE DEF time
  <2>3. CASE Serves(q, time)
    <3>1. /\ got \in ProxyType /\ got.tag = q.tag /\ got.asked = time
          /\ got.served = q.served /\ got.current \in Valid(Iovs(q), time)
          /\ got.current.hash \in StoredHashes => got.buffer = got.current.hash
      BY <1>1, <2>2, <2>3, GotIsValid
    <3> HIDE DEF got
    <3>2. next = [got EXCEPT !.pc = "count"]
      BY <2>3
    <3> HIDE DEF next
    <3>3. /\ next \in ProxyType /\ next.pc = "count" /\ next.tag = q.tag
          /\ next.served = q.served /\ next.asked = time /\ next.current = got.current
          /\ next.buffer = got.buffer
      BY <3>1, <3>2 DEF ProxyType
    <3>4. Iovs(next) = Iovs(q)
      BY <3>3 DEF Iovs
    <3>5. ProxyInv(next)
      BY <3>1, <3>3, <3>4 DEF ProxyInv
    <3> QED
      BY <1>1, <2>1, <3>3, <3>5, TaskMoves
  <2>4. CASE ~Serves(q, time)
    <3>1. Become(w, "failed")
      BY <1>1, <2>1, <2>4 DEF Become
    <3> QED
      BY <1>2, <2>1, <3>1
  <2> QED
    BY <2>3, <2>4
<1>6. CASE ReadCount(w)
  <2> DEFINE next == [q EXCEPT !.read = requests[q.tag], !.pc = "add"]
  <2>1. proxies' = [proxies EXCEPT ![w] = next] /\ q.pc = "count"
    BY <1>1, <1>6 DEF ReadCount
  <2>2. q.tag \in DOMAIN requests /\ requests[q.tag] \in Nat
        /\ requests[q.tag] <= Cardinality(ServedOf(q.tag))
    BY <1>1 DEF TestsInv, TestsTypeOK, CountInv
  <2>3. /\ next \in ProxyType /\ next.pc = "add" /\ next.tag = q.tag
        /\ next.served = q.served /\ next.asked = q.asked /\ next.current = q.current
        /\ next.buffer = q.buffer /\ next.read = requests[q.tag]
    <3> DEFINE count == requests[q.tag]
    <3>1. count \in Int /\ next = [q EXCEPT !.read = count, !.pc = "add"]
      BY <2>2
    <3> HIDE DEF count, next, q
    <3>2. next \in ProxyType /\ next.read = count
      BY <1>1, <3>1 DEF ProxyType
    <3> QED
      BY <1>1, <3>1, <3>2 DEF ProxyType, count
  <2> HIDE DEF next
  <2>4. Iovs(next) = Iovs(q)
    BY <2>3 DEF Iovs
  <2>5. ProxyInv(next)
    BY <1>1, <2>1, <2>3, <2>4 DEF ProxyInv
  <2>6. 0 <= next.read /\ next.read <= Cardinality(ServedOf(next.tag))
    BY <2>2, <2>3
  <2> QED
    BY <1>1, <2>1, <2>3, <2>5, <2>6, TaskMoves
<1> QED
  BY <1>3, <1>4, <1>5, <1>6

\* A count that two tasks read is written by both: one more than was read is still not
\* more than were served, this one included.
LEMMA AddCountStep ==
  ASSUME TestsInv, test.kind = "perf", NEW w \in Readable, AddCount(w)
  PROVE  TestsInv'
<1> DEFINE q == proxies[w]
           count == q.read + 1
           next == [q EXCEPT !.served = q.served + 1, !.pc = "served"]
<1>1. /\ q \in ProxyType /\ ProxyInv(q) /\ q.tag = Entries[w] /\ q.pc = "add"
      /\ proxies \in [Readable -> ProxyType] /\ UNCHANGED test
      /\ \A n \in Readable : proxies[n].tag = Entries[n] /\ ProxyInv(proxies[n])
      /\ \A n \in Readable : proxies[n].served > 0 <=> proxies[n].pc = "served"
      /\ requests \in [{Entries[n] : n \in Readable} -> Nat]
      /\ \A tag \in DOMAIN requests :
           /\ requests[tag] <= Cardinality(ServedOf(tag))
           /\ ServedOf(tag) # {} => requests[tag] >= 1
           /\ \A n \in Readable :
                proxies[n].tag = tag /\ proxies[n].pc = "add" =>
                  0 <= proxies[n].read /\ proxies[n].read <= Cardinality(ServedOf(tag))
  BY DEF TestsInv, TestsTypeOK, CountInv, AddCount
<1>2. proxies' = [proxies EXCEPT ![w] = next] /\ requests' = [requests EXCEPT ![q.tag] = count]
  BY <1>1 DEF AddCount
<1>3. /\ next \in ProxyType /\ next.pc = "served" /\ next.served > 0 /\ next.tag = q.tag
      /\ next.asked = q.asked /\ next.current = q.current /\ next.buffer = q.buffer
  <2> DEFINE served == q.served + 1
  <2>1. q \in ProxyType /\ served \in Nat /\ served > 0
    BY <1>1 DEF ProxyType
  <2>2. next = [q EXCEPT !.served = served, !.pc = "served"]
    OBVIOUS
  <2> HIDE DEF q, served, next
  <2>3. next \in ProxyType
    BY <2>1, <2>2 DEF ProxyType
  <2> QED
    BY <2>1, <2>2, <2>3 DEF ProxyType
<1> HIDE DEF next
<1>4. /\ proxies' \in [Readable -> ProxyType] /\ proxies'[w] = next
      /\ \A n \in Readable : n # w => proxies'[n] = proxies[n]
  BY <1>1, <1>2, <1>3
<1>5. ProxyInv(next)
  <2>1. Iovs(next) = Iovs(q)
    BY <1>3 DEF Iovs
  <2> QED
    BY <1>1, <1>3, <2>1 DEF ProxyInv
<1>6. q.tag \in DOMAIN requests /\ count \in Nat /\ count >= 1
      /\ count <= Cardinality(ServedOf(q.tag)) + 1
  <2>1. q.tag \in DOMAIN requests
    BY <1>1
  <2>2. 0 <= q.read /\ q.read <= Cardinality(ServedOf(q.tag)) /\ q.read \in Int
    BY <1>1, <2>1 DEF ProxyType
  <2>3. Cardinality(ServedOf(q.tag)) \in Nat
    BY ServedAreFinite
  <2> QED
    BY <2>1, <2>2, <2>3
<1> HIDE DEF count
<1>7. \A tag : ServedOf(tag)' = IF tag = q.tag THEN ServedOf(tag) \cup {w} ELSE ServedOf(tag)
  BY <1>1, <1>3, <1>4 DEF ServedOf
<1>8. w \notin ServedOf(q.tag)
  BY <1>1 DEF ServedOf
<1>9. Cardinality(ServedOf(q.tag) \cup {w}) = Cardinality(ServedOf(q.tag)) + 1
  BY <1>8, ServedAreFinite, FS_AddElement
<1>10. ASSUME NEW tag \in DOMAIN requests PROVE CountInv(tag)'
  <2>1. CASE tag # q.tag
    <3>1. requests'[tag] = requests[tag] /\ ServedOf(tag)' = ServedOf(tag)
      BY <1>1, <1>2, <1>7, <2>1
    <3>2. \A n \in Readable : proxies'[n].tag = tag => proxies'[n] = proxies[n]
      BY <1>3, <1>4, <2>1
    <3>3. DOMAIN proxies' = Readable /\ test'.kind = "perf"
      BY <1>1, <1>4
    <3> QED
      BY <1>1, <3>1, <3>2, <3>3 DEF CountInv
  <2>2. CASE tag = q.tag
    <3> DEFINE size == Cardinality(ServedOf(q.tag))
    <3>1. requests'[tag] = count /\ Cardinality(ServedOf(tag)') = size + 1 /\ size \in Nat
      BY <1>1, <1>2, <1>7, <1>9, <2>2, ServedAreFinite
    <3>2. ASSUME NEW n \in Readable, proxies'[n].tag = tag, proxies'[n].pc = "add"
          PROVE  0 <= proxies'[n].read /\ proxies'[n].read <= size /\ proxies'[n].read \in Int
      <4>1. n # w
        BY <1>3, <1>4, <3>2
      <4> QED
        BY <1>1, <1>4, <2>2, <3>2, <4>1, ZenonT(30) DEF ProxyType
    <3>3. DOMAIN proxies' = Readable /\ test'.kind = "perf"
      BY <1>1, <1>4
    <3>4. count <= size + 1
      BY <1>6
    <3> HIDE DEF size
    <3>5. \A n \in Readable : proxies'[n].tag = tag /\ proxies'[n].pc = "add" =>
            0 <= proxies'[n].read /\ proxies'[n].read <= size + 1
      BY <3>1, <3>2
    <3> QED
      BY <1>6, <3>1, <3>3, <3>4, <3>5 DEF CountInv
  <2> QED
    BY <2>1, <2>2
<1>11. requests' \in [{Entries[n] : n \in Readable} -> Nat]
  BY <1>1, <1>2, <1>6
<1>12. \A n \in Readable : proxies'[n].tag = Entries[n] /\ ProxyInv(proxies'[n])
         /\ (proxies'[n].served > 0 <=> proxies'[n].pc = "served")
  BY <1>1, <1>3, <1>4, <1>5
<1>13. TestsTypeOK'
  BY <1>1, <1>4, <1>11 DEF TestsInv, TestsTypeOK
<1>14. DOMAIN requests' = DOMAIN requests
  BY <1>2
<1> QED
  BY <1>1, <1>10, <1>12, <1>13, <1>14 DEF TestsInv

LEMMA RequestStep ==
  ASSUME TestsInv, Request
  PROVE  TestsInv'
<1> DEFINE at == test.at
           q == proxies[at]
           time == TimeOf(q, test.iteration)
<1>1. /\ test.kind = "load" /\ at \in Readable /\ q \in ProxyType /\ ProxyInv(q)
      /\ proxies \in [Readable -> ProxyType] /\ DOMAIN proxies = Readable
      /\ test \in [kind : {"load", "perf"}, at : Nat, iteration : Nat]
      /\ requests \in [{Entries[n] : n \in Readable} -> Nat]
      /\ \A n \in Readable : proxies[n].tag = Entries[n] /\ ProxyInv(proxies[n])
      /\ \A n \in Readable : proxies[n].pc \in {"ready", "served", "failed"}
      /\ \A tag \in DOMAIN requests :
           /\ \A n \in ServedOf(tag) : requests[tag] >= proxies[n].served
           /\ ServedOf(tag) = {} => requests[tag] = 0
  BY DEF TestsInv, TestsTypeOK, CountInv, Request
<1>2. test' \in [kind : {"load", "perf"}, at : Nat, iteration : Nat] /\ test'.kind = "load"
  <2> DEFINE rest == {n \in DOMAIN proxies : n > test.at}
  <2>1. First(rest) \in Nat /\ First(Readable) \in Nat
    BY <1>1, FirstIsNat
  <2>2. test' = IF rest = {} THEN [test EXCEPT !.at = First(Readable), !.iteration = @ + 1]
                ELSE [test EXCEPT !.at = First(rest)]
    BY <1>1 DEF Request
  <2> DEFINE passed == test.iteration + 1
  <2>3. passed \in Nat
    BY <1>1
  <2> HIDE DEF rest
  <2>4. CASE rest = {}
    <3>1. test' = [test EXCEPT !.at = First(Readable), !.iteration = passed]
      BY <2>2, <2>4
    <3> HIDE DEF passed
    <3> QED
      BY <1>1, <2>1, <2>3, <3>1
  <2>5. CASE rest # {}
    <3>1. test' = [test EXCEPT !.at = First(rest)]
      BY <2>2, <2>5
    <3> QED
      BY <1>1, <2>1, <3>1
  <2> QED
    BY <2>4, <2>5
<1>3. time \in Nat
  BY <1>1, TimesAreNat
<1> HIDE DEF time
<1>4. CASE Serves(q, time)
  <2> DEFINE next == Delivered(q, time)
             got == Got(q, time)
  <2>1. proxies' = [proxies EXCEPT ![at] = next]
        /\ requests' = [requests EXCEPT ![q.tag] = @ + 1]
    BY <1>4 DEF Request, time
  <2>2. /\ got \in ProxyType /\ got.tag = q.tag /\ got.asked = time
        /\ got.served = q.served /\ got.current \in Valid(Iovs(q), time)
        /\ got.current.hash \in StoredHashes => got.buffer = got.current.hash
    BY <1>1, <1>3, <1>4, GotIsValid
  <2>3. next = [got EXCEPT !.served = @ + 1, !.pc = "served"]
    BY DEF Delivered
  <2> HIDE DEF got, next
  <2>4. /\ next \in ProxyType /\ next.pc = "served" /\ next.tag = q.tag /\ next.asked = time
        /\ next.served = q.served + 1 /\ next.current = got.current /\ next.buffer = got.buffer
    <3> DEFINE served == got.served + 1
    <3>1. got.served \in Nat /\ served \in Nat
      BY <2>2 DEF ProxyType
    <3>2. next = [got EXCEPT !.served = served, !.pc = "served"]
      BY <2>3
    <3>3. served = q.served + 1
      BY <2>2
    <3> HIDE DEF q, served
    <3>4. next \in ProxyType
      BY <2>2, <3>1, <3>2 DEF ProxyType
    <3> QED
      BY <2>2, <3>1, <3>2, <3>3, <3>4 DEF ProxyType
  <2>5. ProxyInv(next)
    <3>1. Iovs(next) = Iovs(q)
      BY <2>4 DEF Iovs
    <3> QED
      BY <2>2, <2>4, <3>1 DEF ProxyInv
  <2>6. /\ proxies' \in [Readable -> ProxyType] /\ proxies'[at] = next
        /\ \A n \in Readable : n # at => proxies'[n] = proxies[n]
    BY <1>1, <2>1, <2>4
  <2>7. q.served \in Nat /\ q.tag = Entries[at] /\ q.tag \in DOMAIN requests
    BY <1>1 DEF ProxyType
  <2>8. /\ requests' \in [{Entries[n] : n \in Readable} -> Nat]
        /\ requests'[q.tag] = requests[q.tag] + 1 /\ requests[q.tag] \in Nat
        /\ \A tag \in DOMAIN requests : tag # q.tag => requests'[tag] = requests[tag]
    BY <1>1, <2>1, <2>7
  <2>9. \A tag : ServedOf(tag)' = IF tag = q.tag THEN ServedOf(tag) \cup {at} ELSE ServedOf(tag)
    BY <1>1, <2>4, <2>6, <2>7 DEF ServedOf
  <2>10. ASSUME NEW tag \in DOMAIN requests PROVE CountInv(tag)'
    <3>1. CASE tag # q.tag
      <4>1. requests'[tag] = requests[tag] /\ ServedOf(tag)' = ServedOf(tag)
        BY <2>8, <2>9, <3>1
      <4>2. \A n \in ServedOf(tag) : proxies'[n] = proxies[n]
        BY <1>1, <2>6, <3>1 DEF ServedOf
      <4> QED
        BY <1>1, <1>2, <4>1, <4>2 DEF CountInv
    <3>2. CASE tag = q.tag
      <4>1. q.served <= requests[tag]
        <5>1. CASE q.served > 0
          <6>1. at \in ServedOf(tag)
            BY <1>1, <3>2, <5>1 DEF ServedOf
          <6> QED
            BY <1>1, <3>2, <6>1
        <5>2. CASE q.served = 0
          BY <2>8, <3>2, <5>2
        <5> QED
          BY <2>7, <5>1, <5>2
      <4>2. ASSUME NEW n \in ServedOf(tag)' PROVE requests'[tag] >= proxies'[n].served
        <5>1. CASE n = at
          BY <2>4, <2>6, <2>7, <2>8, <3>2, <4>1, <5>1
        <5>2. CASE n # at
          <6>1. n \in ServedOf(tag) /\ n \in Readable /\ proxies'[n] = proxies[n]
                /\ proxies[n].served \in Nat
            BY <1>1, <2>6, <2>9, <3>2, <5>2 DEF ServedOf, ProxyType
          <6>2. requests[tag] >= proxies[n].served
            BY <1>1, <6>1
          <6> QED
            BY <2>8, <3>2, <6>1, <6>2
        <5> QED
          BY <5>1, <5>2
      <4>3. ServedOf(tag)' # {}
        BY <2>9, <3>2
      <4> QED
        BY <1>2, <4>2, <4>3 DEF CountInv
    <3> QED
      BY <3>1, <3>2
  <2>11. \A n \in Readable : /\ proxies'[n].tag = Entries[n] /\ ProxyInv(proxies'[n])
                             /\ proxies'[n].pc \in {"ready", "served", "failed"}
    BY <1>1, <2>4, <2>5, <2>6, <2>7
  <2>12. TestsTypeOK'
    BY <1>2, <2>6, <2>8 DEF TestsTypeOK
  <2>13. DOMAIN requests' = DOMAIN requests
    BY <2>1
  <2> QED
    BY <1>2, <2>10, <2>11, <2>12, <2>13 DEF TestsInv
<1>5. CASE ~Serves(q, time)
  <2> DEFINE next == [q EXCEPT !.pc = "failed"]
  <2>1. proxies' = [proxies EXCEPT ![at] = next] /\ requests' = requests
    BY <1>1, <1>5 DEF Request, time
  <2>2. /\ next \in ProxyType /\ next.pc = "failed" /\ next.tag = q.tag
        /\ next.served = q.served /\ next.current = q.current /\ next.buffer = q.buffer
    BY <1>1 DEF ProxyType
  <2> HIDE DEF next
  <2>3. ProxyInv(next)
    BY <1>1, <2>2 DEF ProxyInv
  <2>4. /\ proxies' \in [Readable -> ProxyType] /\ proxies'[at] = next
        /\ \A n \in Readable : n # at => proxies'[n] = proxies[n]
    BY <1>1, <2>1, <2>2
  <2>5. \A tag : ServedOf(tag)' = ServedOf(tag)
    BY <1>1, <2>2, <2>4 DEF ServedOf
  <2>6. \A n \in Readable : proxies'[n].served = proxies[n].served
    BY <2>2, <2>4
  <2>7. ASSUME NEW tag \in DOMAIN requests PROVE CountInv(tag)'
    <3>1. \A n \in ServedOf(tag) : n \in Readable
      BY <1>1 DEF ServedOf
    <3> QED
      BY <1>1, <1>2, <2>1, <2>5, <2>6, <3>1 DEF CountInv
  <2>8. \A n \in Readable : /\ proxies'[n].tag = Entries[n] /\ ProxyInv(proxies'[n])
                            /\ proxies'[n].pc \in {"ready", "served", "failed"}
    BY <1>1, <2>2, <2>3, <2>4
  <2> QED
    BY <1>1, <1>2, <2>1, <2>4, <2>7, <2>8 DEF TestsInv, TestsTypeOK
<1> QED
  BY <1>4, <1>5

\* What each proxy holds and what the counters can have missed: what the property of the
\* tests rests on.
THEOREM TestsInvariant == TestsSpec => []TestsInv
<1>1. TestsInit => TestsInv
  <2> SUFFICES ASSUME TestsInit PROVE TestsInv
    OBVIOUS
  <2>1. PICK kind \in {"load", "perf"} :
          test = [kind |-> kind, at |-> First(Readable), iteration |-> 0]
    BY DEF TestsInit
  <2>2. First(Readable) \in Nat
    BY FirstIsNat
  <2>3. test \in [kind : {"load", "perf"}, at : Nat, iteration : Nat]
    BY <2>1, <2>2
  <2>4. NoIov \in [since : Nat, hash : PayloadHash] /\ "none" \in PayloadHash
    BY DEF NoIov, PayloadHash
  <2>5. ASSUME NEW n \in Readable
        PROVE  /\ proxies[n] \in ProxyType /\ proxies[n].tag = Entries[n]
               /\ proxies[n].served = 0 /\ proxies[n].pc = "ready" /\ ProxyInv(proxies[n])
    <3> DEFINE q == NewProxy(Entries[n])
    <3>1. proxies[n] = q /\ Entries[n] \in DOMAIN TagInfo
      BY DEF TestsInit, Readable
    <3>2. q \in ProxyType
      BY <2>4, <3>1 DEF NewProxy, ProxyType, NoCount
    <3>3. q.tag = Entries[n] /\ q.served = 0 /\ q.pc = "ready" /\ q.current = NoIov
      BY DEF NewProxy
    <3> HIDE DEF q
    <3> QED
      BY <3>1, <3>2, <3>3 DEF ProxyInv
  <2>6. proxies \in [Readable -> ProxyType] /\ DOMAIN proxies = Readable
    BY <2>5 DEF TestsInit
  <2>7. \A tag : ServedOf(tag) = {}
    BY <2>5, <2>6 DEF ServedOf
  <2>8. requests \in [{Entries[n] : n \in Readable} -> Nat]
        /\ \A tag \in DOMAIN requests : requests[tag] = 0
    BY DEF TestsInit
  <2>9. ASSUME NEW tag \in DOMAIN requests PROVE CountInv(tag)
    <3>1. ServedOf(tag) = {} /\ requests[tag] = 0
      BY <2>7, <2>8
    <3>2. Cardinality(ServedOf(tag)) = 0
      BY <3>1, FS_EmptySet
    <3>3. \A n \in DOMAIN proxies : proxies[n].pc # "add"
      BY <2>5, <2>6
    <3> QED
      BY <3>1, <3>2, <3>3 DEF CountInv
  <2> QED
    BY <2>1, <2>3, <2>5, <2>6, <2>8, <2>9 DEF TestsInv, TestsTypeOK
<1>2. TestsInv /\ [TestsNext]_gtVars => TestsInv'
  <2> SUFFICES ASSUME TestsInv, [TestsNext]_gtVars PROVE TestsInv'
    OBVIOUS
  <2>1. CASE UNCHANGED gtVars
    BY <2>1, ZenonT(30) DEF gtVars, TestsInv, TestsTypeOK, CountInv, ServedOf
  <2>2. CASE Request
    BY <2>2, RequestStep
  <2>3. ASSUME NEW w \in Readable,
               \/ StartWorker(w) \/ LockPool(w) \/ CreateSession(w) \/ Reload(w) \/ Get(w)
               \/ ReadCount(w) \/ AddCount(w)
        PROVE  TestsInv'
    <3>1. test.kind = "perf"
      BY <2>3 DEF TestsInv, TestsTypeOK, StartWorker, LockPool, CreateSession, Reload, Get,
              ReadCount, AddCount
    <3> QED
      BY <2>3, <3>1, WorkerSteps, AddCountStep
  <2>4. ASSUME NEW n \in Readable, StartDeserial(n) \/ Deserialize(n)
        PROVE  TestsInv'
    <3>1. UNCHANGED <<test, proxies, requests>>
      BY <2>4 DEF StartDeserial, Deserialize
    <3> QED
      BY <3>1, ZenonT(30) DEF TestsInv, TestsTypeOK, CountInv, ServedOf
  <2> QED
    BY <2>1, <2>2, <2>3, <2>4 DEF TestsNext, TestsInv, TestsTypeOK
<1> QED
  BY <1>1, <1>2, PTL DEF TestsSpec

\* A step of a task is one of a fetch that has not ended: no object is made yet.
LEMMA FetchIsBefore ==
  ASSUME ObjectsInv, NEW w \in Readable, DOMAIN proxies = Readable,
         proxies[w].pc \notin {"served", "failed"}, PayloadType(proxies[w]) \notin NotFetched
  PROVE  \A n \in Readable : objects[n].state = "waiting"
BY DEF ObjectsInv, FetchesEnded

LEMMA FetchKeepsObjects ==
  ASSUME TestsInv, ObjectsInv, test.kind = "perf", NEW w \in Readable, NEW next,
         proxies' = [proxies EXCEPT ![w] = next], UNCHANGED <<test, objects>>,
         proxies[w].pc \notin {"served", "failed"}, PayloadType(proxies[w]) \notin NotFetched,
         next.tag = proxies[w].tag,
         next.buffer # "none" =>
           next.pc \in {"count", "add", "served"} /\ next.current.hash \in StoredHashes
  PROVE  ObjectsInv'
<1>1. DOMAIN proxies = Readable
  BY DEF TestsInv, TestsTypeOK
<1>2. \A n \in Readable : objects[n].state = "waiting"
  BY <1>1, FetchIsBefore
<1>3. /\ proxies'[w] = next
      /\ \A n \in Readable : n # w => proxies'[n] = proxies[n]
  BY <1>1
<1>4. PayloadType(next) = PayloadType(proxies[w])
  BY DEF PayloadType
<1>5. ASSUME NEW n \in Readable
      PROVE  /\ PayloadType(proxies'[n]) \in NotFetched => proxies'[n].pc = "ready"
             /\ proxies'[n].buffer # "none" =>
                  /\ proxies'[n].pc \in {"count", "add", "served"}
                  /\ proxies'[n].current.hash \in StoredHashes
  <2>1. CASE n = w
    BY <1>3, <1>4, <2>1
  <2>2. CASE n # w
    BY <1>3, <2>2 DEF ObjectsInv
  <2> QED
    BY <2>1, <2>2
<1>6. objects' = objects /\ objects \in
        [Readable -> [state : {"waiting", "running", "done", "error", "thrown"},
                      buffer : PayloadHash]]
  BY DEF ObjectsInv
<1>7. \A n \in Readable : objects'[n].state = "waiting"
  BY <1>2, <1>6
<1> QED
  BY <1>5, <1>6, <1>7 DEF ObjectsInv

LEMMA FetchingKeepsObjects ==
  ASSUME TestsInv, ObjectsInv, test.kind = "perf", NEW w \in Readable,
         \/ StartWorker(w) \/ LockPool(w) \/ CreateSession(w) \/ Reload(w) \/ Get(w)
         \/ ReadCount(w) \/ AddCount(w)
  PROVE  ObjectsInv'
<1> DEFINE q == proxies[w]
<1>1. /\ q \in ProxyType /\ ProxyInv(q) /\ proxies \in [Readable -> ProxyType]
      /\ UNCHANGED <<test, objects>>
  BY DEF TestsInv, TestsTypeOK, StartWorker, LockPool, CreateSession, Reload, Get, ReadCount,
         AddCount
<1>2. /\ PayloadType(q) \in NotFetched => q.pc = "ready"
      /\ q.buffer # "none" =>
           q.pc \in {"count", "add", "served"} /\ q.current.hash \in StoredHashes
  BY DEF ObjectsInv
<1>3. q.pc \notin {"served", "failed"} /\ PayloadType(q) \notin NotFetched
  BY <1>2 DEF StartWorker, LockPool, CreateSession, Reload, Get, ReadCount, AddCount
<1>4. ASSUME NEW pc, Become(w, pc), q.buffer = "none"
      PROVE  ObjectsInv'
  <2> DEFINE next == [q EXCEPT !.pc = pc]
  <2>1. proxies' = [proxies EXCEPT ![w] = next]
    BY <1>1, <1>4 DEF Become
  <2>2. next.tag = q.tag /\ next.buffer = "none"
    BY <1>1, <1>4 DEF ProxyType
  <2> HIDE DEF next
  <2> QED
    BY <1>1, <1>3, <2>1, <2>2, FetchKeepsObjects
<1>5. CASE StartWorker(w) \/ LockPool(w) \/ CreateSession(w)
  <2>1. q.pc \in {"ready", "session", "creating"} /\ \E pc : Become(w, pc)
    BY <1>5 DEF StartWorker, LockPool, CreateSession
  <2>2. q.buffer = "none"
    BY <1>2, <2>1
  <2> QED
    BY <1>4, <2>1, <2>2
<1>6. CASE Reload(w)
  <2> DEFINE next == [q EXCEPT !.current = NoIov, !.pc = "get"]
  <2>1. proxies' = [proxies EXCEPT ![w] = next] /\ q.buffer = "none"
    BY <1>1, <1>2, <1>6 DEF Reload
  <2>2. next.tag = q.tag /\ next.buffer = "none"
    BY <1>1, <2>1 DEF ProxyType
  <2> HIDE DEF next
  <2> QED
    BY <1>1, <1>3, <2>1, <2>2, FetchKeepsObjects
<1>7. CASE Get(w)
  <2> DEFINE time == TimeOf(q, 0)
             got == Got(q, time)
             next == IF Serves(q, time) THEN [got EXCEPT !.pc = "count"]
                     ELSE [q EXCEPT !.pc = "failed"]
  <2>1. proxies' = [proxies EXCEPT ![w] = next] /\ q.buffer = "none"
    BY <1>2, <1>7 DEF Get
  <2>2. time \in Nat
    BY TimesAreNat
  <2>3. CASE Serves(q, time)
    <3>1. got \in ProxyType /\ got.tag = q.tag
      BY <1>1, <2>2, <2>3, GotIsValid
    <3>2. got.buffer # "none" => got.current.hash \in StoredHashes
      <4> DEFINE fetched == CHOOSE iov \in Valid(Iovs(q), time) : TRUE
                 buffer == IF fetched.hash \in StoredHashes THEN fetched.hash ELSE q.buffer
      <4>1. CASE IsCached(q, time)
        <5>1. got = [q EXCEPT !.asked = time]
          BY <4>1 DEF Got
        <5> QED
          BY <1>1, <2>1, <5>1 DEF ProxyType
      <4>2. CASE ~IsCached(q, time)
        <5>1. got = [q EXCEPT !.asked = time, !.current = fetched, !.buffer = buffer]
          BY <1>1, <4>2 DEF Got, ProxyType
        <5>2. buffer # "none" => fetched.hash \in StoredHashes
          BY <2>1
        <5> HIDE DEF fetched, buffer
        <5>3. got.buffer = buffer /\ got.current = fetched
          BY <1>1, <5>1 DEF ProxyType
        <5> QED
          BY <5>2, <5>3
      <4> QED
        BY <4>1, <4>2
    <3> HIDE DEF got
    <3>3. next = [got EXCEPT !.pc = "count"]
      BY <2>3
    <3> HIDE DEF next
    <3>4. /\ next.pc = "count" /\ next.tag = q.tag /\ next.current = got.current
          /\ next.buffer = got.buffer
      BY <3>1, <3>3 DEF ProxyType
    <3> QED
      BY <1>1, <1>3, <2>1, <3>2, <3>4, FetchKeepsObjects
  <2>4. CASE ~Serves(q, time)
    <3>1. Become(w, "failed")
      BY <1>1, <2>1, <2>4 DEF Become
    <3> QED
      BY <1>4, <2>1, <3>1
  <2> QED
    BY <2>3, <2>4
<1>8. ASSUME NEW next, proxies' = [proxies EXCEPT ![w] = next], next.tag = q.tag,
             next.current = q.current, next.buffer = q.buffer,
             next.pc \in {"count", "add", "served"}
      PROVE  ObjectsInv'
  BY <1>1, <1>2, <1>3, <1>8, FetchKeepsObjects
<1>9. CASE ReadCount(w)
  <2> DEFINE count == requests[q.tag]
             next == [q EXCEPT !.read = count, !.pc = "add"]
  <2>1. proxies' = [proxies EXCEPT ![w] = next]
    BY <1>1, <1>9 DEF ReadCount
  <2> HIDE DEF count
  <2>2. /\ next.tag = q.tag /\ next.current = q.current /\ next.buffer = q.buffer
        /\ next.pc = "add"
    BY <1>1 DEF ProxyType
  <2> HIDE DEF next
  <2> QED
    BY <1>8, <2>1, <2>2
<1>10. CASE AddCount(w)
  <2> DEFINE served == q.served + 1
             next == [q EXCEPT !.served = served, !.pc = "served"]
  <2>1. proxies' = [proxies EXCEPT ![w] = next]
    BY <1>1, <1>10 DEF AddCount
  <2> HIDE DEF served
  <2>2. /\ next.tag = q.tag /\ next.current = q.current /\ next.buffer = q.buffer
        /\ next.pc = "served"
    BY <1>1 DEF ProxyType
  <2> HIDE DEF next
  <2> QED
    BY <1>8, <2>1, <2>2
<1> QED
  BY <1>5, <1>6, <1>7, <1>9, <1>10

\* The payloads are still when objects are made of them.
LEMMA MakingKeepsObjects ==
  ASSUME TestsInv, ObjectsInv, NEW n \in Readable, StartDeserial(n) \/ Deserialize(n)
  PROVE  ObjectsInv'
<1> DEFINE type == [state : {"waiting", "running", "done", "error", "thrown"},
                    buffer : PayloadHash]
<1>1. /\ UNCHANGED <<test, proxies>> /\ objects \in [Readable -> type]
      /\ proxies \in [Readable -> ProxyType]
  BY DEF StartDeserial, Deserialize, ObjectsInv, TestsInv, TestsTypeOK
<1>2. FetchesEnded' <=> FetchesEnded
  BY <1>1 DEF FetchesEnded
<1>3. ASSUME NEW object \in type, objects' = [objects EXCEPT ![n] = object],
             object.state # "waiting", test.kind = "perf", FetchesEnded,
             PayloadType(proxies[n]) \notin NotFetched,
             object.state = "done" =>
               /\ object.buffer = proxies[n].buffer /\ proxies[n].buffer # "none"
               /\ HasCase(PayloadType(proxies[n]))
      PROVE  ObjectsInv'
  <2>1. /\ objects' \in [Readable -> type] /\ objects'[n] = object
        /\ \A m \in Readable : m # n => objects'[m] = objects[m]
    BY <1>1, <1>3
  <2>2. ASSUME NEW m \in Readable
        PROVE  /\ objects'[m].state # "waiting" =>
                    /\ test.kind = "perf" /\ FetchesEnded
                    /\ PayloadType(proxies[m]) \notin NotFetched
               /\ objects'[m].state = "done" =>
                    /\ objects'[m].buffer = proxies[m].buffer /\ proxies[m].buffer # "none"
                    /\ HasCase(PayloadType(proxies[m]))
    <3>1. CASE m = n
      BY <1>3, <2>1, <3>1
    <3>2. CASE m # n
      BY <2>1, <3>2 DEF ObjectsInv
    <3> QED
      BY <3>1, <3>2
  <2>3. ASSUME NEW m \in Readable, test.kind = "perf"
        PROVE  /\ PayloadType(proxies[m]) \in NotFetched => proxies[m].pc = "ready"
               /\ proxies[m].buffer # "none" =>
                    /\ proxies[m].pc \in {"count", "add", "served"}
                    /\ proxies[m].current.hash \in StoredHashes
    BY <2>3 DEF ObjectsInv
  <2> QED
    BY <1>1, <1>2, <2>1, <2>2, <2>3 DEF ObjectsInv
<1>4. CASE StartDeserial(n)
  <2> DEFINE object == [state |-> "running", buffer |-> "none"]
  <2>1. objects' = [objects EXCEPT ![n] = object] /\ object \in type
    BY <1>4 DEF StartDeserial, PayloadHash
  <2>2. test.kind = "perf" /\ FetchesEnded /\ PayloadType(proxies[n]) \notin NotFetched
    BY <1>4 DEF StartDeserial, Ignored, NotFetched
  <2>3. object.state = "running"
    OBVIOUS
  <2> HIDE DEF object
  <2> QED
    BY <1>3, <2>1, <2>2, <2>3
<1>5. CASE Deserialize(n)
  <2> DEFINE object == FetchOne(PayloadType(proxies[n]), proxies[n].buffer)
  <2>1. objects' = [objects EXCEPT ![n] = object] /\ objects[n].state = "running"
    BY <1>5 DEF Deserialize
  <2>2. test.kind = "perf" /\ FetchesEnded /\ PayloadType(proxies[n]) \notin NotFetched
    BY <2>1 DEF ObjectsInv
  <2>3. proxies[n].buffer \in PayloadHash /\ "none" \in PayloadHash
    BY <1>1 DEF ProxyType, PayloadHash
  <2>4. /\ object \in type /\ object.state # "waiting"
        /\ object.state = "done" =>
             /\ object.buffer = proxies[n].buffer /\ proxies[n].buffer # "none"
             /\ HasCase(PayloadType(proxies[n]))
    BY <2>3 DEF FetchOne
  <2> HIDE DEF object
  <2> QED
    BY <1>3, <2>1, <2>2, <2>4
<1> QED
  BY <1>4, <1>5

\* Objects are made of what the fetches left, by then for good.
THEOREM ObjectsInvariant == TestsSpec => []ObjectsInv
<1>1. TestsInit => ObjectsInv
  <2> SUFFICES ASSUME TestsInit PROVE ObjectsInv
    OBVIOUS
  <2>1. /\ objects = [n \in Readable |-> Waiting]
        /\ proxies = [n \in Readable |-> NewProxy(Entries[n])]
    BY DEF TestsInit
  <2>2. \A n \in Readable : /\ objects[n].state = "waiting"
                            /\ proxies[n].pc = "ready" /\ proxies[n].buffer = "none"
    BY <2>1 DEF Waiting, NewProxy
  <2>3. Waiting \in [state : {"waiting", "running", "done", "error", "thrown"},
                     buffer : PayloadHash]
    BY DEF Waiting, PayloadHash
  <2>4. objects \in [Readable -> [state : {"waiting", "running", "done", "error", "thrown"},
                                  buffer : PayloadHash]]
    BY <2>1, <2>3
  <2> QED
    BY <2>2, <2>4 DEF ObjectsInv
<1>2. TestsInv /\ ObjectsInv /\ [TestsNext]_gtVars => ObjectsInv'
  <2> SUFFICES ASSUME TestsInv, ObjectsInv, [TestsNext]_gtVars PROVE ObjectsInv'
    OBVIOUS
  <2>1. CASE UNCHANGED gtVars
    BY <2>1, ZenonT(30) DEF gtVars, ObjectsInv, FetchesEnded
  <2>2. CASE Request
    <3>1. test.kind = "load" /\ test'.kind = "load" /\ objects' = objects
      BY <2>2 DEF Request, TestsInv, TestsTypeOK
    <3>2. /\ objects \in [Readable -> [state : {"waiting", "running", "done", "error", "thrown"},
                                       buffer : PayloadHash]]
          /\ \A n \in Readable : objects[n].state = "waiting"
      BY <3>1 DEF ObjectsInv
    <3> QED
      BY <3>1, <3>2 DEF ObjectsInv
  <2>3. ASSUME NEW w \in Readable,
               \/ StartWorker(w) \/ LockPool(w) \/ CreateSession(w) \/ Reload(w) \/ Get(w)
               \/ ReadCount(w) \/ AddCount(w)
        PROVE  ObjectsInv'
    <3>1. test.kind = "perf"
      BY <2>3 DEF TestsInv, TestsTypeOK, StartWorker, LockPool, CreateSession, Reload, Get,
              ReadCount, AddCount
    <3> QED
      BY <2>3, <3>1, FetchingKeepsObjects
  <2> QED
    BY <2>1, <2>2, <2>3, MakingKeepsObjects DEF TestsNext, TestsInv, TestsTypeOK
<1> QED
  BY <1>1, <1>2, TestsInvariant, PTL DEF TestsSpec

\* However many tasks work at a time: a proxy that served a request holds the payload
\* valid at that time, and the requests of a tag are counted, those of two records of
\* one tag at least once; an object that was made is that of the payload valid then.
THEOREM TestsServe == TestsSpec => []RequestsAreServed
<1>1. TestsInv /\ ObjectsInv => RequestsAreServed
  <2> SUFFICES ASSUME TestsInv, ObjectsInv PROVE RequestsAreServed
    OBVIOUS
  <2>1. DOMAIN proxies = Readable /\ proxies \in [Readable -> ProxyType]
        /\ \A n \in Readable : ProxyInv(proxies[n])
    BY DEF TestsInv, TestsTypeOK
  <2>2. ASSUME NEW n \in Readable, proxies[n].pc = "served",
               NEW iov \in Valid(Iovs(proxies[n]), proxies[n].asked)
        PROVE  Holds(proxies[n], iov)
    <3>1. proxies[n].current = iov
      BY <2>1, <2>2, OneIsValid DEF ProxyInv
    <3> QED
      BY <2>1, <2>2, <3>1 DEF ProxyInv, Holds
  <2>3. ASSUME NEW tag \in DOMAIN requests PROVE IsCounted(tag)
    <3>1. CountInv(tag) /\ test.kind \in {"load", "perf"} /\ requests[tag] \in Nat
      BY DEF TestsInv, TestsTypeOK
    <3>2. CASE test.kind = "load"
      BY <3>1, <3>2 DEF CountInv, IsCounted
    <3>3. CASE test.kind = "perf"
      <4>1. /\ requests[tag] <= Cardinality(ServedOf(tag))
            /\ ServedOf(tag) # {} => requests[tag] >= 1
        BY <3>1, <3>3 DEF CountInv
      <4>2. ServedOf(tag) = {} => Cardinality(ServedOf(tag)) = 0
        BY FS_EmptySet
      <4>3. ServedOf(tag) = {} => requests[tag] = 0
        BY <3>1, <4>1, <4>2
      <4> QED
        BY <3>1, <3>3, <4>1, <4>3 DEF IsCounted
    <3> QED
      BY <3>1, <3>2, <3>3
  <2>4. ASSUME NEW n \in Readable, objects[n].state = "done",
               NEW iov \in Valid(Iovs(proxies[n]), proxies[n].asked)
        PROVE  iov.hash \in StoredHashes /\ objects[n].buffer = iov.hash
    <3>1. /\ objects[n].buffer = proxies[n].buffer /\ proxies[n].buffer # "none"
          /\ proxies[n].current.hash \in StoredHashes
          /\ proxies[n].pc \in {"count", "add", "served"}
      BY <2>4 DEF ObjectsInv
    <3>2. /\ proxies[n].current \in Valid(Iovs(proxies[n]), proxies[n].asked)
          /\ proxies[n].buffer = proxies[n].current.hash
      BY <2>1, <3>1 DEF ProxyInv
    <3>3. proxies[n].current = iov
      BY <2>1, <2>4, <3>2, OneIsValid
    <3> QED
      BY <3>1, <3>2, <3>3
  <2>5. ASSUME NEW n \in Readable, objects[n].state = "done"
        PROVE  proxies[n].pc = "served" /\ HasCase(PayloadType(proxies[n]))
    <3>1. /\ FetchesEnded /\ PayloadType(proxies[n]) \notin NotFetched
          /\ proxies[n].buffer # "none" /\ test.kind = "perf"
          /\ HasCase(PayloadType(proxies[n]))
      BY <2>5 DEF ObjectsInv
    <3>2. proxies[n].pc \in {"served", "failed"}
      BY <2>1, <3>1 DEF FetchesEnded
    <3>3. proxies[n].pc \in {"count", "add", "served"}
      BY <3>1 DEF ObjectsInv
    <3> QED
      BY <3>1, <3>2, <3>3
  <2>6. DOMAIN objects = Readable
    BY DEF ObjectsInv
  <2> QED
    BY <2>1, <2>2, <2>3, <2>4, <2>5, <2>6 DEF RequestsAreServed
<1> QED
  BY <1>1, TestsInvariant, ObjectsInvariant, PTL

===============================================================================
