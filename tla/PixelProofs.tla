----------------------------- MODULE PixelProofs ------------------------------
(***************************************************************************)
(* Proofs about the chain of the pixel detectors, for a sensor of any size, *)
(* any thresholds, gains and sizes of clusters, and any hits.               *)
(***************************************************************************)
EXTENDS CTPPSPixelLocal, SequenceTheorems, WellFoundedInduction, TLAPS

-----------------------------------------------------------------------------
(* Numbers.                                                                  *)

LEMMA LeastNat ==
  ASSUME NEW T, T \subseteq Nat, T # {}
  PROVE  \E x \in T : \A y \in T : x <= y
<1> DEFINE R == {ss \in Nat \X Nat : ss[1] < ss[2]}
<1>1. IsWellFoundedOn(R, Nat)
  BY NatLessThanWellFounded, Zenon DEF OpToRel
<1>2. \E x \in T : \A y \in T : ~(<<y, x>> \in R)
  <2> HIDE DEF R
  <2> QED
    BY <1>1, WFMin, Zenon
<1>3. PICK x \in T : \A y \in T : ~(<<y, x>> \in R)
  BY <1>2
<1>4. ASSUME NEW y \in T PROVE x <= y
  <2>1. <<y, x>> \in Nat \X Nat
    OBVIOUS
  <2>2. ~(y < x)
    BY <1>3, <2>1
  <2> QED
    BY <2>2
<1> QED
  BY <1>4

\* Of some of the numbers to n there is a least and a greatest one.
LEMMA LeastIsLeast ==
  ASSUME NEW n \in Nat, NEW T, T \subseteq 0 .. n, T # {}
  PROVE  Least(T) \in T /\ \A y \in T : Least(T) <= y
<1>1. T \subseteq Nat
  OBVIOUS
<1>2. \E x \in T : \A y \in T : x <= y
  BY <1>1, LeastNat
<1> QED
  BY <1>2, Zenon DEF Least

LEMMA GreatestIsGreatest ==
  ASSUME NEW n \in Nat, NEW T, T \subseteq 0 .. n, T # {}
  PROVE  Greatest(T) \in T /\ \A y \in T : Greatest(T) >= y
<1> DEFINE U == {n - y : y \in T}
<1>1. U \subseteq Nat /\ U # {}
  <2>1. \A y \in T : n - y \in Nat
    OBVIOUS
  <2>2. PICK y \in T : TRUE
    OBVIOUS
  <2>3. n - y \in U
    OBVIOUS
  <2> QED
    BY <2>1, <2>3
<1>2. PICK u \in U : \A y \in U : u <= y
  <2> HIDE DEF U
  <2> QED
    BY <1>1, LeastNat
<1>3. PICK x \in T : u = n - x
  OBVIOUS
<1>4. ASSUME NEW y \in T PROVE x >= y
  <2>1. n - y \in U
    OBVIOUS
  <2>2. u <= n - y
    <3> HIDE DEF U
    <3> QED
      BY <1>2, <2>1
  <2> QED
    BY <1>3, <2>2
<1>5. \E z \in T : \A y \in T : z >= y
  BY <1>4
<1> QED
  BY <1>5, Zenon DEF Greatest

\* Products of numbers.
LEMMA ProductIsNat == ASSUME NEW a \in Nat, NEW b \in Nat PROVE a * b \in Nat
OBVIOUS

LEMMA ProductGrows ==
  ASSUME NEW a \in Nat, NEW b \in Nat, NEW g \in Nat, a <= b
  PROVE  a * g <= b * g
<1>1. PICK c \in Nat : b = a + c
  BY b - a \in Nat
<1>2. b * g = a * g + c * g
  BY <1>1
<1>3. c * g \in Nat /\ a * g \in Nat
  BY ProductIsNat
<1> QED
  BY <1>2, <1>3

\* A seed is lit, and a pixel without a digi is neither.
LEMMA SeedsAreLit ==
  /\ \A e \in Nat : IsSeed(e) => IsLit(e)
  /\ ~IsSeed(0)
<1> DEFINE s == SeedADCThreshold * ElectronADCGain
           t == ADCThreshold * ElectronADCGain
<1>1. /\ SeedADCThreshold \in Nat /\ ADCThreshold \in Nat /\ ElectronADCGain \in Nat
      /\ ADCThreshold <= SeedADCThreshold
  BY ParametersAssumption
<1>2. t <= s /\ s \in Nat /\ t \in Nat
  BY <1>1, ProductGrows, ProductIsNat
<1>3. \A e : (IsSeed(e) <=> e > s) /\ (IsLit(e) <=> e > t)
  BY DEF IsSeed, IsLit
<1> HIDE DEF s, t
<1> QED
  BY <1>2, <1>3

-----------------------------------------------------------------------------
(* What the clusterizer has in hand, and what of it the clusters are.        *)

Words   == {e % 65536 : e \in Nat}
Cells   == [pixel : Pixels, adc : Words]
Cluster == Seq(Cells)

\* Numbers for some of the pixels.
IsPartial(f) == DOMAIN f \subseteq Pixels /\ \A p \in DOMAIN f : f[p] \in Nat

\* The lit pixels of a set of digis next to a pixel: Found, for any set.
Around(calib, p) == {q \in DOMAIN calib : Near(p, q) /\ IsLit(calib[q])}

\* No pixel of a cluster is in the set any more, and if it is not full no
\* neighbour of its pixels is.
Apart(c, calib)    == PixelsOf(c) \cap DOMAIN calib = {}
Complete(c, calib) == Full(c) \/ \A p \in PixelsOf(c) : Around(calib, p) = {}

\* What a cluster has in common with an earlier one.
SharesSeed(a, c) ==
  LET shared == PixelsOf(a) \cap PixelsOf(c)
  IN  shared # {} => shared = {c[1].pixel} /\ (Full(a) \/ Len(c) = 1)

SharedOnce(cs) == \A j \in DOMAIN cs : \A i \in 1 .. j - 1 : SharesSeed(cs[i], cs[j])

\* The clusters of a detector that are done.
DoneInv(cs, calib) ==
  \A i \in DOMAIN cs : cs[i] # <<>> /\ Apart(cs[i], calib) /\ Complete(cs[i], calib)

\* The one that grows: the neighbours of its first pixels are taken, and if it
\* began in a cluster that is not full, it has no neighbours.
GrowsInv(cs, c, at, calib) ==
  /\ c # <<>> /\ at \in 1 .. Len(c) + 1 /\ Connected(c) /\ Apart(c, calib)
  /\ \A k \in 1 .. at - 1 : Around(calib, c[k].pixel) = {}
  /\ \A i \in DOMAIN cs :
       /\ SharesSeed(cs[i], c)
       /\ PixelsOf(cs[i]) \cap PixelsOf(c) # {} =>
            Full(cs[i]) \/ Around(calib, c[1].pixel) = {}

LEMMA Erased ==
  ASSUME NEW calib, IsPartial(calib), NEW p
  PROVE  LET less == Without(calib, p)
         IN  /\ IsPartial(less) /\ DOMAIN less = DOMAIN calib \ {p}
             /\ \A q \in DOMAIN less : less[q] = calib[q]
             /\ \A q : Around(less, q) \subseteq Around(calib, q)
<1> DEFINE less == Without(calib, p)
<1>1. less = [q \in DOMAIN calib \ {p} |-> calib[q]]
  BY DEF Without
<1>2. DOMAIN less = DOMAIN calib \ {p} /\ \A q \in DOMAIN less : less[q] = calib[q]
  BY <1>1
<1> HIDE DEF less
<1>3. IsPartial(less)
  BY <1>2 DEF IsPartial
<1>4. \A q : Around(less, q) \subseteq Around(calib, q)
  BY <1>2 DEF Around
<1> QED
  BY <1>2, <1>3, <1>4 DEF less

LEMMA PixelsOfMore ==
  ASSUME NEW c \in Cluster, NEW x \in Cells
  PROVE  LET more == Append(c, x)
         IN  /\ more \in Cluster /\ Len(more) = Len(c) + 1 /\ DOMAIN more = 1 .. Len(c) + 1
             /\ \A k \in 1 .. Len(c) : more[k] = c[k]
             /\ more[Len(c) + 1] = x
             /\ PixelsOf(more) = PixelsOf(c) \cup {x.pixel}
<1> DEFINE more == Append(c, x)
<1>1. /\ more \in Cluster /\ Len(more) = Len(c) + 1 /\ DOMAIN more = 1 .. Len(c) + 1
      /\ \A k \in 1 .. Len(c) : more[k] = c[k]
      /\ more[Len(c) + 1] = x /\ Len(c) \in Nat /\ DOMAIN c = 1 .. Len(c)
  BY DEF Cluster
<1> HIDE DEF more
<1>2. ASSUME NEW p \in PixelsOf(more) PROVE p \in PixelsOf(c) \cup {x.pixel}
  <2>1. PICK k \in 1 .. Len(c) + 1 : p = more[k].pixel
    BY <1>1 DEF PixelsOf
  <2>2. k \in 1 .. Len(c) \/ k = Len(c) + 1
    BY <1>1
  <2> QED
    BY <1>1, <2>1, <2>2 DEF PixelsOf
<1>3. ASSUME NEW p \in PixelsOf(c) PROVE p \in PixelsOf(more)
  <2>1. PICK k \in 1 .. Len(c) : p = c[k].pixel
    BY <1>1 DEF PixelsOf
  <2>2. k \in 1 .. Len(c) + 1 /\ more[k] = c[k]
    BY <1>1, <2>1
  <2> QED
    BY <1>1, <2>1, <2>2 DEF PixelsOf
<1>4. x.pixel \in PixelsOf(more)
  <2>1. Len(c) + 1 \in 1 .. Len(c) + 1
    BY <1>1
  <2> QED
    BY <1>1, <2>1 DEF PixelsOf
<1> QED
  BY <1>1, <1>2, <1>3, <1>4 DEF more

LEMMA FirstPixel ==
  ASSUME NEW c \in Cluster, c # <<>>
  PROVE  Len(c) \in Nat \ {0} /\ 1 \in DOMAIN c /\ c[1] \in Cells /\ c[1].pixel \in PixelsOf(c)
BY DEF Cluster, PixelsOf

\* A seed is not always in the set, but then a done cluster has it.
LEMMA SeedStarts ==
  ASSUME NEW cs \in Seq(Cluster), NEW calib, IsPartial(calib), DoneInv(cs, calib),
         NEW x \in Cells
  PROVE  /\ DoneInv(cs, Without(calib, x.pixel))
         /\ GrowsInv(cs, <<x>>, 1, Without(calib, x.pixel))
<1> DEFINE less == Without(calib, x.pixel)
           c == <<x>>
<1>1. /\ DOMAIN less = DOMAIN calib \ {x.pixel}
      /\ \A q : Around(less, q) \subseteq Around(calib, q)
  BY Erased
<1>2. c \in Cluster /\ Len(c) = 1 /\ DOMAIN c = {1} /\ c[1] = x /\ c # <<>>
  BY DEF Cluster
<1> HIDE DEF less, c
<1>3. DoneInv(cs, less)
  BY <1>1 DEF DoneInv, Apart, Complete
<1>4. PixelsOf(c) = {x.pixel}
  BY <1>2 DEF PixelsOf
<1>5. Apart(c, less)
  BY <1>1, <1>4 DEF Apart
<1>6. Connected(c)
  BY <1>2 DEF Connected
<1>7. ASSUME NEW i \in DOMAIN cs
      PROVE  /\ SharesSeed(cs[i], c)
             /\ PixelsOf(cs[i]) \cap PixelsOf(c) # {} =>
                  Full(cs[i]) \/ Around(less, c[1].pixel) = {}
  <2>1. SharesSeed(cs[i], c)
    BY <1>2, <1>4 DEF SharesSeed
  <2>2. PixelsOf(cs[i]) \cap PixelsOf(c) # {} => x.pixel \in PixelsOf(cs[i])
    BY <1>4
  <2>3. Full(cs[i]) \/ \A p \in PixelsOf(cs[i]) : Around(less, p) = {}
    BY <1>3 DEF DoneInv, Complete
  <2> QED
    BY <1>2, <2>1, <2>2, <2>3
<1>8. 1 \in 1 .. Len(c) + 1 /\ \A k \in 1 .. 1 - 1 : FALSE
  BY <1>2
<1>9. GrowsInv(cs, c, 1, less)
  BY <1>2, <1>5, <1>6, <1>7, <1>8 DEF GrowsInv
<1> QED
  BY <1>3, <1>9 DEF less, c

\* A pixel of the set that is next to the one at hand belongs to no other.
LEMMA PixelJoins ==
  ASSUME NEW cs \in Seq(Cluster), NEW c \in Cluster, NEW at \in Nat, NEW calib, IsPartial(calib),
         DoneInv(cs, calib), GrowsInv(cs, c, at, calib), at <= Len(c),
         NEW x \in Cells, x.pixel \in Around(calib, c[at].pixel)
  PROVE  /\ DoneInv(cs, Without(calib, x.pixel))
         /\ GrowsInv(cs, Append(c, x), at, Without(calib, x.pixel))
<1> DEFINE less == Without(calib, x.pixel)
           more == Append(c, x)
<1>1. /\ DOMAIN less = DOMAIN calib \ {x.pixel}
      /\ \A q : Around(less, q) \subseteq Around(calib, q)
  BY Erased
<1>2. /\ more \in Cluster /\ Len(more) = Len(c) + 1 /\ DOMAIN more = 1 .. Len(c) + 1
      /\ \A k \in 1 .. Len(c) : more[k] = c[k]
      /\ more[Len(c) + 1] = x
      /\ PixelsOf(more) = PixelsOf(c) \cup {x.pixel}
  BY PixelsOfMore
<1>3. Len(c) \in Nat /\ DOMAIN c = 1 .. Len(c) /\ at \in 1 .. Len(c) /\ Len(c) >= 1 /\ 1 \in 1 .. Len(c)
  BY DEF Cluster, GrowsInv
<1>4. x.pixel \in DOMAIN calib /\ Near(c[at].pixel, x.pixel)
  BY DEF Around
<1> HIDE DEF less, more
<1>5. DoneInv(cs, less)
  BY <1>1 DEF DoneInv, Apart, Complete
<1>6. x.pixel \notin PixelsOf(c) /\ \A i \in DOMAIN cs : x.pixel \notin PixelsOf(cs[i])
  BY <1>4 DEF GrowsInv, DoneInv, Apart
<1>7. Apart(more, less)
  BY <1>1, <1>2 DEF GrowsInv, Apart
<1>8. Connected(more)
  <2>1. Connected(c)
    BY DEF GrowsInv
  <2>2. ASSUME NEW i \in 2 .. Len(more) PROVE \E j \in 1 .. i - 1 : Near(more[j].pixel, more[i].pixel)
    <3>1. CASE i = Len(c) + 1
      <4>1. at \in 1 .. i - 1 /\ more[at] = c[at] /\ more[i] = x
        BY <1>2, <1>3, <3>1
      <4> QED
        BY <1>4, <4>1
    <3>2. CASE i # Len(c) + 1
      <4>1. i \in 2 .. Len(c) /\ i \in 1 .. Len(c)
        BY <1>2, <1>3, <3>2
      <4>2. PICK j \in 1 .. i - 1 : Near(c[j].pixel, c[i].pixel)
        BY <2>1, <4>1 DEF Connected
      <4>3. j \in 1 .. Len(c)
        BY <1>3, <4>1
      <4> QED
        BY <1>2, <4>1, <4>2, <4>3
    <3> QED
      BY <3>1, <3>2
  <2>3. ASSUME NEW i \in DOMAIN more, NEW j \in DOMAIN more, i # j PROVE more[i].pixel # more[j].pixel
    <3>1. \A k \in 1 .. Len(c) : more[k] = c[k] /\ c[k].pixel # x.pixel
      BY <1>2, <1>3, <1>6 DEF PixelsOf
    <3>2. \A k \in DOMAIN more : k \in 1 .. Len(c) \/ k = Len(c) + 1
      BY <1>2, <1>3
    <3>3. CASE i \in 1 .. Len(c) /\ j \in 1 .. Len(c)
      BY <1>3, <2>1, <2>3, <3>1, <3>3 DEF Connected
    <3>4. CASE i = Len(c) + 1 \/ j = Len(c) + 1
      BY <1>2, <2>3, <3>1, <3>2, <3>4
    <3> QED
      BY <3>2, <3>3, <3>4
  <2> QED
    BY <2>2, <2>3 DEF Connected
<1>9. ASSUME NEW k \in 1 .. at - 1 PROVE Around(less, more[k].pixel) = {}
  <2>1. k \in 1 .. Len(c) /\ more[k] = c[k]
    BY <1>2, <1>3
  <2>2. Around(calib, c[k].pixel) = {}
    BY DEF GrowsInv
  <2> QED
    BY <1>1, <2>1, <2>2
<1>10. ASSUME NEW i \in DOMAIN cs
       PROVE  /\ SharesSeed(cs[i], more)
              /\ PixelsOf(cs[i]) \cap PixelsOf(more) # {} =>
                   Full(cs[i]) \/ Around(less, more[1].pixel) = {}
  <2>1. PixelsOf(cs[i]) \cap PixelsOf(more) = PixelsOf(cs[i]) \cap PixelsOf(c)
    BY <1>2, <1>6
  <2>2. more[1] = c[1]
    BY <1>2, <1>3
  <2>3. SharesSeed(cs[i], c)
        /\ (PixelsOf(cs[i]) \cap PixelsOf(c) # {} => Full(cs[i]) \/ Around(calib, c[1].pixel) = {})
    BY DEF GrowsInv
  <2>4. ASSUME PixelsOf(cs[i]) \cap PixelsOf(c) # {}, ~Full(cs[i]) PROVE FALSE
    <3>1. Len(c) = 1
      BY <2>3, <2>4 DEF SharesSeed
    <3>2. at = 1
      BY <1>3, <3>1
    <3> QED
      BY <2>3, <2>4, <3>2
  <2>5. PixelsOf(cs[i]) \cap PixelsOf(c) # {} => PixelsOf(cs[i]) \cap PixelsOf(c) = {c[1].pixel}
    BY <2>3 DEF SharesSeed
  <2> QED
    BY <2>1, <2>2, <2>4, <2>5 DEF SharesSeed
<1>11. more # <<>> /\ at \in 1 .. Len(more) + 1
  BY <1>2, <1>3
<1>12. GrowsInv(cs, more, at, less)
  BY <1>7, <1>8, <1>9, <1>10, <1>11 DEF GrowsInv
<1> QED
  BY <1>5, <1>12 DEF less, more

LEMMA NextIsLookedAt ==
  ASSUME NEW cs, NEW c \in Cluster, NEW at \in Nat, NEW calib,
         GrowsInv(cs, c, at, calib), at <= Len(c), Around(calib, c[at].pixel) = {}
  PROVE  GrowsInv(cs, c, at + 1, calib)
<1>1. Len(c) \in Nat /\ at \in 1 .. Len(c)
  BY DEF Cluster, GrowsInv
<1>2. at + 1 \in 1 .. Len(c) + 1
  BY <1>1
<1>3. ASSUME NEW k \in 1 .. (at + 1) - 1 PROVE Around(calib, c[k].pixel) = {}
  <2>1. k = at \/ k \in 1 .. at - 1
    BY <1>1
  <2> QED
    BY <2>1 DEF GrowsInv
<1> QED
  BY <1>2, <1>3 DEF GrowsInv

\* A cluster is done when no pixel has neighbours left or it is full.
LEMMA ClusterIsDone ==
  ASSUME NEW cs \in Seq(Cluster), NEW c \in Cluster, NEW at \in Nat, NEW calib,
         DoneInv(cs, calib), GrowsInv(cs, c, at, calib), SharedOnce(cs), at > Len(c) \/ Full(c)
  PROVE  DoneInv(Append(cs, c), calib) /\ SharedOnce(Append(cs, c))
<1> DEFINE more == Append(cs, c)
           L == Len(cs)
<1>1. /\ more \in Seq(Cluster) /\ DOMAIN more = 1 .. L + 1 /\ L \in Nat /\ DOMAIN cs = 1 .. L
      /\ more[L + 1] = c /\ \A i \in 1 .. L : more[i] = cs[i]
  OBVIOUS
<1>2. Complete(c, calib)
  <2>1. ASSUME at > Len(c), NEW p \in PixelsOf(c) PROVE Around(calib, p) = {}
    <3>1. PICK k \in DOMAIN c : p = c[k].pixel
      BY <2>1 DEF PixelsOf
    <3>2. k \in 1 .. at - 1
      BY <2>1, <3>1 DEF Cluster
    <3> QED
      BY <3>1, <3>2 DEF GrowsInv
  <2> QED
    BY <2>1 DEF Complete
<1>3. c # <<>> /\ Apart(c, calib) /\ \A i \in DOMAIN cs : SharesSeed(cs[i], c)
  BY DEF GrowsInv
<1> HIDE DEF more, L
<1>4. DoneInv(more, calib)
  <2> SUFFICES ASSUME NEW i \in DOMAIN more
               PROVE  more[i] # <<>> /\ Apart(more[i], calib) /\ Complete(more[i], calib)
    BY DEF DoneInv
  <2>1. i \in 1 .. L \/ i = L + 1
    BY <1>1
  <2> QED
    BY <1>1, <1>2, <1>3, <2>1 DEF DoneInv
<1>5. SharedOnce(more)
  <2> SUFFICES ASSUME NEW j \in DOMAIN more, NEW i \in 1 .. j - 1 PROVE SharesSeed(more[i], more[j])
    BY DEF SharedOnce
  <2>1. (j \in 1 .. L \/ j = L + 1) /\ i \in 1 .. L
    BY <1>1
  <2> QED
    BY <1>1, <1>3, <2>1 DEF SharedOnce
<1> QED
  BY <1>4, <1>5 DEF more

-----------------------------------------------------------------------------
(* Readout chips, and what a hit says of its cluster.                        *)

LEMMA Quotients ==
  ASSUME NEW b \in Nat \ {0}, NEW a \in Nat
  PROVE  /\ a < b => a \div b = 0
         /\ b <= a /\ a < 2 * b => a \div b = 1
         /\ 2 * b <= a /\ a < 3 * b => a \div b = 2
<1> DEFINE q == a \div b
           r == a % b
<1>1. q \in Nat /\ r \in Nat /\ r < b
  OBVIOUS
<1>2. a = b * q + r
  OBVIOUS
<1>3. \A k \in Nat : q = k \/ q <= k - 1 \/ q >= k + 1
  BY <1>1
<1>4. ASSUME NEW k \in Nat, k * b <= a, a < (k + 1) * b PROVE q = k
  <2>1. CASE q <= k - 1
    <3>1. q + 1 <= k /\ q + 1 \in Nat
      BY <1>1, <2>1
    <3> HIDE DEF q, r
    <3>2. (q + 1) * b <= k * b
      BY <3>1, ProductGrows
    <3>3. (q + 1) * b = b * q + b
      BY <1>1
    <3>4. k * b \in Nat /\ b * q \in Nat
      BY <1>1, ProductIsNat
    <3> QED
      BY <1>1, <1>2, <1>4, <3>2, <3>3, <3>4
  <2>2. CASE q >= k + 1
    <3>1. k + 1 <= q /\ k + 1 \in Nat
      BY <2>2
    <3> HIDE DEF q, r
    <3>2. (k + 1) * b <= q * b
      BY <1>1, <3>1, ProductGrows
    <3>3. q * b = b * q
      BY <1>1
    <3>4. (k + 1) * b \in Nat /\ b * q \in Nat
      BY <1>1, <3>1, ProductIsNat
    <3> QED
      BY <1>1, <1>2, <1>4, <3>2, <3>3, <3>4
  <2> QED
    BY <1>3, <2>1, <2>2
<1> HIDE DEF q, r
<1>5. a < b => q = 0
  <2>1. 0 * b = 0 /\ (0 + 1) * b = b
    OBVIOUS
  <2> QED
    BY <1>4, <2>1
<1>6. b <= a /\ a < 2 * b => q = 1
  <2>1. 1 * b = b /\ (1 + 1) * b = 2 * b
    OBVIOUS
  <2> QED
    BY <1>4, <2>1
<1>7. 2 * b <= a /\ a < 3 * b => q = 2
  <2>1. (2 + 1) * b = 3 * b
    OBVIOUS
  <2> QED
    BY <1>4, <2>1
<1> QED
  BY <1>5, <1>6, <1>7 DEF q

\* A pixel is in the ROC that its number names.
LEMMA RocOfPixel ==
  ASSUME NEW p \in Pixels
  PROVE  GetROCId(p) \in ROCs /\ \A k \in ROCs : p \in InROC(k) <=> GetROCId(p) = k
<1> DEFINE X == ROCSizeInX
           Y == ROCSizeInY
           x == p.row \div X
           y == p.col \div Y
<1>1. X \in Nat \ {0} /\ Y \in Nat \ {0}
  BY ROCSizeAssumption
<1>2. /\ p.row \in Nat /\ p.col \in Nat /\ p.row < 2 * X /\ p.col < 3 * Y
      /\ p = [row |-> p.row, col |-> p.col]
  BY <1>1 DEF Pixels, RowsInDet, ColsInDet
<1>3. (p.row < X /\ x = 0) \/ (X <= p.row /\ x = 1)
  BY <1>1, <1>2, Quotients
<1>4. (p.col < Y /\ y = 0) \/ (Y <= p.col /\ p.col < 2 * Y /\ y = 1) \/ (2 * Y <= p.col /\ y = 2)
  BY <1>1, <1>2, Quotients
<1>5. GetROCId(p) = IF x = 0 THEN 5 - y ELSE y
  BY DEF GetROCId, RocIndex
<1> HIDE DEF x, y
<1>6. GetROCId(p) \in ROCs
  BY <1>3, <1>4, <1>5 DEF ROCs
<1>7. ASSUME NEW k \in ROCs, p \in InROC(k) PROVE GetROCId(p) = k
  <2>1. PICK q \in ROCPixels : p = TransformToModule(q, k)
    BY <1>7 DEF InROC
  <2>2. q.row \in 0 .. X - 1 /\ q.col \in 0 .. Y - 1
    BY DEF ROCPixels
  <2>3. k < 3 => p.row = 2 * X - 1 - q.row /\ p.col = (k + 1) * Y - q.col - 1
    BY <2>1 DEF TransformToModule
  <2>4. ~(k < 3) => p.row = q.row /\ p.col = (5 - k) * Y + q.col
    BY <2>1 DEF TransformToModule
  <2>5. k \in {0, 1, 2, 3, 4, 5}
    BY DEF ROCs
  <2> HIDE DEF X, Y
  <2>6. CASE k < 3
    <3>1. x = 1
      BY <1>1, <1>3, <2>2, <2>3, <2>6
    <3>2. y = k
      BY <1>1, <1>4, <2>2, <2>3, <2>5, <2>6
    <3> QED
      BY <1>5, <3>1, <3>2
  <2>7. CASE ~(k < 3)
    <3>1. x = 0
      BY <1>1, <1>3, <2>2, <2>4, <2>7
    <3>2. y = 5 - k
      BY <1>1, <1>4, <2>2, <2>4, <2>5, <2>7
    <3> QED
      BY <1>5, <2>5, <3>1, <3>2
  <2> QED
    BY <2>6, <2>7
<1>8. p \in InROC(GetROCId(p))
  <2> DEFINE k == GetROCId(p)
             q == IF k < 3 THEN [row |-> 2 * X - 1 - p.row, col |-> (k + 1) * Y - p.col - 1]
                  ELSE [row |-> p.row, col |-> p.col - (5 - k) * Y]
  <2>1. /\ k < 3 => x = 1 /\ y = k
        /\ ~(k < 3) => x = 0 /\ y = 5 - k
        /\ k \in {0, 1, 2, 3, 4, 5}
    BY <1>3, <1>4, <1>5
  <2> HIDE DEF k
  <2>2. q \in ROCPixels
    <3>1. CASE k < 3
      <4>1. 2 * X - 1 - p.row \in 0 .. X - 1
        BY <1>1, <1>2, <1>3, <2>1, <3>1
      <4>2. (k + 1) * Y - p.col - 1 \in 0 .. Y - 1
        BY <1>1, <1>2, <1>4, <2>1, <3>1
      <4> QED
        BY <3>1, <4>1, <4>2 DEF ROCPixels
    <3>2. CASE ~(k < 3)
      <4>1. p.row \in 0 .. X - 1
        BY <1>1, <1>2, <1>3, <2>1, <3>2
      <4>2. p.col - (5 - k) * Y \in 0 .. Y - 1
        BY <1>1, <1>2, <1>4, <2>1, <3>2
      <4> QED
        BY <3>2, <4>1, <4>2 DEF ROCPixels
    <3> QED
      BY <3>1, <3>2
  <2>3. TransformToModule(q, k) = [row |-> p.row, col |-> p.col]
    <3>1. CASE k < 3
      <4>1. q.row = 2 * X - 1 - p.row /\ q.col = (k + 1) * Y - p.col - 1
        BY <3>1
      <4>2. 2 * X - 1 - (2 * X - 1 - p.row) = p.row
        BY <1>1, <1>2
      <4>3. (k + 1) * Y - ((k + 1) * Y - p.col - 1) - 1 = p.col
        <5>1. (k + 1) * Y \in Int
          BY <1>1, <2>1
        <5> DEFINE z == (k + 1) * Y
        <5> HIDE DEF z
        <5>2. z - (z - p.col - 1) - 1 = p.col
          BY <1>2, <5>1 DEF z
        <5> QED
          BY <5>2 DEF z
      <4> HIDE DEF q
      <4> QED
        BY <3>1, <4>1, <4>2, <4>3 DEF TransformToModule
    <3>2. CASE ~(k < 3)
      <4>1. q.row = p.row /\ q.col = p.col - (5 - k) * Y
        BY <3>2
      <4>2. (5 - k) * Y + (p.col - (5 - k) * Y) = p.col
        <5>1. (5 - k) * Y \in Int
          BY <1>1, <2>1
        <5> QED
          BY <1>2, <5>1
      <4> HIDE DEF q
      <4> QED
        BY <3>2, <4>1, <4>2 DEF TransformToModule
    <3> QED
      BY <3>1, <3>2
  <2> HIDE DEF q
  <2> QED
    BY <1>2, <2>2, <2>3 DEF InROC, k
<1> QED
  BY <1>6, <1>7, <1>8

\* The offsets of numbers below n tell the first and last of them, and each.
SpanTells(n, T) ==
  /\ (Least(T) = 0 \/ Least(T) + Held(Greatest(T) - Least(T)) = n - 1)
       <=> (\E x \in T : x \in {0, n - 1})
  /\ \A x \in T : Least(T) + Held(x - Least(T)) = x

LEMMA SpanIsHeld ==
  ASSUME NEW n \in Nat \ {0}, NEW T, T \subseteq 0 .. n - 1, T # {},
         \A x, y \in T : x - y <= MAXSPAN
  PROVE  SpanTells(n, T)
<1> DEFINE a == Least(T)
           b == Greatest(T)
<1>1. n - 1 \in Nat
  OBVIOUS
<1>2. a \in T /\ b \in T /\ \A x \in T : a <= x /\ x <= b
  BY <1>1, LeastIsLeast, GreatestIsGreatest
<1>3. MAXSPAN \in Nat
  BY ParametersAssumption
<1> HIDE DEF a, b
<1>4. ASSUME NEW x \in T PROVE Held(x - a) = x - a
  <2>1. x - a <= MAXSPAN /\ x - a \in Int
    BY <1>2
  <2> QED
    BY <1>3, <2>1 DEF Held
<1>5. \A x \in T : x \in 0 .. n - 1 /\ a + (x - a) = x
  BY <1>2
<1>6. a + Held(b - a) = b
  BY <1>2, <1>4, <1>5
<1>7. (a = 0 \/ b = n - 1) <=> (\E x \in T : x \in {0, n - 1})
  BY <1>2, <1>5
<1>8. /\ (a = 0 \/ a + Held(b - a) = n - 1) <=> (\E x \in T : x \in {0, n - 1})
      /\ \A x \in T : a + Held(x - a) = x
  BY <1>4, <1>5, <1>6, <1>7
<1> QED
  BY <1>8, Zenon DEF SpanTells, a, b

LEMMA PixelsTyped ==
  ASSUME NEW c \in Cluster
  PROVE  /\ PixelsOf(c) \subseteq Pixels /\ DOMAIN c = 1 .. Len(c) /\ Len(c) \in Nat
         /\ \A i \in DOMAIN c : c[i].pixel \in PixelsOf(c)
<1>1. DOMAIN c = 1 .. Len(c) /\ Len(c) \in Nat /\ \A i \in DOMAIN c : c[i] \in Cells
  BY DEF Cluster
<1>2. \A x \in Cells : x.pixel \in Pixels
  BY DEF Cells
<1> QED
  BY <1>1, <1>2 DEF PixelsOf

LEMMA HitDescribesItsCluster ==
  ASSUME NEW c \in Cluster, c # <<>>,
         \A p, q \in PixelsOf(c) : p.row - q.row <= MAXSPAN /\ p.col - q.col <= MAXSPAN
  PROVE  /\ OnEdge(c) <=> \E p \in PixelsOf(c) : IsOnEdge(p)
         /\ SpansTwoRocs(c) <=> \A k \in ROCs : ~ PixelsOf(c) \subseteq InROC(k)
<1> DEFINE ps == PixelsOf(c)
           rows == {p.row : p \in ps}
           cols == {p.col : p \in ps}
<1>1. ps \subseteq Pixels /\ ps # {} /\ DOMAIN c = 1 .. Len(c) /\ Len(c) \in Nat \ {0}
  BY PixelsTyped, FirstPixel
<1>2. RowsInDet \in Nat \ {0} /\ ColsInDet \in Nat \ {0}
  BY ROCSizeAssumption DEF RowsInDet, ColsInDet
<1>3. \A p \in ps : p.row \in 0 .. RowsInDet - 1 /\ p.col \in 0 .. ColsInDet - 1
                    /\ p = [row |-> p.row, col |-> p.col]
  BY <1>1 DEF Pixels
<1> HIDE DEF ps
<1>4. /\ RowMin(c) = Least(rows) /\ RowSpan(c) = Held(Greatest(rows) - Least(rows))
      /\ ColMin(c) = Least(cols) /\ ColSpan(c) = Held(Greatest(cols) - Least(cols))
  BY DEF RowMin, ColMin, RowSpan, ColSpan, ps
<1>5. rows \subseteq 0 .. RowsInDet - 1 /\ rows # {} /\ cols \subseteq 0 .. ColsInDet - 1 /\ cols # {}
  BY <1>1, <1>3
<1>6. \A x, y \in rows : x - y <= MAXSPAN
  BY DEF ps
<1>7. \A x, y \in cols : x - y <= MAXSPAN
  BY DEF ps
<1>8. \A p \in ps : p.row \in rows /\ p.col \in cols
  OBVIOUS
<1>9. /\ (\E x \in rows : x \in {0, RowsInDet - 1}) <=> (\E p \in ps : p.row \in {0, RowsInDet - 1})
      /\ (\E x \in cols : x \in {0, ColsInDet - 1}) <=> (\E p \in ps : p.col \in {0, ColsInDet - 1})
  OBVIOUS
<1> HIDE DEF rows, cols
<1>10. SpanTells(RowsInDet, rows)
  BY <1>2, <1>5, <1>6, SpanIsHeld
<1>11. SpanTells(ColsInDet, cols)
  BY <1>2, <1>5, <1>7, SpanIsHeld
<1>12. /\ (RowMin(c) = 0 \/ RowMin(c) + RowSpan(c) = RowsInDet - 1) <=> (\E x \in rows : x \in {0, RowsInDet - 1})
       /\ \A x \in rows : RowMin(c) + Held(x - RowMin(c)) = x
  BY <1>4, <1>10 DEF SpanTells
<1>13. /\ (ColMin(c) = 0 \/ ColMin(c) + ColSpan(c) = ColsInDet - 1) <=> (\E x \in cols : x \in {0, ColsInDet - 1})
       /\ \A x \in cols : ColMin(c) + Held(x - ColMin(c)) = x
  BY <1>4, <1>11 DEF SpanTells
<1>14. OnEdge(c) <=> \E p \in ps : IsOnEdge(p)
  BY <1>9, <1>12, <1>13 DEF OnEdge, IsOnEdge
<1>15. \A p \in ps : HeldPixel(c, p) = p
  BY <1>3, <1>8, <1>12, <1>13 DEF HeldPixel
<1>16. \A i \in 1 .. Len(c) : c[i].pixel \in ps
  BY <1>1 DEF ps, PixelsOf
<1>17. \A p \in ps : \E i \in 1 .. Len(c) : p = c[i].pixel
  BY <1>1 DEF ps, PixelsOf
<1>18. SpansTwoRocs(c) <=> \E i \in 2 .. Len(c) : GetROCId(c[i].pixel) # GetROCId(c[1].pixel)
  <2>1. 1 \in 1 .. Len(c) /\ \A i \in 2 .. Len(c) : i \in 1 .. Len(c)
    BY <1>1
  <2> QED
    BY <2>1, <1>15, <1>16 DEF SpansTwoRocs
<1>19. \A p \in ps : GetROCId(p) \in ROCs /\ \A k \in ROCs : p \in InROC(k) <=> GetROCId(p) = k
  BY <1>1, RocOfPixel
<1>20. ASSUME SpansTwoRocs(c), NEW k \in ROCs, ps \subseteq InROC(k) PROVE FALSE
  <2>1. PICK i \in 2 .. Len(c) : GetROCId(c[i].pixel) # GetROCId(c[1].pixel)
    BY <1>18, <1>20
  <2>2. c[i].pixel \in ps /\ c[1].pixel \in ps
    BY <1>1, <1>16
  <2> QED
    BY <1>19, <1>20, <2>1, <2>2
<1>21. ASSUME ~SpansTwoRocs(c) PROVE \E k \in ROCs : ps \subseteq InROC(k)
  <2> DEFINE k == GetROCId(c[1].pixel)
  <2>1. c[1].pixel \in ps
    BY <1>1, <1>16
  <2>2. k \in ROCs
    BY <1>19, <2>1
  <2>3. ASSUME NEW p \in ps PROVE p \in InROC(k)
    <3>1. PICK i \in 1 .. Len(c) : p = c[i].pixel
      BY <1>17
    <3>2. i = 1 \/ i \in 2 .. Len(c)
      BY <1>1
    <3>3. GetROCId(p) = k
      BY <1>18, <1>21, <3>1, <3>2
    <3> HIDE DEF k
    <3> QED
      BY <1>19, <2>2, <3>3
  <2> QED
    BY <2>2, <2>3
<1> QED
  BY <1>14, <1>20, <1>21 DEF ps

-----------------------------------------------------------------------------
(* What the digis and the clusters show of the hits.                         *)

\* Each pixel of a cluster is a lit digi with its electrons, the first a seed.
Shows(c, digis) ==
  /\ \A k \in DOMAIN c :
       LET e == Calibrate(digis[c[k].pixel])
       IN  c[k].pixel \in DOMAIN digis /\ IsLit(e) /\ c[k].adc = e % 65536
  /\ IsSeed(Calibrate(digis[c[1].pixel]))

Drawn(calib, digis) ==
  DOMAIN calib \subseteq DOMAIN digis /\ \A p \in DOMAIN calib : calib[p] = Calibrate(digis[p])

InClusters(cs) == UNION {PixelsOf(cs[i]) : i \in DOMAIN cs}

\* No seed is forgotten.
SeedsAreIn(S, digis) == \A p \in DOMAIN digis : IsSeed(Calibrate(digis[p])) => p \in S

LEMMA SixteenBits == ASSUME NEW e \in Nat PROVE e % 65536 \in Words
BY DEF Words

LEMMA CalibratedIsNat == ASSUME NEW adc \in Nat PROVE Calibrate(adc) \in Nat
<1>1. ElectronADCGain \in Nat
  BY ParametersAssumption
<1> QED
  BY <1>1, ProductIsNat DEF Calibrate

\* The seed and the neighbours put into a cluster are typed and lit.
LEMMA SeedShows ==
  ASSUME NEW digis, IsPartial(digis), NEW seeds, IsPartial(seeds), Drawn(seeds, digis),
         NEW s \in DOMAIN seeds, IsSeed(seeds[s])
  PROVE  /\ Pixel(s, seeds[s]) \in Cells /\ Pixel(s, seeds[s]).pixel = s
         /\ <<Pixel(s, seeds[s])>> \in Cluster /\ Shows(<<Pixel(s, seeds[s])>>, digis)
<1> DEFINE e == seeds[s]
           x == Pixel(s, e)
<1>1. s \in Pixels /\ e \in Nat /\ s \in DOMAIN digis /\ e = Calibrate(digis[s])
  BY DEF IsPartial, Drawn
<1>2. e % 65536 \in Words
  BY <1>1, SixteenBits
<1>3. x \in Cells /\ x.pixel = s /\ x.adc = e % 65536
  BY <1>1, <1>2 DEF Pixel, Cells
<1>4. IsLit(e)
  BY <1>1, SeedsAreLit
<1> HIDE DEF x, e
<1>5. <<x>> \in Cluster /\ DOMAIN <<x>> = {1} /\ <<x>>[1] = x
  BY <1>3 DEF Cluster
<1>6. IsSeed(e)
  BY DEF e
<1> DEFINE c == <<x>>
<1> HIDE DEF c
<1>7. DOMAIN c = {1} /\ c[1] = x
  BY <1>5 DEF c
<1>8. Shows(c, digis)
  BY <1>1, <1>3, <1>4, <1>6, <1>7 DEF Shows
<1> QED
  BY <1>3, <1>5, <1>8 DEF x, e, c

LEMMA NeighbourShows ==
  ASSUME NEW digis, IsPartial(digis), NEW calib, IsPartial(calib), Drawn(calib, digis),
         NEW c \in Cluster, c # <<>>, Shows(c, digis), NEW q \in DOMAIN calib, IsLit(calib[q])
  PROVE  /\ Pixel(q, calib[q]) \in Cells /\ Pixel(q, calib[q]).pixel = q
         /\ Shows(Append(c, Pixel(q, calib[q])), digis)
<1> DEFINE e == calib[q]
           x == Pixel(q, e)
           more == Append(c, x)
<1>1. q \in Pixels /\ e \in Nat /\ q \in DOMAIN digis /\ e = Calibrate(digis[q])
  BY DEF IsPartial, Drawn
<1>2. e % 65536 \in Words
  BY <1>1, SixteenBits
<1>3. x \in Cells /\ x.pixel = q /\ x.adc = e % 65536
  BY <1>1, <1>2 DEF Pixel, Cells
<1>4. IsLit(e)
  BY DEF e
<1> HIDE DEF x, e
<1>5. /\ DOMAIN more = 1 .. Len(c) + 1 /\ more[Len(c) + 1] = x
      /\ \A k \in 1 .. Len(c) : more[k] = c[k]
  BY <1>3, PixelsOfMore
<1>6. DOMAIN c = 1 .. Len(c) /\ Len(c) \in Nat /\ 1 \in 1 .. Len(c)
  BY FirstPixel DEF Cluster
<1> HIDE DEF more
<1>7. ASSUME NEW k \in DOMAIN more
      PROVE  LET f == Calibrate(digis[more[k].pixel])
             IN  more[k].pixel \in DOMAIN digis /\ IsLit(f) /\ more[k].adc = f % 65536
  <2>1. k \in 1 .. Len(c) \/ k = Len(c) + 1
    BY <1>5, <1>6
  <2>2. CASE k \in 1 .. Len(c)
    BY <1>5, <1>6, <2>2 DEF Shows
  <2>3. CASE k = Len(c) + 1
    BY <1>1, <1>3, <1>4, <1>5, <2>3
  <2> QED
    BY <2>1, <2>2, <2>3
<1>8. IsSeed(Calibrate(digis[more[1].pixel]))
  BY <1>5, <1>6 DEF Shows
<1>9. Shows(more, digis)
  BY <1>7, <1>8 DEF Shows
<1> QED
  BY <1>3, <1>9 DEF x, e, more

LEMMA InMoreClusters ==
  ASSUME NEW cs \in Seq(Cluster), NEW c
  PROVE  InClusters(Append(cs, c)) = InClusters(cs) \cup PixelsOf(c)
<1> DEFINE more == Append(cs, c)
           L == Len(cs)
<1>1. /\ DOMAIN more = 1 .. L + 1 /\ L \in Nat /\ DOMAIN cs = 1 .. L
      /\ more[L + 1] = c /\ \A i \in 1 .. L : more[i] = cs[i]
  OBVIOUS
<1> HIDE DEF more, L
<1>2. \A i \in 1 .. L + 1 : i \in 1 .. L \/ i = L + 1
  BY <1>1
<1>3. L + 1 \in 1 .. L + 1 /\ \A i \in 1 .. L : i \in 1 .. L + 1
  BY <1>1
<1>4. InClusters(more) = InClusters(cs) \cup PixelsOf(c)
  BY <1>1, <1>2, <1>3 DEF InClusters
<1> QED
  BY <1>4 DEF more

-----------------------------------------------------------------------------
(* The charges that the hits leave in a pixel add up.                         *)

\* The charge of the first hits of a list in a pixel.
Total(list, p) ==
  LET total[i \in 0 .. Len(list)] == IF i = 0 THEN 0 ELSE total[i - 1] + list[i][p]
  IN  total

LEMMA CountUp ==
  ASSUME NEW L \in Nat, NEW A, 0 \in A, \A n \in 1 .. L : n - 1 \in A => n \in A
  PROVE  \A n \in 0 .. L : n \in A
<1> DEFINE Bad == {n \in 0 .. L : n \notin A}
<1>1. SUFFICES ASSUME Bad # {} PROVE FALSE
  OBVIOUS
<1>2. Bad \subseteq Nat
  OBVIOUS
<1>3. PICK n \in Bad : \A m \in Bad : n <= m
  <2> HIDE DEF Bad
  <2> QED
    BY <1>1, <1>2, LeastNat
<1>4. n \in 0 .. L /\ n \notin A /\ n # 0
  OBVIOUS
<1>5. n - 1 \in 0 .. L /\ n - 1 < n /\ n \in 1 .. L
  BY <1>4
<1>6. n - 1 \notin Bad
  <2> HIDE DEF Bad
  <2> QED
    BY <1>3, <1>4, <1>5
<1> QED
  BY <1>4, <1>5, <1>6

\* There is a function of the numbers to L that starts at base and goes on by step.
Recurses(L, S, base, step) ==
  \E f \in [0 .. L -> S] : f[0] = base /\ \A n \in 1 .. L : f[n] = step[<<n, f[n - 1]>>]

LEMMA RecursionExists ==
  ASSUME NEW L \in Nat, NEW S, NEW base \in S, NEW step \in [(1 .. L) \X S -> S]
  PROVE  Recurses(L, S, base, step)
<1> DEFINE Computes(f, n) == f \in [0 .. n -> S] /\ f[0] = base /\ \A i \in 1 .. n : f[i] = step[<<i, f[i - 1]>>]
           A == {n \in 0 .. L : \E f : Computes(f, n)}
<1>1. 0 \in A
  <2>1. Computes([i \in 0 .. 0 |-> base], 0) /\ 0 \in 0 .. L
    OBVIOUS
  <2> HIDE DEF Computes
  <2> QED
    BY <2>1
<1>2. ASSUME NEW n \in 1 .. L, n - 1 \in A PROVE n \in A
  <2>1. PICK f : Computes(f, n - 1)
    BY <1>2
  <2> DEFINE prev == f[n - 1]
             next == step[<<n, prev>>]
             g == [i \in 0 .. n |-> IF i = n THEN next ELSE f[i]]
  <2>2. n - 1 \in 0 .. n - 1 /\ n \in Nat /\ n >= 1 /\ n \in 0 .. L
    OBVIOUS
  <2>3. prev \in S
    BY <2>1, <2>2
  <2>4. <<n, prev>> \in (1 .. L) \X S
    <3> HIDE DEF prev
    <3> QED
      BY <2>3
  <2>5. next \in S
    <3> HIDE DEF prev
    <3> QED
      BY <2>4
  <2> HIDE DEF next
  <2>6. g \in [0 .. n -> S]
    <3>1. ASSUME NEW i \in 0 .. n PROVE (IF i = n THEN next ELSE f[i]) \in S
      <4>1. i = n \/ i \in 0 .. n - 1
        BY <2>2
      <4> QED
        BY <2>1, <2>5, <4>1
    <3> QED
      BY <3>1
  <2>7. g[0] = base
    BY <2>1, <2>2
  <2>8. ASSUME NEW i \in 1 .. n PROVE g[i] = step[<<i, g[i - 1]>>]
    <3>1. i \in 0 .. n /\ i - 1 \in 0 .. n /\ i - 1 # n /\ (i = n \/ i \in 1 .. n - 1)
      BY <2>2
    <3>2. g[i - 1] = f[i - 1]
      BY <3>1
    <3>3. CASE i = n
      <4>1. g[i] = next
        BY <3>1, <3>3
      <4> QED
        BY <3>2, <3>3, <4>1 DEF next
    <3>4. CASE i # n
      <4>1. g[i] = f[i] /\ i \in 1 .. n - 1
        BY <3>1, <3>4
      <4>2. f[i] = step[<<i, f[i - 1]>>]
        BY <2>1, <4>1
      <4> HIDE DEF g
      <4> QED
        BY <3>2, <4>1, <4>2
    <3> QED
      BY <3>3, <3>4
  <2>9. Computes(g, n)
    <3> HIDE DEF g
    <3> QED
      BY <2>6, <2>7, <2>8
  <2> HIDE DEF Computes
  <2> QED
    BY <2>2, <2>9
<1>3. L \in A
  <2> HIDE DEF A
  <2>1. \A n \in 0 .. L : n \in A
    BY <1>1, <1>2, CountUp
  <2>2. L \in 0 .. L
    OBVIOUS
  <2> QED
    BY <2>1, <2>2
<1> QED
  BY <1>3 DEF Recurses

LEMMA TotalsAdd ==
  ASSUME NEW list \in Seq(Charges), NEW p \in Pixels
  PROVE  /\ Total(list, p)[0] = 0
         /\ \A i \in 0 .. Len(list) : Total(list, p)[i] \in Nat
         /\ \A i \in 1 .. Len(list) : Total(list, p)[i] = Total(list, p)[i - 1] + list[i][p]
<1> DEFINE L == Len(list)
           Body(f, i) == IF i = 0 THEN 0 ELSE f[i - 1] + list[i][p]
           step == [x \in (1 .. L) \X Nat |-> x[2] + list[x[1]][p]]
<1>1. L \in Nat /\ \A i \in 1 .. L : list[i][p] \in Nat
  BY DEF Charges
<1>2. step \in [(1 .. L) \X Nat -> Nat]
  <2>1. \A x \in (1 .. L) \X Nat : x[2] \in Nat /\ list[x[1]][p] \in Nat
    BY <1>1
  <2> QED
    BY <2>1
<1>3. \A x \in (1 .. L) \X Nat : step[x] = x[2] + list[x[1]][p]
  OBVIOUS
<1>4. \E f : f = [i \in 0 .. L |-> Body(f, i)]
  <2>1. Recurses(L, Nat, 0, step)
    <3> HIDE DEF step, L
    <3> QED
      BY <1>1, <1>2, RecursionExists
  <2>2. PICK f \in [0 .. L -> Nat] : f[0] = 0 /\ \A n \in 1 .. L : f[n] = step[<<n, f[n - 1]>>]
    BY <2>1 DEF Recurses
  <2>3. ASSUME NEW n \in 0 .. L PROVE f[n] = Body(f, n)
    <3>1. CASE n = 0
      BY <2>2, <3>1
    <3>2. CASE n # 0
      <4>1. n \in 1 .. L /\ n - 1 \in 0 .. L
        BY <3>2, <1>1
      <4> DEFINE prev == f[n - 1]
      <4>2. prev \in Nat /\ f[n] = step[<<n, prev>>]
        BY <2>2, <4>1
      <4> HIDE DEF step, L, prev
      <4>3. step[<<n, prev>>] = prev + list[n][p]
        BY <1>3, <4>1, <4>2
      <4> QED
        BY <3>2, <4>2, <4>3 DEF prev
    <3> QED
      BY <3>1, <3>2
  <2>4. f = [n \in 0 .. L |-> Body(f, n)]
    <3> HIDE DEF Body, L
    <3> QED
      BY <2>2, <2>3
  <2> QED
    BY <2>4
<1> DEFINE t == CHOOSE f : f = [i \in 0 .. L |-> Body(f, i)]
<1>5. Total(list, p) = t
  BY Zenon DEF Total
<1>6. t = [i \in 0 .. L |-> Body(t, i)]
  <2> HIDE DEF Body, L
  <2> QED
    BY <1>4, Zenon
<1> HIDE DEF t, L
<1>7. \A i \in 0 .. L : t[i] = IF i = 0 THEN 0 ELSE t[i - 1] + list[i][p]
  BY <1>6
<1>8. t[0] = 0 /\ \A i \in 1 .. L : i \in 0 .. L /\ t[i] = t[i - 1] + list[i][p]
  BY <1>1, <1>7
<1> DEFINE A == {n \in 0 .. L : t[n] \in Nat}
<1>9. 0 \in A
  BY <1>1, <1>8
<1>10. ASSUME NEW n \in 1 .. L, n - 1 \in A PROVE n \in A
  <2>1. t[n - 1] \in Nat /\ list[n][p] \in Nat /\ n \in 0 .. L
    BY <1>1, <1>10
  <2> QED
    BY <1>8, <2>1
<1>11. \A n \in 0 .. L : n \in A
  <2> HIDE DEF A
  <2> QED
    BY <1>1, <1>9, <1>10, CountUp
<1>12. \A n \in 0 .. L : t[n] \in Nat
  BY <1>11
<1> QED
  BY <1>5, <1>8, <1>12 DEF L

\* Of a list of hits, so many are still to be added to the charges.
PartlyAdded(list, rest, charge) ==
  /\ rest \in Seq(Charges) /\ Len(rest) <= Len(list)
  /\ \A i \in 1 .. Len(rest) : rest[i] = list[Len(list) - Len(rest) + i]
  /\ \A p \in Pixels : charge[p] = Total(list, p)[Len(list) - Len(rest)]

LEMMA NothingAdded ==
  ASSUME NEW list \in Seq(Charges)
  PROVE  PartlyAdded(list, list, NoCharge)
<1>1. Len(list) \in Nat /\ Len(list) - Len(list) = 0 /\ \A i \in 1 .. Len(list) : 0 + i = i
  OBVIOUS
<1>2. \A p \in Pixels : NoCharge[p] = 0 /\ Total(list, p)[0] = 0
  BY TotalsAdd DEF NoCharge
<1> QED
  BY <1>1, <1>2 DEF PartlyAdded

LEMMA HitIsAdded ==
  ASSUME NEW list \in Seq(Charges), NEW rest, NEW charge \in Charges, rest # <<>>,
         PartlyAdded(list, rest, charge)
  PROVE  LET sum == [p \in Pixels |-> charge[p] + Head(rest)[p]]
         IN  sum \in Charges /\ PartlyAdded(list, Tail(rest), sum)
<1> DEFINE sum == [p \in Pixels |-> charge[p] + Head(rest)[p]]
           n == Len(list) - Len(rest)
<1>1. rest \in Seq(Charges) /\ Len(list) \in Nat /\ Len(rest) \in Nat \ {0} /\ Len(rest) <= Len(list)
  BY DEF PartlyAdded
<1>2. /\ Tail(rest) \in Seq(Charges) /\ Len(Tail(rest)) = Len(rest) - 1
      /\ \A i \in 1 .. Len(rest) - 1 : Tail(rest)[i] = rest[i + 1]
      /\ Head(rest) = rest[1] /\ rest[1] \in Charges
  BY <1>1
<1>3. n + 1 \in 1 .. Len(list) /\ n \in 0 .. Len(list) /\ (n + 1) - 1 = n /\ Len(list) - (Len(rest) - 1) = n + 1
  BY <1>1
<1>4. rest[1] = list[n + 1]
  BY <1>1 DEF PartlyAdded
<1>5. ASSUME NEW p \in Pixels PROVE sum[p] = Total(list, p)[n + 1] /\ sum[p] \in Nat
  <2>1. Total(list, p)[n + 1] = Total(list, p)[n] + list[n + 1][p]
    BY <1>3, TotalsAdd
  <2>2. Total(list, p)[n + 1] \in Nat
    BY <1>3, TotalsAdd
  <2>3. charge[p] = Total(list, p)[n]
    BY DEF PartlyAdded
  <2> QED
    BY <1>2, <1>4, <2>1, <2>2, <2>3
<1>6. sum \in Charges
  BY <1>5 DEF Charges
<1> HIDE DEF sum
<1>7. ASSUME NEW i \in 1 .. Len(rest) - 1 PROVE Tail(rest)[i] = list[(n + 1) + i]
  <2>1. i + 1 \in 1 .. Len(rest) /\ n + (i + 1) = (n + 1) + i
    BY <1>1
  <2>2. rest[i + 1] = list[n + (i + 1)]
    BY <2>1 DEF PartlyAdded
  <2> QED
    BY <1>2, <2>1, <2>2
<1> HIDE DEF n
<1>8. PartlyAdded(list, Tail(rest), sum)
  BY <1>1, <1>2, <1>3, <1>5, <1>7 DEF PartlyAdded
<1> QED
  BY <1>6, <1>8 DEF sum

-----------------------------------------------------------------------------
(* The invariant of the chain.                                                *)

Stages      == {"event", "digitize", "pileup", "clusterize", "seeds", "cluster"}
Digitizing  == {"digitize", "pileup"}
Clusterizing == {"clusterize", "seeds", "cluster"}

TypeInv ==
  /\ stage \in Stages /\ event \in Nat
  /\ DOMAIN SimHitMap \subseteq Detectors
  /\ \A d \in DOMAIN SimHitMap : SimHitMap[d] \in Seq(Charges)
  /\ DOMAIN theAlgoMap = Detectors /\ pileUp \in [Detectors -> Charges]
  /\ DOMAIN theDigiVector = Detectors
  /\ \A d \in Detectors : IsPartial(theDigiVector[d])
  /\ todo \subseteq Detectors
  /\ stage \in {"pileup", "seeds", "cluster"} => det \in Detectors /\ det \notin todo
  /\ IsPartial(calibDigis) /\ IsPartial(SeedVector)
  /\ cluster \in Cluster /\ curr \in Nat
  /\ clusters \in [Detectors -> Seq(Cluster)]

\* What a detector's digis are when its hits have been digitised.
Expected(d) == IF d \in DOMAIN SimHitMap THEN Digis(Signal(d), theAlgoMap[d]) ELSE NoDigis

InHand(d) == d \in todo \/ d = det

DigisInv ==
  /\ stage \in Digitizing => todo \subseteq DOMAIN SimHitMap
  /\ stage = "pileup" => det \in DOMAIN SimHitMap /\ PartlyAdded(SimHitMap[det], pending, pileUp[det])
  /\ \A d \in Detectors :
       \/ theDigiVector[d] = Expected(d)
       \/ stage = "digitize" /\ d \in todo
       \/ stage = "pileup" /\ InHand(d)

\* The clusters of any detector show its digis; those of a detector not begun
\* are none.
ClustersAre(cs, digis) ==
  /\ SharedOnce(cs)
  /\ \A i \in DOMAIN cs : cs[i] # <<>> /\ Connected(cs[i]) /\ Shows(cs[i], digis)

\* The detector in hand: what is left of its digis and of its seeds.
DetectorInv(cs, c, calib, seeds, digis) ==
  /\ Drawn(calib, digis) /\ Drawn(seeds, digis) /\ \A s \in DOMAIN seeds : IsSeed(seeds[s])
  /\ DoneInv(cs, calib)
  /\ SeedsAreIn(DOMAIN seeds \cup PixelsOf(c) \cup InClusters(cs), digis)

ClustersInv ==
  /\ \A d \in Detectors : ClustersAre(clusters[d], theDigiVector[d])
  /\ stage \in Digitizing => \A d \in Detectors : clusters[d] = <<>>
  /\ stage \in Clusterizing => \A d \in todo : clusters[d] = <<>>
  /\ \A d \in Detectors :
       \/ SeedsAreIn(InClusters(clusters[d]), theDigiVector[d])
       \/ stage \in Digitizing
       \/ stage = "clusterize" /\ d \in todo
       \/ stage \in {"seeds", "cluster"} /\ InHand(d)
  /\ stage # "cluster" => cluster = <<>>
  /\ stage \in {"seeds", "cluster"} =>
       DetectorInv(clusters[det], cluster, calibDigis, SeedVector, theDigiVector[det])
  /\ stage = "cluster" => /\ GrowsInv(clusters[det], cluster, curr, calibDigis)
                          /\ Shows(cluster, theDigiVector[det])

IsHits(hs, cs) == Len(hs) = Len(cs) /\ \A i \in DOMAIN cs : hs[i] = MakeHit(cs[i])

HitsInv == stage = "event" => \A d \in Detectors : IsHits(hits[d], clusters[d])

PixelInv == TypeInv /\ DigisInv /\ ClustersInv /\ HitsInv

LEMMA EmptyCases ==
  /\ IsPartial(NoDigis) /\ DOMAIN NoDigis = {} /\ NoCharge \in Charges
  /\ <<>> \in Cluster /\ PixelsOf(<<>>) = {} /\ InClusters(<<>>) = {}
  /\ \A digis : ClustersAre(<<>>, digis)
  /\ \A calib : DoneInv(<<>>, calib)
  /\ IsHits(<<>>, <<>>)
<1>1. DOMAIN NoDigis = {} /\ IsPartial(NoDigis)
  BY DEF NoDigis, IsPartial
<1>2. NoCharge \in Charges
  BY DEF NoCharge, Charges
<1>3. DOMAIN <<>> = {}
  OBVIOUS
<1>4. <<>> \in Cluster /\ PixelsOf(<<>>) = {} /\ InClusters(<<>>) = {}
  BY <1>3 DEF Cluster, PixelsOf, InClusters
<1>5. \A digis : ClustersAre(<<>>, digis)
  BY <1>3 DEF ClustersAre, SharedOnce
<1>6. \A calib : DoneInv(<<>>, calib)
  BY <1>3 DEF DoneInv
<1>7. IsHits(<<>>, <<>>)
  BY <1>3 DEF IsHits
<1> QED
  BY <1>1, <1>2, <1>4, <1>5, <1>6, <1>7

LEMMA Initially == Init => PixelInv
<1> SUFFICES ASSUME Init PROVE PixelInv
  OBVIOUS
<1>1. /\ stage = "event" /\ event = 0 /\ DOMAIN SimHitMap = {}
      /\ DOMAIN theAlgoMap = Detectors /\ pileUp = [d \in Detectors |-> NoCharge]
      /\ DOMAIN theDigiVector = Detectors /\ \A d \in Detectors : theDigiVector[d] = NoDigis
      /\ todo = {} /\ calibDigis = NoDigis /\ SeedVector = NoDigis /\ cluster = <<>> /\ curr = 0
      /\ clusters = [d \in Detectors |-> <<>>] /\ hits = [d \in Detectors |-> <<>>]
  BY DEF Init
<1>2. \A d \in Detectors : clusters[d] = <<>> /\ hits[d] = <<>>
  BY <1>1
<1>3. clusters \in [Detectors -> Seq(Cluster)]
  BY <1>1
<1>4. TypeInv
  BY <1>1, <1>3, EmptyCases DEF TypeInv, Stages
<1>5. DigisInv
  BY <1>1 DEF DigisInv, Digitizing, Expected
<1>6. ClustersInv
  BY <1>1, <1>2, EmptyCases DEF ClustersInv, Digitizing, Clusterizing, SeedsAreIn
<1>7. HitsInv
  BY <1>1, <1>2, EmptyCases DEF HitsInv
<1> QED
  BY <1>4, <1>5, <1>6, <1>7 DEF PixelInv

\* Outside of the digitiser its digis stay.
LEMMA DigisStay ==
  ASSUME DigisInv, UNCHANGED <<input, digitizers>>, stage \notin Digitizing, stage' \notin Digitizing
  PROVE  DigisInv'
<1>1. /\ SimHitMap' = SimHitMap /\ theAlgoMap' = theAlgoMap /\ theDigiVector' = theDigiVector
  BY DEF input, digitizers
<1>2. \A d : Signal(d)' = Signal(d)
  BY <1>1 DEF Signal, Deposited
<1>3. \A d : Expected(d)' = Expected(d)
  BY <1>1, <1>2 DEF Expected
<1> QED
  BY <1>1, <1>3 DEF DigisInv, Digitizing

\* Within it there are no clusters.
LEMMA NoClusters ==
  ASSUME \A d \in Detectors : clusters'[d] = <<>>, cluster' = <<>>, stage' \in Digitizing
  PROVE  ClustersInv' /\ HitsInv'
BY EmptyCases DEF ClustersInv, HitsInv, Digitizing, Clusterizing

-----------------------------------------------------------------------------
(* Every step keeps the invariant.                                            *)

LEMMA HitsMapped == ASSUME PixelInv, MapHits PROVE PixelInv'
<1>1. /\ stage' = "digitize" /\ event < Len(Events) /\ event' = event + 1 /\ SimHitMap' \in Events[event']
      /\ theDigiVector' = [d \in Detectors |-> NoDigis] /\ todo' = DOMAIN SimHitMap'
      /\ clusters' = [d \in Detectors |-> <<>>]
      /\ theAlgoMap' = theAlgoMap /\ pileUp' = pileUp /\ cluster' = cluster /\ curr' = curr
      /\ calibDigis' = calibDigis /\ SeedVector' = SeedVector /\ stage = "event"
  BY DEF MapHits, clusterizer
<1>2. TypeInv /\ cluster = <<>>
  BY <1>1 DEF PixelInv, ClustersInv
<1>3. event' \in DOMAIN Events /\ event' \in Nat
  BY <1>1, <1>2, EventsAssumption DEF TypeInv
<1>4. DOMAIN SimHitMap' \subseteq Detectors /\ \A d \in DOMAIN SimHitMap' : SimHitMap'[d] \in Seq(Charges)
  BY <1>1, <1>3, EventsAssumption
<1>5. \A d \in Detectors : theDigiVector'[d] = NoDigis /\ clusters'[d] = <<>>
  BY <1>1
<1>6. clusters' \in [Detectors -> Seq(Cluster)] /\ DOMAIN theDigiVector' = Detectors
  BY <1>1
<1>7. TypeInv'
  BY <1>1, <1>2, <1>3, <1>4, <1>5, <1>6, EmptyCases DEF TypeInv, Stages
<1>8. DigisInv'
  BY <1>1, <1>5 DEF DigisInv, Expected
<1>9. ClustersInv' /\ HitsInv'
  BY <1>1, <1>2, <1>5, NoClusters DEF Digitizing
<1> QED
  BY <1>7, <1>8, <1>9 DEF PixelInv

LEMMA DigitizerRuns ==
  ASSUME PixelInv, NEW d \in Detectors, RunDigitizer(d)
  PROVE  PixelInv'
<1>1. /\ stage' = "pileup" /\ stage = "digitize" /\ d \in todo /\ det' = d /\ todo' = todo \ {d}
      /\ pileUp' = [pileUp EXCEPT ![d] = NoCharge] /\ pending' = SimHitMap[d]
      /\ event' = event /\ SimHitMap' = SimHitMap /\ theDigiVector' = theDigiVector
      /\ calibDigis' = calibDigis /\ SeedVector' = SeedVector /\ cluster' = cluster
      /\ curr' = curr /\ clusters' = clusters
  BY DEF RunDigitizer, ResetSignals, input, clusterizer
<1>2. PICK dead : theAlgoMap' = [theAlgoMap EXCEPT ![d] = dead]
  BY DEF RunDigitizer
<1>3. TypeInv /\ DigisInv /\ ClustersInv
  BY DEF PixelInv
<1>4. d \in DOMAIN SimHitMap
  BY <1>1, <1>3 DEF DigisInv, Digitizing
<1>5. /\ DOMAIN theAlgoMap' = Detectors /\ \A e \in Detectors : e # d => theAlgoMap'[e] = theAlgoMap[e]
      /\ pileUp' \in [Detectors -> Charges] /\ pileUp'[d] = NoCharge
  BY <1>1, <1>2, <1>3, EmptyCases DEF TypeInv
<1>6. TypeInv'
  BY <1>1, <1>3, <1>5 DEF TypeInv, Stages
<1>7. PartlyAdded(SimHitMap[d], pending', pileUp'[d])
  BY <1>1, <1>3, <1>4, <1>5, NothingAdded DEF TypeInv
<1>8. ASSUME NEW e \in Detectors, e # d PROVE Expected(e)' = Expected(e)
  <2>1. Signal(e)' = Signal(e)
    BY <1>1 DEF Signal, Deposited
  <2> QED
    BY <1>1, <1>5, <1>8, <2>1 DEF Expected
<1>9. DigisInv'
  <2>1. stage' \in Digitizing => todo' \subseteq DOMAIN SimHitMap'
    BY <1>1, <1>3 DEF DigisInv, Digitizing
  <2>2. ASSUME NEW e \in Detectors PROVE theDigiVector'[e] = Expected(e)' \/ InHand(e)'
    <3>1. theDigiVector[e] = Expected(e) \/ e \in todo
      BY <1>1, <1>3 DEF DigisInv
    <3> QED
      BY <1>1, <1>8, <3>1 DEF InHand
  <2> QED
    BY <1>1, <1>4, <1>7, <2>1, <2>2 DEF DigisInv
<1>10. ClustersInv' /\ HitsInv'
  <2>1. \A e \in Detectors : clusters'[e] = <<>>
    BY <1>1, <1>3 DEF ClustersInv, Digitizing
  <2>2. cluster' = <<>>
    BY <1>1, <1>3 DEF ClustersInv
  <2> QED
    BY <1>1, <2>1, <2>2, NoClusters DEF Digitizing
<1> QED
  BY <1>6, <1>9, <1>10 DEF PixelInv

LEMMA HitAdded == ASSUME PixelInv, AddHit PROVE PixelInv'
<1> DEFINE sum == [p \in Pixels |-> pileUp[det][p] + Head(pending)[p]]
<1>1. /\ stage' = "pileup" /\ stage = "pileup" /\ pending # <<>> /\ det' = det /\ todo' = todo
      /\ pending' = Tail(pending) /\ theAlgoMap' = theAlgoMap
      /\ event' = event /\ SimHitMap' = SimHitMap /\ theDigiVector' = theDigiVector
      /\ calibDigis' = calibDigis /\ SeedVector' = SeedVector /\ cluster' = cluster
      /\ curr' = curr /\ clusters' = clusters
  BY DEF AddHit, input, clusterizer
<1>2. TypeInv /\ DigisInv /\ ClustersInv /\ det \in Detectors
  BY <1>1 DEF PixelInv, TypeInv
<1>3. pileUp' = [pileUp EXCEPT ![det] = sum]
  BY DEF AddHit
<1>4. det \in DOMAIN SimHitMap /\ PartlyAdded(SimHitMap[det], pending, pileUp[det])
  BY <1>1, <1>2 DEF DigisInv
<1>5. sum \in Charges /\ PartlyAdded(SimHitMap[det], Tail(pending), sum)
  <2> DEFINE list == SimHitMap[det]
             charge == pileUp[det]
  <2>1. list \in Seq(Charges) /\ charge \in Charges
    BY <1>2, <1>4 DEF TypeInv
  <2> HIDE DEF list, charge
  <2>2. PartlyAdded(list, pending, charge)
    BY <1>4 DEF list, charge
  <2>3. sum = [p \in Pixels |-> charge[p] + Head(pending)[p]]
    BY DEF charge
  <2> QED
    BY <1>1, <2>1, <2>2, <2>3, HitIsAdded DEF list
<1> HIDE DEF sum
<1>6. pileUp' \in [Detectors -> Charges] /\ pileUp'[det] = sum
  BY <1>2, <1>3, <1>5 DEF TypeInv
<1>7. TypeInv'
  BY <1>1, <1>2, <1>6 DEF TypeInv, Stages
<1>8. \A d : Expected(d)' = Expected(d)
  <2>1. \A d : Signal(d)' = Signal(d)
    BY <1>1 DEF Signal, Deposited
  <2> QED
    BY <1>1, <2>1 DEF Expected
<1>9. DigisInv'
  BY <1>1, <1>2, <1>4, <1>5, <1>6, <1>8 DEF DigisInv, InHand
<1>10. ClustersInv' /\ HitsInv'
  BY <1>1, <1>2, NoClusters DEF ClustersInv, Digitizing
<1> QED
  BY <1>7, <1>9, <1>10 DEF PixelInv

LEMMA DigisArePartial ==
  ASSUME NEW charge \in Charges, NEW dead
  PROVE  IsPartial(Digis(charge, dead))
<1>1. RPixDummyROCElectronPerADC \in Nat \ {0}
  BY ParametersAssumption
<1>2. \A p \in Pixels : charge[p] \in Nat
  BY DEF Charges
<1>3. \A p \in Pixels : charge[p] \div RPixDummyROCElectronPerADC \in Nat
  BY <1>1, <1>2
<1>4. \A p \in Pixels : ADC(charge[p]) \in Nat
  BY <1>3 DEF ADC
<1> DEFINE S == {q \in Pixels : HasDigi(charge, q, dead)}
<1>5. Digis(charge, dead) = [p \in S |-> ADC(charge[p])] /\ S \subseteq Pixels
  BY DEF Digis
<1> HIDE DEF S
<1> QED
  BY <1>4, <1>5 DEF IsPartial

LEMMA ChargeConverted == ASSUME PixelInv, ConvertChargeToHits PROVE PixelInv'
<1>1. /\ stage' = "digitize" /\ stage = "pileup" /\ pending = <<>> /\ det' = det /\ todo' = todo
      /\ theAlgoMap' = theAlgoMap /\ pileUp' = pileUp
      /\ theDigiVector' = [theDigiVector EXCEPT ![det] = Digis(pileUp[det], theAlgoMap[det])]
      /\ event' = event /\ SimHitMap' = SimHitMap
      /\ calibDigis' = calibDigis /\ SeedVector' = SeedVector /\ cluster' = cluster
      /\ curr' = curr /\ clusters' = clusters
  BY DEF ConvertChargeToHits, input, clusterizer
<1>2. TypeInv /\ DigisInv /\ ClustersInv /\ det \in Detectors
  BY <1>1 DEF PixelInv, TypeInv
<1>3. det \in DOMAIN SimHitMap /\ PartlyAdded(SimHitMap[det], <<>>, pileUp[det])
  BY <1>1, <1>2 DEF DigisInv
<1>4. pileUp[det] \in Charges /\ SimHitMap[det] \in Seq(Charges)
  BY <1>2, <1>3 DEF TypeInv
<1>5. pileUp[det] = Signal(det)
  <2> DEFINE charge == pileUp[det]
             list == SimHitMap[det]
  <2>1. Len(list) \in Nat /\ Len(<<>>) = 0 /\ Len(list) - 0 = Len(list)
    BY <1>4
  <2>2. ASSUME NEW p \in Pixels PROVE charge[p] = Deposited(det, p)
    <3>1. charge[p] = Total(list, p)[Len(list) - Len(<<>>)]
      BY <1>3 DEF PartlyAdded
    <3>2. Deposited(det, p) = Total(list, p)[Len(list)]
      BY DEF Deposited, Total
    <3> QED
      BY <2>1, <3>1, <3>2
  <2>3. charge = [p \in Pixels |-> charge[p]]
    BY <1>4 DEF Charges
  <2> HIDE DEF charge
  <2>4. charge = [p \in Pixels |-> Deposited(det, p)]
    BY <2>2, <2>3
  <2>5. Signal(det) = [p \in Pixels |-> Deposited(det, p)]
    BY <1>3 DEF Signal
  <2> QED
    BY <2>4, <2>5 DEF charge
<1>6. Digis(pileUp[det], theAlgoMap[det]) = Expected(det)
  BY <1>3, <1>5 DEF Expected
<1>7. /\ DOMAIN theDigiVector' = Detectors /\ theDigiVector'[det] = Expected(det)
      /\ \A d \in Detectors : d # det => theDigiVector'[d] = theDigiVector[d]
  BY <1>1, <1>2, <1>6 DEF TypeInv
<1>8. IsPartial(Expected(det))
  BY <1>4, <1>6, DigisArePartial
<1>9. TypeInv'
  BY <1>1, <1>2, <1>7, <1>8 DEF TypeInv, Stages
<1>10. \A d : Expected(d)' = Expected(d)
  <2>1. \A d : Signal(d)' = Signal(d)
    BY <1>1 DEF Signal, Deposited
  <2> QED
    BY <1>1, <2>1 DEF Expected
<1>11. DigisInv'
  <2>1. \A d \in Detectors : theDigiVector'[d] = Expected(d)' \/ d \in todo
    BY <1>1, <1>2, <1>7, <1>10 DEF DigisInv, InHand
  <2>2. todo \subseteq DOMAIN SimHitMap
    BY <1>1, <1>2 DEF DigisInv, Digitizing
  <2> QED
    BY <1>1, <2>1, <2>2 DEF DigisInv
<1>12. ClustersInv' /\ HitsInv'
  BY <1>1, <1>2, NoClusters DEF ClustersInv, Digitizing
<1> QED
  BY <1>9, <1>11, <1>12 DEF PixelInv

LEMMA DigisPut == ASSUME PixelInv, PutDigis PROVE PixelInv'
<1>1. /\ stage' = "clusterize" /\ stage = "digitize" /\ todo = {} /\ det' = det
      /\ todo' = {d \in Detectors : DOMAIN theDigiVector[d] # {}}
      /\ theAlgoMap' = theAlgoMap /\ pileUp' = pileUp /\ theDigiVector' = theDigiVector
      /\ event' = event /\ SimHitMap' = SimHitMap
      /\ calibDigis' = calibDigis /\ SeedVector' = SeedVector /\ cluster' = cluster
      /\ curr' = curr /\ clusters' = clusters
  BY DEF PutDigis, input, digitizers, clusterizer
<1>2. TypeInv /\ DigisInv /\ ClustersInv
  BY DEF PixelInv
<1>3. TypeInv'
  BY <1>1, <1>2 DEF TypeInv, Stages
<1>4. \A d : Expected(d)' = Expected(d)
  <2>1. \A d : Signal(d)' = Signal(d)
    BY <1>1 DEF Signal, Deposited
  <2> QED
    BY <1>1, <2>1 DEF Expected
<1>5. DigisInv'
  BY <1>1, <1>2, <1>4 DEF DigisInv, Digitizing
<1>6. \A d \in Detectors : clusters[d] = <<>>
  BY <1>1, <1>2 DEF ClustersInv, Digitizing
<1>7. \A d \in Detectors : d \in todo' \/ SeedsAreIn(InClusters(clusters[d]), theDigiVector[d])
  BY <1>1 DEF SeedsAreIn
<1>8. cluster = <<>>
  BY <1>1, <1>2 DEF ClustersInv
<1>9. ClustersInv'
  BY <1>1, <1>6, <1>7, <1>8, EmptyCases DEF ClustersInv, Digitizing, Clusterizing
<1>10. HitsInv'
  BY <1>1 DEF HitsInv
<1> QED
  BY <1>3, <1>5, <1>9, <1>10 DEF PixelInv

LEMMA ClustersBuilt ==
  ASSUME PixelInv, NEW d \in Detectors, BuildClusters(d)
  PROVE  PixelInv'
<1>1. /\ stage' = "seeds" /\ stage = "clusterize" /\ d \in todo /\ det' = d /\ todo' = todo \ {d}
      /\ calibDigis' = FillSet(theDigiVector[d]) /\ SeedVector' = StoreSeeds(calibDigis')
      /\ theAlgoMap' = theAlgoMap /\ pileUp' = pileUp /\ theDigiVector' = theDigiVector
      /\ event' = event /\ SimHitMap' = SimHitMap
      /\ cluster' = cluster /\ curr' = curr /\ clusters' = clusters
      /\ UNCHANGED <<input, digitizers>>
  BY DEF BuildClusters, input, digitizers
<1>2. TypeInv /\ DigisInv /\ ClustersInv
  BY DEF PixelInv
<1> DEFINE digis == theDigiVector[d]
           calib == FillSet(digis)
           seeds == StoreSeeds(calib)
<1>3. IsPartial(digis)
  BY <1>2 DEF TypeInv
<1> HIDE DEF digis
<1>4. DOMAIN calib = DOMAIN digis /\ \A p \in DOMAIN digis : calib[p] = Calibrate(digis[p])
  BY DEF FillSet
<1>5. IsPartial(calib) /\ Drawn(calib, digis)
  BY <1>3, <1>4, CalibratedIsNat DEF IsPartial, Drawn
<1> HIDE DEF calib
<1>6. /\ DOMAIN seeds = {q \in DOMAIN calib : IsSeed(calib[q])}
      /\ \A p \in DOMAIN seeds : seeds[p] = calib[p]
  BY DEF StoreSeeds
<1> HIDE DEF seeds
<1>7. IsPartial(seeds) /\ Drawn(seeds, digis) /\ \A s \in DOMAIN seeds : IsSeed(seeds[s])
  BY <1>5, <1>6 DEF IsPartial, Drawn
<1>8. SeedsAreIn(DOMAIN seeds, digis)
  BY <1>4, <1>6 DEF SeedsAreIn
<1>9. calibDigis' = calib /\ SeedVector' = seeds /\ theDigiVector'[d] = digis
  BY <1>1 DEF calib, seeds, digis
<1>10. TypeInv'
  BY <1>1, <1>2, <1>5, <1>7, <1>9 DEF TypeInv, Stages
<1>11. DigisInv'
  BY <1>1, <1>2, DigisStay DEF Digitizing
<1>12. clusters[d] = <<>> /\ cluster = <<>>
  BY <1>1, <1>2 DEF ClustersInv, Clusterizing
<1>13. DetectorInv(<<>>, <<>>, calib, seeds, digis)
  BY <1>5, <1>7, <1>8, EmptyCases DEF DetectorInv, SeedsAreIn
<1>14. ClustersInv'
  <2>1. \A e \in Detectors : ClustersAre(clusters'[e], theDigiVector'[e])
    BY <1>1, <1>2 DEF ClustersInv
  <2>2. \A e \in todo' : clusters'[e] = <<>>
    BY <1>1, <1>2 DEF ClustersInv, Clusterizing
  <2>3. \A e \in Detectors : SeedsAreIn(InClusters(clusters'[e]), theDigiVector'[e]) \/ InHand(e)'
    BY <1>1, <1>2 DEF ClustersInv, Digitizing, InHand
  <2>4. DetectorInv(clusters'[det'], cluster', calibDigis', SeedVector', theDigiVector'[det'])
    BY <1>1, <1>9, <1>12, <1>13
  <2> QED
    BY <1>1, <1>12, <2>1, <2>2, <2>3, <2>4 DEF ClustersInv, Digitizing
<1>15. HitsInv'
  BY <1>1 DEF HitsInv
<1> QED
  BY <1>10, <1>11, <1>14, <1>15 DEF PixelInv

LEMMA ClusterMade ==
  ASSUME PixelInv, NEW s \in Pixels, MakeCluster(s)
  PROVE  PixelInv'
<1>1. /\ stage' = "cluster" /\ stage = "seeds" /\ s \in DOMAIN SeedVector /\ det' = det /\ todo' = todo
      /\ cluster' = <<Pixel(s, SeedVector[s])>> /\ curr' = 1
      /\ calibDigis' = Without(calibDigis, s) /\ SeedVector' = Without(SeedVector, s)
      /\ theAlgoMap' = theAlgoMap /\ pileUp' = pileUp /\ theDigiVector' = theDigiVector
      /\ event' = event /\ SimHitMap' = SimHitMap /\ clusters' = clusters
      /\ UNCHANGED <<input, digitizers>>
  BY DEF MakeCluster, IsFirst, Erase, input, digitizers
<1>2. TypeInv /\ DigisInv /\ ClustersInv /\ det \in Detectors /\ det \notin todo
  BY <1>1 DEF PixelInv, TypeInv
<1> DEFINE digis == theDigiVector[det]
           cs == clusters[det]
           x == Pixel(s, SeedVector[s])
           less == Without(calibDigis, s)
           rest == Without(SeedVector, s)
<1>3. IsPartial(digis) /\ IsPartial(calibDigis) /\ IsPartial(SeedVector) /\ cs \in Seq(Cluster)
  BY <1>2 DEF TypeInv
<1>4. cluster = <<>> /\ DetectorInv(cs, cluster, calibDigis, SeedVector, digis)
  BY <1>1, <1>2 DEF ClustersInv
<1>5. IsPartial(less) /\ DOMAIN less = DOMAIN calibDigis \ {s} /\ \A q \in DOMAIN less : less[q] = calibDigis[q]
  BY <1>3, Erased
<1>6. IsPartial(rest) /\ DOMAIN rest = DOMAIN SeedVector \ {s} /\ \A q \in DOMAIN rest : rest[q] = SeedVector[q]
  BY <1>3, Erased
<1>7. /\ x \in Cells /\ x.pixel = s /\ <<x>> \in Cluster /\ Shows(<<x>>, digis)
  <2>1. Drawn(SeedVector, digis) /\ IsSeed(SeedVector[s])
    BY <1>1, <1>4 DEF DetectorInv
  <2> HIDE DEF digis
  <2> QED
    BY <1>1, <1>3, <2>1, SeedShows
<1> HIDE DEF digis, cs, x, less, rest
<1>8. DoneInv(cs, less) /\ GrowsInv(cs, <<x>>, 1, less)
  <2>1. DoneInv(cs, calibDigis)
    BY <1>4 DEF DetectorInv
  <2> QED
    BY <1>3, <1>7, <2>1, SeedStarts DEF less
<1>9. PixelsOf(<<x>>) = {s}
  <2>1. DOMAIN <<x>> = {1} /\ <<x>>[1] = x
    OBVIOUS
  <2> QED
    BY <1>7, <2>1 DEF PixelsOf
<1>10. DetectorInv(cs, <<x>>, less, rest, digis)
  <2>1. Drawn(less, digis) /\ Drawn(rest, digis) /\ \A p \in DOMAIN rest : IsSeed(rest[p])
    BY <1>4, <1>5, <1>6 DEF DetectorInv, Drawn
  <2>2. SeedsAreIn(DOMAIN rest \cup {s} \cup InClusters(cs), digis)
    BY <1>4, <1>6, EmptyCases DEF DetectorInv, SeedsAreIn
  <2> QED
    BY <1>8, <1>9, <2>1, <2>2 DEF DetectorInv
<1>11. /\ calibDigis' = less /\ SeedVector' = rest /\ cluster' = <<x>> /\ theDigiVector'[det'] = digis
       /\ clusters'[det'] = cs
  BY <1>1 DEF less, rest, x, digis, cs
<1>12. TypeInv'
  BY <1>1, <1>2, <1>5, <1>6, <1>7, <1>11 DEF TypeInv, Stages
<1>13. DigisInv'
  BY <1>1, <1>2, DigisStay DEF Digitizing
<1>14. ClustersInv'
  <2>1. \A e \in Detectors : ClustersAre(clusters'[e], theDigiVector'[e])
    BY <1>1, <1>2 DEF ClustersInv
  <2>2. \A e \in todo' : clusters'[e] = <<>>
    BY <1>1, <1>2 DEF ClustersInv, Clusterizing
  <2>3. \A e \in Detectors : SeedsAreIn(InClusters(clusters'[e]), theDigiVector'[e]) \/ InHand(e)'
    BY <1>1, <1>2 DEF ClustersInv, Digitizing, InHand
  <2>4. DetectorInv(clusters'[det'], cluster', calibDigis', SeedVector', theDigiVector'[det'])
    BY <1>10, <1>11
  <2>5. GrowsInv(clusters'[det'], cluster', curr', calibDigis') /\ Shows(cluster', theDigiVector'[det'])
    BY <1>1, <1>7, <1>8, <1>11
  <2> QED
    BY <1>1, <2>1, <2>2, <2>3, <2>4, <2>5 DEF ClustersInv, Digitizing
<1>15. HitsInv'
  BY <1>1 DEF HitsInv
<1> QED
  BY <1>12, <1>13, <1>14, <1>15 DEF PixelInv

LEMMA FoundAround == \A p : Found(p) = Around(calibDigis, p)
BY DEF Found, Around

LEMMA PixelAdded ==
  ASSUME PixelInv, NEW q \in Pixels, AddPixel(q)
  PROVE  PixelInv'
<1>1. /\ stage' = "cluster" /\ stage = "cluster" /\ det' = det /\ todo' = todo /\ curr <= Len(cluster)
      /\ q \in Found(cluster[curr].pixel) /\ curr' = curr
      /\ cluster' = Append(cluster, Pixel(q, calibDigis[q]))
      /\ calibDigis' = Without(calibDigis, q) /\ SeedVector' = SeedVector
      /\ theAlgoMap' = theAlgoMap /\ pileUp' = pileUp /\ theDigiVector' = theDigiVector
      /\ event' = event /\ SimHitMap' = SimHitMap /\ clusters' = clusters
      /\ UNCHANGED <<input, digitizers>>
  BY DEF AddPixel, IsFirst, Erase, input, digitizers
<1>2. TypeInv /\ DigisInv /\ ClustersInv /\ det \in Detectors /\ det \notin todo
  BY <1>1 DEF PixelInv, TypeInv
<1> DEFINE digis == theDigiVector[det]
           cs == clusters[det]
           x == Pixel(q, calibDigis[q])
           less == Without(calibDigis, q)
           more == Append(cluster, x)
<1>3. /\ IsPartial(digis) /\ IsPartial(calibDigis) /\ cs \in Seq(Cluster)
      /\ cluster \in Cluster /\ curr \in Nat
  BY <1>2 DEF TypeInv
<1>4. /\ DetectorInv(cs, cluster, calibDigis, SeedVector, digis)
      /\ GrowsInv(cs, cluster, curr, calibDigis) /\ Shows(cluster, digis)
  BY <1>1, <1>2 DEF ClustersInv
<1>5. /\ IsPartial(less) /\ DOMAIN less = DOMAIN calibDigis \ {q}
      /\ \A p \in DOMAIN less : less[p] = calibDigis[p]
  BY <1>3, Erased
<1>6. q \in Around(calibDigis, cluster[curr].pixel)
  BY <1>1, FoundAround
<1>7. q \in DOMAIN calibDigis /\ IsLit(calibDigis[q]) /\ cluster # <<>>
  BY <1>4, <1>6 DEF Around, GrowsInv
<1> HIDE DEF digis, cs
<1>8. x \in Cells /\ x.pixel = q /\ Shows(more, digis)
  <2>1. Drawn(calibDigis, digis)
    BY <1>4 DEF DetectorInv
  <2> QED
    BY <1>3, <1>4, <1>7, <2>1, NeighbourShows
<1> HIDE DEF x, less
<1>9. more \in Cluster /\ PixelsOf(more) = PixelsOf(cluster) \cup {q}
  BY <1>3, <1>8, PixelsOfMore
<1>10. DoneInv(cs, less) /\ GrowsInv(cs, more, curr, less)
  <2>1. DoneInv(cs, calibDigis)
    BY <1>4 DEF DetectorInv
  <2> QED
    BY <1>1, <1>3, <1>4, <1>6, <1>8, <2>1, PixelJoins DEF less
<1> HIDE DEF more
<1>11. DetectorInv(cs, more, less, SeedVector, digis)
  <2>1. Drawn(less, digis)
    BY <1>4, <1>5 DEF DetectorInv, Drawn
  <2>2. SeedsAreIn(DOMAIN SeedVector \cup PixelsOf(more) \cup InClusters(cs), digis)
    BY <1>4, <1>9 DEF DetectorInv, SeedsAreIn
  <2> QED
    BY <1>4, <1>10, <2>1, <2>2 DEF DetectorInv
<1>12. calibDigis' = less /\ cluster' = more /\ theDigiVector'[det'] = digis /\ clusters'[det'] = cs
  BY <1>1 DEF less, more, x, digis, cs
<1>13. TypeInv'
  BY <1>1, <1>2, <1>5, <1>9, <1>12 DEF TypeInv, Stages
<1>14. DigisInv'
  BY <1>1, <1>2, DigisStay DEF Digitizing
<1>15. ClustersInv'
  <2>1. \A e \in Detectors : ClustersAre(clusters'[e], theDigiVector'[e])
    BY <1>1, <1>2 DEF ClustersInv
  <2>2. \A e \in todo' : clusters'[e] = <<>>
    BY <1>1, <1>2 DEF ClustersInv, Clusterizing
  <2>3. \A e \in Detectors : SeedsAreIn(InClusters(clusters'[e]), theDigiVector'[e]) \/ InHand(e)'
    BY <1>1, <1>2 DEF ClustersInv, Digitizing, InHand
  <2>4. DetectorInv(clusters'[det'], cluster', calibDigis', SeedVector', theDigiVector'[det'])
    BY <1>1, <1>11, <1>12
  <2>5. GrowsInv(clusters'[det'], cluster', curr', calibDigis') /\ Shows(cluster', theDigiVector'[det'])
    BY <1>1, <1>8, <1>10, <1>12
  <2> QED
    BY <1>1, <2>1, <2>2, <2>3, <2>4, <2>5 DEF ClustersInv, Digitizing
<1>16. HitsInv'
  BY <1>1 DEF HitsInv
<1> QED
  BY <1>13, <1>14, <1>15, <1>16 DEF PixelInv

LEMMA PixelLookedAt == ASSUME PixelInv, NextPixel PROVE PixelInv'
<1>1. /\ stage' = "cluster" /\ stage = "cluster" /\ det' = det /\ todo' = todo /\ curr <= Len(cluster)
      /\ Found(cluster[curr].pixel) = {} /\ curr' = curr + 1
      /\ cluster' = cluster /\ calibDigis' = calibDigis /\ SeedVector' = SeedVector
      /\ theAlgoMap' = theAlgoMap /\ pileUp' = pileUp /\ theDigiVector' = theDigiVector
      /\ event' = event /\ SimHitMap' = SimHitMap /\ clusters' = clusters
      /\ UNCHANGED <<input, digitizers>>
  BY DEF NextPixel, input, digitizers
<1>2. TypeInv /\ DigisInv /\ ClustersInv /\ cluster \in Cluster /\ curr \in Nat
  BY DEF PixelInv, TypeInv
<1>3. TypeInv'
  BY <1>1, <1>2 DEF TypeInv, Stages
<1>4. DigisInv'
  BY <1>1, <1>2, DigisStay DEF Digitizing
<1>5. GrowsInv(clusters[det], cluster, curr + 1, calibDigis)
  <2> DEFINE cs == clusters[det]
  <2>1. GrowsInv(cs, cluster, curr, calibDigis)
    BY <1>1, <1>2 DEF ClustersInv
  <2>2. Around(calibDigis, cluster[curr].pixel) = {}
    BY <1>1, FoundAround
  <2> HIDE DEF cs
  <2>3. GrowsInv(cs, cluster, curr + 1, calibDigis)
    BY <1>1, <1>2, <2>1, <2>2, NextIsLookedAt
  <2> QED
    BY <2>3 DEF cs
<1>6. ClustersInv'
  BY <1>1, <1>2, <1>5 DEF ClustersInv, Digitizing, Clusterizing, InHand
<1>7. HitsInv'
  BY <1>1 DEF HitsInv
<1> QED
  BY <1>3, <1>4, <1>6, <1>7 DEF PixelInv

\* What holds of every cluster of a list and of one more holds of the longer list.
LEMMA MoreClustersAre ==
  ASSUME NEW cs \in Seq(Cluster), NEW c \in Cluster, NEW digis, ClustersAre(cs, digis),
         SharedOnce(Append(cs, c)), c # <<>>, Connected(c), Shows(c, digis)
  PROVE  ClustersAre(Append(cs, c), digis)
<1> DEFINE more == Append(cs, c)
<1>1. \A i \in DOMAIN more : (i \in DOMAIN cs /\ more[i] = cs[i]) \/ more[i] = c
  OBVIOUS
<1> HIDE DEF more
<1>2. \A i \in DOMAIN more : more[i] # <<>> /\ Connected(more[i]) /\ Shows(more[i], digis)
  BY <1>1 DEF ClustersAre
<1>3. SharedOnce(more)
  BY DEF more
<1>4. ClustersAre(more, digis)
  BY <1>2, <1>3 DEF ClustersAre
<1> QED
  BY <1>4 DEF more

LEMMA ClusterPushed == ASSUME PixelInv, PushCluster PROVE PixelInv'
<1>1. /\ stage' = "seeds" /\ stage = "cluster" /\ det' = det /\ todo' = todo
      /\ curr > Len(cluster) \/ Full(cluster)
      /\ clusters' = [clusters EXCEPT ![det] = Append(clusters[det], cluster)]
      /\ cluster' = <<>> /\ curr' = 0 /\ calibDigis' = calibDigis /\ SeedVector' = SeedVector
      /\ theAlgoMap' = theAlgoMap /\ pileUp' = pileUp /\ theDigiVector' = theDigiVector
      /\ event' = event /\ SimHitMap' = SimHitMap
      /\ UNCHANGED <<input, digitizers>>
  BY DEF PushCluster, input, digitizers
<1>2. TypeInv /\ DigisInv /\ ClustersInv /\ det \in Detectors /\ det \notin todo
  BY <1>1 DEF PixelInv, TypeInv
<1> DEFINE digis == theDigiVector[det]
           cs == clusters[det]
           more == Append(cs, cluster)
<1>3. cs \in Seq(Cluster) /\ cluster \in Cluster /\ curr \in Nat
  BY <1>2 DEF TypeInv
<1>4. /\ DetectorInv(cs, cluster, calibDigis, SeedVector, digis) /\ ClustersAre(cs, digis)
      /\ GrowsInv(cs, cluster, curr, calibDigis) /\ Shows(cluster, digis)
  BY <1>1, <1>2 DEF ClustersInv
<1> HIDE DEF digis, cs
<1>5. DoneInv(more, calibDigis) /\ SharedOnce(more)
  <2>1. DoneInv(cs, calibDigis) /\ SharedOnce(cs)
    BY <1>4 DEF DetectorInv, ClustersAre
  <2> QED
    BY <1>1, <1>3, <1>4, <2>1, ClusterIsDone
<1>6. ClustersAre(more, digis)
  <2>1. cluster # <<>> /\ Connected(cluster)
    BY <1>4 DEF GrowsInv
  <2> QED
    BY <1>3, <1>4, <1>5, <2>1, MoreClustersAre
<1>7. InClusters(more) = InClusters(cs) \cup PixelsOf(cluster) /\ more \in Seq(Cluster)
  BY <1>3, InMoreClusters
<1> HIDE DEF more
<1>8. DetectorInv(more, <<>>, calibDigis, SeedVector, digis)
  <2>1. SeedsAreIn(DOMAIN SeedVector \cup PixelsOf(<<>>) \cup InClusters(more), digis)
    BY <1>4, <1>7 DEF DetectorInv, SeedsAreIn
  <2> QED
    BY <1>4, <1>5, <2>1 DEF DetectorInv
<1>9. /\ clusters' \in [Detectors -> Seq(Cluster)] /\ clusters'[det] = more
      /\ \A e \in Detectors : e # det => clusters'[e] = clusters[e]
  <2>1. clusters' = [clusters EXCEPT ![det] = more]
    BY <1>1 DEF more, cs
  <2> QED
    BY <1>2, <1>7, <2>1 DEF TypeInv
<1>10. TypeInv'
  BY <1>1, <1>2, <1>9, EmptyCases DEF TypeInv, Stages
<1>11. DigisInv'
  BY <1>1, <1>2, DigisStay DEF Digitizing
<1>12. ClustersInv'
  <2>1. \A e \in Detectors : ClustersAre(clusters'[e], theDigiVector'[e])
    BY <1>1, <1>2, <1>6, <1>9 DEF ClustersInv, digis
  <2>2. \A e \in todo' : e \in Detectors /\ e # det /\ clusters'[e] = <<>>
    BY <1>1, <1>2, <1>9 DEF ClustersInv, Clusterizing, TypeInv
  <2>3. \A e \in Detectors : SeedsAreIn(InClusters(clusters'[e]), theDigiVector'[e]) \/ InHand(e)'
    BY <1>1, <1>2, <1>9 DEF ClustersInv, Digitizing, InHand
  <2>4. DetectorInv(clusters'[det'], cluster', calibDigis', SeedVector', theDigiVector'[det'])
    BY <1>1, <1>8, <1>9 DEF digis
  <2> QED
    BY <1>1, <2>1, <2>2, <2>3, <2>4 DEF ClustersInv, Digitizing
<1>13. HitsInv'
  BY <1>1 DEF HitsInv
<1> QED
  BY <1>10, <1>11, <1>12, <1>13 DEF PixelInv

LEMMA DetectorEnded == ASSUME PixelInv, EndDetector PROVE PixelInv'
<1>1. /\ stage' = "clusterize" /\ stage = "seeds" /\ det' = det /\ todo' = todo
      /\ DOMAIN SeedVector = {}
      /\ cluster' = cluster /\ curr' = curr /\ calibDigis' = calibDigis /\ SeedVector' = SeedVector
      /\ theAlgoMap' = theAlgoMap /\ pileUp' = pileUp /\ theDigiVector' = theDigiVector
      /\ event' = event /\ SimHitMap' = SimHitMap /\ clusters' = clusters
      /\ UNCHANGED <<input, digitizers>>
  BY DEF EndDetector, input, digitizers, clusterizer
<1>2. TypeInv /\ DigisInv /\ ClustersInv
  BY DEF PixelInv
<1>3. TypeInv'
  BY <1>1, <1>2 DEF TypeInv, Stages
<1>4. DigisInv'
  BY <1>1, <1>2, DigisStay DEF Digitizing
<1>5. SeedsAreIn(InClusters(clusters[det]), theDigiVector[det])
  <2>1. DetectorInv(clusters[det], <<>>, calibDigis, SeedVector, theDigiVector[det])
    BY <1>1, <1>2 DEF ClustersInv
  <2>2. SeedsAreIn(DOMAIN SeedVector \cup PixelsOf(<<>>) \cup InClusters(clusters[det]), theDigiVector[det])
    BY <2>1 DEF DetectorInv
  <2> QED
    BY <1>1, <2>2, EmptyCases DEF SeedsAreIn
<1>6. \A e \in Detectors : e \in todo \/ SeedsAreIn(InClusters(clusters[e]), theDigiVector[e])
  BY <1>1, <1>2, <1>5 DEF ClustersInv, Digitizing, InHand
<1>7. ClustersInv'
  BY <1>1, <1>2, <1>6 DEF ClustersInv, Digitizing, Clusterizing
<1>8. HitsInv'
  BY <1>1 DEF HitsInv
<1> QED
  BY <1>3, <1>4, <1>7, <1>8 DEF PixelInv

LEMMA HitsOfClusters ==
  ASSUME NEW cs \in Seq(Cluster)
  PROVE  IsHits([i \in DOMAIN cs |-> MakeHit(cs[i])], cs)
<1> DEFINE hs == [i \in DOMAIN cs |-> MakeHit(cs[i])]
<1>1. DOMAIN hs = 1 .. Len(cs) /\ Len(cs) \in Nat /\ \A i \in DOMAIN cs : hs[i] = MakeHit(cs[i])
  OBVIOUS
<1>2. Len(hs) = Len(cs)
  <2>1. hs = [i \in 1 .. Len(cs) |-> hs[i]]
    OBVIOUS
  <2> HIDE DEF hs
  <2>2. hs \in Seq({hs[i] : i \in 1 .. Len(cs)})
    BY <1>1, <2>1
  <2> QED
    BY <1>1, <2>2
<1> QED
  BY <1>1, <1>2 DEF IsHits

LEMMA HitsBuilt == ASSUME PixelInv, BuildHits PROVE PixelInv'
<1>1. /\ stage' = "event" /\ stage = "clusterize" /\ det' = det /\ todo' = todo /\ todo = {}
      /\ hits' = [d \in Detectors |-> [i \in DOMAIN clusters[d] |-> MakeHit(clusters[d][i])]]
      /\ cluster' = cluster /\ curr' = curr /\ calibDigis' = calibDigis /\ SeedVector' = SeedVector
      /\ theAlgoMap' = theAlgoMap /\ pileUp' = pileUp /\ theDigiVector' = theDigiVector
      /\ event' = event /\ SimHitMap' = SimHitMap /\ clusters' = clusters
      /\ UNCHANGED <<input, digitizers>>
  BY DEF BuildHits, input, digitizers, clusterizer
<1>2. TypeInv /\ DigisInv /\ ClustersInv
  BY DEF PixelInv
<1>3. TypeInv'
  BY <1>1, <1>2 DEF TypeInv, Stages
<1>4. DigisInv'
  BY <1>1, <1>2, DigisStay DEF Digitizing
<1>5. \A e \in Detectors : SeedsAreIn(InClusters(clusters[e]), theDigiVector[e])
  BY <1>1, <1>2 DEF ClustersInv, Digitizing
<1>6. ClustersInv'
  BY <1>1, <1>2, <1>5 DEF ClustersInv, Digitizing, Clusterizing
<1>7. HitsInv'
  <2>1. ASSUME NEW d \in Detectors PROVE IsHits(hits'[d], clusters[d])
    <3> DEFINE cs == clusters[d]
    <3>1. cs \in Seq(Cluster)
      BY <1>2 DEF TypeInv
    <3>2. hits'[d] = [i \in DOMAIN cs |-> MakeHit(cs[i])]
      BY <1>1
    <3> HIDE DEF cs
    <3>3. IsHits(hits'[d], cs)
      BY <3>1, <3>2, HitsOfClusters
    <3> QED
      BY <3>3 DEF cs
  <2> QED
    BY <1>1, <2>1 DEF HitsInv
<1> QED
  BY <1>3, <1>4, <1>6, <1>7 DEF PixelInv

LEMMA Stutters == ASSUME PixelInv, UNCHANGED vars PROVE PixelInv'
<1>1. /\ stage' = stage /\ event' = event /\ SimHitMap' = SimHitMap /\ theAlgoMap' = theAlgoMap
      /\ pileUp' = pileUp /\ pending' = pending /\ theDigiVector' = theDigiVector /\ todo' = todo
      /\ det' = det /\ calibDigis' = calibDigis /\ SeedVector' = SeedVector /\ cluster' = cluster
      /\ curr' = curr /\ clusters' = clusters /\ hits' = hits
  BY DEF vars, input, digitizers, clusterizer
<1>2. TypeInv'
  BY <1>1 DEF PixelInv, TypeInv
<1>3. DigisInv'
  <2>1. \A d : Signal(d)' = Signal(d)
    BY <1>1 DEF Signal, Deposited
  <2>2. \A d : Expected(d)' = Expected(d)
    BY <1>1, <2>1 DEF Expected
  <2> QED
    BY <1>1, <2>2 DEF PixelInv, DigisInv, InHand
<1>4. ClustersInv'
  BY <1>1 DEF PixelInv, ClustersInv, InHand
<1>5. HitsInv'
  BY <1>1 DEF PixelInv, HitsInv
<1> QED
  BY <1>2, <1>3, <1>4, <1>5 DEF PixelInv

LEMMA NextKeeps == PixelInv /\ [Next]_vars => PixelInv'
<1> SUFFICES ASSUME PixelInv, [Next]_vars PROVE PixelInv'
  OBVIOUS
<1>1. CASE MapHits
  BY <1>1, HitsMapped
<1>2. CASE \E d \in Detectors : RunDigitizer(d)
  BY <1>2, DigitizerRuns
<1>3. CASE AddHit
  BY <1>3, HitAdded
<1>4. CASE ConvertChargeToHits
  BY <1>4, ChargeConverted
<1>5. CASE PutDigis
  BY <1>5, DigisPut
<1>6. CASE \E d \in Detectors : BuildClusters(d)
  BY <1>6, ClustersBuilt
<1>7. CASE \E s \in Pixels : MakeCluster(s)
  BY <1>7, ClusterMade
<1>8. CASE \E q \in Pixels : AddPixel(q)
  BY <1>8, PixelAdded
<1>9. CASE NextPixel
  BY <1>9, PixelLookedAt
<1>10. CASE PushCluster
  BY <1>10, ClusterPushed
<1>11. CASE EndDetector
  BY <1>11, DetectorEnded
<1>12. CASE BuildHits
  BY <1>12, HitsBuilt
<1>13. CASE UNCHANGED vars
  BY <1>13, Stutters
<1> QED
  BY <1>1, <1>2, <1>3, <1>4, <1>5, <1>6, <1>7, <1>8, <1>9, <1>10, <1>11, <1>12, <1>13 DEF Next

\* At every step of the chain the charges that are piled up, the digis, what is
\* left of them and of the seeds, the clusters and the hits fit together.
THEOREM PixelsInvariant == Spec => []PixelInv
BY Initially, NextKeeps, PTL DEF Spec

\* Clusters are the connected sets of lit pixels, shared seeds apart: whatever
\* is erased from the set of digis while it is scanned, a cluster is connected,
\* takes its pixels once and all of them, and shares none but a seed.
THEOREM ClustersAreConnected == Spec => []ClustersAreComponents
<1>1. PixelInv => ClustersAreComponents
  <2> SUFFICES ASSUME PixelInv PROVE ClustersAreComponents
    OBVIOUS
  <2>1. TypeInv /\ ClustersInv /\ \A d \in Detectors : ClustersAre(clusters[d], theDigiVector[d])
    BY DEF PixelInv, ClustersInv
  <2>2. Connected(cluster)
    <3>1. CASE stage = "cluster"
      BY <2>1, <3>1 DEF ClustersInv, GrowsInv
    <3>2. CASE stage # "cluster"
      <4>1. DOMAIN cluster = {} /\ Len(cluster) = 0
        BY <2>1, <3>2 DEF ClustersInv
      <4>2. \A i \in 2 .. Len(cluster) : FALSE
        BY <4>1
      <4> QED
        BY <4>1, <4>2 DEF Connected
    <3> QED
      BY <3>1, <3>2
  <2>3. \A d \in Detectors : \A i \in DOMAIN clusters[d] : Connected(clusters[d][i])
    BY <2>1 DEF ClustersAre
  <2>4. ASSUME stage = "seeds", NEW i \in DOMAIN clusters[det], NEW p \in PixelsOf(clusters[det][i])
        PROVE  Full(clusters[det][i]) \/ Found(p) = {}
    <3>1. DoneInv(clusters[det], calibDigis)
      BY <2>1, <2>4 DEF ClustersInv, DetectorInv
    <3> QED
      BY <2>4, <3>1, FoundAround DEF DoneInv, Complete
  <2>5. SharedOnlyAsSeeds
    BY <2>1 DEF SharedOnlyAsSeeds, ClustersAre, SharedOnce, SharesSeed
  <2> QED
    BY <2>2, <2>3, <2>4, <2>5 DEF ClustersAreComponents, GrownFromSeeds
<1> QED
  BY <1>1, PixelsInvariant, PTL

\* When an event is through, the clusters show what its hits left in the pixels,
\* and nothing of an earlier event or of another detector, although the modules
\* and their sets are reused.
THEOREM EventIsShown == Spec => []ClustersShowTheEvent
<1>1. PixelInv => ClustersShowTheEvent
  <2> SUFFICES ASSUME PixelInv, stage = "event", NEW d \in Detectors
               PROVE  LET signal == Signal(d)
                      IN  /\ \A p \in Pixels : IsSeed(ElectronsIn(signal, p, theAlgoMap[d])) => p \in Clustered(d)
                          /\ \A i \in DOMAIN clusters[d] :
                               /\ IsSeed(ElectronsIn(signal, clusters[d][i][1].pixel, theAlgoMap[d]))
                               /\ \A k \in DOMAIN clusters[d][i] :
                                    LET e == ElectronsIn(signal, clusters[d][i][k].pixel, theAlgoMap[d])
                                    IN  IsLit(e) /\ clusters[d][i][k].adc = e % 65536
    BY DEF ClustersShowTheEvent
  <2> DEFINE signal == Signal(d)
             dead == theAlgoMap[d]
             digis == theDigiVector[d]
             cs == clusters[d]
             E(p) == ElectronsIn(signal, p, dead)
  <2>1. /\ IsPartial(digis) /\ digis = Expected(d) /\ cs \in Seq(Cluster)
        /\ ClustersAre(cs, digis) /\ SeedsAreIn(InClusters(cs), digis)
    BY DEF PixelInv, TypeInv, DigisInv, ClustersInv, Digitizing
  <2>2. Clustered(d) = InClusters(cs)
    BY DEF Clustered, InClusters
  <2>3. ASSUME NEW p \in Pixels
        PROVE  E(p) = IF p \in DOMAIN digis THEN Calibrate(digis[p]) ELSE 0
    <3>1. CASE d \in DOMAIN SimHitMap
      <4> DEFINE S == {q \in Pixels : HasDigi(signal, q, dead)}
      <4>1. digis = [q \in S |-> ADC(signal[q])]
        BY <2>1, <3>1 DEF Expected, Digis
      <4>2. p \in S <=> HasDigi(signal, p, dead)
        OBVIOUS
      <4> HIDE DEF S, digis, signal, dead
      <4> QED
        BY <4>1, <4>2 DEF ElectronsIn
    <3>2. CASE d \notin DOMAIN SimHitMap
      <4>1. DOMAIN digis = {}
        BY <2>1, <3>2, EmptyCases DEF Expected
      <4>2. signal[p] = 0
        BY <3>2 DEF Signal
      <4>3. ~HasDigi(signal, p, dead)
        <5>1. RPixDummyROCThreshold \in Nat
          BY ParametersAssumption
        <5> HIDE DEF signal
        <5> QED
          BY <4>2, <5>1 DEF HasDigi
      <4> HIDE DEF signal, digis, dead
      <4> QED
        BY <4>1, <4>3 DEF ElectronsIn
    <3> QED
      BY <3>1, <3>2
  <2> HIDE DEF signal, dead, digis, cs, E
  <2>4. ASSUME NEW p \in Pixels, IsSeed(E(p)) PROVE p \in InClusters(cs)
    <3>1. p \in DOMAIN digis /\ E(p) = Calibrate(digis[p])
      BY <2>3, <2>4, SeedsAreLit
    <3> QED
      BY <2>1, <2>4, <3>1 DEF SeedsAreIn
  <2>5. ASSUME NEW i \in DOMAIN cs
        PROVE  /\ IsSeed(E(cs[i][1].pixel))
               /\ \A k \in DOMAIN cs[i] : IsLit(E(cs[i][k].pixel)) /\ cs[i][k].adc = E(cs[i][k].pixel) % 65536
    <3> DEFINE c == cs[i]
    <3>1. c \in Cluster /\ c # <<>> /\ Shows(c, digis)
      BY <2>1, <2>5 DEF ClustersAre
    <3> HIDE DEF c
    <3>2. ASSUME NEW k \in DOMAIN c
          PROVE  /\ c[k].pixel \in Pixels /\ c[k].pixel \in DOMAIN digis
                 /\ IsLit(Calibrate(digis[c[k].pixel])) /\ c[k].adc = Calibrate(digis[c[k].pixel]) % 65536
      <4>1. c[k].pixel \in DOMAIN digis /\ IsLit(Calibrate(digis[c[k].pixel]))
            /\ c[k].adc = Calibrate(digis[c[k].pixel]) % 65536
        BY <3>1, <3>2 DEF Shows
      <4> QED
        BY <2>1, <4>1 DEF IsPartial
    <3>3. \A k \in DOMAIN c : E(c[k].pixel) = Calibrate(digis[c[k].pixel])
      BY <2>3, <3>2
    <3>4. 1 \in DOMAIN c
      BY <3>1, FirstPixel
    <3>5. IsSeed(E(c[1].pixel))
      BY <3>1, <3>3, <3>4 DEF Shows
    <3>6. \A k \in DOMAIN c : IsLit(E(c[k].pixel)) /\ c[k].adc = E(c[k].pixel) % 65536
      BY <3>2, <3>3
    <3> QED
      BY <3>5, <3>6 DEF c
  <2> QED
    BY <2>2, <2>4, <2>5 DEF signal, dead, cs, E
<1> QED
  BY <1>1, PixelsInvariant, PTL

\* There is a hit for each cluster, and it tells whether the cluster touches the
\* edge of the sensor and whether it lies in one chip, if the cluster fits into
\* the offsets it is stored with.
THEOREM HitsDescribe == Spec => []HitsDescribeTheirClusters
<1>1. PixelInv => HitsDescribeTheirClusters
  <2> SUFFICES ASSUME PixelInv, stage = "event", NEW d \in Detectors
               PROVE  /\ Len(hits[d]) = Len(clusters[d])
                      /\ \A i \in DOMAIN clusters[d] :
                           LET ps == PixelsOf(clusters[d][i])
                           IN  (\A p, q \in ps : p.row - q.row <= MAXSPAN /\ p.col - q.col <= MAXSPAN) =>
                                 /\ hits[d][i].isOnEdge <=> \E p \in ps : IsOnEdge(p)
                                 /\ hits[d][i].spanTwoRocs <=> \A k \in ROCs : ~ ps \subseteq InROC(k)
    BY DEF HitsDescribeTheirClusters
  <2> DEFINE cs == clusters[d]
             hs == hits[d]
  <2>1. cs \in Seq(Cluster) /\ IsHits(hs, cs) /\ \A i \in DOMAIN cs : cs[i] # <<>>
    BY DEF PixelInv, TypeInv, HitsInv, ClustersInv, ClustersAre
  <2> HIDE DEF cs, hs
  <2>2. ASSUME NEW i \in DOMAIN cs,
               \A p, q \in PixelsOf(cs[i]) : p.row - q.row <= MAXSPAN /\ p.col - q.col <= MAXSPAN
        PROVE  /\ hs[i].isOnEdge <=> \E p \in PixelsOf(cs[i]) : IsOnEdge(p)
               /\ hs[i].spanTwoRocs <=> \A k \in ROCs : ~ PixelsOf(cs[i]) \subseteq InROC(k)
    <3> DEFINE c == cs[i]
    <3>1. c \in Cluster /\ c # <<>> /\ hs[i] = MakeHit(c)
      BY <2>1, <2>2 DEF IsHits
    <3>2. \A p, q \in PixelsOf(c) : p.row - q.row <= MAXSPAN /\ p.col - q.col <= MAXSPAN
      BY <2>2
    <3> HIDE DEF c
    <3>3. /\ OnEdge(c) <=> \E p \in PixelsOf(c) : IsOnEdge(p)
          /\ SpansTwoRocs(c) <=> \A k \in ROCs : ~ PixelsOf(c) \subseteq InROC(k)
      BY <3>1, <3>2, HitDescribesItsCluster
    <3>4. hs[i].isOnEdge = OnEdge(c) /\ hs[i].spanTwoRocs = SpansTwoRocs(c)
      BY <3>1 DEF MakeHit
    <3> QED
      BY <3>3, <3>4 DEF c
  <2> QED
    BY <2>1, <2>2 DEF IsHits, cs, hs
<1> QED
  BY <1>1, PixelsInvariant, PTL

=============================================================================
