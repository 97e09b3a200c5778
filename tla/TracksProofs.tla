----------------------------- MODULE TracksProofs -----------------------------
(***************************************************************************)
(* Proofs about the tracks of an event: the transport of protons before     *)
(* Geant4, and what SimTrackManager keeps of the tracks, for any number of  *)
(* particles, tracks, secondaries and events.                               *)
(***************************************************************************)
EXTENDS SimTrackManager, HectorTransport, TrackSteps, FiniteSetTheorems, SequenceTheorems,
        WellFoundedInduction, TLAPS

-----------------------------------------------------------------------------
(* The least of some numbers, counting up, and recursion.                    *)

LEMMA LeastNat ==
  ASSUME NEW T, T \subseteq Nat, T # {}
  PROVE  \E x \in T : \A y \in T : x <= y
<1> DEFINE R == {ss \in Nat \X Nat : ss[1] < ss[2]}
<1>1. IsWellFoundedOn(R, Nat)
  BY NatLessThanWellFounded, Zenon DEF OpToRel
<1>2. \E x \in T : \A y \in T : ~(<<y, x>> \in R)
  <2> HIDE DEF R
  <2> QED
    BY <1>1, WFMin, Zenon
<1>3. PICK x \in T : \A y \in T : ~(<<y, x>> \in R)
  BY <1>2
<1>4. ASSUME NEW y \in T PROVE x <= y
  <2>1. <<y, x>> \in Nat \X Nat
    OBVIOUS
  <2>2. ~(y < x)
    BY <1>3, <2>1
  <2> QED
    BY <2>2
<1> QED
  BY <1>4

LEMMA CountUp ==
  ASSUME NEW L \in Nat, NEW A, 0 \in A, \A n \in 1 .. L : n - 1 \in A => n \in A
  PROVE  \A n \in 0 .. L : n \in A
<1> DEFINE Bad == {n \in 0 .. L : n \notin A}
<1>1. SUFFICES ASSUME Bad # {} PROVE FALSE
  OBVIOUS
<1>2. Bad \subseteq Nat
  OBVIOUS
<1>3. PICK n \in Bad : \A m \in Bad : n <= m
  <2> HIDE DEF Bad
  <2> QED
    BY <1>1, <1>2, LeastNat
<1>4. n \in 0 .. L /\ n \notin A /\ n # 0
  OBVIOUS
<1>5. n - 1 \in 0 .. L /\ n - 1 < n /\ n \in 1 .. L
  BY <1>4
<1>6. n - 1 \notin Bad
  <2> HIDE DEF Bad
  <2> QED
    BY <1>3, <1>4, <1>5
<1> QED
  BY <1>4, <1>5, <1>6

\* There is a function of the numbers to L that starts at base and goes on by step.
Recurses(L, S, base, step) ==
  \E f \in [0 .. L -> S] : f[0] = base /\ \A n \in 1 .. L : f[n] = step[<<n, f[n - 1]>>]

LEMMA RecursionExists ==
  ASSUME NEW L \in Nat, NEW S, NEW base \in S, NEW step \in [(1 .. L) \X S -> S]
  PROVE  Recurses(L, S, base, step)
<1> DEFINE Computes(f, n) == f \in [0 .. n -> S] /\ f[0] = base /\ \A i \in 1 .. n : f[i] = step[<<i, f[i - 1]>>]
           A == {n \in 0 .. L : \E f : Computes(f, n)}
<1>1. 0 \in A
  <2>1. Computes([i \in 0 .. 0 |-> base], 0) /\ 0 \in 0 .. L
    OBVIOUS
  <2> HIDE DEF Computes
  <2> QED
    BY <2>1
<1>2. ASSUME NEW n \in 1 .. L, n - 1 \in A PROVE n \in A
  <2>1. PICK f : Computes(f, n - 1)
    BY <1>2
  <2> DEFINE prev == f[n - 1]
             next == step[<<n, prev>>]
             g == [i \in 0 .. n |-> IF i = n THEN next ELSE f[i]]
  <2>2. n - 1 \in 0 .. n - 1 /\ n \in Nat /\ n >= 1 /\ n \in 0 .. L
    OBVIOUS
  <2>3. prev \in S
    BY <2>1, <2>2
  <2>4. <<n, prev>> \in (1 .. L) \X S
    <3> HIDE DEF prev
    <3> QED
      BY <2>3
  <2>5. next \in S
    <3> HIDE DEF prev
    <3> QED
      BY <2>4
  <2> HIDE DEF next
  <2>6. g \in [0 .. n -> S]
    <3>1. ASSUME NEW i \in 0 .. n PROVE (IF i = n THEN next ELSE f[i]) \in S
      <4>1. i = n \/ i \in 0 .. n - 1
        BY <2>2
      <4> QED
        BY <2>1, <2>5, <4>1
    <3> QED
      BY <3>1
  <2>7. g[0] = base
    BY <2>1, <2>2
  <2>8. ASSUME NEW i \in 1 .. n PROVE g[i] = step[<<i, g[i - 1]>>]
    <3>1. i \in 0 .. n /\ i - 1 \in 0 .. n /\ i - 1 # n /\ (i = n \/ i \in 1 .. n - 1)
      BY <2>2
    <3>2. g[i - 1] = f[i - 1]
      BY <3>1
    <3>3. CASE i = n
      <4>1. g[i] = next
        BY <3>1, <3>3
      <4> QED
        BY <3>2, <3>3, <4>1 DEF next
    <3>4. CASE i # n
      <4>1. g[i] = f[i] /\ i \in 1 .. n - 1
        BY <3>1, <3>4
      <4>2. f[i] = step[<<i, f[i - 1]>>]
        BY <2>1, <4>1
      <4> HIDE DEF g
      <4> QED
        BY <3>2, <4>1, <4>2
    <3> QED
      BY <3>3, <3>4
  <2>9. Computes(g, n)
    <3> HIDE DEF g
    <3> QED
      BY <2>6, <2>7, <2>8
  <2> HIDE DEF Computes
  <2> QED
    BY <2>2, <2>9
<1>3. L \in A
  <2> HIDE DEF A
  <2>1. \A n \in 0 .. L : n \in A
    BY <1>1, <1>2, CountUp
  <2>2. L \in 0 .. L
    OBVIOUS
  <2> QED
    BY <2>1, <2>2
<1> QED
  BY <1>3 DEF Recurses

-----------------------------------------------------------------------------
(* Elements of a finite set of integers by their rank.                       *)

Below(S, i) == {j \in S : j < i}

LEMMA RankGrows ==
  ASSUME NEW S, S \subseteq Int, IsFiniteSet(S), NEW i \in S
  PROVE  /\ IsFiniteSet(Below(S, i)) /\ Cardinality(Below(S, i)) \in 0 .. Cardinality(S) - 1
         /\ \A j \in S : j < i => Cardinality(Below(S, j)) < Cardinality(Below(S, i))
<1>1. \A j \in S : /\ IsFiniteSet(Below(S, j)) /\ Cardinality(Below(S, j)) \in Nat
                   /\ IsFiniteSet(Below(S, j) \cup {j})
                   /\ Cardinality(Below(S, j) \cup {j}) = Cardinality(Below(S, j)) + 1
  <2> TAKE j \in S
  <2>1. Below(S, j) \in SUBSET S /\ j \notin Below(S, j)
    BY DEF Below
  <2>2. IsFiniteSet(Below(S, j))
    BY <2>1, FS_Subset
  <2> QED
    BY <2>1, <2>2, FS_AddElement, FS_CardinalityType
<1>2. Cardinality(Below(S, i)) + 1 <= Cardinality(S)
  <2>1. Below(S, i) \cup {i} \in SUBSET S
    BY DEF Below
  <2>2. Cardinality(Below(S, i) \cup {i}) <= Cardinality(S)
    BY <2>1, FS_Subset
  <2> QED
    BY <1>1, <2>2
<1>3. ASSUME NEW j \in S, j < i PROVE Cardinality(Below(S, j)) < Cardinality(Below(S, i))
  <2>1. Below(S, j) \cup {j} \in SUBSET Below(S, i)
    <3>1. \A x \in S : x \in Int
      OBVIOUS
    <3>2. \A x \in S : x < j => x < i
      BY <1>3, <3>1
    <3> QED
      BY <1>3, <3>2 DEF Below
  <2>2. Cardinality(Below(S, j) \cup {j}) <= Cardinality(Below(S, i))
    BY <1>1, <2>1, FS_Subset
  <2>3. Cardinality(Below(S, j) \cup {j}) = Cardinality(Below(S, j)) + 1
    BY <1>1
  <2>4. Cardinality(Below(S, i)) \in Nat /\ Cardinality(Below(S, j)) \in Nat
    BY <1>1
  <2> QED
    BY <2>2, <2>3, <2>4
<1>4. Cardinality(S) \in Nat
  BY FS_CardinalityType
<1>5. IsFiniteSet(Below(S, i)) /\ Cardinality(Below(S, i)) \in Nat
  BY <1>1
<1>6. Cardinality(Below(S, i)) \in 0 .. Cardinality(S) - 1
  BY <1>2, <1>4, <1>5
<1> QED
  BY <1>3, <1>5, <1>6, Zenon

\* For every rank there is exactly one element.
LEMMA RankIsOnce ==
  ASSUME NEW S, S \subseteq Int, IsFiniteSet(S)
  PROVE  /\ \A i, j \in S : Cardinality(Below(S, i)) = Cardinality(Below(S, j)) => i = j
         /\ \A k \in 1 .. Cardinality(S) : \E i \in S : Cardinality(Below(S, i)) = k - 1
<1> DEFINE n == Cardinality(S)
           T == 0 .. n - 1
           rank == [i \in S |-> Cardinality(Below(S, i))]
<1>1. n \in Nat
  BY FS_CardinalityType
<1>2. \A i, j \in S : Cardinality(Below(S, i)) = Cardinality(Below(S, j)) => i = j
  <2> TAKE i, j \in S
  <2>1. i < j \/ j < i \/ i = j
    OBVIOUS
  <2>2. /\ Cardinality(Below(S, i)) \in Int /\ Cardinality(Below(S, j)) \in Int
        /\ i < j => Cardinality(Below(S, i)) < Cardinality(Below(S, j))
        /\ j < i => Cardinality(Below(S, j)) < Cardinality(Below(S, i))
    <3>1. Cardinality(Below(S, i)) \in 0 .. Cardinality(S) - 1
      BY RankGrows
    <3>2. Cardinality(Below(S, j)) \in 0 .. Cardinality(S) - 1
      BY RankGrows
    <3>3. i < j => Cardinality(Below(S, i)) < Cardinality(Below(S, j))
      BY RankGrows
    <3>4. j < i => Cardinality(Below(S, j)) < Cardinality(Below(S, i))
      BY RankGrows
    <3> QED
      BY <3>1, <3>2, <3>3, <3>4
  <2> QED
    BY <2>1, <2>2
<1>3. IsFiniteSet(T) /\ Cardinality(T) = n
  BY <1>1, FS_Interval, SMTT(30)
<1>4. rank \in Injection(S, T)
  <2>1. \A i \in S : Cardinality(Below(S, i)) \in T
    BY RankGrows
  <2> HIDE DEF T
  <2> QED
    BY <1>2, <2>1 DEF Injection, IsInjective
<1>5. rank \in Surjection(S, T)
  <2> HIDE DEF rank, T
  <2> QED
    BY <1>3, <1>4, FS_Injection
<1>6. ASSUME NEW k \in 1 .. n PROVE \E i \in S : Cardinality(Below(S, i)) = k - 1
  <2>1. k - 1 \in T
    BY <1>1
  <2> HIDE DEF T
  <2> QED
    BY <1>5, <2>1 DEF Surjection
<1> QED
  BY <1>2, <1>6

\* InOrder lists the elements of a set, each once, in ascending order.
LEMMA InOrderLists ==
  ASSUME NEW S, S \subseteq Int, IsFiniteSet(S)
  PROVE  /\ InOrder(S) \in Seq(S) /\ Len(InOrder(S)) = Cardinality(S) /\ Cardinality(S) \in Nat
         /\ InOrder(S) \in [1 .. Cardinality(S) -> S]
         /\ \A i \in S : \E k \in 1 .. Cardinality(S) : InOrder(S)[k] = i
         /\ \A k, l \in 1 .. Cardinality(S) : k < l => InOrder(S)[k] < InOrder(S)[l]
<1> DEFINE n == Cardinality(S)
           s == InOrder(S)
<1>1. n \in Nat
  BY FS_CardinalityType
<1>2. ASSUME NEW k \in 1 .. n PROVE s[k] \in S /\ Cardinality(Below(S, s[k])) = k - 1
  <2> DEFINE Ranked(i) == Cardinality({j \in S : j < i}) = k - 1
  <2>1. s[k] = CHOOSE i \in S : Ranked(i)
    BY Zenon DEF InOrder
  <2>2. \A i \in S : Ranked(i) <=> Cardinality(Below(S, i)) = k - 1
    BY DEF Below
  <2>3. \E i \in S : Cardinality(Below(S, i)) = k - 1
    BY RankIsOnce
  <2> HIDE DEF Ranked, s
  <2> QED
    BY <2>1, <2>2, <2>3
<1>3. s \in [1 .. n -> S]
  <2> DEFINE Entry(k) == CHOOSE i \in S : Cardinality({j \in S : j < i}) = k - 1
  <2>1. s = [k \in 1 .. n |-> Entry(k)]
    BY Zenon DEF InOrder
  <2> HIDE DEF s, Entry, n
  <2> QED
    BY <1>2, <2>1
<1>4. ASSUME NEW i \in S PROVE \E k \in 1 .. n : s[k] = i
  <2>1. PICK k \in 1 .. n : Cardinality(Below(S, i)) = k - 1
    <3>1. Cardinality(Below(S, i)) \in 0 .. n - 1
      BY RankGrows
    <3>2. Cardinality(Below(S, i)) + 1 \in 1 .. n
      BY <1>1, <3>1
    <3>3. (Cardinality(Below(S, i)) + 1) - 1 = Cardinality(Below(S, i))
      BY <3>1
    <3> HIDE DEF n
    <3> QED
      BY <3>2, <3>3
  <2> QED
    BY <1>2, <2>1, RankIsOnce
<1>5. ASSUME NEW k \in 1 .. n, NEW l \in 1 .. n, k < l PROVE s[k] < s[l]
  <2>1. s[k] \in Int /\ s[l] \in Int /\ s[l] \in S /\ s[k] \in S
    BY <1>2
  <2>2. Cardinality(Below(S, s[k])) < Cardinality(Below(S, s[l]))
    BY <1>2, <1>5
  <2>3. s[l] < s[k] => Cardinality(Below(S, s[l])) < Cardinality(Below(S, s[k]))
    BY <2>1, RankGrows
  <2>4. s[l] # s[k]
    BY <2>2, <1>2
  <2>5. Cardinality(Below(S, s[k])) \in Int /\ Cardinality(Below(S, s[l])) \in Int
    BY <1>2
  <2> HIDE DEF s
  <2> QED
    BY <2>1, <2>2, <2>3, <2>4, <2>5
<1>6. s \in Seq(S) /\ Len(s) = n
  <2> HIDE DEF s
  <2> QED
    BY <1>1, <1>3
<1> HIDE DEF s
<1> QED
  BY <1>1, <1>3, <1>4, <1>5, <1>6 DEF s

-----------------------------------------------------------------------------
(* The transport of protons.                                                 *)

USE TransportAssumption

IsHector(h) ==
  h = [beamPart |-> h.beamPart, direct |-> h.direct, isStopped |-> h.isStopped,
       atTrPoint |-> h.atTrPoint]

\* The generator's event e.
IsGenerated(evt, e) ==
  /\ evt = [i \in 1 .. Len(evt) |-> evt[i]] /\ Len(evt) \in Nat
  /\ \A i \in 1 .. Len(evt) :
       /\ evt[i] = [status |-> evt[i].status, leading |-> evt[i].leading, side |-> evt[i].side,
                    from |-> <<e, i>>]
       /\ evt[i].status \in {1, 2} /\ evt[i].side \in {1, -1} /\ evt[i].leading \in BOOLEAN

\* Each link leads from a leading proton, which is no more for Geant4, to its
\* successor, all else is as generated.
IsTransported(evt, e, transport, lhc, links) ==
  /\ Len(evt) \in Nat /\ Len(links) \in Nat
  /\ DOMAIN links = 1 .. Len(links) /\ DOMAIN lhc = 1 .. Len(evt) + Len(links)
  /\ \A k \in 1 .. Len(links) :
       /\ links[k].before \in 1 .. Len(evt) /\ links[k].after = Len(evt) + k
       /\ lhc[links[k].before].status = 2 /\ evt[links[k].before].status = 1
       /\ lhc[Len(evt) + k].status = 1 /\ lhc[Len(evt) + k].from = <<e, links[k].before>>
  /\ \A k, l \in 1 .. Len(links) : links[k].before = links[l].before => k = l
  /\ \A i \in 1 .. Len(evt) :
       /\ lhc[i].from = <<e, i>>
       /\ lhc[i].status = 1 => evt[i].status = 1
       /\ evt[i].status = 1 /\ lhc[i].status # 1 =>
            evt[i].leading /\ transport

\* No particle is in Hector between two events, unless the job transports and
\* starts the next event by clearing it.
TransportInv ==
  /\ beamJob \in TransportJobs /\ genEvents \in Nat
  /\ beamPhase \in {"idle", "transported", "simulated"}
  /\ IsHector(hector)
  /\ ~beamJob.CTPPSTransport => hector.beamPart = Nowhere
  /\ beamPhase = "transported" =>
       /\ IsGenerated(genEvent, genEvents)
       /\ IsTransported(genEvent, genEvents, beamJob.CTPPSTransport, lhcEvent, lhcLinks)
  /\ PrimariesAreTraced

LEMMA GeneratedEvents ==
  ASSUME NEW n \in Nat, NEW particles \in [1 .. n -> GenParticles], NEW e
  PROVE  IsGenerated(Generated(particles, e), e) /\ Len(Generated(particles, e)) = n
<1> DEFINE evt == Generated(particles, e)
<1>1. evt = [i \in 1 .. n |-> [particles[i] EXCEPT !.from = <<e, i>>]]
  BY DEF Generated
<1>2. ASSUME NEW i \in 1 .. n
      PROVE  /\ evt[i] = [status |-> evt[i].status, leading |-> evt[i].leading,
                          side |-> evt[i].side, from |-> <<e, i>>]
             /\ evt[i].status \in {1, 2} /\ evt[i].side \in {1, -1} /\ evt[i].leading \in BOOLEAN
  <2>1. particles[i] \in [status : {1, 2}, leading : BOOLEAN, side : {1, -1}, from : {<<0, 0>>}]
    BY DEF GenParticles
  <2>2. evt[i] = [particles[i] EXCEPT !.from = <<e, i>>]
    BY <1>1
  <2> HIDE DEF evt
  <2> QED
    BY <2>1, <2>2
<1>3. DOMAIN evt = 1 .. n
  BY <1>1
<1>4. evt = [i \in 1 .. n |-> evt[i]]
  BY <1>1, <1>3
<1>5. Len(evt) = n
  BY <1>1
<1> HIDE DEF evt
<1>6. IsGenerated(evt, e)
  BY <1>2, <1>4, <1>5 DEF IsGenerated
<1> QED
  BY <1>5, <1>6 DEF evt

\* Before Hector takes the particles of an event there is none in it.
LEMMA OpenedIsEmpty ==
  ASSUME TransportInv
  PROVE  IsHector(Opened) /\ Opened.beamPart = Nowhere /\ Opened.isStopped = Nowhere
<1>1. beamJob.CTPPSTransport \in BOOLEAN
  BY DEF TransportInv
<1>2. hector = [beamPart |-> hector.beamPart, direct |-> hector.direct,
                isStopped |-> hector.isStopped, atTrPoint |-> hector.atTrPoint]
  BY DEF TransportInv, IsHector
<1>3. CASE beamJob.CTPPSTransport
  BY <1>2, <1>3 DEF Opened, Clear, ClearApertureFlags, IsHector
<1>4. CASE ~beamJob.CTPPSTransport
  BY <1>2, <1>4 DEF Opened, Clear, ClearApertureFlags, IsHector, TransportInv
<1> QED
  BY <1>1, <1>3, <1>4
\* What Hector holds are leading protons of the event.
HoldsLeading(h, evt) ==
  /\ \A i \in DOMAIN h.beamPart : i \in 1 .. Len(evt) /\ evt[i].status = 1 /\ evt[i].leading
  /\ \A i \in DOMAIN h.beamPart : ~h.isStopped[i] => h.atTrPoint[i] = evt[i].from

LEMMA AddFirstTakesLeading ==
  ASSUME NEW h, IsHector(h), h.beamPart = Nowhere, NEW evt, NEW n
  PROVE  LET f == AddFirst(h, evt, n)
         IN /\ IsHector(f) /\ f.isStopped = h.isStopped
            /\ DOMAIN f.beamPart = {i \in 1 .. n : evt[i].status = 1 /\ evt[i].leading}
            /\ \A i \in DOMAIN f.beamPart : f.beamPart[i] = evt[i].from
<1> DEFINE lines == {i \in 1 .. n : /\ evt[i].status = 1 /\ evt[i].leading
                                    /\ i \notin DOMAIN h.beamPart}
           f == AddFirst(h, evt, n)
           parts == [i \in DOMAIN h.beamPart \cup lines |-> IF i \in lines THEN evt[i].from ELSE h.beamPart[i]]
           sides == [i \in DOMAIN h.direct \cup lines |-> IF i \in lines THEN evt[i].side ELSE h.direct[i]]
<1>1. f = [h EXCEPT !.beamPart = parts, !.direct = sides]
  BY DEF AddFirst
<1>2. f = [beamPart |-> parts, direct |-> sides, isStopped |-> h.isStopped, atTrPoint |-> h.atTrPoint]
  <2> HIDE DEF f, parts, sides
  <2> QED
    BY <1>1 DEF IsHector
<1>3. DOMAIN h.beamPart = {}
  BY DEF Nowhere
<1>4. lines = {i \in 1 .. n : evt[i].status = 1 /\ evt[i].leading}
  BY <1>3
<1>5. DOMAIN parts = lines /\ \A i \in lines : parts[i] = evt[i].from
  <2> HIDE DEF lines
  <2> QED
    BY <1>3
<1> HIDE DEF f, parts, sides, lines
<1>6. /\ IsHector(f) /\ f.isStopped = h.isStopped
      /\ DOMAIN f.beamPart = lines /\ \A i \in DOMAIN f.beamPart : f.beamPart[i] = evt[i].from
  BY <1>2, <1>5 DEF IsHector
<1> QED
  BY <1>4, <1>6 DEF f

LEMMA FilterKeepsLeading ==
  ASSUME NEW f, IsHector(f), NEW evt, NEW stopped,
         DOMAIN f.beamPart = {i \in 1 .. Len(evt) : evt[i].status = 1 /\ evt[i].leading},
         \A i \in DOMAIN f.beamPart : f.beamPart[i] = evt[i].from
  PROVE  IsHector(FilterCTPPS(f, stopped)) /\ HoldsLeading(FilterCTPPS(f, stopped), evt)
<1> DEFINE lines == DOMAIN f.beamPart
           alive == {i \in lines : i \notin stopped}
           flags == [i \in DOMAIN f.isStopped \cup lines |-> IF i \in lines THEN i \in stopped ELSE f.isStopped[i]]
           there == [i \in DOMAIN f.atTrPoint \cup alive |-> IF i \in alive THEN f.beamPart[i] ELSE f.atTrPoint[i]]
           h == FilterCTPPS(f, stopped)
<1>1. h = [f EXCEPT !.isStopped = flags, !.atTrPoint = there]
  BY DEF FilterCTPPS
<1>2. h = [beamPart |-> f.beamPart, direct |-> f.direct, isStopped |-> flags, atTrPoint |-> there]
  <2> HIDE DEF h, flags, there
  <2> QED
    BY <1>1 DEF IsHector
<1>3. \A i \in lines : flags[i] = (i \in stopped)
  OBVIOUS
<1>4. \A i \in lines : i \notin stopped => there[i] = f.beamPart[i]
  OBVIOUS
<1> HIDE DEF h, flags, there, alive
<1>5. HoldsLeading(h, evt)
  BY <1>2, <1>3, <1>4 DEF HoldsLeading
<1>6. IsHector(h)
  BY <1>2 DEF IsHector
<1> QED
  BY <1>5, <1>6 DEF h

\* The protons carried, in the order of their barcodes.
LEMMA CarriedInOrder ==
  ASSUME NEW h, NEW evt, NEW e, IsGenerated(evt, e)
  PROVE  LET m == Cardinality(Carried(h, evt))
         IN /\ m \in Nat
            /\ \A k \in 1 .. m : Nth(k, h, evt) \in Carried(h, evt)
            /\ \A k, l \in 1 .. m : Nth(k, h, evt) = Nth(l, h, evt) => k = l
<1> DEFINE C == Carried(h, evt)
           m == Cardinality(C)
<1>1. C \in SUBSET (1 .. Len(evt)) /\ Len(evt) \in Nat /\ IsFiniteSet(1 .. Len(evt))
  <2>1. Len(evt) \in Nat /\ DOMAIN evt = 1 .. Len(evt)
    BY DEF IsGenerated
  <2>2. IsFiniteSet(1 .. Len(evt))
    BY <2>1, FS_Interval
  <2> QED
    BY <2>1, <2>2 DEF Carried
<1>2. C \subseteq Int /\ IsFiniteSet(C)
  <2> HIDE DEF C
  <2>1. IsFiniteSet(C)
    BY <1>1, FS_Subset
  <2>2. C \subseteq Int
    BY <1>1
  <2> QED
    BY <2>1, <2>2
<1>3. ASSUME NEW k \in 1 .. m
      PROVE  Nth(k, h, evt) \in C /\ Cardinality(Below(C, Nth(k, h, evt))) = k - 1
  <2> DEFINE Ranked(i) == Cardinality({j \in Carried(h, evt) : j < i}) = k - 1
  <2>1. Nth(k, h, evt) = CHOOSE i \in C : Ranked(i)
    BY Zenon DEF Nth
  <2>2. \A i \in C : Ranked(i) <=> Cardinality(Below(C, i)) = k - 1
    BY DEF Below
  <2>3. \E i \in C : Cardinality(Below(C, i)) = k - 1
    <3> HIDE DEF C
    <3> QED
      BY <1>2, RankIsOnce
  <2> HIDE DEF Ranked, C
  <2> QED
    BY <2>1, <2>2, <2>3
<1>4. m \in Nat
  BY <1>2, FS_CardinalityType
<1> HIDE DEF C
<1>5. ASSUME NEW k \in 1 .. m, NEW l \in 1 .. m, Nth(k, h, evt) = Nth(l, h, evt) PROVE k = l
  BY <1>3, <1>4, <1>5
<1> QED
  BY <1>3, <1>4, <1>5 DEF C

LEMMA EventIsTransported ==
  ASSUME NEW h, NEW evt, NEW e, IsGenerated(evt, e), HoldsLeading(h, evt),
         beamJob.CTPPSTransport \/ DOMAIN h.beamPart = {}
  PROVE  IsTransported(evt, e, beamJob.CTPPSTransport, AddPartToHepMC(h, evt), Correspondence(h, evt))
<1> DEFINE C == Carried(h, evt)
           m == Cardinality(C)
           n == Len(evt)
           lhc == AddPartToHepMC(h, evt)
           links == Correspondence(h, evt)
           nth(k) == Nth(k, h, evt)
<1>1. /\ m \in Nat /\ \A k \in 1 .. m : nth(k) \in C
      /\ \A k, l \in 1 .. m : nth(k) = nth(l) => k = l
  BY CarriedInOrder
<1>2. n \in Nat /\ DOMAIN evt = 1 .. n
  BY DEF IsGenerated
<1>3. \A i \in C : i \in 1 .. n /\ i \in DOMAIN h.beamPart /\ ~h.isStopped[i]
  BY <1>2 DEF Carried
<1>4. links = [k \in 1 .. m |-> [before |-> nth(k), after |-> n + k]]
  BY DEF Correspondence
<1>5. DOMAIN links = 1 .. m /\ Len(links) = m
      /\ \A k \in 1 .. m : links[k].before = nth(k) /\ links[k].after = n + k
  <2> HIDE DEF links, nth, m, n
  <2> QED
    BY <1>1, <1>4
<1> DEFINE successor(i) == [evt[i] EXCEPT !.status = 1, !.from = h.atTrPoint[i]]
<1>6. lhc = [i \in 1 .. n + m |->
               IF i > n THEN successor(nth(i - n))
               ELSE IF i \in Consumed(h, evt) THEN [evt[i] EXCEPT !.status = 2] ELSE evt[i]]
  BY DEF AddPartToHepMC
<1>7. ASSUME NEW i \in C
      PROVE  /\ successor(i).status = 1 /\ successor(i).from = <<e, i>> /\ i \in Consumed(h, evt)
             /\ evt[i].status = 1
  <2>1. evt[i] = [status |-> evt[i].status, leading |-> evt[i].leading, side |-> evt[i].side,
                  from |-> <<e, i>>]
    BY <1>3 DEF IsGenerated
  <2>2. h.atTrPoint[i] = evt[i].from /\ evt[i].status = 1
    BY <1>3 DEF HoldsLeading
  <2>3. evt[i].from = <<e, i>>
    BY <2>1
  <2>4. i \in Consumed(h, evt)
    BY DEF Consumed
  <2> QED
    BY <2>1, <2>2, <2>3, <2>4
<1>8. ASSUME NEW i \in 1 .. n
      PROVE  /\ lhc[i].from = <<e, i>>
             /\ lhc[i].status = IF i \in Consumed(h, evt) THEN 2 ELSE evt[i].status
  <2>1. evt[i] = [status |-> evt[i].status, leading |-> evt[i].leading, side |-> evt[i].side,
                  from |-> <<e, i>>]
    BY DEF IsGenerated
  <2>2. lhc[i] = IF i \in Consumed(h, evt) THEN [evt[i] EXCEPT !.status = 2] ELSE evt[i]
    <3> HIDE DEF lhc, successor, nth, m
    <3> QED
      BY <1>1, <1>2, <1>6
  <2> HIDE DEF lhc
  <2> QED
    BY <2>1, <2>2
<1>9. ASSUME NEW k \in 1 .. m
      PROVE  lhc[n + k].status = 1 /\ lhc[n + k].from = <<e, nth(k)>>
  <2>1. lhc[n + k] = successor(nth((n + k) - n))
    <3> HIDE DEF lhc, successor, nth, m, n
    <3> QED
      BY <1>1, <1>2, <1>6
  <2>2. (n + k) - n = k
    BY <1>1, <1>2
  <2>3. lhc[n + k] = successor(nth(k))
    BY <2>1, <2>2
  <2> HIDE DEF lhc, successor, nth, m, n, C
  <2> QED
    BY <1>1, <1>7, <2>3
<1>10. ASSUME NEW i \in Consumed(h, evt)
       PROVE  evt[i].leading /\ beamJob.CTPPSTransport
  BY DEF Consumed, Carried, HoldsLeading
<1>11. DOMAIN lhc = 1 .. n + m
  BY <1>6
<1> HIDE DEF lhc, links, nth, m, C, successor
<1>12. ASSUME NEW k \in 1 .. m
       PROVE  /\ links[k].before \in 1 .. n /\ links[k].after = n + k
              /\ lhc[links[k].before].status = 2 /\ evt[links[k].before].status = 1
              /\ lhc[n + k].status = 1 /\ lhc[n + k].from = <<e, links[k].before>>
  <2>1. nth(k) \in C /\ links[k].before = nth(k)
    BY <1>1, <1>5
  <2>2. nth(k) \in Consumed(h, evt) /\ evt[nth(k)].status = 1 /\ nth(k) \in 1 .. n
    BY <1>3, <1>7, <2>1
  <2> HIDE DEF n
  <2> QED
    BY <1>5, <1>8, <1>9, <2>1, <2>2
<1>13. \A k, l \in 1 .. m : links[k].before = links[l].before => k = l
  BY <1>1, <1>5
<1>14. ASSUME NEW i \in 1 .. n
       PROVE  /\ lhc[i].status = 1 => evt[i].status = 1
              /\ evt[i].status = 1 /\ lhc[i].status # 1 =>
                   evt[i].leading /\ beamJob.CTPPSTransport
  BY <1>8, <1>10
<1>15. IsTransported(evt, e, beamJob.CTPPSTransport, lhc, links)
  BY <1>1, <1>2, <1>5, <1>8, <1>11, <1>12, <1>13, <1>14 DEF IsTransported
<1> QED
  BY <1>15 DEF lhc, links

LEMMA NewEventIsGenerated ==
  ASSUME TransportInv, NewGenEvent
  PROVE  /\ genEvents' = genEvents + 1 /\ genEvents' \in Nat
         /\ IsGenerated(genEvent', genEvents + 1)
<1>1. genEvents' = genEvents + 1 /\ genEvents' \in Nat
  BY DEF NewGenEvent, TransportInv
<1>2. PICK n \in 1 .. MaxParticles : \E particles \in [1 .. n -> GenParticles] :
        genEvent' = Generated(particles, genEvents + 1)
  BY DEF NewGenEvent
<1>3. PICK particles \in [1 .. n -> GenParticles] : genEvent' = Generated(particles, genEvents + 1)
  BY <1>2
<1>4. n \in Nat
  OBVIOUS
<1>5. IsGenerated(Generated(particles, genEvents + 1), genEvents + 1)
  BY <1>4, GeneratedEvents
<1> QED
  BY <1>1, <1>3, <1>5

LEMMA ProduceKeeps == ASSUME TransportInv, Produce PROVE TransportInv'
<1> DEFINE evt == genEvent'
           e == genEvents'
<1>1. e \in Nat /\ IsGenerated(evt, e) /\ e = genEvents + 1
  BY NewEventIsGenerated DEF Produce
<1>2. PICK stopped :
        \E h \in {IF beamJob.CTPPSTransport
                  THEN FilterCTPPS(AddFirst(Opened, evt, Len(evt)), stopped) ELSE Opened} :
          /\ lhcEvent' = AddPartToHepMC(h, evt) /\ lhcLinks' = Correspondence(h, evt)
          /\ hector' = Clear(h)
  BY DEF Produce
<1>3. PICK h : /\ h = IF beamJob.CTPPSTransport
                      THEN FilterCTPPS(AddFirst(Opened, evt, Len(evt)), stopped) ELSE Opened
               /\ lhcEvent' = AddPartToHepMC(h, evt) /\ lhcLinks' = Correspondence(h, evt)
               /\ hector' = Clear(h)
  BY <1>2
<1>4. beamJob.CTPPSTransport \in BOOLEAN
  BY DEF TransportInv
<1>5. IsHector(Opened) /\ Opened.beamPart = Nowhere
  BY OpenedIsEmpty
<1>6. /\ IsHector(h) /\ HoldsLeading(h, evt)
      /\ beamJob.CTPPSTransport \/ DOMAIN h.beamPart = {}
  <2>1. CASE beamJob.CTPPSTransport
    <3> DEFINE f == AddFirst(Opened, evt, Len(evt))
    <3>1. /\ IsHector(f)
          /\ DOMAIN f.beamPart = {i \in 1 .. Len(evt) : evt[i].status = 1 /\ evt[i].leading}
          /\ \A i \in DOMAIN f.beamPart : f.beamPart[i] = evt[i].from
      BY <1>5, AddFirstTakesLeading
    <3>2. h = FilterCTPPS(f, stopped)
      BY <1>3, <2>1
    <3> HIDE DEF f
    <3> QED
      BY <2>1, <3>1, <3>2, FilterKeepsLeading
  <2>2. CASE ~beamJob.CTPPSTransport
    <3>1. h = Opened
      BY <1>3, <2>2
    <3>2. DOMAIN h.beamPart = {}
      BY <1>5, <3>1 DEF Nowhere
    <3> QED
      BY <1>5, <3>1, <3>2 DEF HoldsLeading
  <2> QED
    BY <1>4, <2>1, <2>2
<1>7. IsTransported(evt, e, beamJob.CTPPSTransport, lhcEvent', lhcLinks')
  BY <1>1, <1>3, <1>6, EventIsTransported
<1>8. beamJob' = beamJob /\ beamPhase' = "transported"
  BY DEF Produce
<1>9. IsHector(hector') /\ hector'.beamPart = Nowhere
  <2>1. h = [beamPart |-> h.beamPart, direct |-> h.direct, isStopped |-> h.isStopped,
             atTrPoint |-> h.atTrPoint]
    BY <1>6 DEF IsHector
  <2> QED
    BY <1>3, <2>1 DEF Clear, IsHector
<1>10. (IsHector(hector))' /\ (PrimariesAreTraced)'
  BY <1>8, <1>9 DEF IsHector, PrimariesAreTraced
<1>11. (IsTransported(genEvent, genEvents, beamJob.CTPPSTransport, lhcEvent, lhcLinks))'
  BY <1>7, <1>8 DEF IsTransported
<1>12. (IsGenerated(genEvent, genEvents))'
  BY <1>1 DEF IsGenerated
<1> QED
  BY <1>1, <1>8, <1>9, <1>10, <1>11, <1>12 DEF TransportInv

LEMMA RefusesKeeps == ASSUME TransportInv, ProduceRefuses PROVE TransportInv'
<1>1. genEvents' \in Nat
  BY NewEventIsGenerated DEF ProduceRefuses
<1>2. beamJob' = beamJob /\ hector' = hector /\ beamPhase' = "idle"
  BY DEF ProduceRefuses
<1> QED
  BY <1>1, <1>2 DEF TransportInv, IsHector, PrimariesAreTraced

LEMMA ThrowsKeeps == ASSUME TransportInv, ProduceThrows PROVE TransportInv'
<1>1. genEvents' \in Nat
  BY NewEventIsGenerated DEF ProduceThrows
<1>2. beamJob' = beamJob /\ beamPhase' = "idle" /\ beamJob.CTPPSTransport
  BY DEF ProduceThrows
<1>3. PICK n : hector' = AddFirst(Opened, genEvent', n)
  BY DEF ProduceThrows
<1>4. IsHector(hector')
  BY <1>3, OpenedIsEmpty, AddFirstTakesLeading
<1> QED
  BY <1>1, <1>2, <1>4 DEF TransportInv, IsHector, PrimariesAreTraced

\* Which barcode a stable particle names after resetGenID.
LEMMA LinksAreFollowed ==
  ASSUME TransportInv, beamPhase = "transported"
  PROVE  /\ \A i \in 1 .. Len(genEvent) : ResetGenID(i) = i
         /\ \A k \in 1 .. Len(lhcLinks) : ResetGenID(Len(genEvent) + k) = lhcLinks[k].before
<1> DEFINE n == Len(genEvent)
           m == Len(lhcLinks)
<1>1. /\ n \in Nat /\ m \in Nat /\ DOMAIN lhcLinks = 1 .. m
      /\ \A k \in 1 .. m : lhcLinks[k].after = n + k
  BY DEF TransportInv, IsTransported
<1>2. ASSUME NEW i \in 1 .. n PROVE ResetGenID(i) = i
  <2>1. {k \in DOMAIN lhcLinks : lhcLinks[k].after = i} = {}
    <3> HIDE DEF n, m
    <3> QED
      BY <1>1
  <2> QED
    BY <2>1 DEF ResetGenID
<1>3. ASSUME NEW k \in 1 .. m PROVE ResetGenID(n + k) = lhcLinks[k].before
  <2> DEFINE links == {l \in DOMAIN lhcLinks : lhcLinks[l].after = n + k}
  <2>1. links = {k}
    <3> HIDE DEF n, m
    <3> QED
      BY <1>1
  <2>2. (CHOOSE l \in links : \A j \in links : j <= l) = k
    <3> HIDE DEF links
    <3> QED
      BY <1>1, <2>1
  <2>3. links # {}
    BY <2>1
  <2>4. ResetGenID(n + k) = lhcLinks[CHOOSE l \in links : \A j \in links : j <= l].before
    BY <2>3 DEF ResetGenID
  <2> HIDE DEF links
  <2> QED
    BY <2>2, <2>4
<1> QED
  BY <1>2, <1>3

\* A stable particle is one of the generator's, or the successor of one.
LEMMA StableParticles ==
  ASSUME TransportInv, beamPhase = "transported", NEW i \in DOMAIN lhcEvent,
         lhcEvent[i].status = 1
  PROVE  /\ ResetGenID(i) \in 1 .. Len(genEvent)
         /\ genEvent[ResetGenID(i)].status = 1
         /\ lhcEvent[i].from = <<genEvents, ResetGenID(i)>>
         /\ \/ i = ResetGenID(i)
            \/ \E k \in 1 .. Len(lhcLinks) : i = Len(genEvent) + k /\ ResetGenID(i) = lhcLinks[k].before
<1> DEFINE n == Len(genEvent)
           m == Len(lhcLinks)
<1>1. n \in Nat /\ m \in Nat /\ DOMAIN lhcEvent = 1 .. n + m
  BY DEF TransportInv, IsTransported
<1>2. CASE i \in 1 .. n
  <2>1. ResetGenID(i) = i
    BY <1>2, LinksAreFollowed
  <2>2. lhcEvent[i].from = <<genEvents, i>> /\ genEvent[i].status = 1
    BY <1>2 DEF TransportInv, IsTransported
  <2> QED
    BY <1>2, <2>1, <2>2
<1>3. CASE i \notin 1 .. n
  <2>1. i - n \in 1 .. m /\ i = n + (i - n)
    BY <1>1, <1>3
  <2>2. PICK k \in 1 .. m : i = n + k
    <3> HIDE DEF n, m
    <3> QED
      BY <2>1
  <2>3. ResetGenID(i) = lhcLinks[k].before
    BY <2>2, LinksAreFollowed
  <2>4. /\ lhcLinks[k].before \in 1 .. n /\ genEvent[lhcLinks[k].before].status = 1
        /\ lhcEvent[n + k].from = <<genEvents, lhcLinks[k].before>>
    BY DEF TransportInv, IsTransported
  <2> QED
    BY <2>2, <2>3, <2>4
<1> QED
  BY <1>2, <1>3

LEMMA StableParticlesAreApart ==
  ASSUME TransportInv, beamPhase = "transported",
         NEW i \in DOMAIN lhcEvent, lhcEvent[i].status = 1,
         NEW j \in DOMAIN lhcEvent, lhcEvent[j].status = 1, ResetGenID(i) = ResetGenID(j)
  PROVE  i = j
<1> DEFINE m == Len(lhcLinks)
<1>1. \/ i = ResetGenID(i)
      \/ \E k \in 1 .. m : i = Len(genEvent) + k /\ ResetGenID(i) = lhcLinks[k].before
  BY StableParticles
<1>2. \/ j = ResetGenID(j)
      \/ \E k \in 1 .. m : j = Len(genEvent) + k /\ ResetGenID(j) = lhcLinks[k].before
  BY StableParticles
<1>3. \A k \in 1 .. m : lhcEvent[lhcLinks[k].before].status = 2
  BY DEF TransportInv, IsTransported
<1>4. \A k, l \in 1 .. m : lhcLinks[k].before = lhcLinks[l].before => k = l
  BY DEF TransportInv, IsTransported
<1> HIDE DEF m
<1>5. ASSUME NEW k \in 1 .. m PROVE lhcLinks[k].before # i /\ lhcLinks[k].before # j
  <2>1. lhcEvent[lhcLinks[k].before].status # 1
    BY <1>3
  <2> QED
    BY <2>1
<1> QED
  BY <1>1, <1>2, <1>4, <1>5

LEMMA SimulateTraces == ASSUME TransportInv, Simulate PROVE (PrimariesAreTraced)'
<1> DEFINE S == {j \in DOMAIN lhcEvent : lhcEvent[j].status = 1}
           Made(i) == [barcode |-> ResetGenID(i), from |-> lhcEvent[i].from]
           n == Len(genEvent)
           m == Len(lhcLinks)
<1>1. /\ beamPhase = "transported" /\ g4Primaries' = {Made(i) : i \in S}
      /\ beamJob' = beamJob /\ genEvent' = genEvent /\ lhcEvent' = lhcEvent
      /\ lhcLinks' = lhcLinks /\ genEvents' = genEvents
  BY DEF Simulate
<1>2. /\ IsGenerated(genEvent, genEvents)
      /\ IsTransported(genEvent, genEvents, beamJob.CTPPSTransport, lhcEvent, lhcLinks)
  BY <1>1 DEF TransportInv
<1>3. n \in Nat /\ m \in Nat /\ DOMAIN lhcEvent = 1 .. n + m /\ DOMAIN genEvent = 1 .. n
      /\ DOMAIN lhcLinks = 1 .. m
  BY <1>2 DEF IsTransported, IsGenerated
<1>4. ASSUME NEW i \in S
      PROVE  /\ Made(i).from = <<genEvents, Made(i).barcode>>
             /\ genEvent[Made(i).barcode].status = 1
  BY <1>1, StableParticles
<1>5. Cardinality({Made(i) : i \in S}) = Cardinality(S)
  <2> DEFINE f == [i \in S |-> Made(i)]
             T == {Made(i) : i \in S}
  <2>1. IsFiniteSet(S)
    <3>1. IsFiniteSet(1 .. n + m)
      BY <1>3, FS_Interval
    <3>2. S \in SUBSET (1 .. n + m)
      BY <1>3
    <3> HIDE DEF S
    <3> QED
      BY <3>1, <3>2, FS_Subset
  <2>2. \A i, j \in S : Made(i) = Made(j) => i = j
    <3> TAKE i, j \in S
    <3> HAVE Made(i) = Made(j)
    <3>1. ResetGenID(i) = ResetGenID(j)
      <4>1. Made(i).barcode = ResetGenID(i) /\ Made(j).barcode = ResetGenID(j)
        OBVIOUS
      <4> HIDE DEF Made
      <4> QED
        BY <4>1
    <3> QED
      BY <1>1, <3>1, StableParticlesAreApart
  <2>3. f \in Bijection(S, T)
    <3> HIDE DEF Made, S
    <3> QED
      BY <2>2 DEF Bijection, Injection, IsInjective, Surjection
  <2> HIDE DEF f, T, S
  <2> QED
    BY <2>1, <2>3, FS_Bijection DEF ExistsBijection, T
<1>6. ASSUME NEW i \in 1 .. n, genEvent[i].status = 1,
             ~(genEvent[i].leading /\ beamJob.CTPPSTransport)
      PROVE  \E p \in g4Primaries' : p.barcode = i
  <2>1. lhcEvent[i].status = 1
    BY <1>2, <1>6 DEF IsTransported
  <2>2. i \in S
    <3>1. i \in 1 .. n + m
      BY <1>3
    <3> QED
      BY <1>3, <2>1, <3>1
  <2>3. Made(i).barcode = i
    BY <1>1, LinksAreFollowed
  <2> HIDE DEF Made, S
  <2> QED
    BY <1>1, <2>2, <2>3
<1>7. \A i \in DOMAIN lhcLinks : \A j \in DOMAIN lhcLinks :
        lhcLinks[i].before = lhcLinks[j].before => i = j
  BY <1>2, <1>3 DEF IsTransported
<1>8. \A p \in g4Primaries' : p.from = <<genEvents, p.barcode>> /\ genEvent[p.barcode].status = 1
  <2> HIDE DEF Made, S
  <2> QED
    BY <1>1, <1>4
<1>9. Cardinality({i \in DOMAIN lhcEvent : lhcEvent[i].status = 1}) = Cardinality(g4Primaries')
  BY <1>1, <1>5
<1> HIDE DEF Made, S, n, m
<1>10. \A i \in DOMAIN genEvent :
         (genEvent[i].status = 1 /\ ~(genEvent[i].leading /\ beamJob.CTPPSTransport))
           => \E p \in g4Primaries' : p.barcode = i
  BY <1>3, <1>6 DEF n
<1> QED
  BY <1>1, <1>7, <1>8, <1>9, <1>10 DEF PrimariesAreTraced

\* Types of the transport, and what is in Hector and in the event between the
\* producer and the simulation.
THEOREM TransportInvariant == TransportSpec => []TransportInv
<1>1. TransportInit => TransportInv
  <2> SUFFICES ASSUME TransportInit PROVE TransportInv
    OBVIOUS
  <2> QED
    BY DEF TransportInit, TransportInv, NewHector, IsHector, PrimariesAreTraced
<1>2. TransportInv /\ [TransportNext]_transportVars => TransportInv'
  <2> SUFFICES ASSUME TransportInv, [TransportNext]_transportVars PROVE TransportInv'
    OBVIOUS
  <2>1. CASE Produce
    BY <2>1, ProduceKeeps
  <2>2. CASE ProduceRefuses
    BY <2>2, RefusesKeeps
  <2>3. CASE ProduceThrows
    BY <2>3, ThrowsKeeps
  <2>4. CASE Simulate
    <3>1. (PrimariesAreTraced)'
      BY <2>4, SimulateTraces
    <3>2. /\ beamJob' = beamJob /\ genEvents' = genEvents /\ hector' = hector
          /\ beamPhase' = "simulated"
      BY <2>4 DEF Simulate
    <3> QED
      BY <3>1, <3>2 DEF TransportInv, IsHector
  <2>5. CASE UNCHANGED transportVars
    BY <2>5, SMTT(30) DEF transportVars, TransportInv, IsHector, IsGenerated, IsTransported, PrimariesAreTraced
  <2> QED
    BY <2>1, <2>2, <2>3, <2>4, <2>5 DEF TransportNext, TransportDone
<1> QED
  BY <1>1, <1>2, PTL DEF TransportSpec

\* Whatever the generator made, the beam line stopped and an earlier exception
\* left in Hector, each particle Geant4 gets names the particle of its own event
\* from which it comes, none is simulated twice, and only leading protons are lost.
THEOREM PrimariesTraced == TransportSpec => []PrimariesAreTraced
<1>1. TransportInv => PrimariesAreTraced
  BY DEF TransportInv
<1> QED
  BY <1>1, TransportInvariant, PTL

-----------------------------------------------------------------------------
(* What SimTrackManager keeps: types.                                        *)

USE BoundsAssumption, DecaysAssumption

TrackInfo == [parent : Nat, primary : BOOLEAN, position : Positions]

\* n tracks are known.
IsManager(m, n) ==
  /\ m = [container |-> m.container, saved |-> m.saved, idsave |-> m.idsave,
          ancestors |-> m.ancestors, lastTrack |-> m.lastTrack, lastHist |-> m.lastHist]
  /\ m.container \in Seq(1 .. n) /\ m.lastTrack \in Nat

HistoryTyped ==
  /\ phase \in {"none", "event", "tracking", "stored"} /\ events \in Nat
  /\ track \in Seq(TrackInfo) /\ \A i \in 1 .. Len(track) : track[i].parent < i
  /\ stack \in Seq(1 .. Len(track)) /\ (phase = "tracking" => current \in 1 .. Len(track))
  /\ IsManager(mgr, Len(track))
  /\ phase # "stored" => simTracks = <<>> /\ simVertices = <<>>

\* The parts of cleanTracksWithHistory.
OldOf(m)   == SubSeq(m.container, 1, IF IndexCorrupted(m) THEN 0 ELSE m.lastTrack)
NewOf(m)   == Sorted(SubSeq(m.container, (IF IndexCorrupted(m) THEN 0 ELSE m.lastTrack) + 1, Len(m.container)))
SavedOf(m) == m.saved \cup UNION {Branch(OldOf(m) \o NewOf(m), t) : t \in Elements(NewOf(m)) \cap m.saved}
KeptOf(m)  == InOrder(Elements(NewOf(m)) \cap SavedOf(m))

LEMMA SeqWiden == ASSUME NEW S, NEW T, S \subseteq T, NEW s \in Seq(S) PROVE s \in Seq(T)
<1>1. Len(s) \in Nat /\ s \in [1 .. Len(s) -> S]
  OBVIOUS
<1>2. s \in [1 .. Len(s) -> T]
  BY <1>1
<1> QED
  BY <1>1, <1>2

LEMMA Joined ==
  ASSUME NEW T, NEW s \in Seq(T), NEW t \in Seq(T)
  PROVE  /\ s \o t \in Seq(T) /\ Len(s \o t) = Len(s) + Len(t)
         /\ \A i \in 1 .. Len(s) : (s \o t)[i] = s[i]
         /\ \A i \in 1 .. Len(t) : (s \o t)[Len(s) + i] = t[i]
OBVIOUS

LEMMA Pieces ==
  ASSUME NEW T, NEW c \in Seq(T), NEW last \in 0 .. Len(c)
  PROVE  /\ SubSeq(c, 1, last) \in Seq(T) /\ Len(SubSeq(c, 1, last)) = last
         /\ \A i \in 1 .. last : SubSeq(c, 1, last)[i] = c[i]
         /\ SubSeq(c, last + 1, Len(c)) \in Seq(T)
         /\ Len(SubSeq(c, last + 1, Len(c))) = Len(c) - last
         /\ \A i \in 1 .. Len(c) - last : SubSeq(c, last + 1, Len(c))[i] = c[last + i]
<1>1. Len(c) \in Nat /\ last \in Nat /\ 1 \in Int /\ last \in Int /\ last + 1 \in Int /\ Len(c) \in Int /\ last <= Len(c)
  OBVIOUS
<1>2. /\ SubSeq(c, 1, last) \in Seq(T) /\ Len(SubSeq(c, 1, last)) = IF 1 <= last THEN last - 1 + 1 ELSE 0
      /\ \A i \in 1 .. last - 1 + 1 : SubSeq(c, 1, last)[i] = c[1 + i - 1]
  <2>1. \A i \in 1 .. last : c[i] \in T
    BY <1>1
  <2> QED
    BY <1>1, <2>1, SubSeqProperties
<1>3. /\ SubSeq(c, last + 1, Len(c)) \in Seq(T)
      /\ Len(SubSeq(c, last + 1, Len(c))) = IF last + 1 <= Len(c) THEN Len(c) - (last + 1) + 1 ELSE 0
      /\ \A i \in 1 .. Len(c) - (last + 1) + 1 :
            SubSeq(c, last + 1, Len(c))[i] = c[(last + 1) + i - 1]
  <2>1. \A i \in last + 1 .. Len(c) : c[i] \in T
    BY <1>1
  <2> QED
    BY <1>1, <2>1, SubSeqProperties
<1> QED
  BY <1>1, <1>2, <1>3

LEMMA ElementsOf ==
  ASSUME NEW T, NEW s \in Seq(T)
  PROVE  /\ Elements(s) \subseteq T /\ IsFiniteSet(Elements(s))
         /\ \A x \in Elements(s) : \E i \in 1 .. Len(s) : x = s[i]
         /\ \A i \in 1 .. Len(s) : s[i] \in Elements(s)
<1>1. /\ Elements(s) \subseteq T /\ \A x \in Elements(s) : \E i \in 1 .. Len(s) : x = s[i]
      /\ \A i \in 1 .. Len(s) : s[i] \in Elements(s)
  BY DEF Elements
<1>2. IsFiniteSet(Elements(s))
  <2>1. s \in Surjection(1 .. Len(s), Elements(s))
    BY <1>1 DEF Surjection
  <2>2. IsFiniteSet(1 .. Len(s))
    BY FS_Interval
  <2> QED
    BY <2>1, <2>2, FS_Surjection
<1> QED
  BY <1>1, <1>2, Zenon

LEMMA ElementsJoined ==
  ASSUME NEW T, NEW s \in Seq(T), NEW t \in Seq(T)
  PROVE  Elements(s \o t) = Elements(s) \cup Elements(t)
<1> DEFINE r == s \o t
<1>1. /\ Len(r) = Len(s) + Len(t) /\ r \in Seq(T)
      /\ \A i \in 1 .. Len(s) : r[i] = s[i]
      /\ \A i \in 1 .. Len(t) : r[Len(s) + i] = t[i]
  BY Joined
<1> HIDE DEF r
<1>2. /\ DOMAIN s = 1 .. Len(s) /\ DOMAIN t = 1 .. Len(t) /\ DOMAIN r = 1 .. Len(s) + Len(t)
      /\ Len(s) \in Nat /\ Len(t) \in Nat
  BY <1>1
<1>3. ASSUME NEW x \in Elements(r) PROVE x \in Elements(s) \cup Elements(t)
  <2>1. PICK i \in 1 .. Len(s) + Len(t) : x = r[i]
    BY <1>2 DEF Elements
  <2>2. CASE i \in 1 .. Len(s)
    BY <1>1, <1>2, <2>1, <2>2 DEF Elements
  <2>3. CASE i \notin 1 .. Len(s)
    <3>1. i - Len(s) \in 1 .. Len(t) /\ i = Len(s) + (i - Len(s))
      BY <1>2, <2>3
    <3>2. x = t[i - Len(s)]
      BY <1>1, <2>1, <3>1
    <3> QED
      BY <1>2, <3>1, <3>2 DEF Elements
  <2> QED
    BY <2>2, <2>3
<1>4. ASSUME NEW x \in Elements(s) PROVE x \in Elements(r)
  <2>1. PICK i \in 1 .. Len(s) : x = s[i]
    BY <1>2 DEF Elements
  <2>2. i \in DOMAIN r /\ x = r[i]
    BY <1>1, <1>2, <2>1
  <2> QED
    BY <2>2 DEF Elements
<1>5. ASSUME NEW x \in Elements(t) PROVE x \in Elements(r)
  <2>1. PICK i \in 1 .. Len(t) : x = t[i]
    BY <1>2 DEF Elements
  <2>2. Len(s) + i \in DOMAIN r /\ x = r[Len(s) + i]
    BY <1>1, <1>2, <2>1
  <2> QED
    BY <2>2 DEF Elements
<1> QED
  BY <1>3, <1>4, <1>5 DEF r

LEMMA InOrderElements ==
  ASSUME NEW S, S \subseteq Int, IsFiniteSet(S)
  PROVE  Elements(InOrder(S)) = S
<1>1. InOrder(S) \in [1 .. Cardinality(S) -> S] /\ \A i \in S : \E k \in 1 .. Cardinality(S) : InOrder(S)[k] = i
  BY InOrderLists
<1> QED
  BY <1>1 DEF Elements

LEMMA SortedElements ==
  ASSUME NEW n \in Nat, NEW s \in Seq(1 .. n)
  PROVE  /\ Sorted(s) \in Seq(1 .. n) /\ Elements(Sorted(s)) = Elements(s)
         /\ \A k, l \in 1 .. Len(Sorted(s)) : k < l => Sorted(s)[k] < Sorted(s)[l]
<1> DEFINE S == Elements(s)
<1>1. S \subseteq 1 .. n /\ IsFiniteSet(S) /\ S \subseteq Int
  BY ElementsOf
<1> HIDE DEF S
<1>2. /\ InOrder(S) \in Seq(S) /\ Len(InOrder(S)) = Cardinality(S)
      /\ \A k, l \in 1 .. Cardinality(S) : k < l => InOrder(S)[k] < InOrder(S)[l]
  BY <1>1, InOrderLists
<1>3. Elements(InOrder(S)) = S
  BY <1>1, InOrderElements
<1>4. InOrder(S) \in Seq(1 .. n)
  BY <1>1, <1>2, SeqWiden
<1> QED
  BY <1>2, <1>3, <1>4 DEF Sorted, S

LEMMA CleanIs ==
  ASSUME NEW m, ~(m.container = <<>> /\ m.idsave = <<>>)
  PROVE  \E idsave, ancestors :
           Clean(m) = [container |-> OldOf(m) \o KeptOf(m), saved |-> SavedOf(m), idsave |-> idsave,
                       ancestors |-> ancestors, lastTrack |-> Len(OldOf(m) \o KeptOf(m)),
                       lastHist |-> Len(m.ancestors)]
BY Zenon DEF Clean, OldOf, NewOf, SavedOf, KeptOf

LEMMA PartsOfManager ==
  ASSUME NEW n \in Nat, NEW m, IsManager(m, n)
  PROVE  /\ OldOf(m) \in Seq(1 .. n) /\ NewOf(m) \in Seq(1 .. n) /\ KeptOf(m) \in Seq(1 .. n)
         /\ Elements(KeptOf(m)) = Elements(NewOf(m)) \cap SavedOf(m)
<1> DEFINE last == IF IndexCorrupted(m) THEN 0 ELSE m.lastTrack
           rest == SubSeq(m.container, last + 1, Len(m.container))
<1>1. m.container \in Seq(1 .. n) /\ last \in 0 .. Len(m.container)
  <2>1. m.container \in Seq(1 .. n) /\ m.lastTrack \in Nat /\ Len(m.container) \in Nat
    BY DEF IsManager
  <2> QED
    BY <2>1 DEF IndexCorrupted
<1> HIDE DEF last
<1>2. SubSeq(m.container, 1, last) \in Seq(1 .. n) /\ rest \in Seq(1 .. n)
  BY <1>1
<1>3. OldOf(m) \in Seq(1 .. n)
  BY <1>2 DEF OldOf, last
<1>4. NewOf(m) \in Seq(1 .. n)
  <2>1. Sorted(rest) \in Seq(1 .. n)
    <3> HIDE DEF rest
    <3> QED
      BY <1>2, SortedElements
  <2> QED
    BY <2>1 DEF NewOf, last
<1> DEFINE K == Elements(NewOf(m)) \cap SavedOf(m)
<1>5. K \subseteq 1 .. n /\ IsFiniteSet(K) /\ K \subseteq Int
  <2>1. Elements(NewOf(m)) \subseteq 1 .. n /\ IsFiniteSet(Elements(NewOf(m)))
    BY <1>4, ElementsOf
  <2>2. K \in SUBSET Elements(NewOf(m))
    OBVIOUS
  <2>3. IsFiniteSet(K)
    <3> HIDE DEF K
    <3> QED
      BY <2>1, <2>2, FS_Subset
  <2> HIDE DEF K
  <2> QED
    BY <2>1, <2>2, <2>3
<1> HIDE DEF K
<1>6. InOrder(K) \in Seq(K) /\ Elements(InOrder(K)) = K
  BY <1>5, InOrderLists, InOrderElements
<1>7. InOrder(K) \in Seq(1 .. n)
  BY <1>5, <1>6, SeqWiden
<1> QED
  BY <1>3, <1>4, <1>6, <1>7 DEF KeptOf, K

LEMMA CleanIsTyped ==
  ASSUME NEW n \in Nat, NEW m, IsManager(m, n)
  PROVE  IsManager(Clean(m), n)
<1>1. CASE m.container = <<>> /\ m.idsave = <<>>
  BY <1>1 DEF Clean
<1>2. CASE ~(m.container = <<>> /\ m.idsave = <<>>)
  <2>1. PICK idsave, ancestors :
           Clean(m) = [container |-> OldOf(m) \o KeptOf(m), saved |-> SavedOf(m), idsave |-> idsave,
                       ancestors |-> ancestors, lastTrack |-> Len(OldOf(m) \o KeptOf(m)),
                       lastHist |-> Len(m.ancestors)]
    BY <1>2, CleanIs
  <2>2. OldOf(m) \o KeptOf(m) \in Seq(1 .. n)
    BY PartsOfManager
  <2> DEFINE c == OldOf(m) \o KeptOf(m)
  <2>3. Len(c) \in Nat
    BY <2>2
  <2> HIDE DEF c
  <2> QED
    BY <2>1, <2>2, <2>3 DEF IsManager, c
<1> QED
  BY <1>1, <1>2

-----------------------------------------------------------------------------
(* Vertices.                                                                 *)

ParentOf(s, t) == IF track[t].parent \in Elements(s) THEN track[t].parent ELSE -1

VertexOf(s, t) == [parent |-> ParentOf(s, t), position |-> track[t].position]

\* getOrCreateVertex and add for one track.
StoreOne(s, prev, t) ==
  LET at == {k \in DOMAIN prev.vertices : SameVertex(prev.vertices[k], t, ParentOf(s, t))}
      v  == IF at # {} THEN Min(at) - 1 ELSE Len(prev.vertices)
  IN [tracks   |-> Append(prev.tracks, [id |-> t, vertex |-> v, gen |-> GenParticle(t)]),
      vertices |-> IF at # {} THEN prev.vertices ELSE Append(prev.vertices, VertexOf(s, t))]

TrackSet(s) == [id : Elements(s), vertex : Nat, gen : {GenParticle(t) : t \in Elements(s)}]

\* The first n tracks of s point to their vertices, which are all different.
StoredUpTo(s, n, st) ==
  /\ st.tracks \in Seq(TrackSet(s)) /\ Len(st.tracks) = n
  /\ st.vertices \in Seq({VertexOf(s, t) : t \in Elements(s)})
  /\ \A i \in 1 .. n :
       /\ st.tracks[i].id = s[i] /\ st.tracks[i].vertex + 1 \in 1 .. Len(st.vertices)
       /\ st.vertices[st.tracks[i].vertex + 1] = VertexOf(s, s[i])
  /\ \A j, k \in 1 .. Len(st.vertices) : st.vertices[j] = st.vertices[k] => j = k

LEMMA LeastIsMin ==
  ASSUME NEW S, S \subseteq Nat, S # {}
  PROVE  Min(S) \in S
<1>1. \E x \in S : \A y \in S : x <= y
  BY LeastNat
<1> QED
  BY <1>1 DEF Min

LEMMA StoreOneKeeps ==
  ASSUME NEW s \in Seq(Nat), NEW n \in 1 .. Len(s), NEW prev, StoredUpTo(s, n - 1, prev)
  PROVE  StoredUpTo(s, n, StoreOne(s, prev, s[n]))
<1> DEFINE t == s[n]
           V == {VertexOf(s, x) : x \in Elements(s)}
           at == {k \in DOMAIN prev.vertices : SameVertex(prev.vertices[k], t, ParentOf(s, t))}
           v  == IF at # {} THEN Min(at) - 1 ELSE Len(prev.vertices)
           new == [id |-> t, vertex |-> v, gen |-> GenParticle(t)]
           vs == IF at # {} THEN prev.vertices ELSE Append(prev.vertices, VertexOf(s, t))
           st == StoreOne(s, prev, t)
<1>1. st = [tracks |-> Append(prev.tracks, new), vertices |-> vs]
  BY DEF StoreOne
<1>2. /\ prev.tracks \in Seq(TrackSet(s)) /\ Len(prev.tracks) = n - 1
      /\ prev.vertices \in Seq(V) /\ Len(prev.vertices) \in Nat
      /\ \A i \in 1 .. n - 1 :
           /\ prev.tracks[i].id = s[i] /\ prev.tracks[i].vertex + 1 \in 1 .. Len(prev.vertices)
           /\ prev.vertices[prev.tracks[i].vertex + 1] = VertexOf(s, s[i])
      /\ \A j, k \in 1 .. Len(prev.vertices) : prev.vertices[j] = prev.vertices[k] => j = k
  <2>1. prev.vertices \in Seq(V)
    BY DEF StoredUpTo
  <2>2. Len(prev.vertices) \in Nat
    <3> HIDE DEF V
    <3> QED
      BY <2>1
  <2> QED
    BY <2>1, <2>2 DEF StoredUpTo
<1>3. t \in Elements(s) /\ VertexOf(s, t) \in V
  BY ElementsOf
<1>4. \A k \in 1 .. Len(prev.vertices) : k \in at <=> prev.vertices[k] = VertexOf(s, t)
  <2> TAKE k \in 1 .. Len(prev.vertices)
  <2>1. PICK x \in Elements(s) : prev.vertices[k] = VertexOf(s, x)
    <3>1. prev.vertices[k] \in V
      <4> HIDE DEF V
      <4> QED
        BY <1>2
    <3> QED
      BY <3>1
  <2>2. k \in at <=> prev.vertices[k].parent = ParentOf(s, t) /\ prev.vertices[k].position = track[t].position
    BY <1>2 DEF SameVertex
  <2> HIDE DEF at, t, V
  <2> QED
    BY <2>1, <2>2 DEF VertexOf
<1>5. at \subseteq 1 .. Len(prev.vertices)
  BY <1>2
<1>6. /\ vs \in Seq(V) /\ Len(vs) \in Nat /\ Len(prev.vertices) <= Len(vs)
      /\ \A k \in 1 .. Len(prev.vertices) : vs[k] = prev.vertices[k]
      /\ v \in Nat /\ v + 1 \in 1 .. Len(vs) /\ vs[v + 1] = VertexOf(s, t)
      /\ \A j, k \in 1 .. Len(vs) : vs[j] = vs[k] => j = k
  <2>1. CASE at # {}
    <3>1. Min(at) \in at
      <4> HIDE DEF at
      <4>1. at \subseteq Nat
        BY <1>5
      <4> QED
        BY <2>1, <4>1, LeastIsMin
    <3>2. v = Min(at) - 1 /\ vs = prev.vertices
      BY <2>1
    <3> HIDE DEF at, v, vs, V, t
    <3>3. Min(at) \in 1 .. Len(prev.vertices) /\ prev.vertices[Min(at)] = VertexOf(s, t)
      BY <1>4, <1>5, <3>1
    <3>4. v \in Nat /\ v + 1 = Min(at)
      BY <1>2, <3>2, <3>3
    <3>5. v + 1 \in 1 .. Len(vs) /\ vs[v + 1] = VertexOf(s, t)
      BY <3>2, <3>3, <3>4, Zenon
    <3>6. Len(prev.vertices) <= Len(prev.vertices)
      BY <1>2
    <3>7. \A k \in 1 .. Len(prev.vertices) : vs[k] = prev.vertices[k]
      BY <3>2, Zenon
    <3>8. /\ prev.vertices \in Seq(V) /\ Len(prev.vertices) \in Nat
          /\ \A j, k \in 1 .. Len(prev.vertices) : prev.vertices[j] = prev.vertices[k] => j = k
      BY <1>2, Zenon
    <3> QED
      BY <3>2, <3>4, <3>5, <3>6, <3>7, <3>8, Zenon
  <2>2. CASE at = {}
    <3>1. v = Len(prev.vertices) /\ vs = Append(prev.vertices, VertexOf(s, t))
      BY <2>2
    <3> HIDE DEF at, v, vs, V, t
    <3>2. /\ vs \in Seq(V) /\ Len(vs) = Len(prev.vertices) + 1
          /\ \A k \in 1 .. Len(prev.vertices) : vs[k] = prev.vertices[k]
          /\ vs[Len(prev.vertices) + 1] = VertexOf(s, t)
      BY <1>2, <1>3, <3>1
    <3>3. \A k \in 1 .. Len(prev.vertices) : prev.vertices[k] # VertexOf(s, t)
      BY <1>4, <2>2
    <3>4. ASSUME NEW j \in 1 .. Len(vs), NEW k \in 1 .. Len(vs), vs[j] = vs[k] PROVE j = k
      <4>1. j \in 1 .. Len(prev.vertices) \/ j = Len(prev.vertices) + 1
        BY <1>2, <3>2, SMTT(30)
      <4>2. k \in 1 .. Len(prev.vertices) \/ k = Len(prev.vertices) + 1
        BY <1>2, <3>2, SMTT(30)
      <4>3. CASE j \in 1 .. Len(prev.vertices) /\ k \in 1 .. Len(prev.vertices)
        BY <1>2, <3>2, <3>4, <4>3
      <4> QED
        BY <3>2, <3>3, <3>4, <4>1, <4>2, <4>3
    <3> QED
      BY <1>2, <3>1, <3>2, <3>4, SMTT(30)
  <2> QED
    BY <2>1, <2>2
<1>7. new \in TrackSet(s)
  <2> HIDE DEF v, t
  <2> QED
    BY <1>3, <1>6 DEF TrackSet
<1>8. new.id = t /\ new.vertex = v
  OBVIOUS
<1> HIDE DEF st, vs, new, at, v, t, V
<1> DEFINE ts == Append(prev.tracks, new)
<1>9. /\ ts \in Seq(TrackSet(s)) /\ Len(ts) = n /\ ts[n] = new
      /\ \A i \in 1 .. n - 1 : ts[i] = prev.tracks[i]
  BY <1>2, <1>7
<1> HIDE DEF ts
<1>10. ASSUME NEW i \in 1 .. n
       PROVE  /\ ts[i].id = s[i] /\ ts[i].vertex + 1 \in 1 .. Len(vs)
              /\ vs[ts[i].vertex + 1] = VertexOf(s, s[i])
  <2>1. CASE i = n
    BY <1>6, <1>8, <1>9, <2>1 DEF t
  <2>2. CASE i \in 1 .. n - 1
    <3>1. ts[i] = prev.tracks[i] /\ prev.tracks[i].id = s[i]
          /\ prev.tracks[i].vertex + 1 \in 1 .. Len(prev.vertices)
          /\ prev.vertices[prev.tracks[i].vertex + 1] = VertexOf(s, s[i])
      BY <1>2, <1>9, <2>2
    <3>2. vs[prev.tracks[i].vertex + 1] = prev.vertices[prev.tracks[i].vertex + 1]
      BY <1>6, <3>1
    <3>3. \A y \in 1 .. Len(prev.vertices) : y \in 1 .. Len(vs)
      BY <1>2, <1>6
    <3>4. prev.tracks[i].vertex + 1 \in 1 .. Len(vs)
      BY <3>1, <3>3
    <3> QED
      BY <3>1, <3>2, <3>4
  <2> QED
    BY <2>1, <2>2
<1>11. st.tracks = ts /\ st.vertices = vs
  BY <1>1 DEF ts
<1>12. StoredUpTo(s, n, st)
  BY <1>6, <1>9, <1>10, <1>11 DEF StoredUpTo, V
<1> QED
  BY <1>12 DEF st, t

LEMMA StoredIsRight ==
  ASSUME NEW s \in Seq(Nat)
  PROVE  StoredUpTo(s, Len(s), StoreAll(s))
<1> DEFINE Nothing == [tracks |-> <<>>, vertices |-> <<>>]
           Body(f, n) == IF n = 0 THEN Nothing ELSE StoreOne(s, f[n - 1], s[n])
           Computes(f, n) == f = [k \in 0 .. n |-> Body(f, k)]
           Lacking == {n \in 0 .. Len(s) : \A f : ~Computes(f, n)}
<1>1. Len(s) \in Nat
  OBVIOUS
<1>2. \A n \in 0 .. Len(s) : \E f : Computes(f, n)
  <2>1. SUFFICES ASSUME Lacking # {} PROVE FALSE
    BY SMTT(30)
  <2>2. Lacking \subseteq Nat
    OBVIOUS
  <2>3. PICK n \in Lacking : \A k \in Lacking : n <= k
    <3> HIDE DEF Lacking
    <3> QED
      BY <2>1, <2>2, LeastNat
  <2>4. n \in 0 .. Len(s) /\ n \in Nat /\ \A f : ~Computes(f, n)
    OBVIOUS
  <2>5. CASE n = 0
    <3> DEFINE g == [k \in 0 .. 0 |-> Nothing]
    <3>1. g = [k \in 0 .. n |-> IF k = 0 THEN Nothing ELSE StoreOne(s, g[k - 1], s[k])]
      <4> HIDE DEF Nothing
      <4> QED
        BY <2>5
    <3>2. Computes(g, n)
      BY <3>1
    <3> QED
      BY <2>4, <3>2
  <2>6. CASE n # 0
    <3>1. n - 1 \in 0 .. Len(s) /\ n - 1 \in Nat /\ n - 1 < n
      BY <2>4, <2>6
    <3>2. n - 1 \notin Lacking
      <4> HIDE DEF Lacking
      <4> QED
        BY <2>3, <2>4, <3>1
    <3>3. PICK f : Computes(f, n - 1)
      BY <3>1, <3>2
    <3> DEFINE g == [k \in 0 .. n |-> IF k = n THEN StoreOne(s, f[n - 1], s[n]) ELSE f[k]]
    <3>4. ASSUME NEW k \in 0 .. n PROVE g[k] = Body(g, k)
      <4>1. CASE k = n
        <5>1. g[n - 1] = f[n - 1]
          BY <2>4, <2>6, <3>1
        <5> HIDE DEF Nothing
        <5> QED
          BY <2>4, <2>6, <4>1, <5>1
      <4>2. CASE k # n
        <5>1. k \in 0 .. n - 1 /\ k - 1 # n /\ (k # 0 => k - 1 \in 0 .. n - 1)
          BY <2>4, <4>2
        <5>2. f[k] = Body(f, k)
          <6> HIDE DEF Body
          <6> QED
            BY <3>3, <5>1
        <5>3. k # 0 => g[k - 1] = f[k - 1]
          BY <2>4, <5>1
        <5>4. g[k] = f[k]
          BY <4>2
        <5> HIDE DEF g, Nothing
        <5> QED
          BY <5>2, <5>3, <5>4
      <4> QED
        BY <4>1, <4>2
    <3>5. Computes(g, n)
      <4>1. g = [k \in 0 .. n |-> g[k]]
        OBVIOUS
      <4> HIDE DEF g, Body
      <4> QED
        BY <3>4, <4>1
    <3> HIDE DEF Computes, g
    <3> QED
      BY <2>4, <3>5
  <2> QED
    BY <2>5, <2>6
<1>3. PICK f : Computes(f, Len(s))
  <2> HIDE DEF Computes
  <2> QED
    BY <1>1, <1>2
<1> DEFINE stored == CHOOSE g : Computes(g, Len(s))
<1>4. StoreAll(s) = stored[Len(s)]
  BY Zenon DEF StoreAll, StoreOne, ParentOf, VertexOf
<1>5. Computes(stored, Len(s))
  <2> HIDE DEF Computes
  <2> QED
    BY <1>3
<1>6. \A k \in 0 .. Len(s) : stored[k] = Body(stored, k)
  <2> HIDE DEF Body, stored
  <2> QED
    BY <1>5
<1> HIDE DEF stored
<1> DEFINE Bad == {n \in 0 .. Len(s) : ~StoredUpTo(s, n, stored[n])}
<1>7. Bad = {}
  <2>1. SUFFICES ASSUME Bad # {} PROVE FALSE
    OBVIOUS
  <2>2. Bad \subseteq Nat
    OBVIOUS
  <2>3. PICK n \in Bad : \A k \in Bad : n <= k
    <3> HIDE DEF Bad
    <3> QED
      BY <2>1, <2>2, LeastNat
  <2>4. n \in 0 .. Len(s) /\ n \in Nat /\ ~StoredUpTo(s, n, stored[n])
    OBVIOUS
  <2>5. CASE n = 0
    <3>1. stored[n] = Nothing
      BY <1>6, <2>4, <2>5
    <3>2. <<>> \in Seq(TrackSet(s)) /\ <<>> \in Seq({VertexOf(s, t) : t \in Elements(s)})
          /\ Len(<<>>) = 0
      OBVIOUS
    <3>3. Nothing.tracks = <<>> /\ Nothing.vertices = <<>>
      OBVIOUS
    <3> HIDE DEF Nothing
    <3> QED
      BY <2>4, <2>5, <3>1, <3>2, <3>3 DEF StoredUpTo
  <2>6. CASE n # 0
    <3>1. n \in 1 .. Len(s) /\ n - 1 \in 0 .. Len(s) /\ n - 1 < n /\ n - 1 \in Nat
      BY <2>4, <2>6
    <3>2. n - 1 \notin Bad
      <4> HIDE DEF Bad
      <4> QED
        BY <2>3, <2>4, <3>1
    <3>3. StoredUpTo(s, n - 1, stored[n - 1])
      BY <3>1, <3>2
    <3>4. stored[n] = StoreOne(s, stored[n - 1], s[n])
      BY <1>6, <2>4, <2>6
    <3> QED
      BY <2>4, <3>1, <3>3, <3>4, StoreOneKeeps
  <2> QED
    BY <2>5, <2>6
<1> QED
  BY <1>1, <1>4, <1>7

LEMMA BeginEventTyped == ASSUME HistoryTyped, BeginEvent PROVE HistoryTyped'
<1>1. PICK n \in 1 .. MaxPrimaries, x \in Positions :
        /\ track' = [i \in 1 .. n |-> NewTrack(0, TRUE, x)]
        /\ \E killed \in SUBSET (1 .. n) : stack' = InOrder((1 .. n) \ killed)
  BY DEF BeginEvent
<1>2. PICK killed \in SUBSET (1 .. n) : stack' = InOrder((1 .. n) \ killed)
  BY <1>1
<1>3. n \in Nat
  OBVIOUS
<1>4. /\ track' \in Seq(TrackInfo) /\ Len(track') = n
      /\ \A i \in 1 .. n : track'[i].parent = 0
  BY <1>1, <1>3 DEF NewTrack, TrackInfo
<1>5. stack' \in Seq(1 .. n)
  <2> DEFINE S == (1 .. n) \ killed
  <2>1. S \subseteq Int /\ S \subseteq 1 .. n
    OBVIOUS
  <2>2. IsFiniteSet(S)
    <3>1. IsFiniteSet(1 .. n) /\ S \in SUBSET (1 .. n)
      BY <1>3, FS_Interval
    <3> HIDE DEF S
    <3> QED
      BY <3>1, FS_Subset
  <2> HIDE DEF S
  <2>3. InOrder(S) \in Seq(S)
    BY <2>1, <2>2, InOrderLists
  <2>4. InOrder(S) \in Seq(1 .. n)
    BY <2>1, <2>3, SeqWiden
  <2> QED
    BY <1>2, <2>4 DEF S
<1>6. IsManager(mgr', n)
  <2>1. mgr' = Reset
    BY DEF BeginEvent, ResetEvent
  <2> QED
    BY <2>1 DEF Reset, IsManager
<1>7. /\ phase' = "event" /\ events' \in Nat /\ simTracks' = <<>> /\ simVertices' = <<>>
  BY DEF BeginEvent, HistoryTyped
<1>8. (IsManager(mgr, Len(track)))'
  BY <1>4, <1>6 DEF IsManager
<1>9. (\A i \in 1 .. Len(track) : track[i].parent < i)'
  BY <1>4
<1> QED
  BY <1>4, <1>5, <1>7, <1>8, <1>9 DEF HistoryTyped

LEMMA PreTyped == ASSUME HistoryTyped, PreUserTracking PROVE HistoryTyped'
<1>1. /\ phase = "event" /\ phase' = "tracking" /\ stack # <<>>
      /\ current' = stack[Len(stack)] /\ stack' = SubSeq(stack, 1, Len(stack) - 1)
      /\ mgr' = IF track[Last(stack)].primary THEN Clean(mgr) ELSE mgr
      /\ events' = events /\ track' = track /\ simTracks' = simTracks /\ simVertices' = simVertices
  BY DEF PreUserTracking, Last, Front
<1>2. /\ stack \in Seq(1 .. Len(track)) /\ track \in Seq(TrackInfo) /\ Len(track) \in Nat
      /\ IsManager(mgr, Len(track)) /\ simTracks = <<>> /\ simVertices = <<>>
  BY <1>1 DEF HistoryTyped
<1>3. stack' \in Seq(1 .. Len(track)) /\ current' \in 1 .. Len(track)
  BY <1>1, <1>2
<1>4. IsManager(mgr', Len(track))
  BY <1>1, <1>2, CleanIsTyped
<1>5. (IsManager(mgr, Len(track)))'
  BY <1>1, <1>4 DEF IsManager
<1> QED
  BY <1>1, <1>2, <1>3, <1>5 DEF HistoryTyped

\* What PostUserTrackingAction does to the track and its secondaries.
TrackEnds(store, inHistory, ancestor, made) ==
  /\ track[current].primary => store
  /\ store => inHistory
  /\ ancestor => inHistory
  /\ \A i \in 1 .. Len(made) : made[i].parent = current /\ (made[i].primary => Decays)
  /\ track' = track \o made /\ track' \in Seq(TrackInfo)
  /\ Len(track') = Len(track) + Len(made) /\ Len(made) \in Nat
  /\ \A i \in 1 .. Len(track) : track'[i] = track[i]
  /\ \A i \in 1 .. Len(made) : track'[Len(track) + i] = made[i]
  /\ stack' = stack \o [i \in 1 .. Len(made) |-> Len(track) + i]
  /\ added' = IF inHistory THEN added \cup {current} ELSE added
  /\ mgr' = [container |-> IF inHistory THEN Append(mgr.container, current) ELSE mgr.container,
             saved |-> IF store THEN mgr.saved \cup {current} ELSE mgr.saved,
             idsave |-> Append(mgr.idsave, [id |-> current, mother |-> track[current].parent]),
             ancestors |-> IF ancestor THEN Append(mgr.ancestors, [id |-> current, mother |-> 0])
                           ELSE mgr.ancestors,
             lastTrack |-> mgr.lastTrack, lastHist |-> mgr.lastHist]

LEMMA PostStep ==
  ASSUME HistoryTyped, PostUserTracking
  PROVE  \E store, inHistory, ancestor \in BOOLEAN, made \in Seq(TrackInfo) :
           TrackEnds(store, inHistory, ancestor, made)
<1> DEFINE N == Len(track)
<1>1. phase = "tracking"
  BY DEF PostUserTracking
<1>2. PICK store, inHistory, ancestor \in BOOLEAN :
        /\ track[current].primary => store
        /\ store => inHistory
        /\ ancestor => inHistory
        /\ mgr' = [AddTrack(current, inHistory, ancestor) EXCEPT
                     !.saved = IF store THEN @ \cup {current} ELSE @]
        /\ added' = IF inHistory THEN added \cup {current} ELSE added
  BY DEF PostUserTracking
<1>3. PICK s \in Secondaries(current) :
        /\ track' = track \o [i \in DOMAIN s |-> NewTrack(current, s[i].primary, s[i].position)]
        /\ stack' = stack \o [i \in DOMAIN s |-> Len(track) + i]
  BY DEF PostUserTracking
<1>4. /\ track \in Seq(TrackInfo) /\ N \in Nat /\ current \in 1 .. N /\ IsManager(mgr, N)
  BY <1>1 DEF HistoryTyped
<1>5. PICK n \in 0 .. MaxSecondaries : s \in [1 .. n -> [primary : BOOLEAN, position : Positions]]
  BY DEF Secondaries
<1>6. n \in Nat /\ DOMAIN s = 1 .. n /\ \A i \in 1 .. n : s[i].primary => Decays
  BY <1>5 DEF Secondaries
<1> DEFINE made == [i \in 1 .. n |-> NewTrack(current, s[i].primary, s[i].position)]
<1>7. made \in Seq(TrackInfo) /\ Len(made) = n
      /\ \A i \in 1 .. n : made[i].parent = current /\ (made[i].primary => Decays)
  <2>1. current \in Nat
    BY <1>4
  <2>2. \A i \in 1 .. n : NewTrack(current, s[i].primary, s[i].position) \in TrackInfo
    BY <1>5, <2>1 DEF NewTrack, TrackInfo
  <2>3. made \in Seq(TrackInfo) /\ Len(made) = n
    BY <1>6, <2>2
  <2>4. \A i \in 1 .. n : made[i].parent = current /\ made[i].primary = s[i].primary
    BY DEF NewTrack
  <2> QED
    BY <1>6, <2>3, <2>4
<1>8. track' = track \o made /\ stack' = stack \o [i \in 1 .. n |-> N + i]
  BY <1>3, <1>6
<1> HIDE DEF made
<1>9. /\ track' \in Seq(TrackInfo) /\ Len(track') = N + n
      /\ \A i \in 1 .. N : track'[i] = track[i]
      /\ \A i \in 1 .. n : track'[N + i] = made[i]
  <2>1. /\ track \o made \in Seq(TrackInfo) /\ Len(track \o made) = N + Len(made)
        /\ \A i \in 1 .. N : (track \o made)[i] = track[i]
        /\ \A i \in 1 .. Len(made) : (track \o made)[N + i] = made[i]
    <3>1. track \in Seq(TrackInfo) /\ made \in Seq(TrackInfo)
      BY <1>4, <1>7
    <3> QED
      BY <3>1, Joined
  <2> HIDE DEF N
  <2> QED
    BY <1>7, <1>8, <2>1, Zenon
<1> DEFINE c == IF inHistory THEN Append(mgr.container, current) ELSE mgr.container
           d == Append(mgr.idsave, [id |-> current, mother |-> track[current].parent])
           a == IF ancestor THEN Append(mgr.ancestors, [id |-> current, mother |-> 0]) ELSE mgr.ancestors
           v == IF store THEN mgr.saved \cup {current} ELSE mgr.saved
<1>10. mgr = [container |-> mgr.container, saved |-> mgr.saved, idsave |-> mgr.idsave,
         ancestors |-> mgr.ancestors, lastTrack |-> mgr.lastTrack, lastHist |-> mgr.lastHist]
  BY <1>4 DEF IsManager
<1>11. AddTrack(current, inHistory, ancestor) =
         [container |-> c, saved |-> mgr.saved, idsave |-> d, ancestors |-> a,
          lastTrack |-> mgr.lastTrack, lastHist |-> mgr.lastHist]
  <2>1. AddTrack(current, inHistory, ancestor) = [mgr EXCEPT !.idsave = d, !.container = c, !.ancestors = a]
    BY DEF AddTrack
  <2> HIDE DEF d, a, c
  <2> QED
    BY <1>10, <2>1
<1>12. mgr' = [container |-> c, saved |-> v, idsave |-> d, ancestors |-> a,
               lastTrack |-> mgr.lastTrack, lastHist |-> mgr.lastHist]
  <2>1. CASE store
    <3>1. mgr' = [AddTrack(current, inHistory, ancestor) EXCEPT !.saved = @ \cup {current}]
      BY <1>2, <2>1
    <3> HIDE DEF d, a, c
    <3> QED
      BY <1>11, <2>1, <3>1, SMTT(30)
  <2>2. CASE ~store
    <3>1. mgr' = [AddTrack(current, inHistory, ancestor) EXCEPT !.saved = @]
      BY <1>2, <2>2
    <3> HIDE DEF d, a, c
    <3> QED
      BY <1>11, <2>2, <3>1
  <2> QED
    BY <2>1, <2>2
<1> QED
  <2>1. stack' = stack \o [i \in 1 .. Len(made) |-> N + i]
    BY <1>7, <1>8
  <2> HIDE DEF N
  <2>2. Len(track') = N + Len(made) /\ Len(made) \in Nat
    BY <1>6, <1>7, <1>9
  <2>3. \A i \in 1 .. Len(made) : made[i].parent = current /\ (made[i].primary => Decays)
    BY <1>7
  <2>4. \A i \in 1 .. Len(made) : track'[N + i] = made[i]
    BY <1>7, <1>9
  <2>5. TrackEnds(store, inHistory, ancestor, made)
    BY <1>2, <1>8, <1>9, <1>12, <2>1, <2>2, <2>3, <2>4 DEF N, TrackEnds
  <2> QED
    BY <1>7, <2>5

LEMMA PostTyped == ASSUME HistoryTyped, PostUserTracking PROVE HistoryTyped'
<1> DEFINE N == Len(track)
<1>1. /\ phase = "tracking" /\ phase' = "event" /\ events' = events
      /\ simTracks' = simTracks /\ simVertices' = simVertices
  BY DEF PostUserTracking
<1>2. PICK store, inHistory, ancestor \in BOOLEAN, made \in Seq(TrackInfo) :
        TrackEnds(store, inHistory, ancestor, made)
  BY PostStep, Zenon
<1> DEFINE n == Len(made)
           ids == [i \in 1 .. n |-> N + i]
<1>3. /\ track' \in Seq(TrackInfo) /\ Len(track') = N + n /\ n \in Nat
      /\ \A i \in 1 .. N : track'[i] = track[i]
      /\ \A i \in 1 .. n : track'[N + i].parent = current
  BY <1>2 DEF TrackEnds
<1>4. /\ stack \in Seq(1 .. N) /\ track \in Seq(TrackInfo) /\ N \in Nat /\ current \in 1 .. N
      /\ IsManager(mgr, N) /\ simTracks = <<>> /\ simVertices = <<>>
      /\ \A i \in 1 .. N : track[i].parent < i
  BY <1>1 DEF HistoryTyped
<1>10. \A i \in 1 .. N + n : track'[i].parent < i
  <2> TAKE i \in 1 .. N + n
  <2>1. CASE i \in 1 .. N
    BY <1>3, <1>4, <2>1
  <2>2. CASE i \notin 1 .. N
    <3>1. i - N \in 1 .. n /\ i = N + (i - N) /\ current < i
      BY <1>3, <1>4, <2>2
    <3>2. track'[i].parent = current
      BY <1>3, <3>1
    <3> QED
      BY <3>1, <3>2
  <2> QED
    BY <2>1, <2>2
<1>11. stack' \in Seq(1 .. N + n)
  <2>1. ids \in Seq(1 .. N + n)
    <3>1. \A i \in 1 .. n : N + i \in 1 .. N + n
      BY <1>3, <1>4
    <3> HIDE DEF N, n
    <3> QED
      BY <1>3, <3>1
  <2>2. stack \in Seq(1 .. N + n)
    <3>1. 1 .. N \subseteq 1 .. N + n
      BY <1>3, <1>4
    <3> HIDE DEF N, n
    <3> QED
      BY <1>4, <3>1, SeqWiden
  <2>3. stack' = stack \o ids
    BY <1>2 DEF TrackEnds
  <2> HIDE DEF ids
  <2> QED
    BY <2>1, <2>2, <2>3
<1>12. IsManager(mgr', N + n)
  <2>1. mgr.container \in Seq(1 .. N + n) /\ current \in 1 .. N + n
    <3>1. 1 .. N \subseteq 1 .. N + n
      BY <1>3, <1>4
    <3> DEFINE old == mgr.container
    <3>2. old \in Seq(1 .. N)
      BY <1>4 DEF IsManager
    <3>3. current \in 1 .. N + n
      BY <1>4, <3>1
    <3> HIDE DEF N, n, old
    <3>4. old \in Seq(1 .. N + n)
      BY <3>1, <3>2, SeqWiden
    <3> QED
      BY <3>3, <3>4 DEF old
  <2> DEFINE c == IF inHistory THEN Append(mgr.container, current) ELSE mgr.container
  <2>2. c \in Seq(1 .. N + n)
    <3>1. Append(mgr.container, current) \in Seq(1 .. N + n)
      <4> HIDE DEF N, n
      <4> QED
        BY <2>1
    <3> QED
      BY <2>1, <3>1
  <2>3. mgr.lastTrack \in Nat
    BY <1>4 DEF IsManager
  <2> DEFINE v == IF store THEN mgr.saved \cup {current} ELSE mgr.saved
             d == Append(mgr.idsave, [id |-> current, mother |-> track[current].parent])
             a == IF ancestor THEN Append(mgr.ancestors, [id |-> current, mother |-> 0]) ELSE mgr.ancestors
  <2>4. mgr' = [container |-> c, saved |-> v, idsave |-> d, ancestors |-> a,
                lastTrack |-> mgr.lastTrack, lastHist |-> mgr.lastHist]
    BY <1>2 DEF TrackEnds
  <2> HIDE DEF d, a, c, v
  <2> QED
    BY <2>2, <2>3, <2>4 DEF IsManager
<1>13. (IsManager(mgr, Len(track)))'
  <2>1. Len(track') = N + n
    BY <1>3
  <2> QED
    BY <1>12, <2>1 DEF IsManager
<1>14. (\A i \in 1 .. Len(track) : track[i].parent < i)'
  BY <1>3, <1>10
<1> QED
  BY <1>1, <1>3, <1>4, <1>11, <1>13, <1>14 DEF HistoryTyped

LEMMA StoreStep ==
  ASSUME HistoryTyped, StoreTracks
  PROVE  LET s == Sorted(Clean(mgr).container)
         IN /\ s \in Seq(1 .. Len(track)) /\ Elements(s) = Elements(Clean(mgr).container)
            /\ IsManager(mgr', Len(track)) /\ mgr'.container = s
            /\ StoredUpTo(s, Len(s), [tracks |-> simTracks', vertices |-> simVertices'])
            /\ phase' = "stored" /\ UNCHANGED <<events, track, stack, current, added>>
<1> DEFINE N == Len(track)
           m == Clean(mgr)
           s == Sorted(m.container)
<1>1. /\ mgr' = [m EXCEPT !.idsave = SortedPairs(m.ancestors), !.ancestors = <<>>, !.container = s]
      /\ simTracks' = StoreAll(s).tracks /\ simVertices' = StoreAll(s).vertices
      /\ phase' = "stored" /\ UNCHANGED <<events, track, stack, current, added>>
  BY DEF StoreTracks
<1>2. N \in Nat /\ IsManager(mgr, N)
  BY DEF HistoryTyped
<1>3. IsManager(m, N)
  BY <1>2, CleanIsTyped
<1> HIDE DEF m
<1>4. s \in Seq(1 .. N) /\ Elements(s) = Elements(m.container)
  <2>1. m.container \in Seq(1 .. N)
    BY <1>3 DEF IsManager
  <2> QED
    BY <1>2, <2>1, SortedElements
<1> HIDE DEF s
<1>5. IsManager(mgr', N) /\ mgr'.container = s
  <2>1. m = [container |-> m.container, saved |-> m.saved, idsave |-> m.idsave,
             ancestors |-> m.ancestors, lastTrack |-> m.lastTrack, lastHist |-> m.lastHist]
        /\ m.lastTrack \in Nat
    BY <1>3 DEF IsManager
  <2>2. mgr' = [container |-> s, saved |-> m.saved, idsave |-> SortedPairs(m.ancestors),
                ancestors |-> <<>>, lastTrack |-> m.lastTrack, lastHist |-> m.lastHist]
    BY <1>1, <2>1
  <2> QED
    BY <1>4, <2>1, <2>2 DEF IsManager
<1>6. StoredUpTo(s, Len(s), [tracks |-> simTracks', vertices |-> simVertices'])
  <2>1. 1 .. N \subseteq Nat
    BY <1>2
  <2>2. s \in Seq(Nat)
    <3> HIDE DEF N
    <3> QED
      BY <1>4, <2>1, SeqWiden
  <2>3. StoredUpTo(s, Len(s), StoreAll(s))
    BY <2>2, StoredIsRight
  <2> QED
    BY <1>1, <2>3 DEF StoredUpTo
<1> QED
  BY <1>1, <1>4, <1>5, <1>6 DEF s, m

LEMMA StoreTyped == ASSUME HistoryTyped, StoreTracks PROVE HistoryTyped'
<1>1. /\ IsManager(mgr', Len(track)) /\ phase' = "stored"
      /\ UNCHANGED <<events, track, stack, current, added>>
  BY StoreStep
<1>2. (IsManager(mgr, Len(track)))'
  BY <1>1 DEF IsManager
<1> QED
  BY <1>1, <1>2 DEF HistoryTyped

LEMMA ThrowTyped == ASSUME HistoryTyped, EventThrows PROVE HistoryTyped'
<1>1. /\ phase' = "none" /\ stack' = <<>> /\ simTracks = <<>> /\ simVertices = <<>>
      /\ UNCHANGED <<events, track, added, mgr, simTracks, simVertices>>
  BY DEF EventThrows, HistoryTyped
<1>2. (IsManager(mgr, Len(track)))'
  BY <1>1 DEF IsManager, HistoryTyped
<1> QED
  BY <1>1, <1>2 DEF HistoryTyped

LEMMA HistoryStutters == ASSUME HistoryTyped, UNCHANGED vars PROVE HistoryTyped'
<1>1. (IsManager(mgr, Len(track)))'
  BY DEF IsManager, HistoryTyped, vars
<1> QED
  BY <1>1 DEF HistoryTyped, vars

\* Types of Geant4's tracks and of what SimTrackManager keeps of them.
THEOREM HistoryIsTyped == Spec => []HistoryTyped
<1>1. Init => HistoryTyped
  <2> SUFFICES ASSUME Init PROVE HistoryTyped
    OBVIOUS
  <2>1. IsManager(mgr, 0)
    BY DEF Init, Reset, IsManager
  <2> QED
    BY <2>1 DEF Init, HistoryTyped, IsManager
<1>2. HistoryTyped /\ [Next]_vars => HistoryTyped'
  BY BeginEventTyped, PreTyped, PostTyped, StoreTyped, ThrowTyped, HistoryStutters DEF Next, Finished
<1> QED
  BY <1>1, <1>2, PTL DEF Spec

LEMMA StoredHaveTheirVertices ==
  ASSUME HistoryTyped, StoreTracks
  PROVE  TracksHaveTheirVertices'
<1> DEFINE s == Sorted(Clean(mgr).container)
<1>1. /\ s \in Seq(1 .. Len(track)) /\ track' = track
      /\ StoredUpTo(s, Len(s), [tracks |-> simTracks', vertices |-> simVertices'])
  BY StoreStep
<1> HIDE DEF s
<1>2. /\ simTracks' \in Seq(TrackSet(s)) /\ Len(simTracks') = Len(s)
      /\ simVertices' \in Seq({VertexOf(s, t) : t \in Elements(s)})
      /\ \A i \in 1 .. Len(s) :
           /\ simTracks'[i].id = s[i]
           /\ simVertices'[simTracks'[i].vertex + 1] = VertexOf(s, s[i])
      /\ \A j, k \in 1 .. Len(simVertices') : simVertices'[j] = simVertices'[k] => j = k
  BY <1>1 DEF StoredUpTo
<1>3. DOMAIN simTracks' = 1 .. Len(s) /\ DOMAIN simVertices' = 1 .. Len(simVertices')
  <2>1. DOMAIN simTracks' = 1 .. Len(s)
    BY <1>2
  <2> DEFINE V == {VertexOf(s, t) : t \in Elements(s)}
  <2>2. simVertices' \in Seq(V)
    BY <1>2
  <2> HIDE DEF V
  <2>3. DOMAIN simVertices' = 1 .. Len(simVertices')
    BY <2>2
  <2> QED
    BY <2>1, <2>3
<1>4. ASSUME NEW n \in 1 .. Len(s)
      PROVE  LET t == simTracks'[n].id
                 v == simVertices'[simTracks'[n].vertex + 1]
             IN /\ v.position = track[t].position
                /\ v.parent = IF \E k \in DOMAIN simTracks' : simTracks'[k].id = track[t].parent
                                THEN track[t].parent ELSE -1
  <2>1. simTracks'[n].id = s[n] /\ simVertices'[simTracks'[n].vertex + 1] = VertexOf(s, s[n])
    BY <1>2
  <2>2. (\E k \in DOMAIN simTracks' : simTracks'[k].id = track[s[n]].parent)
          <=> track[s[n]].parent \in Elements(s)
    <3>1. DOMAIN s = 1 .. Len(s)
      BY <1>1
    <3>2. \A p : p \in Elements(s) <=> \E k \in 1 .. Len(s) : s[k] = p
      BY <3>1 DEF Elements
    <3>3. \A k \in 1 .. Len(s) : simTracks'[k].id = s[k]
      BY <1>2
    <3> QED
      BY <1>3, <3>2, <3>3
  <2> QED
    BY <2>1, <2>2 DEF VertexOf, ParentOf
<1>5. \A n \in DOMAIN simTracks' :
        LET t == simTracks'[n].id
            v == simVertices'[simTracks'[n].vertex + 1]
        IN /\ v.position = track'[t].position
           /\ v.parent = IF \E k \in DOMAIN simTracks' : simTracks'[k].id = track'[t].parent
                           THEN track'[t].parent ELSE -1
  BY <1>1, <1>3, <1>4
<1> QED
  BY <1>2, <1>3, <1>5 DEF TracksHaveTheirVertices

LEMMA NoTracksNoVertices ==
  ASSUME simTracks = <<>>, simVertices = <<>>
  PROVE  TracksHaveTheirVertices
BY DEF TracksHaveTheirVertices

LEMMA NoTracksNoVerticesAfter ==
  ASSUME simTracks' = <<>>, simVertices' = <<>>
  PROVE  TracksHaveTheirVertices'
BY DEF TracksHaveTheirVertices

\* With any tracks, decays and detectors: a stored track points to a vertex at
\* its own start that names its stored parent, and no vertex is made twice.
THEOREM TracksHaveVertices == Spec => []TracksHaveTheirVertices
<1> DEFINE Inv == HistoryTyped /\ TracksHaveTheirVertices
<1>1. Init => TracksHaveTheirVertices
  BY NoTracksNoVertices DEF Init
<1>2. HistoryTyped /\ TracksHaveTheirVertices /\ [Next]_vars => TracksHaveTheirVertices'
  <2> SUFFICES ASSUME HistoryTyped, TracksHaveTheirVertices, [Next]_vars
               PROVE  TracksHaveTheirVertices'
    OBVIOUS
  <2>1. CASE BeginEvent
    <3>1. simTracks' = <<>> /\ simVertices' = <<>>
      BY <2>1 DEF BeginEvent
    <3> QED
      BY <3>1, NoTracksNoVerticesAfter
  <2>2. CASE StoreTracks
    BY <2>2, StoredHaveTheirVertices
  <2>3. CASE PreUserTracking \/ PostUserTracking \/ EventThrows
    <3>1. simTracks' = <<>> /\ simVertices' = <<>>
      BY <2>3 DEF PreUserTracking, PostUserTracking, EventThrows, HistoryTyped
    <3> QED
      BY <3>1, NoTracksNoVerticesAfter
  <2>4. CASE UNCHANGED vars
    BY <2>4 DEF vars, TracksHaveTheirVertices
  <2> QED
    BY <2>1, <2>2, <2>3, <2>4 DEF Next, Finished
<1> QED
  BY <1>1, <1>2, HistoryIsTyped, PTL DEF Spec

-----------------------------------------------------------------------------
(* Binary search and branches.                                               *)

\* Numbers below p come before the others.
PartitionedAt(s, p, cut) == \A i \in 1 .. Len(s) : s[i] < p <=> i <= cut

LEMMA HalfFits ==
  ASSUME NEW L \in Nat, NEW n \in 0 .. L, NEW a \in 0 .. L, NEW b \in 1 .. n, NEW h \in Nat,
         h < b, a + b <= L
  PROVE  /\ (a + h) + 1 \in 1 .. L /\ (b - h) - 1 \in 0 .. L /\ (b - h) - 1 <= n - 1
         /\ ((a + h) + 1) + ((b - h) - 1) = a + b
         /\ h \in 0 .. L /\ h <= n - 1 /\ a + h <= L /\ n # 0
<1>1. a \in Nat /\ b \in Nat /\ n \in Nat /\ a <= L /\ n <= L /\ b <= n /\ b >= 1
  OBVIOUS
<1>2. (a + h) + 1 \in Int /\ (b - h) - 1 \in Int
  BY <1>1
<1>3. (a + h) + 1 <= L /\ (a + h) + 1 >= 1
  BY <1>1
<1>4. (b - h) - 1 >= 0 /\ (b - h) - 1 <= L /\ (b - h) - 1 <= n - 1
  BY <1>1
<1>5. ((a + h) + 1) + ((b - h) - 1) = a + b
  BY <1>1
<1> QED
  BY <1>1, <1>2, <1>3, <1>4, <1>5

\* lower_bound stays within the sequence; where the numbers below p come first,
\* it returns how many they are.
LEMMA LowerBoundFinds ==
  ASSUME NEW s \in Seq(Int), NEW p \in Int
  PROVE  /\ LowerBound(s, p) \in 0 .. Len(s)
         /\ \A cut \in 0 .. Len(s) : PartitionedAt(s, p, cut) => LowerBound(s, p) = cut
<1> DEFINE L == Len(s)
           Ranges(n) == {q \in (0 .. L) \X (0 .. L) : q[1] + q[2] <= L /\ q[2] <= n}
           All == {q \in (0 .. L) \X (0 .. L) : q[1] + q[2] <= L}
           half(r) == r[2] \div 2
           middle(r) == r[1] + half(r) + 1
           upper(r) == <<middle(r), r[2] - half(r) - 1>>
           lower(r) == <<r[1], half(r)>>
           Body(f, r) == IF r[2] = 0 THEN r[1]
                         ELSE IF s[middle(r)] < p THEN f[upper(r)] ELSE f[lower(r)]
           Computes(f, n) == f = [r \in Ranges(n) |-> Body(f, r)]
           Lacking == {n \in 0 .. L : \A f : ~Computes(f, n)}
<1>1. L \in Nat
  OBVIOUS
<1>2. \A n \in 0 .. L : \A r \in Ranges(n) :
        /\ r[1] \in 0 .. L /\ r[2] \in 0 .. n /\ r[1] + r[2] <= L /\ r = <<r[1], r[2]>>
        /\ r[2] # 0 => /\ n # 0 /\ half(r) \in 0 .. n - 1 /\ half(r) < r[2]
                       /\ upper(r) \in Ranges(n - 1) /\ lower(r) \in Ranges(n - 1)
  <2> TAKE n \in 0 .. L
  <2> TAKE r \in Ranges(n)
  <2>1. r[1] \in 0 .. L /\ r[2] \in 0 .. n /\ r[1] + r[2] <= L /\ r = <<r[1], r[2]>>
    BY <1>1
  <2>2. ASSUME r[2] # 0
        PROVE  /\ n # 0 /\ half(r) \in 0 .. n - 1 /\ half(r) < r[2]
               /\ upper(r) \in Ranges(n - 1) /\ lower(r) \in Ranges(n - 1)
    <3>1. PICK a \in 0 .. L, b \in 1 .. n : a = r[1] /\ b = r[2] /\ a + b <= L
      BY <1>1, <2>1, <2>2
    <3>2. PICK h \in Nat : h = half(r) /\ h < b
      BY <1>1, <3>1, SMTT(30)
    <3> HIDE DEF half, L
    <3>3. /\ (a + h) + 1 \in 1 .. L /\ (b - h) - 1 \in 0 .. L /\ (b - h) - 1 <= n - 1
          /\ ((a + h) + 1) + ((b - h) - 1) = a + b
          /\ h \in 0 .. L /\ h <= n - 1 /\ a + h <= L /\ n # 0
      BY <1>1, <3>1, <3>2, HalfFits, SMTT(30)
    <3>4. upper(r) = <<(a + h) + 1, (b - h) - 1>> /\ lower(r) = <<a, h>>
      BY <3>1, <3>2
    <3>5. \A x, y \in 0 .. L : x + y <= L /\ y <= n - 1 => <<x, y>> \in Ranges(n - 1)
      OBVIOUS
    <3>6. (a + h) + 1 \in 0 .. L
      BY <1>1, <3>3
    <3>7. upper(r) \in Ranges(n - 1) /\ lower(r) \in Ranges(n - 1)
      <4> HIDE DEF upper, lower, Ranges
      <4> QED
        BY <3>1, <3>3, <3>4, <3>5, <3>6
    <3>8. h \in 0 .. n - 1
      BY <1>1, <3>3
    <3> HIDE DEF Ranges, upper, lower
    <3> QED
      BY <3>1, <3>2, <3>3, <3>7, <3>8
  <2> HIDE DEF Ranges, upper, lower, half
  <2> QED
    BY <2>1, <2>2
<1>3. \A n \in 0 .. L : n # 0 => \A r \in Ranges(n - 1) : r \in Ranges(n)
  BY <1>1
<1>4. Ranges(L) = All
  BY <1>1
<1> HIDE DEF Ranges, upper, lower, All
<1>5. \A n \in 0 .. L : \E f : Computes(f, n)
  <2>1. SUFFICES ASSUME Lacking # {} PROVE FALSE
    OBVIOUS
  <2>2. Lacking \subseteq Nat
    OBVIOUS
  <2>3. PICK n \in Lacking : \A k \in Lacking : n <= k
    <3> HIDE DEF Lacking
    <3> QED
      BY <2>1, <2>2, LeastNat
  <2>4. n \in 0 .. L /\ n \in Nat /\ \A f : ~Computes(f, n)
    BY <1>1
  <2>5. CASE n = 0
    <3> DEFINE g == [r \in Ranges(0) |-> r[1]]
    <3>1. \A r \in Ranges(0) : g[r] = Body(g, r)
      <4> TAKE r \in Ranges(0)
      <4>1. r[2] = 0
        BY <1>1, <1>2
      <4> QED
        BY <4>1
    <3>2. g = [r \in Ranges(n) |-> g[r]]
      BY <2>5
    <3>3. Computes(g, n)
      <4> HIDE DEF g, Body
      <4> QED
        BY <2>5, <3>1, <3>2
    <3> QED
      BY <2>4, <3>3
  <2>6. CASE n # 0
    <3>1. n - 1 \in 0 .. L /\ n - 1 \in Nat /\ n - 1 < n
      BY <1>1, <2>4, <2>6
    <3>2. n - 1 \notin Lacking
      <4> HIDE DEF Lacking
      <4> QED
        BY <2>3, <2>4, <3>1
    <3>3. PICK f : Computes(f, n - 1)
      <4> HIDE DEF Computes
      <4> QED
        BY <3>1, <3>2
    <3> DEFINE g == [r \in Ranges(n) |-> IF r \in Ranges(n - 1) THEN f[r] ELSE Body(f, r)]
    <3>4. \A r \in Ranges(n - 1) : g[r] = f[r]
      BY <1>3, <2>4, <2>6
    <3>5. \A r \in Ranges(n) : g[r] = Body(f, r)
      <4> TAKE r \in Ranges(n)
      <4>1. CASE r \in Ranges(n - 1)
        <5>1. f[r] = Body(f, r)
          <6> HIDE DEF Body
          <6> QED
            BY <3>3, <4>1
        <5> HIDE DEF g, Body
        <5> QED
          BY <3>4, <4>1, <5>1
      <4>2. CASE r \notin Ranges(n - 1)
        <5> HIDE DEF Body
        <5> QED
          BY <4>2
      <4> QED
        BY <4>1, <4>2
    <3>6. \A r \in Ranges(n) : Body(f, r) = Body(g, r)
      <4> TAKE r \in Ranges(n)
      <4>1. r[2] # 0 => upper(r) \in Ranges(n - 1) /\ lower(r) \in Ranges(n - 1)
        BY <1>2, <2>4
      <4> HIDE DEF g
      <4> QED
        BY <3>4, <4>1
    <3>7. g = [r \in Ranges(n) |-> g[r]]
      OBVIOUS
    <3>8. Computes(g, n)
      <4> HIDE DEF g, Body
      <4> QED
        BY <3>5, <3>6, <3>7
    <3> HIDE DEF Computes, g
    <3> QED
      BY <2>4, <3>8
  <2> QED
    BY <2>5, <2>6
<1>6. \E f : Computes(f, L)
  <2> HIDE DEF Computes
  <2> QED
    BY <1>1, <1>5
<1> DEFINE search == CHOOSE f : f = [r \in All |-> Body(f, r)]
<1>7. search = [r \in All |-> Body(search, r)]
  <2>1. \E f : f = [r \in All |-> Body(f, r)]
    BY <1>4, <1>6
  <2> HIDE DEF Body
  <2> QED
    BY <2>1
<1>8. LowerBound(s, p) = search[<<0, L>>]
  BY Zenon DEF LowerBound, All, upper, lower
<1>9. \A n \in 0 .. L : \A r \in Ranges(n) : search[r] = Body(search, r)
  <2> TAKE n \in 0 .. L
  <2> TAKE r \in Ranges(n)
  <2>1. r \in All
    BY <1>1 DEF Ranges, All
  <2> HIDE DEF Body, search
  <2> QED
    BY <1>7, <2>1
<1> HIDE DEF search
<1> DEFINE Right(r) == /\ search[r] \in r[1] .. r[1] + r[2]
                       /\ \A cut \in r[1] .. r[1] + r[2] : PartitionedAt(s, p, cut) => search[r] = cut
           Bad == {n \in 0 .. L : \E r \in Ranges(n) : ~Right(r)}
<1>10. Bad = {}
  <2>1. SUFFICES ASSUME Bad # {} PROVE FALSE
    OBVIOUS
  <2>2. Bad \subseteq Nat
    BY <1>1
  <2>3. PICK n \in Bad : \A k \in Bad : n <= k
    <3> HIDE DEF Bad
    <3> QED
      BY <2>1, <2>2, LeastNat
  <2>4. n \in 0 .. L /\ n \in Nat
    BY <1>1
  <2>5. PICK r \in Ranges(n) : ~Right(r)
    OBVIOUS
  <2>6. r[1] \in 0 .. L /\ r[2] \in 0 .. n /\ r[1] + r[2] <= L /\ r[1] \in Nat /\ r[2] \in Nat
    BY <1>1, <1>2, <2>4
  <2>7. search[r] = Body(search, r)
    BY <1>9, <2>4
  <2>8. CASE r[2] = 0
    BY <2>5, <2>6, <2>7, <2>8
  <2>9. CASE r[2] # 0
    <3>1. /\ n # 0 /\ half(r) \in 0 .. n - 1 /\ half(r) < r[2]
          /\ upper(r) \in Ranges(n - 1) /\ lower(r) \in Ranges(n - 1)
      BY <1>2, <2>4, <2>9
    <3>2. n - 1 \notin Bad /\ n - 1 \in 0 .. L
      <4>1. n - 1 \in 0 .. L /\ n - 1 < n
        BY <1>1, <2>4, <3>1
      <4> HIDE DEF Bad
      <4> QED
        BY <2>3, <2>4, <4>1
    <3>3. Right(upper(r)) /\ Right(lower(r))
      <4> HIDE DEF Right
      <4> QED
        BY <3>1, <3>2
    <3> DEFINE a == r[1]
               b == r[2]
               h == half(r)
    <3>4. /\ upper(r)[1] = (a + h) + 1 /\ upper(r)[2] = (b - h) - 1
          /\ lower(r)[1] = a /\ lower(r)[2] = h
      BY DEF upper, lower
    <3> HIDE DEF half
    <3>5. /\ a \in Nat /\ b \in Nat /\ h \in Nat /\ h < b /\ a + b <= L
          /\ upper(r)[1] + upper(r)[2] = a + b /\ (a + h) + 1 \in 1 .. L
      <4>1. a \in 0 .. L /\ b \in 1 .. n /\ h \in Nat /\ h < b /\ a + b <= L /\ n \in 0 .. L
        BY <1>1, <2>4, <2>6, <2>9, <3>1
      <4> HIDE DEF a, b, h, L
      <4> QED
        BY <1>1, <3>4, <4>1, HalfFits
    <3>6. middle(r) \in 1 .. L /\ middle(r) = (a + h) + 1
      BY <3>5
    <3>7. CASE s[middle(r)] < p
      <4>1. search[r] = search[upper(r)]
        BY <2>7, <2>9, <3>7
      <4>2. /\ search[upper(r)] \in (a + h) + 1 .. a + b
            /\ \A cut \in (a + h) + 1 .. a + b : PartitionedAt(s, p, cut) => search[upper(r)] = cut
        BY <3>3, <3>4, <3>5
      <4>3. \A cut \in a .. a + b : PartitionedAt(s, p, cut) => cut \in (a + h) + 1 .. a + b
        BY <3>5, <3>6, <3>7, SMTT(30) DEF PartitionedAt
      <4>4. search[r] \in a .. a + b
        BY <3>5, <4>1, <4>2
      <4> QED
        BY <2>5, <4>1, <4>2, <4>3, <4>4
    <3>8. CASE ~(s[middle(r)] < p)
      <4>1. search[r] = search[lower(r)]
        BY <2>7, <2>9, <3>8
      <4>2. /\ search[lower(r)] \in a .. a + h
            /\ \A cut \in a .. a + h : PartitionedAt(s, p, cut) => search[lower(r)] = cut
        BY <3>3, <3>4
      <4>3. \A cut \in a .. a + b : PartitionedAt(s, p, cut) => cut \in a .. a + h
        BY <3>5, <3>6, <3>8, SMTT(30) DEF PartitionedAt
      <4>4. search[r] \in a .. a + b
        <5>1. \A x \in a .. a + h : x \in a .. a + b
          <6>1. a \in Int /\ b \in Int /\ h \in Int /\ h < b
            BY <3>5
          <6> HIDE DEF a, b, h
          <6> QED
            BY <6>1
        <5> HIDE DEF a, b, h
        <5> QED
          BY <4>1, <4>2, <5>1
      <4> QED
        BY <2>5, <4>1, <4>2, <4>3, <4>4
    <3> QED
      BY <3>7, <3>8
  <2> QED
    BY <2>8, <2>9
<1>11. <<0, L>> \in Ranges(L)
  BY <1>1 DEF Ranges
<1>12. Right(<<0, L>>)
  <2> HIDE DEF Right
  <2> QED
    BY <1>1, <1>10, <1>11
<1>13. <<0, L>>[1] = 0 /\ <<0, L>>[2] = L /\ 0 + L = L
  BY <1>1
<1>14. /\ search[<<0, L>>] \in 0 .. L
       /\ \A cut \in 0 .. L : PartitionedAt(s, p, cut) => search[<<0, L>>] = cut
  BY <1>12, <1>13
<1> QED
  BY <1>8, <1>14

\* Whether saveTrackAndItsBranch finds the parent of a track.
FoundIn(s, i) ==
  LowerBound(s, track[i].parent) < Len(s) /\ s[LowerBound(s, track[i].parent) + 1] = track[i].parent

TracksAreTyped == track \in Seq(TrackInfo) /\ \A i \in 1 .. Len(track) : track[i].parent < i

LEMMA FoundIsBefore ==
  ASSUME TracksAreTyped, NEW s \in Seq(1 .. Len(track)), NEW i \in 1 .. Len(track), FoundIn(s, i)
  PROVE  track[i].parent \in 1 .. Len(track) /\ track[i].parent < i
<1>1. Len(track) \in Nat /\ track[i].parent \in Nat /\ track[i].parent < i
      /\ track[i].parent \in Int
  <2>1. Len(track) \in Nat /\ track[i] \in TrackInfo /\ track[i].parent < i
    BY DEF TracksAreTyped
  <2> QED
    BY <2>1 DEF TrackInfo
<1>2. s \in Seq(Int)
  <2>1. 1 .. Len(track) \subseteq Int
    OBVIOUS
  <2> QED
    BY <2>1, SeqWiden
<1>3. LowerBound(s, track[i].parent) \in 0 .. Len(s)
  BY <1>1, <1>2, LowerBoundFinds
<1>4. LowerBound(s, track[i].parent) + 1 \in 1 .. Len(s)
  BY <1>3 DEF FoundIn
<1>5. s[LowerBound(s, track[i].parent) + 1] \in 1 .. Len(track)
  BY <1>4
<1> QED
  BY <1>1, <1>5 DEF FoundIn

\* A branch holds the track and the parents that are found.
LEMMA BranchIsClosed ==
  ASSUME TracksAreTyped, NEW s \in Seq(1 .. Len(track)), NEW t \in 1 .. Len(track)
  PROVE  /\ t \in Branch(s, t)
         /\ \A x \in Branch(s, t) : FoundIn(s, x) => track[x].parent \in Branch(s, t)
<1> DEFINE N == Len(track)
           Body(f, i) == {i} \cup (IF FoundIn(s, i) THEN f[track[i].parent] ELSE {})
           Computes(f, n) == f = [i \in 1 .. n |-> Body(f, i)]
           Lacking == {n \in 0 .. N : \A f : ~Computes(f, n)}
<1>1. N \in Nat /\ DOMAIN track = 1 .. N
  BY DEF TracksAreTyped
<1>2. \A i \in 1 .. N : FoundIn(s, i) => track[i].parent \in 1 .. N /\ track[i].parent < i
  BY FoundIsBefore
<1>3. \A n \in 0 .. N : \E f : Computes(f, n)
  <2>1. SUFFICES ASSUME Lacking # {} PROVE FALSE
    <3> HIDE DEF Computes
    <3> QED
      OBVIOUS
  <2>2. Lacking \subseteq Nat
    OBVIOUS
  <2>3. PICK n \in Lacking : \A k \in Lacking : n <= k
    <3> HIDE DEF Lacking
    <3> QED
      BY <2>1, <2>2, LeastNat
  <2>4. n \in 0 .. N /\ n \in Nat /\ \A f : ~Computes(f, n)
    BY <1>1
  <2>5. CASE n = 0
    <3> DEFINE g == [i \in 1 .. n |-> 0]
    <3>1. \A i \in 1 .. n : FALSE
      BY <2>5
    <3>2. g = [i \in 1 .. n |-> Body(g, i)]
      <4> HIDE DEF Body
      <4> QED
        BY <3>1
    <3> QED
      BY <2>4, <3>2
  <2>6. CASE n # 0
    <3>1. n - 1 \in 0 .. N /\ n - 1 \in Nat /\ n - 1 < n
      BY <1>1, <2>4, <2>6
    <3>2. n - 1 \notin Lacking
      <4> HIDE DEF Lacking
      <4> QED
        BY <2>3, <2>4, <3>1
    <3>3. PICK f : Computes(f, n - 1)
      <4> HIDE DEF Computes
      <4> QED
        BY <3>1, <3>2
    <3> DEFINE g == [i \in 1 .. n |-> IF i \in 1 .. n - 1 THEN f[i] ELSE Body(f, i)]
    <3>4. \A i \in 1 .. n - 1 : g[i] = f[i]
      BY <2>4
    <3>5. \A i \in 1 .. n : g[i] = Body(f, i)
      <4> TAKE i \in 1 .. n
      <4>1. CASE i \in 1 .. n - 1
        <5>1. f[i] = Body(f, i)
          <6> HIDE DEF Body
          <6> QED
            BY <3>3, <4>1
        <5> HIDE DEF g, Body
        <5> QED
          BY <3>4, <4>1, <5>1
      <4>2. CASE i \notin 1 .. n - 1
        <5> HIDE DEF Body
        <5> QED
          BY <4>2
      <4> QED
        BY <4>1, <4>2
    <3>6. \A i \in 1 .. n : Body(f, i) = Body(g, i)
      <4> TAKE i \in 1 .. n
      <4>1. FoundIn(s, i) => track[i].parent \in 1 .. n - 1
        <5>1. i \in 1 .. N /\ i \in Int /\ i <= n
          BY <1>1, <2>4
        <5>2. FoundIn(s, i) => track[i].parent \in 1 .. N /\ track[i].parent < i
          BY <1>2, <5>1
        <5> HIDE DEF N
        <5> QED
          BY <1>1, <2>4, <5>1, <5>2
      <4> HIDE DEF g
      <4> QED
        BY <3>4, <4>1
    <3>7. g = [i \in 1 .. n |-> g[i]]
      OBVIOUS
    <3>8. Computes(g, n)
      <4> HIDE DEF g, Body
      <4> QED
        BY <3>5, <3>6, <3>7
    <3> HIDE DEF Computes, g
    <3> QED
      BY <2>4, <3>8
  <2> QED
    BY <2>5, <2>6
<1> DEFINE branch == CHOOSE f : f = [i \in DOMAIN track |-> Body(f, i)]
<1>4. branch = [i \in DOMAIN track |-> Body(branch, i)]
  <2>1. \E f : Computes(f, N)
    <3> HIDE DEF Computes
    <3> QED
      BY <1>1, <1>3
  <2>2. \E f : f = [i \in DOMAIN track |-> Body(f, i)]
    <3> HIDE DEF Body
    <3> QED
      BY <1>1, <2>1
  <2> HIDE DEF Body
  <2> QED
    BY <2>2
<1>5. Branch(s, t) = branch[t]
  BY Zenon DEF Branch, FoundIn
<1>6. \A i \in 1 .. N : branch[i] = Body(branch, i)
  <2> HIDE DEF Body, branch
  <2> QED
    BY <1>1, <1>4
<1> HIDE DEF branch
<1> DEFINE Closed(i) == /\ i \in branch[i]
                        /\ \A x \in branch[i] : FoundIn(s, x) => track[x].parent \in branch[i]
           Bad == {i \in 1 .. N : ~Closed(i)}
<1>7. Bad = {}
  <2>1. SUFFICES ASSUME Bad # {} PROVE FALSE
    OBVIOUS
  <2>2. Bad \subseteq Nat
    OBVIOUS
  <2>3. PICK i \in Bad : \A k \in Bad : i <= k
    <3> HIDE DEF Bad
    <3> QED
      BY <2>1, <2>2, LeastNat
  <2>4. i \in 1 .. N /\ ~Closed(i)
    OBVIOUS
  <2>5. branch[i] = Body(branch, i)
    BY <1>6, <2>4
  <2>6. CASE FoundIn(s, i)
    <3> DEFINE p == track[i].parent
    <3>1. p \in 1 .. N /\ p < i
      BY <1>2, <2>4, <2>6
    <3>2. p \notin Bad
      <4>1. p \in Int /\ i \in Int
        BY <2>4, <3>1
      <4> HIDE DEF Bad, p
      <4> QED
        BY <2>3, <3>1, <4>1
    <3>3. Closed(p)
      <4> HIDE DEF Closed, p
      <4> QED
        BY <3>1, <3>2
    <3>4. branch[i] = {i} \cup branch[p]
      BY <2>5, <2>6
    <3> QED
      BY <2>4, <3>3, <3>4
  <2>7. CASE ~FoundIn(s, i)
    <3>1. branch[i] = {i}
      BY <2>5, <2>7
    <3> QED
      BY <2>4, <2>7, <3>1
  <2> QED
    BY <2>6, <2>7
<1> QED
  BY <1>5, <1>7

-----------------------------------------------------------------------------
(* Branches are saved, as long as primaries do not decay to primaries.       *)

Old == {mgr.container[i] : i \in 1 .. mgr.lastTrack}
New == {mgr.container[i] : i \in mgr.lastTrack + 1 .. Len(mgr.container)}

\* Tracks that have not ended.
Live == Elements(stack) \cup (IF phase = "tracking" THEN {current} ELSE {})

\* Primaries come first and are taken from the stack after all that descends
\* from a later one: of what is not yet cleaned, and of what will still end
\* before the next primary, the parents were not cleaned either.
BranchInv ==
  phase \in {"event", "tracking"} =>
    /\ mgr.lastTrack <= Len(mgr.container)
    /\ mgr.lastTrack = 0 \/ mgr.lastTrack < Len(mgr.container)
         \/ (phase = "tracking" /\ track[current].parent = 0)
    /\ added \subseteq 1 .. Len(track) /\ added \cap Live = {}
    /\ \A i, j \in 1 .. Len(stack) : i < j => stack[i] < stack[j]
    /\ phase = "tracking" => \A i \in 1 .. Len(stack) : stack[i] < current
    /\ \A i \in 1 .. Len(track) : track[i].primary <=> track[i].parent = 0
    /\ \A i, j \in 1 .. Len(track) : i < j /\ track[j].parent = 0 => track[i].parent = 0
    /\ \A i \in 1 .. Len(track) : track[i].parent \notin Live
    /\ \A t \in Old : track[t].parent \in added => track[t].parent \in Old
    /\ \A t \in New \cup Live : track[t].parent \in added => track[t].parent \in New
    /\ \A t \in added : track[t].parent = 0 => t \in mgr.saved
    /\ \A o \in Old, t \in New \cup Live : track[t].parent # 0 => o < t

\* A sought parent is found among the new tracks, which are sorted, if all the
\* old ones have smaller numbers.
LEMMA ParentIsFound ==
  ASSUME NEW N \in Nat, NEW old \in Seq(1 .. N), NEW new \in Seq(1 .. N),
         \A k, l \in 1 .. Len(new) : k < l => new[k] < new[l],
         NEW p \in Elements(new), \A o \in Elements(old) : o < p
  PROVE  LET s == old \o new
         IN LowerBound(s, p) < Len(s) /\ s[LowerBound(s, p) + 1] = p
<1> DEFINE s == old \o new
           A == Len(old)
           B == Len(new)
<1>1. /\ s \in Seq(1 .. N) /\ Len(s) = A + B /\ A \in Nat /\ B \in Nat
      /\ \A i \in 1 .. A : s[i] = old[i]
      /\ \A i \in 1 .. B : s[A + i] = new[i]
  BY Joined
<1>2. PICK k \in 1 .. B : new[k] = p
  BY ElementsOf
<1>3. p \in Int /\ \A i \in 1 .. B : new[i] \in Int
  <2>1. \A i \in 1 .. B : new[i] \in 1 .. N
    OBVIOUS
  <2>2. \A x \in 1 .. N : x \in Int
    OBVIOUS
  <2> QED
    BY <1>2, <2>1, <2>2
<1>4. \A i \in 1 .. A : old[i] < p
  BY ElementsOf
<1>5. \A i \in 1 .. B : new[i] < p <=> i < k
  <2> TAKE i \in 1 .. B
  <2>1. i < k => new[i] < p
    BY <1>2
  <2>2. k < i => p < new[i]
    BY <1>2
  <2>3. i = k => new[i] = p
    BY <1>2
  <2>4. i < k \/ k < i \/ i = k
    BY <1>1
  <2> HIDE DEF B
  <2> QED
    BY <1>1, <1>3, <2>1, <2>2, <2>3, <2>4
<1> HIDE DEF s, A, B
<1> DEFINE cut == A + k - 1
<1>6. cut \in 0 .. Len(s) /\ cut < Len(s) /\ cut + 1 = A + k
  BY <1>1
<1>7. PartitionedAt(s, p, cut)
  <2> SUFFICES ASSUME NEW i \in 1 .. Len(s) PROVE s[i] < p <=> i <= cut
    BY DEF PartitionedAt
  <2>1. CASE i \in 1 .. A
    <3>1. s[i] < p
      BY <1>1, <1>4, <2>1 DEF A
    <3>2. i <= cut
      BY <1>1, <1>2, <2>1
    <3> QED
      BY <3>1, <3>2
  <2>2. CASE i \notin 1 .. A
    <3>1. PICK j \in 1 .. B : i = A + j
      <4>1. i - A \in 1 .. B /\ i = A + (i - A)
        BY <1>1, <2>2
      <4> QED
        BY <4>1
    <3>2. s[i] = new[j]
      BY <1>1, <3>1
    <3>3. j < k <=> i <= cut
      BY <1>1, <1>2, <3>1, SMTT(30)
    <3> QED
      BY <1>5, <3>2, <3>3
  <2> QED
    BY <2>1, <2>2
<1>8. s \in Seq(Int)
  <2>1. 1 .. N \subseteq Int
    OBVIOUS
  <2> QED
    BY <1>1, <2>1, SeqWiden
<1>9. LowerBound(s, p) = cut
  <2> HIDE DEF cut
  <2> QED
    BY <1>3, <1>6, <1>7, <1>8, LowerBoundFinds
<1>10. s[cut + 1] = p
  BY <1>1, <1>2, <1>6
<1> QED
  BY <1>6, <1>9, <1>10 DEF s

LEMMA OldAndNew ==
  ASSUME HistoryTyped, BranchInv, phase = "event"
  PROVE  /\ Elements(OldOf(mgr)) = Old /\ Elements(NewOf(mgr)) = New
         /\ Elements(mgr.container) = Old \cup New
<1> DEFINE c == mgr.container
           last == mgr.lastTrack
           rest == SubSeq(c, last + 1, Len(c))
<1>1. c \in Seq(1 .. Len(track)) /\ Len(c) \in Nat /\ last \in 0 .. Len(c)
      /\ (last = 0 \/ last < Len(c)) /\ Len(track) \in Nat
  <2>1. c \in Seq(1 .. Len(track)) /\ last \in Nat /\ Len(track) \in Nat
    BY DEF HistoryTyped, IsManager
  <2>2. last <= Len(c) /\ (last = 0 \/ last < Len(c))
    BY DEF BranchInv
  <2> QED
    BY <2>1, <2>2
<1>2. ~IndexCorrupted(mgr)
  BY <1>1 DEF IndexCorrupted
<1>3. OldOf(mgr) = SubSeq(c, 1, last) /\ NewOf(mgr) = Sorted(rest)
  BY <1>2 DEF OldOf, NewOf
<1>4. /\ rest \in Seq(1 .. Len(track)) /\ Len(rest) = Len(c) - last
      /\ \A i \in 1 .. Len(c) - last : rest[i] = c[last + i]
  <2>1. c \in Seq(1 .. Len(track)) /\ last \in 0 .. Len(c)
    BY <1>1
  <2> HIDE DEF c, last
  <2> QED
    BY <2>1, Pieces
<1>5. Elements(rest) = New
  <2>1. DOMAIN rest = 1 .. Len(c) - last
    BY <1>4
  <2> HIDE DEF rest
  <2>2. ASSUME NEW x \in Elements(rest) PROVE x \in New
    <3>1. PICK i \in 1 .. Len(c) - last : x = rest[i]
      BY <2>1 DEF Elements
    <3>2. last + i \in last + 1 .. Len(c)
      <4> HIDE DEF last, c
      <4> QED
        BY <1>1, <3>1
    <3>3. x = c[last + i]
      BY <1>4, <3>1
    <3> QED
      BY <3>2, <3>3 DEF New
  <2>3. ASSUME NEW x \in New PROVE x \in Elements(rest)
    <3>1. PICK i \in last + 1 .. Len(c) : x = c[i]
      BY DEF New
    <3>2. i - last \in 1 .. Len(c) - last /\ last + (i - last) = i
      BY <1>1, <3>1, SMTT(30)
    <3>3. x = rest[i - last]
      BY <1>4, <3>1, <3>2
    <3> QED
      BY <2>1, <3>2, <3>3 DEF Elements
  <2> QED
    BY <2>2, <2>3
<1>6. Elements(NewOf(mgr)) = New
  <2>1. Elements(Sorted(rest)) = Elements(rest)
    <3> HIDE DEF rest
    <3> QED
      BY <1>1, <1>4, SortedElements
  <2> QED
    BY <1>3, <1>5, <2>1
<1>7. Elements(OldOf(mgr)) = Old
  <2> DEFINE old == SubSeq(c, 1, last)
  <2>1. old \in Seq(1 .. Len(track)) /\ Len(old) = last /\ \A i \in 1 .. last : old[i] = c[i]
    <3>1. c \in Seq(1 .. Len(track)) /\ last \in 0 .. Len(c)
      BY <1>1
    <3> HIDE DEF c, last
    <3> QED
      BY <3>1, Pieces
  <2>2. DOMAIN old = 1 .. last
    <3> HIDE DEF old
    <3> QED
      BY <2>1
  <2>3. Elements(old) = Old
    <3> HIDE DEF old
    <3> QED
      BY <2>1, <2>2 DEF Elements, Old
  <2> QED
    BY <1>3, <2>3
<1>8. Elements(c) = Old \cup New
  <2>1. DOMAIN c = 1 .. Len(c)
    BY <1>1
  <2>2. \A i \in 1 .. Len(c) : i \in 1 .. last \/ i \in last + 1 .. Len(c)
    BY <1>1
  <2>3. \A i \in 1 .. last : i \in 1 .. Len(c)
    BY <1>1
  <2>4. \A i \in last + 1 .. Len(c) : i \in 1 .. Len(c)
    BY <1>1
  <2> QED
    BY <2>1, <2>2, <2>3, <2>4 DEF Elements, Old, New
<1> QED
  BY <1>6, <1>7, <1>8

LEMMA CleanCloses ==
  ASSUME HistoryTyped, BranchInv, phase = "event"
  PROVE  LET m == Clean(mgr)
         IN /\ m.lastTrack = Len(m.container) /\ mgr.saved \subseteq m.saved
            /\ \A t \in Elements(m.container) :
                 track[t].parent \in added => track[t].parent \in Elements(m.container)
<1> DEFINE m == Clean(mgr)
           N == Len(track)
<1>1. /\ N \in Nat /\ IsManager(mgr, N) /\ TracksAreTyped
      /\ mgr.lastTrack \in Nat /\ mgr.lastTrack <= Len(mgr.container)
      /\ mgr.container \in Seq(1 .. N)
  BY DEF HistoryTyped, IsManager, TracksAreTyped, BranchInv
<1>2. /\ added \subseteq 1 .. N
      /\ \A i \in 1 .. N : track[i].primary <=> track[i].parent = 0
      /\ \A t \in Old : track[t].parent \in added => track[t].parent \in Old
      /\ \A t \in New : track[t].parent \in added => track[t].parent \in New
      /\ \A t \in added : track[t].parent = 0 => t \in mgr.saved
      /\ \A o \in Old, t \in New : track[t].parent # 0 => o < t
  BY DEF BranchInv
<1>3. CASE mgr.container = <<>> /\ mgr.idsave = <<>>
  <2>1. m = mgr
    BY <1>3 DEF Clean
  <2>2. Elements(mgr.container) = {} /\ Len(mgr.container) = 0
    BY <1>3 DEF Elements
  <2> HIDE DEF m
  <2>3. m.lastTrack = Len(m.container) /\ mgr.saved \subseteq m.saved /\ Elements(m.container) = {}
    BY <1>1, <2>1, <2>2
  <2> QED
    BY <2>3 DEF m
<1>4. CASE ~(mgr.container = <<>> /\ mgr.idsave = <<>>)
  <2> DEFINE old == OldOf(mgr)
             new == NewOf(mgr)
             kept == KeptOf(mgr)
  <2>1. /\ old \in Seq(1 .. N) /\ new \in Seq(1 .. N) /\ kept \in Seq(1 .. N)
        /\ Elements(kept) = Elements(new) \cap SavedOf(mgr)
    BY <1>1, PartsOfManager
  <2>2. Elements(old) = Old /\ Elements(new) = New
    BY OldAndNew
  <2>3. m.container = old \o kept /\ m.lastTrack = Len(m.container) /\ m.saved = SavedOf(mgr)
    <3>1. PICK idsave, ancestors :
           m = [container |-> old \o kept, saved |-> SavedOf(mgr), idsave |-> idsave,
                ancestors |-> ancestors, lastTrack |-> Len(old \o kept),
                lastHist |-> Len(mgr.ancestors)]
      BY <1>4, CleanIs, Zenon
    <3> HIDE DEF m, old, kept
    <3> QED
      BY <3>1
  <2>4. mgr.saved \subseteq SavedOf(mgr)
    BY DEF SavedOf
  <2>5. \A k, l \in 1 .. Len(new) : k < l => new[k] < new[l]
    <3> DEFINE rest == SubSeq(mgr.container, (IF IndexCorrupted(mgr) THEN 0 ELSE mgr.lastTrack) + 1, Len(mgr.container))
    <3>1. rest \in Seq(1 .. N)
      <4>1. (IF IndexCorrupted(mgr) THEN 0 ELSE mgr.lastTrack) \in 0 .. Len(mgr.container)
        BY <1>1 DEF IndexCorrupted
      <4> QED
        BY <1>1, <4>1, Pieces
    <3>2. new = Sorted(rest)
      BY DEF NewOf
    <3> HIDE DEF rest, new, N
    <3> QED
      BY <1>1, <3>1, <3>2, SortedElements
  <2> HIDE DEF old, new, kept
  <2>6. Elements(old \o kept) = Elements(old) \cup Elements(kept)
    BY <2>1, ElementsJoined
  <2>7. ASSUME NEW t \in Elements(kept), track[t].parent \in added
        PROVE  track[t].parent \in Elements(kept)
    <3> DEFINE p == track[t].parent
    <3>1. t \in New /\ t \in SavedOf(mgr) /\ t \in 1 .. N
      BY <2>1, <2>2, ElementsOf
    <3>2. p \in New /\ p \in 1 .. N
      BY <1>2, <2>7, <3>1
    <3>3. SUFFICES p \in SavedOf(mgr)
      BY <2>1, <2>2, <3>2
    <3>4. CASE track[p].parent = 0
      BY <1>2, <2>4, <2>7, <3>4
    <3>5. CASE track[p].parent # 0
      <4> DEFINE s == old \o new
      <4>1. s \in Seq(1 .. N)
        BY <2>1, Joined
      <4>2. FoundIn(s, t)
        <5>1. \A o \in Elements(old) : o < p
          BY <1>2, <2>2, <3>2, <3>5
        <5>2. p \in Elements(new)
          BY <2>2, <3>2
        <5> HIDE DEF p
        <5>3. LowerBound(s, p) < Len(s) /\ s[LowerBound(s, p) + 1] = p
          <6>1. /\ N \in Nat /\ old \in Seq(1 .. N) /\ new \in Seq(1 .. N)
                /\ \A k, l \in 1 .. Len(new) : k < l => new[k] < new[l]
            BY <1>1, <2>1, <2>5
          <6> HIDE DEF N
          <6> QED
            BY <5>1, <5>2, <6>1, ParentIsFound, ZenonT(30)
        <5> HIDE DEF s
        <5> QED
          BY <5>3 DEF FoundIn, p
      <4>3. PICK u \in Elements(new) \cap mgr.saved : t \in Branch(s, u)
        <5>1. CASE t \in mgr.saved
          <6>1. t \in Elements(new) \cap mgr.saved /\ t \in Branch(s, t)
            <7>1. t \in Branch(s, t)
              <8> HIDE DEF s
              <8> QED
                BY <1>1, <3>1, <4>1, BranchIsClosed
            <7> QED
              BY <2>2, <3>1, <5>1, <7>1
          <6> QED
            BY <6>1
        <5>2. CASE t \notin mgr.saved
          BY <3>1, <5>2 DEF SavedOf, old, new
        <5> QED
          BY <5>1, <5>2
      <4>4. u \in 1 .. N
        BY <2>1, ElementsOf
      <4>5. p \in Branch(s, u)
        <5> HIDE DEF s
        <5> QED
          BY <1>1, <4>1, <4>2, <4>3, <4>4, BranchIsClosed
      <4> QED
        BY <4>3, <4>5 DEF SavedOf, old, new
    <3> QED
      BY <3>4, <3>5
  <2>8. \A t \in Elements(old) : track[t].parent \in added => track[t].parent \in Elements(old)
    BY <1>2, <2>2
  <2> HIDE DEF m
  <2>9. \A t \in Elements(m.container) :
          track[t].parent \in added => track[t].parent \in Elements(m.container)
    BY <2>3, <2>6, <2>7, <2>8
  <2> QED
    BY <2>3, <2>4, <2>9 DEF m
<1> QED
  BY <1>3, <1>4

LEMMA BeginBranches == ASSUME BeginEvent PROVE BranchInv'
<1>1. PICK n \in 1 .. MaxPrimaries, x \in Positions :
        /\ track' = [i \in 1 .. n |-> NewTrack(0, TRUE, x)]
        /\ \E killed \in SUBSET (1 .. n) : stack' = InOrder((1 .. n) \ killed)
  BY DEF BeginEvent
<1>2. PICK killed \in SUBSET (1 .. n) : stack' = InOrder((1 .. n) \ killed)
  BY <1>1
<1>3. n \in Nat
  OBVIOUS
<1>4. /\ Len(track') = n
      /\ \A i \in 1 .. n : track'[i].parent = 0 /\ track'[i].primary = TRUE
  BY <1>1, <1>3 DEF NewTrack
<1> DEFINE S == (1 .. n) \ killed
<1>5. /\ stack' \in Seq(S) /\ S \subseteq 1 .. n
      /\ \A i, j \in 1 .. Len(stack') : i < j => stack'[i] < stack'[j]
  <2>1. S \subseteq Int /\ S \in SUBSET (1 .. n)
    OBVIOUS
  <2>2. IsFiniteSet(1 .. n)
    BY <1>3, FS_Interval
  <2> HIDE DEF S
  <2>3. IsFiniteSet(S)
    BY <2>1, <2>2, FS_Subset
  <2> DEFINE s == InOrder(S)
  <2>4. /\ s \in Seq(S) /\ Len(s) = Cardinality(S)
        /\ \A i, j \in 1 .. Cardinality(S) : i < j => s[i] < s[j]
    BY <2>1, <2>3, InOrderLists
  <2>5. stack' = s
    BY <1>2 DEF S
  <2> HIDE DEF s
  <2> QED
    BY <2>1, <2>4, <2>5
<1>6. phase' = "event" /\ added' = {} /\ mgr'.container = <<>> /\ mgr'.lastTrack = 0
  BY DEF BeginEvent, ResetEvent, Reset
<1>7. Old' = {} /\ New' = {} /\ mgr'.lastTrack <= Len(mgr'.container)
  BY <1>6 DEF Old, New
<1>8. \A y \in Live' : y \in 1 .. n
  BY <1>5, <1>6 DEF Live, Elements
<1>9. \A i \in 1 .. n : track'[i].parent \notin Live' /\ track'[i].parent \notin added'
  BY <1>4, <1>6, <1>8
<1> QED
  BY <1>4, <1>5, <1>6, <1>7, <1>8, <1>9 DEF BranchInv

\* The next track has not ended before and after it is taken from the stack; if it
\* is a primary, so are the others.
LEMMA TrackTaken ==
  ASSUME HistoryTyped, BranchInv, PreUserTracking
  PROVE  LET L == Len(stack)
         IN /\ Live' = Live /\ Live = {stack[i] : i \in 1 .. L} /\ Live \subseteq 1 .. Len(track)
            /\ Len(stack') = L - 1 /\ \A i \in 1 .. L - 1 : stack'[i] = stack[i]
            /\ L \in Nat /\ L >= 1 /\ stack[L] \in 1 .. Len(track)
            /\ track[stack[L]].primary => \A t \in Live : track[t].parent = 0
<1> DEFINE N == Len(track)
           L == Len(stack)
           next == stack[L]
<1>1. /\ phase = "event" /\ phase' = "tracking" /\ stack # <<>>
      /\ current' = next /\ stack' = SubSeq(stack, 1, L - 1)
      /\ mgr' = IF track[next].primary THEN Clean(mgr) ELSE mgr
      /\ track' = track /\ added' = added
  BY DEF PreUserTracking, Last, Front
<1>2. stack \in Seq(1 .. N) /\ N \in Nat /\ IsManager(mgr, N)
  BY <1>1 DEF HistoryTyped
<1>3. L \in Nat /\ L >= 1 /\ next \in 1 .. N
  BY <1>1, <1>2
<1>4. Len(stack') = L - 1 /\ \A i \in 1 .. L - 1 : stack'[i] = stack[i]
  <2>1. L - 1 \in 0 .. L
    BY <1>3
  <2>2. Len(SubSeq(stack, 1, L - 1)) = L - 1 /\ \A i \in 1 .. L - 1 : SubSeq(stack, 1, L - 1)[i] = stack[i]
    <3> DEFINE k == L - 1
    <3>1. k \in 0 .. Len(stack)
      BY <2>1
    <3>2. Len(SubSeq(stack, 1, k)) = k /\ \A i \in 1 .. k : SubSeq(stack, 1, k)[i] = stack[i]
      <4> HIDE DEF k, N
      <4> QED
        BY <1>2, <3>1, Pieces
    <3> QED
      BY <3>2
  <2> QED
    BY <1>1, <2>2
<1>5. Live' = Live /\ Live = {stack[i] : i \in 1 .. L} /\ Live \subseteq 1 .. N
  <2>1. DOMAIN stack = 1 .. L /\ DOMAIN stack' = 1 .. L - 1
    <3>1. DOMAIN stack' = 1 .. Len(stack')
      BY <1>1, <1>2
    <3> QED
      BY <1>2, <1>4, <3>1
  <2>2. Live = {stack[i] : i \in 1 .. L}
    BY <1>1, <2>1 DEF Live, Elements
  <2>3. Live' = {stack[i] : i \in 1 .. L - 1} \cup {stack[L]}
    BY <1>1, <1>4, <2>1, ZenonT(30) DEF Live, Elements
  <2>4. \A i \in 1 .. L : i = L \/ i \in 1 .. L - 1
    BY <1>3
  <2>5. \A i \in 1 .. L - 1 : i \in 1 .. L
    BY <1>3
  <2>6. L \in 1 .. L
    BY <1>3
  <2> HIDE DEF L
  <2>7. Live' = Live
    BY <2>2, <2>3, <2>4, <2>5, <2>6
  <2> QED
    BY <1>2, <2>2, <2>7 DEF L
<1>6. /\ \A i, j \in 1 .. L : i < j => stack[i] < stack[j]
      /\ \A i \in 1 .. N : track[i].primary <=> track[i].parent = 0
      /\ \A i, j \in 1 .. N : i < j /\ track[j].parent = 0 => track[i].parent = 0
  BY <1>1 DEF BranchInv
<1>7. ASSUME track[next].primary, NEW t \in Live PROVE track[t].parent = 0
  <2>1. PICK i \in 1 .. L : t = stack[i]
    BY <1>5
  <2>2. t \in 1 .. N /\ track[next].parent = 0
    BY <1>3, <1>5, <1>6, <1>7
  <2>3. t = next \/ t < next
    BY <1>3, <1>6, <2>1
  <2> HIDE DEF next, N
  <2> QED
    BY <1>3, <1>6, <2>2, <2>3
<1> QED
  BY <1>3, <1>4, <1>5, <1>7

LEMMA PreBranches == ASSUME HistoryTyped, BranchInv, PreUserTracking PROVE BranchInv'
<1> DEFINE N == Len(track)
           L == Len(stack)
           next == stack[L]
<1>1. /\ phase = "event" /\ phase' = "tracking" /\ stack # <<>>
      /\ current' = next /\ stack' = SubSeq(stack, 1, L - 1)
      /\ mgr' = IF track[next].primary THEN Clean(mgr) ELSE mgr
      /\ track' = track /\ added' = added
  BY DEF PreUserTracking, Last, Front
<1>2. stack \in Seq(1 .. N) /\ N \in Nat /\ IsManager(mgr, N)
  BY <1>1 DEF HistoryTyped
<1>3. /\ Live' = Live /\ Live = {stack[i] : i \in 1 .. L} /\ Live \subseteq 1 .. N
      /\ Len(stack') = L - 1 /\ \A i \in 1 .. L - 1 : stack'[i] = stack[i]
      /\ L \in Nat /\ L >= 1 /\ next \in 1 .. N
      /\ track[next].primary => \A t \in Live : track[t].parent = 0
  BY TrackTaken, Zenon
<1>4. /\ mgr.lastTrack <= Len(mgr.container)
      /\ mgr.lastTrack = 0 \/ mgr.lastTrack < Len(mgr.container)
      /\ added \subseteq 1 .. N /\ added \cap Live = {}
      /\ \A i, j \in 1 .. L : i < j => stack[i] < stack[j]
      /\ \A i \in 1 .. N : track[i].primary <=> track[i].parent = 0
      /\ \A i, j \in 1 .. N : i < j /\ track[j].parent = 0 => track[i].parent = 0
      /\ \A i \in 1 .. N : track[i].parent \notin Live
      /\ \A t \in Old : track[t].parent \in added => track[t].parent \in Old
      /\ \A t \in New \cup Live : track[t].parent \in added => track[t].parent \in New
      /\ \A t \in added : track[t].parent = 0 => t \in mgr.saved
      /\ \A o \in Old, t \in New \cup Live : track[t].parent # 0 => o < t
  BY <1>1 DEF BranchInv
<1>5. \A i, j \in 1 .. L - 1 : i < j => stack'[i] < stack'[j]
  <2>1. \A i, j \in 1 .. L : i < j => stack[i] < stack[j]
    BY <1>4
  <2>2. \A i \in 1 .. L - 1 : i \in 1 .. L
    BY <1>3
  <2> HIDE DEF L
  <2> QED
    BY <1>3, <2>1, <2>2
<1>6. \A i \in 1 .. L - 1 : stack'[i] < current'
  BY <1>1, <1>3, <1>4
<1> HIDE DEF L, next
<1>7. CASE ~track[next].primary
  <2>1. mgr' = mgr
    BY <1>1, <1>7
  <2>2. Old' = Old /\ New' = New
    BY <2>1 DEF Old, New
  <2> QED
    BY <1>1, <1>3, <1>4, <1>5, <1>6, <2>1, <2>2 DEF BranchInv
<1>8. CASE track[next].primary
  <2> DEFINE m == Clean(mgr)
  <2>1. /\ mgr' = m /\ m.lastTrack = Len(m.container) /\ mgr.saved \subseteq m.saved
        /\ \A t \in Elements(m.container) :
             track[t].parent \in added => track[t].parent \in Elements(m.container)
    BY <1>1, <1>8, CleanCloses
  <2>2. m.container \in Seq(1 .. N)
    <3>1. IsManager(m, N)
      BY <1>2, CleanIsTyped
    <3> QED
      BY <3>1 DEF IsManager
  <2> HIDE DEF m
  <2>3. Old' = Elements(m.container) /\ New' = {} /\ Len(m.container) \in Nat
    <3>1. DOMAIN m.container = 1 .. Len(m.container) /\ Len(m.container) \in Nat
      BY <2>2
    <3> QED
      BY <2>1, <3>1 DEF Old, New, Elements
  <2>4. track[next].parent = 0
    BY <1>3, <1>4, <1>8
  <2>5. \A t \in Live : track[t].parent = 0
    BY <1>3, <1>8
  <2>6. 0 \notin added
    BY <1>4
  <2>7. \A t \in New' \cup Live' : track[t].parent = 0
    BY <1>3, <2>3, <2>5
  <2>8. mgr'.lastTrack <= Len(mgr'.container) /\ (phase' = "tracking" /\ track'[current'].parent = 0)
    BY <1>1, <2>1, <2>3, <2>4
  <2>9. \A t \in Old' : track'[t].parent \in added' => track'[t].parent \in Old'
    BY <1>1, <2>1, <2>3
  <2>10. \A t \in New' \cup Live' : track'[t].parent \in added' => track'[t].parent \in New'
    BY <1>1, <2>6, <2>7
  <2>11. \A t \in added' : track'[t].parent = 0 => t \in mgr'.saved
    BY <1>1, <1>4, <2>1
  <2>12. \A o \in Old', t \in New' \cup Live' : track'[t].parent # 0 => o < t
    BY <1>1, <2>7
  <2>13. added' \subseteq 1 .. Len(track') /\ added' \cap Live' = {}
    BY <1>1, <1>3, <1>4
  <2>14. /\ \A i \in 1 .. Len(track') : track'[i].primary <=> track'[i].parent = 0
         /\ \A i, j \in 1 .. Len(track') : i < j /\ track'[j].parent = 0 => track'[i].parent = 0
         /\ \A i \in 1 .. Len(track') : track'[i].parent \notin Live'
    BY <1>1, <1>3, <1>4
  <2> QED
    BY <1>3, <1>5, <1>6, <2>8, <2>9, <2>10, <2>11, <2>12, <2>13, <2>14 DEF BranchInv
<1> QED
  BY <1>7, <1>8

\* The tracks that have not ended, all tracks and the history after a track and
\* its n secondaries.
AfterTrack(inHistory, n) ==
  LET N == Len(track)
      L == Len(stack)
  IN /\ Live = {stack[i] : i \in 1 .. L} \cup {current}
     /\ current \notin {stack[i] : i \in 1 .. L} /\ \A i \in 1 .. L : stack[i] \in 1 .. N
     /\ Len(stack') = L + n
     /\ Live' = {stack[i] : i \in 1 .. L} \cup {N + i : i \in 1 .. n}
     /\ \A i, j \in 1 .. L + n : i < j => stack'[i] < stack'[j]
     /\ \A i \in 1 .. N + n : \/ i \in 1 .. N /\ track'[i] = track[i]
                              \/ i \notin 1 .. N /\ track'[i].parent = current /\ ~track'[i].primary
     /\ Len(track') = N + n /\ N + n \in Nat /\ current # 0
     /\ \A i \in 1 .. N : i \in 1 .. N + n /\ track'[i] = track[i]
     /\ \A i \in 1 .. n : N + i \notin 1 .. N
     /\ \A i \in 1 .. N + n : track'[i].parent \notin Live'
     /\ Old' = Old /\ New' = (IF inHistory THEN New \cup {current} ELSE New)
     /\ Old \subseteq 1 .. N /\ New \subseteq 1 .. N
     /\ mgr.lastTrack <= Len(mgr'.container)
     /\ inHistory => mgr.lastTrack < Len(mgr'.container)
     /\ ~inHistory => mgr'.container = mgr.container

LEMMA TrackEnded ==
  ASSUME ~Decays, HistoryTyped, BranchInv, PostUserTracking,
         NEW store \in BOOLEAN, NEW inHistory \in BOOLEAN, NEW ancestor \in BOOLEAN,
         NEW made \in Seq(TrackInfo), TrackEnds(store, inHistory, ancestor, made)
  PROVE  AfterTrack(inHistory, Len(made))
<1> DEFINE N == Len(track)
<1> DEFINE n == Len(made)
           c == mgr.container
           last == mgr.lastTrack
           L == Len(stack)
<1>1. /\ track[current].primary => store
      /\ store => inHistory
      /\ n \in Nat /\ Len(track') = N + n
      /\ \A i \in 1 .. N : track'[i] = track[i]
      /\ \A i \in 1 .. n : track'[N + i].parent = current /\ ~track'[N + i].primary
  BY DEF TrackEnds
<1>2. /\ phase = "tracking" /\ phase' = "event" /\ current' = 0
      /\ stack' = stack \o [i \in 1 .. n |-> N + i]
      /\ added' = IF inHistory THEN added \cup {current} ELSE added
  BY DEF TrackEnds, PostUserTracking
<1>3. /\ mgr'.container = IF inHistory THEN Append(c, current) ELSE c
      /\ mgr'.saved = IF store THEN mgr.saved \cup {current} ELSE mgr.saved
      /\ mgr'.lastTrack = last
  BY DEF TrackEnds
<1>4. /\ N \in Nat /\ current \in 1 .. N /\ stack \in Seq(1 .. N)
      /\ c \in Seq(1 .. N) /\ last \in Nat /\ L \in Nat /\ Len(c) \in Nat
      /\ \A i \in 1 .. N : track[i].parent \in Nat /\ track[i].parent < i
  <2>1. /\ track \in Seq(TrackInfo) /\ \A i \in 1 .. N : track[i].parent < i
        /\ N \in Nat /\ current \in 1 .. N /\ stack \in Seq(1 .. N) /\ IsManager(mgr, N)
    BY <1>2 DEF HistoryTyped
  <2>2. \A i \in 1 .. N : track[i] \in TrackInfo
    BY <2>1
  <2> QED
    BY <2>1, <2>2, SMTT(30) DEF IsManager, TrackInfo
<1>5. /\ last <= Len(c) /\ (last = 0 \/ last < Len(c) \/ track[current].parent = 0)
      /\ added \subseteq 1 .. N /\ added \cap Live = {}
      /\ \A i, j \in 1 .. L : i < j => stack[i] < stack[j]
      /\ \A i \in 1 .. L : stack[i] < current
      /\ \A i \in 1 .. N : track[i].primary <=> track[i].parent = 0
      /\ \A i, j \in 1 .. N : i < j /\ track[j].parent = 0 => track[i].parent = 0
      /\ \A i \in 1 .. N : track[i].parent \notin Live
      /\ \A t \in Old : track[t].parent \in added => track[t].parent \in Old
      /\ \A t \in New \cup Live : track[t].parent \in added => track[t].parent \in New
      /\ \A t \in added : track[t].parent = 0 => t \in mgr.saved
      /\ \A o \in Old, t \in New \cup Live : track[t].parent # 0 => o < t
  BY <1>2 DEF BranchInv
\* The stack after the step.
<1>6. /\ Len(stack') = L + n /\ \A i \in 1 .. L : stack'[i] = stack[i]
      /\ \A i \in 1 .. n : stack'[L + i] = N + i
      /\ stack' \in Seq(Nat)
  <2> DEFINE ids == [i \in 1 .. n |-> N + i]
  <2>1. ids \in Seq(Nat) /\ Len(ids) = n /\ \A i \in 1 .. n : ids[i] = N + i
    BY <1>1, <1>4
  <2>2. stack \in Seq(Nat)
    <3>1. 1 .. N \subseteq Nat
      OBVIOUS
    <3> HIDE DEF N
    <3> QED
      BY <1>4, <3>1, SeqWiden
  <2> HIDE DEF ids
  <2>3. stack' = stack \o ids
    BY <1>2 DEF ids
  <2>4. /\ stack' \in Seq(Nat) /\ Len(stack') = Len(stack) + Len(ids)
        /\ \A i \in 1 .. Len(stack) : stack'[i] = stack[i]
        /\ \A i \in 1 .. Len(ids) : stack'[Len(stack) + i] = ids[i]
    <3> DEFINE r == stack \o ids
    <3>1. /\ r \in Seq(Nat) /\ Len(r) = Len(stack) + Len(ids)
          /\ \A i \in 1 .. Len(stack) : r[i] = stack[i]
          /\ \A i \in 1 .. Len(ids) : r[Len(stack) + i] = ids[i]
      <4> HIDE DEF ids, L, n, N
      <4>1. ids \in Seq(Nat)
        BY <2>1
      <4> QED
        BY <2>2, <4>1, Joined
    <3> HIDE DEF r
    <3> QED
      BY <2>3, <3>1 DEF r
  <2> QED
    BY <2>1, <2>4
<1>7. \A i \in 1 .. L : stack[i] \in 1 .. N
  BY <1>4
<1>8. Elements(stack) = {stack[i] : i \in 1 .. L}
  BY <1>4 DEF Elements
<1>9. Live = {stack[i] : i \in 1 .. L} \cup {current}
  BY <1>2, <1>8 DEF Live
<1>10. DOMAIN stack' = 1 .. L + n
  BY <1>6
<1> HIDE DEF N, n, c, last, L
<1>11. Live' = {stack[i] : i \in 1 .. L} \cup {N + i : i \in 1 .. n}
  <2>1. Live' = {stack'[i] : i \in 1 .. L + n}
    BY <1>2, <1>10 DEF Live, Elements
  <2>2. ASSUME NEW x \in Live' PROVE x \in {stack[i] : i \in 1 .. L} \cup {N + i : i \in 1 .. n}
    <3>1. PICK i \in 1 .. L + n : x = stack'[i]
      BY <2>1
    <3>2. CASE i \in 1 .. L
      BY <1>6, <3>1, <3>2
    <3>3. CASE i \notin 1 .. L
      <4>1. i - L \in 1 .. n /\ i = L + (i - L)
        BY <1>1, <1>4, <3>3
      <4>2. x = N + (i - L)
        BY <1>6, <3>1, <4>1
      <4> QED
        BY <4>1, <4>2
    <3> QED
      BY <3>2, <3>3
  <2>3. ASSUME NEW i \in 1 .. L PROVE stack[i] \in Live'
    <3>1. i \in 1 .. L + n
      BY <1>1, <1>4
    <3>2. stack[i] = stack'[i]
      BY <1>6
    <3> QED
      BY <2>1, <3>1, <3>2
  <2>4. ASSUME NEW i \in 1 .. n PROVE N + i \in Live'
    <3>1. L + i \in 1 .. L + n
      BY <1>1, <1>4
    <3>2. N + i = stack'[L + i]
      BY <1>6
    <3> QED
      BY <2>1, <3>1, <3>2
  <2> QED
    BY <2>2, <2>3, <2>4
<1>12. \A i, j \in 1 .. L + n : i < j => stack'[i] < stack'[j]
  <2> SUFFICES ASSUME NEW i \in 1 .. L + n, NEW j \in 1 .. L + n, i < j PROVE stack'[i] < stack'[j]
    OBVIOUS
  <2>1. CASE j \in 1 .. L
    <3>1. i \in 1 .. L
      BY <2>1, <1>1, <1>4
    <3> QED
      BY <1>5, <1>6, <2>1, <3>1
  <2>2. CASE j \notin 1 .. L
    <3>1. j - L \in 1 .. n /\ j = L + (j - L)
      BY <1>1, <1>4, <2>2
    <3>2. stack'[j] = N + (j - L)
      BY <1>6, <3>1
    <3>3. CASE i \in 1 .. L
      <4>1. stack'[i] \in 1 .. N
        BY <1>6, <1>7, <3>3
      <4> QED
        BY <1>4, <3>1, <3>2, <4>1
    <3>4. CASE i \notin 1 .. L
      <4>1. i - L \in 1 .. n /\ i = L + (i - L)
        BY <1>1, <1>4, <3>4
      <4>2. stack'[i] = N + (i - L)
        BY <1>6, <4>1
      <4>3. N + (i - L) < N + (j - L)
        BY <1>4
      <4> QED
        BY <3>2, <4>2, <4>3
    <3> QED
      BY <3>3, <3>4
  <2> QED
    BY <2>1, <2>2
\* The tracks after the step: the parent of the new ones is current.
<1>13. \A i \in 1 .. N + n : \/ i \in 1 .. N /\ track'[i] = track[i]
                             \/ i \notin 1 .. N /\ track'[i].parent = current /\ ~track'[i].primary
  <2> TAKE i \in 1 .. N + n
  <2>1. CASE i \in 1 .. N
    BY <1>1, <2>1
  <2>2. CASE i \notin 1 .. N
    <3>1. i - N \in 1 .. n /\ i = N + (i - N)
      BY <1>1, <1>4, <2>2
    <3> QED
      BY <1>1, <2>2, <3>1
  <2> QED
    BY <2>1, <2>2
<1>14. /\ Len(track') = N + n /\ N + n \in Nat /\ current # 0
       /\ \A i \in 1 .. N : i \in 1 .. N + n /\ track'[i] = track[i]
  BY <1>1, <1>4
<1>15. current \notin {stack[i] : i \in 1 .. L}
  BY <1>4, <1>5, <1>7
<1>16. \A i \in 1 .. n : N + i \notin 1 .. N
  BY <1>4
<1>17. \A i \in 1 .. N + n : track'[i].parent \notin Live'
  <2> TAKE i \in 1 .. N + n
  <2>1. CASE i \in 1 .. N
    <3>1. track[i].parent \notin {stack[k] : k \in 1 .. L}
      BY <1>5, <1>9, <2>1
    <3>2. \A k \in 1 .. n : track[i].parent # N + k
      BY <1>4, <2>1
    <3> QED
      BY <1>11, <1>14, <2>1, <3>1, <3>2
  <2>2. CASE i \notin 1 .. N
    BY <1>4, <1>11, <1>13, <1>15, <1>16, <2>2
  <2> QED
    BY <2>1, <2>2
\* The history after the step.
<1>18. /\ Old' = Old /\ New' = (IF inHistory THEN New \cup {current} ELSE New)
       /\ Old \subseteq 1 .. N /\ New \subseteq 1 .. N
       /\ last <= Len(mgr'.container)
       /\ inHistory => last < Len(mgr'.container)
       /\ ~inHistory => mgr'.container = c
  <2>1. /\ Old = {c[i] : i \in 1 .. last} /\ New = {c[i] : i \in last + 1 .. Len(c)}
        /\ Old' = {mgr'.container[i] : i \in 1 .. last}
        /\ New' = {mgr'.container[i] : i \in last + 1 .. Len(mgr'.container)}
    BY <1>3 DEF Old, New, c, last
  <2>2. /\ \A i \in 1 .. last : i \in 1 .. Len(c)
        /\ \A i \in last + 1 .. Len(c) : i \in 1 .. Len(c)
        /\ \A i \in 1 .. Len(c) : c[i] \in 1 .. N
    BY <1>4, <1>5, SMTT(30)
  <2>3. Old \subseteq 1 .. N /\ New \subseteq 1 .. N
    BY <2>1, <2>2
  <2>4. CASE ~inHistory
    <3>1. mgr'.container = c
      BY <1>3, <2>4
    <3> QED
      BY <1>5, <2>1, <2>3, <2>4, <3>1
  <2>5. CASE inHistory
    <3> DEFINE d == Append(c, current)
    <3>1. mgr'.container = d
      BY <1>3, <2>5
    <3>2. Len(d) = Len(c) + 1 /\ (\A i \in 1 .. Len(c) : d[i] = c[i]) /\ d[Len(c) + 1] = current
      BY <1>4
    <3> HIDE DEF d
    <3>3. Old' = Old
      BY <2>1, <2>2, <3>1, <3>2
    <3>4. New' = New \cup {current}
      <4>1. \A i \in last + 1 .. Len(c) + 1 : i = Len(c) + 1 \/ i \in last + 1 .. Len(c)
        BY <1>4
      <4>2. /\ \A i \in last + 1 .. Len(c) : i \in last + 1 .. Len(c) + 1
            /\ Len(c) + 1 \in last + 1 .. Len(c) + 1
        BY <1>4, <1>5
      <4>3. New' = {d[i] : i \in last + 1 .. Len(c) + 1}
        BY <2>1, <3>1, <3>2
      <4>4. \A i \in last + 1 .. Len(c) : d[i] = c[i]
        BY <2>2, <3>2
      <4> QED
        BY <2>1, <3>2, <4>1, <4>2, <4>3, <4>4
    <3>5. last < Len(d) /\ last <= Len(d)
      BY <1>4, <1>5, <3>2
    <3> QED
      BY <2>3, <2>5, <3>1, <3>3, <3>4, <3>5
  <2> QED
    BY <2>4, <2>5
<1> QED
  BY <1>6, <1>7, <1>9, <1>11, <1>12, <1>13, <1>14, <1>15, <1>16, <1>17, <1>18 DEF AfterTrack, N, n, c, last, L

LEMMA PostBranches ==
  ASSUME ~Decays, HistoryTyped, BranchInv, PostUserTracking
  PROVE  BranchInv'
<1> DEFINE N == Len(track)
<1>1. PICK store, inHistory, ancestor \in BOOLEAN, made \in Seq(TrackInfo) :
        TrackEnds(store, inHistory, ancestor, made)
  BY PostStep, Zenon
<1> DEFINE n == Len(made)
           c == mgr.container
           last == mgr.lastTrack
           L == Len(stack)
<1>2. /\ track[current].primary => store
      /\ store => inHistory
      /\ n \in Nat /\ Len(track') = N + n
      /\ \A i \in 1 .. N : track'[i] = track[i]
      /\ \A i \in 1 .. n : track'[N + i].parent = current /\ ~track'[N + i].primary
  BY <1>1 DEF TrackEnds
<1>3. /\ phase = "tracking" /\ phase' = "event" /\ current' = 0
      /\ stack' = stack \o [i \in 1 .. n |-> N + i]
      /\ added' = IF inHistory THEN added \cup {current} ELSE added
  BY <1>1 DEF TrackEnds, PostUserTracking
<1>4. /\ mgr'.container = IF inHistory THEN Append(c, current) ELSE c
      /\ mgr'.saved = IF store THEN mgr.saved \cup {current} ELSE mgr.saved
      /\ mgr'.lastTrack = last
  BY <1>1 DEF TrackEnds
<1>5. /\ N \in Nat /\ current \in 1 .. N /\ stack \in Seq(1 .. N)
      /\ c \in Seq(1 .. N) /\ last \in Nat /\ L \in Nat /\ Len(c) \in Nat
      /\ \A i \in 1 .. N : track[i].parent \in Nat /\ track[i].parent < i
  <2>1. /\ track \in Seq(TrackInfo) /\ \A i \in 1 .. N : track[i].parent < i
        /\ N \in Nat /\ current \in 1 .. N /\ stack \in Seq(1 .. N) /\ IsManager(mgr, N)
    BY <1>3 DEF HistoryTyped
  <2>2. \A i \in 1 .. N : track[i] \in TrackInfo
    BY <2>1
  <2> QED
    BY <2>1, <2>2, SMTT(30) DEF IsManager, TrackInfo
<1>6. /\ last <= Len(c) /\ (last = 0 \/ last < Len(c) \/ track[current].parent = 0)
      /\ added \subseteq 1 .. N /\ added \cap Live = {}
      /\ \A i, j \in 1 .. L : i < j => stack[i] < stack[j]
      /\ \A i \in 1 .. L : stack[i] < current
      /\ \A i \in 1 .. N : track[i].primary <=> track[i].parent = 0
      /\ \A i, j \in 1 .. N : i < j /\ track[j].parent = 0 => track[i].parent = 0
      /\ \A i \in 1 .. N : track[i].parent \notin Live
      /\ \A t \in Old : track[t].parent \in added => track[t].parent \in Old
      /\ \A t \in New \cup Live : track[t].parent \in added => track[t].parent \in New
      /\ \A t \in added : track[t].parent = 0 => t \in mgr.saved
      /\ \A o \in Old, t \in New \cup Live : track[t].parent # 0 => o < t
  BY <1>3 DEF BranchInv
\* After the step.
<1>7. /\ Live = {stack[i] : i \in 1 .. L} \cup {current}
      /\ current \notin {stack[i] : i \in 1 .. L} /\ \A i \in 1 .. L : stack[i] \in 1 .. N
      /\ Len(stack') = L + n
      /\ Live' = {stack[i] : i \in 1 .. L} \cup {N + i : i \in 1 .. n}
      /\ \A i, j \in 1 .. L + n : i < j => stack'[i] < stack'[j]
      /\ \A i \in 1 .. N + n : \/ i \in 1 .. N /\ track'[i] = track[i]
                               \/ i \notin 1 .. N /\ track'[i].parent = current /\ ~track'[i].primary
      /\ Len(track') = N + n /\ N + n \in Nat /\ current # 0
      /\ \A i \in 1 .. N : i \in 1 .. N + n /\ track'[i] = track[i]
      /\ \A i \in 1 .. n : N + i \notin 1 .. N
      /\ \A i \in 1 .. N + n : track'[i].parent \notin Live'
      /\ Old' = Old /\ New' = (IF inHistory THEN New \cup {current} ELSE New)
      /\ Old \subseteq 1 .. N /\ New \subseteq 1 .. N
      /\ last <= Len(mgr'.container)
      /\ inHistory => last < Len(mgr'.container)
      /\ ~inHistory => mgr'.container = c
  <2>1. AfterTrack(inHistory, Len(made))
    BY <1>1, TrackEnded, Zenon
  <2> QED
    BY <2>1, Zenon DEF AfterTrack
<1> HIDE DEF N, n, c, last, L
<1>8. added' \subseteq 1 .. N + n /\ added' \cap Live' = {}
  <2>1. added' \subseteq added \cup {current} /\ added' \subseteq 1 .. N
    BY <1>3, <1>5, <1>6
  <2>2. \A x \in added \cup {current} : x \notin {stack[i] : i \in 1 .. L}
    BY <1>6, <1>7
  <2>3. (\A i \in 1 .. N : i \in 1 .. N + n) /\ \A i \in 1 .. n : N + i \notin 1 .. N
    BY <1>7
  <2>4. Live' = {stack[i] : i \in 1 .. L} \cup {N + i : i \in 1 .. n}
    BY <1>7
  <2> QED
    BY <2>1, <2>2, <2>3, <2>4
<1>9. \A t \in New' \cup Live' : t \in 1 .. N + n /\ (t \in New \cup Live \/ t \notin 1 .. N)
  <2>1. \A i \in 1 .. n : N + i \in 1 .. N + n /\ N + i \notin 1 .. N
    BY <1>2, <1>5
  <2> QED
    BY <1>5, <1>7, <2>1
<1>10. \A t \in Old' : track'[t].parent \in added' => track'[t].parent \in Old'
  <2> SUFFICES ASSUME NEW t \in Old, track'[t].parent \in added' PROVE track[t].parent \in Old
    BY <1>7
  <2>1. t \in 1 .. N /\ track'[t] = track[t]
    BY <1>7
  <2>2. track[t].parent # current
    BY <1>6, <1>7, <2>1
  <2>3. track[t].parent \in added
    BY <1>3, <2>1, <2>2
  <2> QED
    BY <1>6, <2>3
<1>11. \A t \in New' \cup Live' : track'[t].parent \in added' => track'[t].parent \in New'
  <2> SUFFICES ASSUME NEW t \in New' \cup Live', track'[t].parent \in added'
               PROVE  track'[t].parent \in New'
    OBVIOUS
  <2>1. CASE t \in 1 .. N
    <3>1. t \in New \cup Live /\ track'[t] = track[t]
      BY <1>7, <1>9, <2>1
    <3>2. track[t].parent # current
      BY <1>6, <1>7, <2>1
    <3>3. track[t].parent \in added
      BY <1>3, <3>1, <3>2
    <3>4. track[t].parent \in New
      BY <1>6, <3>1, <3>3
    <3> QED
      BY <1>7, <3>1, <3>4
  <2>2. CASE t \notin 1 .. N
    <3>1. track'[t].parent = current
      BY <1>7, <1>9, <2>2
    <3>2. current \notin added
      BY <1>6, <1>7
    <3>3. inHistory
      BY <1>3, <3>1, <3>2
    <3> QED
      BY <1>7, <3>1, <3>3
  <2> QED
    BY <2>1, <2>2
<1>12. \A t \in added' : track'[t].parent = 0 => t \in mgr'.saved
  <2> SUFFICES ASSUME NEW t \in added', track'[t].parent = 0 PROVE t \in mgr'.saved
    OBVIOUS
  <2>1. t \in 1 .. N /\ track'[t] = track[t]
    BY <1>3, <1>5, <1>6, <1>7
  <2>2. CASE t \in added
    BY <1>4, <1>6, <2>1, <2>2
  <2>3. CASE t \notin added
    <3>1. t = current
      BY <1>3, <2>3
    <3>2. track[current].primary
      BY <1>6, <2>1, <3>1
    <3> QED
      BY <1>2, <1>4, <3>1, <3>2
  <2> QED
    BY <2>2, <2>3
<1>13. \A o \in Old', t \in New' \cup Live' : track'[t].parent # 0 => o < t
  <2> SUFFICES ASSUME NEW o \in Old, NEW t \in New' \cup Live', track'[t].parent # 0 PROVE o < t
    BY <1>7
  <2>1. CASE t \in 1 .. N
    <3>1. t \in New \cup Live /\ track'[t] = track[t]
      BY <1>7, <1>9, <2>1
    <3> QED
      BY <1>6, <3>1
  <2>2. CASE t \notin 1 .. N
    <3>1. o \in 1 .. N /\ t \in 1 .. N + n
      BY <1>7, <1>9
    <3> QED
      BY <1>2, <1>5, <2>2, <3>1
  <2> QED
    BY <2>1, <2>2
<1>14. mgr'.lastTrack <= Len(mgr'.container)
       /\ (mgr'.lastTrack = 0 \/ mgr'.lastTrack < Len(mgr'.container))
  <2>1. last <= Len(mgr'.container)
    BY <1>7
  <2>2. CASE inHistory
    BY <1>4, <1>7, <2>2
  <2>3. CASE ~inHistory
    <3>1. track[current].parent # 0
      BY <1>2, <1>5, <1>6, <2>3
    <3> QED
      BY <1>4, <1>6, <1>7, <2>3, <3>1
  <2> QED
    BY <1>4, <2>1, <2>2, <2>3
<1>15. /\ \A i \in 1 .. N + n : track'[i].primary <=> track'[i].parent = 0
       /\ \A i, j \in 1 .. N + n : i < j /\ track'[j].parent = 0 => track'[i].parent = 0
  <2>1. \A i \in 1 .. N + n : track'[i].primary <=> track'[i].parent = 0
    BY <1>6, <1>7
  <2>2. ASSUME NEW i \in 1 .. N + n, NEW j \in 1 .. N + n, i < j, track'[j].parent = 0
        PROVE  track'[i].parent = 0
    <3>1. j \in 1 .. N
      BY <1>7, <2>2
    <3>2. i \in 1 .. N
      BY <1>5, <2>2, <3>1
    <3> QED
      BY <1>6, <1>7, <2>2, <3>1, <3>2
  <2> QED
    BY <2>1, <2>2
<1> QED
  BY <1>3, <1>7, <1>8, <1>10, <1>11, <1>12, <1>13, <1>14, <1>15 DEF BranchInv

LEMMA BranchesStutter == ASSUME BranchInv, UNCHANGED vars PROVE BranchInv'
<1>1. /\ phase' = phase /\ track' = track /\ stack' = stack /\ current' = current
      /\ added' = added /\ mgr' = mgr
  BY DEF vars
<1>2. Old' = Old /\ New' = New /\ Live' = Live
  BY <1>1 DEF Old, New, Live, Elements
<1> QED
  BY <1>1, <1>2 DEF BranchInv

LEMMA StoredBranches ==
  ASSUME HistoryTyped, BranchInv, StoreTracks
  PROVE  BranchIsSaved'
<1> DEFINE m == Clean(mgr)
           s == Sorted(m.container)
<1>1. phase = "event"
  BY DEF StoreTracks
<1>2. /\ Elements(s) = Elements(m.container) /\ mgr'.container = s
      /\ phase' = "stored" /\ track' = track /\ added' = added
  BY StoreStep, Zenon
<1>3. \A t \in Elements(m.container) :
        track[t].parent \in added => track[t].parent \in Elements(m.container)
  BY <1>1, CleanCloses
<1> HIDE DEF s, m
<1>4. Elements(mgr.container)' = Elements(s)
  BY <1>2 DEF Elements
<1> QED
  BY <1>2, <1>3, <1>4 DEF BranchIsSaved

\* "this saves a track and all its parents": whatever the tracks of the event,
\* and in whatever order SimTrackManager::cleanTracksWithHistory meets them, a
\* stored track's parent is stored too if it entered the history, as long as
\* primaries do not decay to particles that are primaries themselves.
THEOREM BranchesAreSaved == ASSUME ~Decays PROVE Spec => []BranchIsSaved
<1> DEFINE Saved == BranchInv /\ BranchIsSaved
<1>1. Init => Saved
  BY DEF Init, BranchInv, BranchIsSaved
<1>2. HistoryTyped /\ Saved /\ [Next]_vars => Saved'
  <2> SUFFICES ASSUME HistoryTyped, Saved, [Next]_vars PROVE Saved'
    OBVIOUS
  <2>1. CASE BeginEvent
    <3>1. phase' = "event"
      BY <2>1 DEF BeginEvent
    <3> QED
      BY <2>1, <3>1, BeginBranches DEF BranchIsSaved
  <2>2. CASE PreUserTracking
    <3>1. phase' = "tracking"
      BY <2>2 DEF PreUserTracking
    <3> QED
      BY <2>2, <3>1, PreBranches DEF BranchIsSaved
  <2>3. CASE PostUserTracking
    <3>1. phase' = "event"
      BY <2>3 DEF PostUserTracking
    <3> QED
      BY <2>3, <3>1, PostBranches DEF BranchIsSaved
  <2>4. CASE EventThrows
    <3>1. phase' = "none"
      BY <2>4 DEF EventThrows
    <3> QED
      BY <3>1 DEF BranchIsSaved, BranchInv
  <2>5. CASE StoreTracks
    <3>1. phase' = "stored"
      BY <2>5 DEF StoreTracks
    <3>2. BranchIsSaved'
      BY <2>5, StoredBranches
    <3> QED
      BY <3>1, <3>2 DEF BranchInv
  <2>6. CASE UNCHANGED vars
    <3>1. BranchInv'
      BY <2>6, BranchesStutter
    <3>2. BranchIsSaved'
      BY <2>6 DEF vars, BranchIsSaved, Elements
    <3> QED
      BY <3>1, <3>2
  <2> QED
    BY <2>1, <2>2, <2>3, <2>4, <2>5, <2>6 DEF Next, Finished
<1> QED
  BY <1>1, <1>2, HistoryIsTyped, PTL DEF Spec


-----------------------------------------------------------------------------
(* The nearest stored ancestor of a track.                                   *)

\* The parent of a track was created before it.
ParentsBefore(trk) == Len(trk) \in Nat /\ \A i \in 1 .. Len(trk) : trk[i].parent \in 0 .. i - 1

NearestFollows(trk, stored) ==
  /\ Nearest(trk, stored, 0) = 0
  /\ \A i \in 1 .. Len(trk) :
       Nearest(trk, stored, i) = IF i \in stored THEN i ELSE Nearest(trk, stored, trk[i].parent)

LEMMA NearestIs == ASSUME NEW trk, ParentsBefore(trk), NEW stored PROVE NearestFollows(trk, stored)
<1> DEFINE N == Len(trk)
           Body(f, i) == IF i = 0 \/ i \in stored THEN i ELSE f[trk[i].parent]
           Computes(f, n) == f = [i \in 0 .. n |-> Body(f, i)]
           A == {n \in 0 .. N : \E f : Computes(f, n)}
<1>1. N \in Nat /\ \A i \in 1 .. N : trk[i].parent \in 0 .. i - 1
  BY DEF ParentsBefore
<1>2. 0 \in A
  <2> DEFINE g == [i \in 0 .. 0 |-> 0]
  <2>1. \A i \in 0 .. 0 : Body(g, i) = 0
    BY SMT
  <2>2. g = [i \in 0 .. 0 |-> Body(g, i)]
    <3> HIDE DEF Body
    <3> QED
      BY <2>1
  <2>3. 0 \in 0 .. N
    BY <1>1
  <2> HIDE DEF g, Body
  <2> QED
    BY <2>2, <2>3
<1>3. ASSUME NEW n \in 1 .. N, n - 1 \in A PROVE n \in A
  <2>1. PICK f : Computes(f, n - 1)
    <3> HIDE DEF Computes
    <3> QED
      BY <1>3
  <2>2. n \in Nat /\ n - 1 \in 0 .. N /\ n \in 0 .. N
    BY <1>1
  <2> DEFINE g == [i \in 0 .. n |-> IF i \in 0 .. n - 1 THEN f[i] ELSE Body(f, i)]
  <2>3. \A i \in 0 .. n - 1 : g[i] = f[i]
    BY <2>2
  <2>4. \A i \in 0 .. n : g[i] = Body(f, i)
    <3> TAKE i \in 0 .. n
    <3>1. CASE i \in 0 .. n - 1
      <4>1. f[i] = Body(f, i)
        <5> HIDE DEF Body
        <5> QED
          BY <2>1, <3>1
      <4> HIDE DEF g, Body
      <4> QED
        BY <2>3, <3>1, <4>1
    <3>2. CASE i \notin 0 .. n - 1
      <4> HIDE DEF Body
      <4> QED
        BY <3>2
    <3> QED
      BY <3>1, <3>2
  <2>5. \A i \in 0 .. n : Body(f, i) = Body(g, i)
    <3> TAKE i \in 0 .. n
    <3>1. CASE i = 0
      BY <3>1
    <3>2. CASE i # 0
      <4>1. i \in 1 .. N /\ i \in 1 .. n
        BY <1>1, <2>2, <3>2
      <4>2. trk[i].parent \in 0 .. n - 1
        <5>1. trk[i].parent \in 0 .. i - 1
          BY <1>1, <4>1
        <5> QED
          BY <2>2, <4>1, <5>1
      <4> HIDE DEF g, N
      <4> QED
        BY <2>3, <4>2
    <3> QED
      BY <3>1, <3>2
  <2>6. g = [i \in 0 .. n |-> g[i]]
    OBVIOUS
  <2>7. Computes(g, n)
    <3> HIDE DEF g, Body
    <3> QED
      BY <2>4, <2>5, <2>6
  <2> HIDE DEF Computes, g
  <2> QED
    BY <2>2, <2>7
<1>4. N \in A
  <2> HIDE DEF A
  <2>1. \A n \in 0 .. N : n \in A
    <3> HIDE DEF N
    <3> QED
      BY <1>1, <1>2, <1>3, CountUp
  <2>2. N \in 0 .. N
    BY <1>1
  <2> QED
    BY <2>1, <2>2
<1> DEFINE up == CHOOSE f : f = [i \in 0 .. Len(trk) |-> Body(f, i)]
<1>5. up = [i \in 0 .. N |-> Body(up, i)]
  <2>1. \E f : Computes(f, N)
    <3> HIDE DEF Computes
    <3> QED
      BY <1>4
  <2> HIDE DEF Body
  <2> QED
    BY <2>1
<1>6. \A i : Nearest(trk, stored, i) = up[i]
  BY Zenon DEF Nearest
<1>7. \A i \in 0 .. N : up[i] = Body(up, i)
  <2> HIDE DEF up, Body
  <2> QED
    BY <1>5
<1> HIDE DEF up
<1>8. up[0] = 0
  <2>1. 0 \in 0 .. N
    BY <1>1
  <2> QED
    BY <1>7, <2>1
<1>9. \A i \in 1 .. N : up[i] = IF i \in stored THEN i ELSE up[trk[i].parent]
  <2>1. \A i \in 1 .. N : i \in 0 .. N /\ i # 0
    BY <1>1
  <2> QED
    BY <1>7, <2>1
<1> QED
  BY <1>6, <1>8, <1>9 DEF NearestFollows

\* It depends on the tracks from which this one descends, and which of them are stored.
LEMMA NearestAgrees ==
  ASSUME NEW old, NEW new, ParentsBefore(old), ParentsBefore(new), Len(old) <= Len(new),
         NEW S, NEW T, NEW P \in SUBSET (1 .. Len(old)),
         \A i \in P : /\ new[i].parent = old[i].parent
                      /\ old[i].parent \in P \cup {0}
                      /\ i \in S <=> i \in T
  PROVE  \A i \in P : Nearest(new, T, i) = Nearest(old, S, i)
<1> DEFINE Bad == {i \in P : Nearest(new, T, i) # Nearest(old, S, i)}
<1>1. Len(old) \in Nat /\ Len(new) \in Nat /\ \A i \in P : i \in Nat /\ i \in 1 .. Len(old) /\ i \in 1 .. Len(new)
  BY DEF ParentsBefore
<1>2. SUFFICES ASSUME Bad # {} PROVE FALSE
  OBVIOUS
<1>3. Bad \subseteq Nat
  BY <1>1
<1>4. PICK i \in Bad : \A k \in Bad : i <= k
  <2> HIDE DEF Bad
  <2> QED
    BY <1>2, <1>3, LeastNat
<1>5. i \in P /\ Nearest(new, T, i) # Nearest(old, S, i)
  OBVIOUS
<1> DEFINE p == old[i].parent
<1>6. /\ Nearest(old, S, i) = IF i \in S THEN i ELSE Nearest(old, S, p)
      /\ Nearest(new, T, i) = IF i \in T THEN i ELSE Nearest(new, T, p)
      /\ Nearest(old, S, 0) = 0 /\ Nearest(new, T, 0) = 0
  <2>1. NearestFollows(old, S) /\ NearestFollows(new, T)
    BY NearestIs, Zenon
  <2>2. new[i].parent = p /\ i \in 1 .. Len(old) /\ i \in 1 .. Len(new)
    BY <1>1, <1>5
  <2> HIDE DEF Bad
  <2> QED
    BY <2>1, <2>2 DEF NearestFollows
<1>7. i \notin S /\ Nearest(new, T, p) # Nearest(old, S, p) /\ p \in P
  BY <1>5, <1>6
<1>8. p \in 0 .. i - 1
  BY <1>1, <1>5 DEF ParentsBefore
<1>9. p \in Bad /\ i \in Nat
  BY <1>1, <1>5, <1>7
<1> HIDE DEF Bad
<1> QED
  BY <1>4, <1>8, <1>9


-----------------------------------------------------------------------------
(* The mothers of hits.                                                      *)

\* The pairs of idsave and of ancestorList.
Pairs == [id : Nat, mother : Nat]

PairsOfTracks(s) == s \in Seq(Pairs) /\ \A j, k \in 1 .. Len(s) : s[j].id = s[k].id => j = k

IdsOf(s) == {s[j].id : j \in 1 .. Len(s)}

LEMMA SortedPairsAre ==
  ASSUME NEW s, PairsOfTracks(s)
  PROVE  /\ SortedPairs(s) \in Seq(Pairs) /\ Len(SortedPairs(s)) = Len(s)
         /\ \A k \in 1 .. Len(s) : \E j \in 1 .. Len(s) : SortedPairs(s)[k] = s[j]
         /\ \A j \in 1 .. Len(s) : \E k \in 1 .. Len(s) : SortedPairs(s)[k] = s[j]
         /\ \A k, l \in 1 .. Len(s) : k < l => SortedPairs(s)[k].id < SortedPairs(s)[l].id
<1> DEFINE n == Len(s)
           D == {p.id : p \in Elements(s)}
           ids == InOrder(D)
           r == SortedPairs(s)
<1>1. n \in Nat /\ DOMAIN s = 1 .. n /\ \A j \in 1 .. n : s[j] \in Pairs /\ s[j].id \in Nat
  <2>1. s \in Seq(Pairs)
    BY DEF PairsOfTracks
  <2>2. \A j \in 1 .. n : s[j] \in Pairs
    BY <2>1
  <2> QED
    BY <2>1, <2>2 DEF Pairs
<1>2. \A j, k \in 1 .. n : s[j].id = s[k].id => j = k
  BY DEF PairsOfTracks
<1>3. D \subseteq Int /\ D = {s[j].id : j \in 1 .. n}
  BY <1>1 DEF Elements
<1> DEFINE f == [j \in 1 .. n |-> s[j].id]
<1>4. f \in Bijection(1 .. n, D)
  <2>1. f \in Injection(1 .. n, D)
    <3> HIDE DEF D, n
    <3> QED
      BY <1>2, <1>3 DEF Injection, IsInjective
  <2>2. f \in Surjection(1 .. n, D)
    <3> HIDE DEF D, n
    <3> QED
      BY <1>3 DEF Surjection
  <2> QED
    BY <2>1, <2>2 DEF Bijection
<1>5. IsFiniteSet(D) /\ Cardinality(D) = n
  <2>1. IsFiniteSet(1 .. n) /\ Cardinality(1 .. n) = n
    <3> HIDE DEF n
    <3>1. n \in Nat
      BY <1>1
    <3>2. 1 \in Int /\ n \in Int
      BY <3>1
    <3>3. IsFiniteSet(1 .. n) /\ Cardinality(1 .. n) = IF 1 > n THEN 0 ELSE n - 1 + 1
      BY <3>2, FS_Interval
    <3> QED
      BY <3>1, <3>3
  <2> HIDE DEF f, D, n
  <2>2. ExistsBijection(1 .. n, D)
    BY <1>4 DEF ExistsBijection
  <2> QED
    BY <2>1, <2>2, FS_Bijection
<1>6. /\ ids \in [1 .. n -> D]
      /\ \A i \in D : \E k \in 1 .. n : ids[k] = i
      /\ \A k, l \in 1 .. n : k < l => ids[k] < ids[l]
  <2> HIDE DEF D
  <2> QED
    BY <1>3, <1>5, InOrderLists
<1> DEFINE WithId(k) == CHOOSE p \in Elements(s) : p.id = ids[k]
<1>7. r = [k \in 1 .. n |-> WithId(k)]
  <2>1. r = [k \in DOMAIN s |-> WithId(k)]
    BY Zenon DEF SortedPairs
  <2> HIDE DEF r, WithId
  <2> QED
    BY <1>1, <2>1
<1> HIDE DEF ids, D
<1>8. ASSUME NEW k \in 1 .. n PROVE WithId(k) \in Elements(s) /\ WithId(k).id = ids[k]
  <2>1. ids[k] \in D
    BY <1>6
  <2>2. \E p \in Elements(s) : p.id = ids[k]
    BY <2>1 DEF D
  <2> QED
    BY <2>2
<1> HIDE DEF WithId, r
<1>9. ASSUME NEW k \in 1 .. n
      PROVE  r[k].id = ids[k] /\ \E j \in 1 .. n : r[k] = s[j]
  <2>1. r[k] = WithId(k)
    BY <1>7
  <2> QED
    BY <1>1, <1>8, <2>1 DEF Elements
<1>10. ASSUME NEW j \in 1 .. n PROVE \E k \in 1 .. n : r[k] = s[j]
  <2>1. PICK k \in 1 .. n : ids[k] = s[j].id
    BY <1>3, <1>6
  <2>2. PICK l \in 1 .. n : r[k] = s[l]
    BY <1>9
  <2>3. s[l].id = s[j].id
    BY <1>9, <2>1, <2>2
  <2> QED
    BY <1>2, <2>2, <2>3
<1>11. \A k, l \in 1 .. n : k < l => r[k].id < r[l].id
  BY <1>6, <1>9
<1>12. r \in Seq(Pairs) /\ Len(r) = n
  <2>1. \A k \in 1 .. n : r[k] \in Pairs
    BY <1>1, <1>9
  <2>2. r \in [1 .. n -> Pairs]
    BY <1>7, <2>1
  <2> QED
    BY <1>1, <2>2
<1> QED
  BY <1>9, <1>10, <1>11, <1>12 DEF r


\* idsave when it is resolved: in ascending order, each stored track its own
\* mother, and the others the children of tracks in it or of none.
Chained(pairs, stored) ==
  /\ PairsOfTracks(pairs) /\ \A k, l \in 1 .. Len(pairs) : k < l => pairs[k].id < pairs[l].id
  /\ \A j \in 1 .. Len(pairs) :
       /\ pairs[j].id \in 1 .. Len(track)
       /\ pairs[j].mother = IF pairs[j].id \in stored THEN pairs[j].id ELSE track[pairs[j].id].parent
       /\ track[pairs[j].id].parent \in IdsOf(pairs) \cup {0}

LEMMA TypedParents == ASSUME TracksAreTyped PROVE ParentsBefore(track) /\ DOMAIN track = 1 .. Len(track)
<1>1. Len(track) \in Nat /\ DOMAIN track = 1 .. Len(track) /\ \A i \in 1 .. Len(track) : track[i] \in TrackInfo /\ track[i].parent < i
  BY DEF TracksAreTyped
<1>2. \A i \in 1 .. Len(track) : track[i].parent \in Nat /\ i \in Nat
  BY <1>1 DEF TrackInfo
<1>3. \A i \in 1 .. Len(track) : track[i].parent \in 0 .. i - 1
  BY <1>1, <1>2
<1> QED
  BY <1>1, <1>3 DEF ParentsBefore

\* From mother to mother the search comes to the nearest stored track, whatever
\* is in ancestorList.
LEMMA FindsNearest ==
  ASSUME TracksAreTyped, NEW pairs, NEW stored, Chained(pairs, stored), NEW ancestors,
         NEW id \in IdsOf(pairs)
  PROVE  IdSavedTrack(id, pairs, ancestors) = Nearest(track, stored, id)
<1> DEFINE N == Len(track)
           L == Len(pairs)
           Bottom(i) == IF {k \in DOMAIN ancestors : ancestors[k].id = i} # {}
                        THEN ancestors[Max({k \in DOMAIN ancestors : ancestors[k].id = i})].mother ELSE 0
           Level(prev, j, i) == IF pairs[j].id # i THEN prev[i]
                                ELSE IF pairs[j].mother \in {0, i} THEN pairs[j].mother
                                ELSE prev[pairs[j].mother]
           U == CHOOSE up : up = [j \in 0 .. L |-> [i \in DOMAIN track |->
                                    IF j = 0 THEN Bottom(i) ELSE Level(up[j - 1], j, i)]]
           Near(i) == Nearest(track, stored, i)
<1>1. /\ L \in Nat /\ N \in Nat /\ DOMAIN track = 1 .. N /\ DOMAIN pairs = 1 .. L
      /\ \A j \in 1 .. L : pairs[j].id \in 1 .. N
      /\ \A k, l \in 1 .. L : k < l => pairs[k].id < pairs[l].id
  <2>1. pairs \in Seq(Pairs)
    BY DEF Chained, PairsOfTracks
  <2> QED
    BY <2>1, TypedParents DEF Chained, ParentsBefore
<1>2. \A j \in 1 .. L : /\ pairs[j].mother = IF pairs[j].id \in stored THEN pairs[j].id ELSE track[pairs[j].id].parent
                        /\ track[pairs[j].id].parent \in IdsOf(pairs) \cup {0}
  BY DEF Chained
<1>3. /\ Near(0) = 0
      /\ \A i \in 1 .. N : Near(i) = IF i \in stored THEN i ELSE Near(track[i].parent)
  <2>1. ParentsBefore(track)
    BY TypedParents
  <2>2. NearestFollows(track, stored)
    BY <2>1, NearestIs, Zenon
  <2> QED
    BY <2>2 DEF NearestFollows
<1>4. \A i \in 1 .. N : track[i].parent \in 0 .. i - 1
  BY TypedParents DEF ParentsBefore
<1>5. PICK at \in 1 .. L : pairs[at].id = id
  BY DEF IdsOf
<1>6. IdSavedTrack(id, pairs, ancestors) = U[L][id]
  <2>1. IdSavedTrack(id, pairs, ancestors) =
          IF pairs = <<>> THEN id ELSE IF \A j \in DOMAIN pairs : pairs[j].id # id THEN 0 ELSE U[L][id]
    BY Zenon DEF IdSavedTrack
  <2>2. pairs # <<>>
    <3>1. pairs = <<>> => Len(pairs) = 0
      OBVIOUS
    <3>2. L # 0
      BY <1>1, <1>5
    <3> QED
      BY <3>1, <3>2
  <2>3. ~ \A j \in DOMAIN pairs : pairs[j].id # id
    BY <1>1, <1>5
  <2> HIDE DEF U, L
  <2> QED
    BY <2>1, <2>2, <2>3
<1> HIDE DEF Bottom, Near
\* The levels of the search exist.
<1> DEFINE V == Nat \cup {Bottom(i) : i \in 1 .. N}
           S == [1 .. N -> V]
           base == [i \in 1 .. N |-> Bottom(i)]
           step == [x \in (1 .. L) \X S |-> [i \in 1 .. N |-> Level(x[2], x[1], i)]]
<1>7. base \in S
  BY DEF base
<1>8. ASSUME NEW j \in 1 .. L, NEW prev \in S, NEW i \in 1 .. N PROVE Level(prev, j, i) \in V
  <2>1. pairs[j].mother \in {0, i} => pairs[j].mother \in V
    OBVIOUS
  <2>2. pairs[j].id = i /\ pairs[j].mother \notin {0, i} => pairs[j].mother \in 1 .. N
    <3>1. pairs[j].id \in stored => pairs[j].mother = pairs[j].id
      BY <1>2
    <3>2. pairs[j].id \notin stored => pairs[j].mother \in IdsOf(pairs) \cup {0}
      BY <1>2
    <3>3. IdsOf(pairs) \subseteq 1 .. N
      BY <1>1 DEF IdsOf
    <3> QED
      BY <3>1, <3>2, <3>3
  <2>3. \A k \in 1 .. N : prev[k] \in V
    OBVIOUS
  <2> HIDE DEF V
  <2> QED
    BY <2>1, <2>2, <2>3
<1>9. step \in [(1 .. L) \X S -> S]
  <2>1. ASSUME NEW x \in (1 .. L) \X S PROVE [i \in 1 .. N |-> Level(x[2], x[1], i)] \in S
    <3>1. x[1] \in 1 .. L /\ x[2] \in S
      OBVIOUS
    <3>2. \A i \in 1 .. N : Level(x[2], x[1], i) \in V
      <4> HIDE DEF Level, V, S, L, N
      <4> QED
        BY <1>8, <3>1
    <3> HIDE DEF Level, V
    <3> QED
      BY <3>2
  <2> HIDE DEF S, Level, L, N
  <2> QED
    BY <2>1
<1>10. PICK f \in [0 .. L -> S] : f[0] = base /\ \A n \in 1 .. L : f[n] = step[<<n, f[n - 1]>>]
  <2> HIDE DEF L, S, base, step
  <2>1. Recurses(L, S, base, step)
    BY <1>1, <1>7, <1>9, RecursionExists
  <2> QED
    BY <2>1 DEF Recurses
<1>11. ASSUME NEW n \in 1 .. L PROVE f[n] = [i \in 1 .. N |-> Level(f[n - 1], n, i)] /\ n - 1 \in 0 .. L /\ n # 0
  <2>1. n - 1 \in 0 .. L /\ n # 0
    BY <1>1
  <2>2. f[n - 1] \in S
    BY <1>10, <2>1
  <2> DEFINE prev == f[n - 1]
  <2>3. <<n, prev>> \in (1 .. L) \X S
    <3> HIDE DEF S, prev
    <3> QED
      BY <2>2 DEF prev
  <2>4. f[n] = step[<<n, prev>>]
    BY <1>10
  <2> HIDE DEF prev, S, Level
  <2> QED
    BY <2>1, <2>3, <2>4 DEF prev
<1>12. f = [j \in 0 .. L |-> [i \in DOMAIN track |-> IF j = 0 THEN Bottom(i) ELSE Level(f[j - 1], j, i)]]
  <2>1. ASSUME NEW j \in 0 .. L
        PROVE  f[j] = [i \in 1 .. N |-> IF j = 0 THEN Bottom(i) ELSE Level(f[j - 1], j, i)]
    <3>1. CASE j = 0
      <4> HIDE DEF Level, S
      <4> QED
        BY <1>10, <3>1
    <3>2. CASE j # 0
      <4>1. j \in 1 .. L
        BY <1>1, <3>2
      <4>2. f[j] = [i \in 1 .. N |-> Level(f[j - 1], j, i)]
        <5> HIDE DEF Level, L, N
        <5> QED
          BY <1>11, <4>1
      <4> HIDE DEF Level
      <4> QED
        BY <3>2, <4>2
    <3> QED
      BY <3>1, <3>2
  <2> HIDE DEF Level, L, S
  <2>2. f = [j \in 0 .. L |-> f[j]]
    BY <1>10
  <2> DEFINE Row(j) == [i \in 1 .. N |-> IF j = 0 THEN Bottom(i) ELSE Level(f[j - 1], j, i)]
  <2>3. \A j \in 0 .. L : f[j] = Row(j)
    BY <2>1
  <2>4. f = [j \in 0 .. L |-> Row(j)]
    <3> HIDE DEF Row
    <3> QED
      BY <2>2, <2>3
  <2> HIDE DEF N
  <2> QED
    BY <1>1, <2>4
<1>13. U = [j \in 0 .. L |-> [i \in DOMAIN track |-> IF j = 0 THEN Bottom(i) ELSE Level(U[j - 1], j, i)]]
  <2> DEFINE Rows(up) == [j \in 0 .. L |-> [i \in DOMAIN track |-> IF j = 0 THEN Bottom(i) ELSE Level(up[j - 1], j, i)]]
  <2>1. f = Rows(f)
    BY <1>12
  <2>2. U = CHOOSE up : up = Rows(up)
    OBVIOUS
  <2> HIDE DEF U, Rows
  <2>3. U = Rows(U)
    BY <2>1, <2>2
  <2> QED
    BY <2>3 DEF Rows
<1> HIDE DEF U
<1>14. ASSUME NEW j \in 1 .. L, NEW i \in 1 .. N PROVE U[j][i] = Level(U[j - 1], j, i)
  <2>1. j \in 0 .. L /\ j # 0
    BY <1>1
  <2> HIDE DEF Level, L, N
  <2>2. U[j] = [k \in DOMAIN track |-> IF j = 0 THEN Bottom(k) ELSE Level(U[j - 1], j, k)]
    BY <1>13, <2>1
  <2>3. U[j][i] = IF j = 0 THEN Bottom(i) ELSE Level(U[j - 1], j, i)
    BY <1>1, <2>2
  <2> QED
    BY <2>1, <2>3
\* At each level the entries so far lead to their nearest stored track.
<1> DEFINE A == {j \in 0 .. L : \A k \in 1 .. j : U[j][pairs[k].id] = Near(pairs[k].id)}
<1>15. 0 \in A
  BY <1>1
<1>16. ASSUME NEW j \in 1 .. L, j - 1 \in A PROVE j \in A
  <2>1. /\ j \in 0 .. L /\ j - 1 \in Nat /\ j \in Nat
        /\ \A k \in 1 .. j - 1 : U[j - 1][pairs[k].id] = Near(pairs[k].id)
    BY <1>1, <1>16
  <2> SUFFICES ASSUME NEW k \in 1 .. j PROVE U[j][pairs[k].id] = Near(pairs[k].id)
    BY <2>1
  <2> DEFINE i == pairs[k].id
             m == pairs[j].mother
  <2>2. k \in 1 .. L /\ i \in 1 .. N
    BY <1>1, <2>1
  <2>3. U[j][i] = Level(U[j - 1], j, i)
    BY <1>14, <2>2
  <2>4. CASE k # j
    <3>1. k \in 1 .. j - 1
      BY <2>1, <2>4
    <3>2. pairs[k].id < pairs[j].id /\ pairs[j].id \in 1 .. N
      BY <1>1, <2>1, <2>2, <3>1
    <3>3. pairs[j].id # i
      BY <2>2, <3>2
    <3>4. Level(U[j - 1], j, i) = U[j - 1][i]
      BY <3>3
    <3> QED
      BY <2>1, <2>3, <3>1, <3>4
  <2>5. CASE k = j
    <3>1. i = pairs[j].id
      BY <2>5
    <3>2. Level(U[j - 1], j, i) = IF m \in {0, i} THEN m ELSE U[j - 1][m]
      BY <3>1
    <3>3. CASE i \in stored
      <4>1. m = i
        BY <1>2, <3>1, <3>3
      <4>2. Near(i) = i
        BY <1>3, <2>2, <3>3
      <4> QED
        BY <2>3, <3>2, <4>1, <4>2
    <3>4. CASE i \notin stored
      <4>1. m = track[i].parent /\ m \in IdsOf(pairs) \cup {0} /\ m \in 0 .. i - 1
        BY <1>2, <1>4, <2>2, <3>1, <3>4
      <4>2. Near(i) = Near(m)
        BY <1>3, <2>2, <3>4, <4>1
      <4>3. CASE m = 0
        BY <1>3, <2>3, <3>2, <4>2, <4>3
      <4>4. CASE m # 0
        <5>1. PICK l \in 1 .. L : m = pairs[l].id
          BY <4>1, <4>4 DEF IdsOf
        <5>2. m # i /\ m < i /\ m \in Nat /\ i \in Nat
          BY <2>2, <4>1
        <5>3. l < j
          <6>1. l # j
            BY <3>1, <5>1, <5>2
          <6>2. ~(j < l)
            <7>1. j < l => pairs[j].id < pairs[l].id
              BY <1>1
            <7> HIDE DEF i, m
            <7> QED
              BY <3>1, <5>1, <5>2, <7>1
          <6> QED
            BY <1>1, <2>1, <6>1, <6>2
        <5>4. l \in 1 .. j - 1
          BY <2>1, <5>3
        <5>5. U[j - 1][m] = Near(m)
          BY <2>1, <5>1, <5>4
        <5>6. Level(U[j - 1], j, i) = U[j - 1][m]
          BY <3>2, <4>4, <5>2
        <5> QED
          BY <2>3, <4>2, <5>5, <5>6
      <4> QED
        BY <4>3, <4>4
    <3> QED
      BY <3>3, <3>4
  <2> QED
    BY <2>4, <2>5
<1>17. \A j \in 0 .. L : j \in A
  <2> HIDE DEF A, L
  <2> QED
    BY <1>1, <1>15, <1>16, CountUp
<1>18. U[L][id] = Near(id)
  <2>1. L \in A
    <3>1. L \in 0 .. L
      BY <1>1
    <3> QED
      BY <1>17, <3>1
  <2> QED
    BY <1>5, <2>1
<1> QED
  BY <1>6, <1>18 DEF Near


\* ancestorList when the mothers of its entries to n that were added since the
\* last time have been found.
Mothered(ancestors, lastHist, n, stored) ==
  [k \in 1 .. Len(ancestors) |->
     IF lastHist < k /\ k <= n
       THEN [id |-> ancestors[k].id, mother |-> Nearest(track, stored, ancestors[k].id)]
       ELSE ancestors[k]]

LEMMA FillsMothers ==
  ASSUME TracksAreTyped, NEW pairs, NEW stored, Chained(pairs, stored),
         NEW ancestors \in Seq(Pairs), NEW lastHist \in Nat,
         \A n \in 1 .. Len(ancestors) : lastHist < n => ancestors[n].id \in IdsOf(pairs)
  PROVE  FillMotherList(pairs, ancestors, lastHist) = Mothered(ancestors, lastHist, Len(ancestors), stored)
<1> DEFINE A == Len(ancestors)
           F(n) == Mothered(ancestors, lastHist, n, stored)
           Fill(prev, n) == IF n <= lastHist THEN ancestors
                            ELSE [prev EXCEPT ![n].mother = IdSavedTrack(ancestors[n].id, pairs, prev)]
           U == CHOOSE filled : filled = [n \in 0 .. A |-> Fill(filled[n - 1], n)]
<1>1. /\ A \in Nat /\ DOMAIN ancestors = 1 .. A /\ ancestors = [k \in 1 .. A |-> ancestors[k]]
      /\ \A k \in 1 .. A : ancestors[k] = [id |-> ancestors[k].id, mother |-> ancestors[k].mother]
  <2>1. \A k \in 1 .. A : ancestors[k] \in Pairs
    OBVIOUS
  <2>2. \A p \in Pairs : p = [id |-> p.id, mother |-> p.mother]
    BY DEF Pairs
  <2> QED
    BY <2>1, <2>2
<1>2. FillMotherList(pairs, ancestors, lastHist) = U[A]
  BY Zenon DEF FillMotherList
<1>3. ASSUME NEW n \in 0 .. A, n <= lastHist PROVE F(n) = ancestors
  <2>1. \A k \in 1 .. A : ~(lastHist < k /\ k <= n)
    BY <1>1, <1>3
  <2>2. F(n) = [k \in 1 .. A |-> ancestors[k]]
    BY <2>1 DEF Mothered
  <2> QED
    BY <1>1, <2>2
<1>4. ASSUME NEW n \in 1 .. A, lastHist < n
      PROVE  [F(n - 1) EXCEPT ![n].mother = IdSavedTrack(ancestors[n].id, pairs, F(n - 1))] = F(n)
  <2> DEFINE prev == F(n - 1)
             x == IdSavedTrack(ancestors[n].id, pairs, prev)
             p == [id |-> ancestors[n].id, mother |-> Nearest(track, stored, ancestors[n].id)]
  <2>1. x = Nearest(track, stored, ancestors[n].id)
    <3> HIDE DEF prev
    <3>1. ancestors[n].id \in IdsOf(pairs)
      BY <1>4
    <3> QED
      BY <3>1, FindsNearest
  <2>2. DOMAIN prev = 1 .. A /\ prev[n] = ancestors[n]
    <3>1. ~(lastHist < n /\ n <= n - 1)
      BY <1>1
    <3> QED
      BY <3>1 DEF Mothered
  <2>3. [prev[n] EXCEPT !.mother = x] = p
    <3> DEFINE q == [id |-> ancestors[n].id, mother |-> ancestors[n].mother]
    <3>1. prev[n] = q
      BY <1>1, <2>2
    <3> HIDE DEF x, prev
    <3>2. [q EXCEPT !.mother = x] = [id |-> ancestors[n].id, mother |-> x]
      OBVIOUS
    <3> QED
      BY <2>1, <3>1, <3>2
  <2>4. [prev EXCEPT ![n].mother = x] = [k \in 1 .. A |-> IF k = n THEN p ELSE prev[k]]
    <3>1. prev = [k \in 1 .. A |-> prev[k]]
      BY DEF Mothered
    <3> HIDE DEF x, prev, p
    <3>2. [prev EXCEPT ![n].mother = x] = [k \in DOMAIN prev |-> IF k = n THEN [prev[k] EXCEPT !.mother = x] ELSE prev[k]]
      BY <2>2, <3>1
    <3> QED
      BY <2>2, <2>3, <3>2
  <2>5. \A k \in 1 .. A : (IF k = n THEN p ELSE prev[k]) = F(n)[k]
    <3> TAKE k \in 1 .. A
    <3>1. CASE k = n
      <4>1. lastHist < n /\ n <= n
        BY <1>1, <1>4
      <4> QED
        BY <3>1, <4>1 DEF Mothered
    <3>2. CASE k # n
      <4>1. k <= n <=> k <= n - 1
        BY <1>1, <3>2
      <4>2. prev[k] = F(n)[k]
        BY <4>1 DEF Mothered
      <4> HIDE DEF prev
      <4> QED
        BY <3>2, <4>2
    <3> QED
      BY <3>1, <3>2
  <2>6. F(n) = [k \in 1 .. A |-> F(n)[k]]
    BY DEF Mothered
  <2> HIDE DEF p, F
  <2> QED
    BY <2>4, <2>5, <2>6
<1> HIDE DEF F
<1>5. ASSUME NEW n \in 0 .. A, NEW prev, n # 0 => prev = F(n - 1) PROVE Fill(prev, n) = F(n)
  <2>1. CASE n <= lastHist
    BY <1>3, <2>1
  <2>2. CASE ~(n <= lastHist)
    <3>1. n \in 1 .. A /\ lastHist < n
      BY <1>1, <2>2
    <3>2. prev = F(n - 1)
      BY <1>5, <3>1
    <3> QED
      BY <1>4, <2>2, <3>1, <3>2
  <2> QED
    BY <2>1, <2>2
<1> HIDE DEF Fill
<1>6. U = [n \in 0 .. A |-> Fill(U[n - 1], n)]
  <2> DEFINE f == [n \in 0 .. A |-> F(n)]
             Rows(filled) == [n \in 0 .. A |-> Fill(filled[n - 1], n)]
  <2>1. \A n \in 0 .. A : n # 0 => f[n - 1] = F(n - 1)
    BY <1>1
  <2>2. \A n \in 0 .. A : Fill(f[n - 1], n) = F(n)
    <3> HIDE DEF f, A
    <3> QED
      BY <1>5, <2>1
  <2>3. f = Rows(f)
    BY <2>2
  <2>4. U = CHOOSE filled : filled = Rows(filled)
    OBVIOUS
  <2> HIDE DEF U, Rows, f
  <2>5. U = Rows(U)
    BY <2>3, <2>4
  <2> QED
    BY <2>5 DEF Rows
<1> HIDE DEF U
<1> DEFINE Good == {n \in 0 .. A : U[n] = F(n)}
<1>7. ASSUME NEW n \in 0 .. A, n # 0 => U[n - 1] = F(n - 1) PROVE n \in Good
  <2>1. U[n] = Fill(U[n - 1], n)
    BY <1>6
  <2>2. Fill(U[n - 1], n) = F(n)
    <3> HIDE DEF A
    <3> QED
      BY <1>5, <1>7
  <2> QED
    BY <2>1, <2>2
<1>8. 0 \in Good
  <2>1. 0 \in 0 .. A
    BY <1>1
  <2> HIDE DEF Good, A
  <2> QED
    BY <1>7, <2>1
<1>9. \A n \in 1 .. A : n - 1 \in Good => n \in Good
  <2> SUFFICES ASSUME NEW n \in 1 .. A, n - 1 \in Good PROVE n \in Good
    OBVIOUS
  <2>1. n \in 0 .. A /\ U[n - 1] = F(n - 1)
    BY <1>1
  <2> HIDE DEF Good
  <2> QED
    BY <1>7, <2>1
<1>10. A \in Good
  <2> HIDE DEF Good, A
  <2>1. \A n \in 0 .. A : n \in Good
    BY <1>1, <1>8, <1>9, CountUp
  <2>2. A \in 0 .. A
    BY <1>1
  <2> QED
    BY <2>1, <2>2
<1> QED
  BY <1>2, <1>10 DEF F

LEMMA NearestIsNat ==
  ASSUME NEW trk, ParentsBefore(trk), NEW stored
  PROVE  \A i \in 0 .. Len(trk) : Nearest(trk, stored, i) \in Nat
<1> DEFINE Bad == {i \in 0 .. Len(trk) : Nearest(trk, stored, i) \notin Nat}
<1>1. Len(trk) \in Nat /\ \A i \in 1 .. Len(trk) : trk[i].parent \in 0 .. i - 1
  BY DEF ParentsBefore
<1>2. NearestFollows(trk, stored)
  BY NearestIs, Zenon
<1>3. SUFFICES ASSUME Bad # {} PROVE FALSE
  OBVIOUS
<1>4. Bad \subseteq Nat
  OBVIOUS
<1>5. PICK i \in Bad : \A k \in Bad : i <= k
  <2> HIDE DEF Bad
  <2> QED
    BY <1>3, <1>4, LeastNat
<1>6. i \in 0 .. Len(trk) /\ Nearest(trk, stored, i) \notin Nat
  OBVIOUS
<1>7. i \in 1 .. Len(trk) /\ i \notin stored
  BY <1>1, <1>2, <1>6 DEF NearestFollows
<1>8. Nearest(trk, stored, trk[i].parent) \notin Nat
  BY <1>2, <1>6, <1>7 DEF NearestFollows
<1>9. trk[i].parent \in 0 .. i - 1
  BY <1>1, <1>7
<1>10. trk[i].parent \in Bad
  BY <1>1, <1>7, <1>8, <1>9
<1> HIDE DEF Bad
<1> QED
  BY <1>5, <1>7, <1>9, <1>10


\* idsave in order, with the tracks that are kept as their own mothers.
ResolvedOf(m) ==
  LET pairs == SortedPairs(m.idsave)
  IN [j \in DOMAIN pairs |->
        LET id == pairs[j].id
        IN IF id \in Elements(KeptOf(m)) THEN [pairs[j] EXCEPT !.mother = id] ELSE pairs[j]]

LEMMA CleanFills ==
  ASSUME NEW m, ~(m.container = <<>> /\ m.idsave = <<>>)
  PROVE  Clean(m) = [container |-> OldOf(m) \o KeptOf(m), saved |-> SavedOf(m), idsave |-> <<>>,
                     ancestors |-> FillMotherList(ResolvedOf(m), m.ancestors, m.lastHist),
                     lastTrack |-> Len(OldOf(m) \o KeptOf(m)), lastHist |-> Len(m.ancestors)]
BY Zenon DEF Clean, OldOf, NewOf, SavedOf, KeptOf, ResolvedOf

\* The tracks that have ended since the last primary began, and before it.
Family == IdsOf(mgr.idsave)
Past == {i \in 1 .. Len(track) : i \notin Live /\ i \notin Family}

\* Between two primaries a family is closed: the parents of its tracks are in
\* it, and of the tracks before it none has a parent in it.  So the mothers found
\* at the next primary are final.
MotherInv ==
  phase \in {"event", "tracking"} =>
    /\ PairsOfTracks(mgr.idsave)
    /\ \A j \in 1 .. Len(mgr.idsave) :
         /\ mgr.idsave[j].id \in 1 .. Len(track) /\ mgr.idsave[j].id \notin Live
         /\ mgr.idsave[j].mother = track[mgr.idsave[j].id].parent
    /\ \A t \in Family \cup Live : track[t].parent \in Family \cup {0}
    /\ \A t \in Past : track[t].parent \in Past \cup {0}
    /\ New \subseteq Family /\ Old \subseteq Past
    /\ PairsOfTracks(mgr.ancestors) /\ mgr.lastHist \in 0 .. Len(mgr.ancestors)
    /\ \A j \in 1 .. mgr.lastHist :
         /\ mgr.ancestors[j].id \in Past
         /\ mgr.ancestors[j].mother = Nearest(track, Old, mgr.ancestors[j].id)
    /\ \A j \in mgr.lastHist + 1 .. Len(mgr.ancestors) : mgr.ancestors[j].id \in Family

\* What cleanTracksWithHistory resolves is chained.
LEMMA ResolvedIsChained ==
  ASSUME HistoryTyped, MotherInv, phase = "event", NEW stored,
         \A i \in Family : i \in stored <=> i \in Elements(KeptOf(mgr))
  PROVE  Chained(ResolvedOf(mgr), stored) /\ IdsOf(ResolvedOf(mgr)) = Family
<1> DEFINE s == mgr.idsave
           pairs == SortedPairs(s)
           r == ResolvedOf(mgr)
           K == Elements(KeptOf(mgr))
           L == Len(s)
           R(j) == IF pairs[j].id \in K THEN [pairs[j] EXCEPT !.mother = pairs[j].id] ELSE pairs[j]
<1>1. /\ PairsOfTracks(s)
      /\ \A j \in 1 .. L : s[j].id \in 1 .. Len(track) /\ s[j].mother = track[s[j].id].parent
      /\ \A t \in Family : track[t].parent \in Family \cup {0}
  BY DEF MotherInv
<1>2. /\ pairs \in Seq(Pairs) /\ Len(pairs) = L
      /\ \A k \in 1 .. L : \E j \in 1 .. L : pairs[k] = s[j]
      /\ \A j \in 1 .. L : \E k \in 1 .. L : pairs[k] = s[j]
      /\ \A k, l \in 1 .. L : k < l => pairs[k].id < pairs[l].id
  BY <1>1, SortedPairsAre, Zenon
<1>3. r = [j \in DOMAIN pairs |-> R(j)]
  BY Zenon DEF ResolvedOf
<1>4. L \in Nat /\ DOMAIN pairs = 1 .. L
  <2>1. s \in Seq(Pairs)
    BY <1>1 DEF PairsOfTracks
  <2> HIDE DEF pairs
  <2> QED
    BY <1>2, <2>1
<1> HIDE DEF pairs, r, K
<1>5. ASSUME NEW j \in 1 .. L
      PROVE  /\ pairs[j] \in Pairs /\ R(j) \in Pairs /\ R(j).id = pairs[j].id
             /\ pairs[j].id \in Family /\ pairs[j].id \in 1 .. Len(track)
             /\ R(j).mother = IF pairs[j].id \in K THEN pairs[j].id ELSE track[pairs[j].id].parent
  <2>1. pairs[j] \in Pairs
    BY <1>2, <1>4
  <2>2. PICK i \in 1 .. L : pairs[j] = s[i]
    BY <1>2
  <2>3. pairs[j].id \in Family /\ pairs[j].id \in 1 .. Len(track) /\ pairs[j].mother = track[pairs[j].id].parent
    BY <1>1, <2>2 DEF Family, IdsOf
  <2> DEFINE p == pairs[j]
  <2>4. p.id \in Nat /\ p.mother \in Nat /\ p = [id |-> p.id, mother |-> p.mother]
    BY <2>1 DEF Pairs
  <2> HIDE DEF p
  <2>5. [p EXCEPT !.mother = p.id] = [id |-> p.id, mother |-> p.id]
    BY <2>4
  <2>6. [p EXCEPT !.mother = p.id] \in Pairs /\ [p EXCEPT !.mother = p.id].id = p.id /\ [p EXCEPT !.mother = p.id].mother = p.id
    BY <2>4, <2>5 DEF Pairs
  <2>7. CASE p.id \in K
    <3>1. R(j) = [p EXCEPT !.mother = p.id]
      BY <2>7 DEF p
    <3> HIDE DEF R
    <3> QED
      BY <2>1, <2>3, <2>6, <2>7, <3>1 DEF p
  <2>8. CASE p.id \notin K
    <3>1. R(j) = p
      BY <2>8 DEF p
    <3> HIDE DEF R
    <3> QED
      BY <2>1, <2>3, <2>8, <3>1 DEF p
  <2> QED
    BY <2>7, <2>8
<1> HIDE DEF R, L
<1>6. r \in Seq(Pairs) /\ Len(r) = L /\ \A j \in 1 .. L : r[j] = R(j)
  <2>1. r = [j \in 1 .. L |-> R(j)] /\ \A j \in 1 .. L : R(j) \in Pairs
    BY <1>3, <1>4, <1>5
  <2> QED
    BY <1>4, <2>1
<1>7. \A k, l \in 1 .. L : k < l => r[k].id < r[l].id
  BY <1>2, <1>5, <1>6
<1>8. PairsOfTracks(r)
  <2>1. \A j \in 1 .. L : r[j].id \in Nat
    BY <1>5, <1>6 DEF Pairs
  <2>2. ASSUME NEW j \in 1 .. L, NEW k \in 1 .. L, r[j].id = r[k].id PROVE j = k
    <3>1. ~(j < k) /\ ~(k < j)
      BY <1>7, <2>1, <2>2
    <3> QED
      BY <1>4, <3>1
  <2> QED
    BY <1>6, <2>2 DEF PairsOfTracks
<1>9. IdsOf(r) = Family
  <2>1. \A j \in 1 .. L : r[j].id \in Family
    BY <1>5, <1>6
  <2>2. ASSUME NEW t \in Family PROVE t \in IdsOf(r)
    <3>1. PICK i \in 1 .. L : t = s[i].id
      BY DEF Family, IdsOf, L
    <3>2. PICK k \in 1 .. L : pairs[k] = s[i]
      BY <1>2
    <3>3. r[k].id = t
      BY <1>5, <1>6, <3>1, <3>2
    <3> QED
      BY <1>6, <3>3 DEF IdsOf
  <2> QED
    BY <1>6, <2>1, <2>2 DEF IdsOf
<1>10. ASSUME NEW j \in 1 .. Len(r)
       PROVE  /\ r[j].id \in 1 .. Len(track)
              /\ r[j].mother = IF r[j].id \in stored THEN r[j].id ELSE track[r[j].id].parent
              /\ track[r[j].id].parent \in IdsOf(r) \cup {0}
  <2>1. r[j] = R(j) /\ j \in 1 .. L
    BY <1>6
  <2>2. r[j].id \in Family /\ (r[j].id \in stored <=> r[j].id \in K) /\ r[j].id = pairs[j].id
    BY <1>5, <2>1 DEF K
  <2> QED
    BY <1>1, <1>5, <1>9, <2>1, <2>2
<1> QED
  BY <1>6, <1>7, <1>8, <1>9, <1>10 DEF Chained, r


\* When the next primary begins, or the event ends, every ancestor has its mother.
LEMMA CleanMothers ==
  ASSUME HistoryTyped, BranchInv, MotherInv, phase = "event"
  PROVE  LET m == Clean(mgr)
         IN /\ m.idsave = <<>> /\ PairsOfTracks(m.ancestors) /\ m.lastHist = Len(m.ancestors)
            /\ Elements(m.container) \subseteq Past \cup Family
            /\ \A j \in 1 .. Len(m.ancestors) :
                 /\ m.ancestors[j].id \in Past \cup Family
                 /\ m.ancestors[j].mother = Nearest(track, Elements(m.container), m.ancestors[j].id)
<1> DEFINE N == Len(track)
           a == mgr.ancestors
           A == Len(a)
           h == mgr.lastHist
<1>1. /\ N \in Nat /\ IsManager(mgr, N) /\ TracksAreTyped /\ mgr.container \in Seq(1 .. N)
  BY DEF HistoryTyped, IsManager, TracksAreTyped
<1>2. /\ PairsOfTracks(mgr.idsave)
      /\ \A t \in Past : track[t].parent \in Past \cup {0}
      /\ New \subseteq Family /\ Old \subseteq Past
      /\ PairsOfTracks(a) /\ h \in 0 .. A
      /\ \A j \in 1 .. h : a[j].id \in Past /\ a[j].mother = Nearest(track, Old, a[j].id)
      /\ \A j \in h + 1 .. A : a[j].id \in Family
  BY DEF MotherInv
<1>3. ParentsBefore(track) /\ Past \subseteq 1 .. N /\ Family \subseteq 1 .. N /\ Past \cap Family = {}
  <2>1. Family \subseteq 1 .. N
    BY DEF MotherInv, Family, IdsOf
  <2> QED
    BY <1>1, <2>1, TypedParents DEF Past
<1>4. A \in Nat /\ h \in Nat /\ a \in Seq(Pairs) /\ \A j \in 1 .. A : j \in 1 .. h \/ j \in h + 1 .. A
  <2>1. a \in Seq(Pairs)
    BY <1>2 DEF PairsOfTracks
  <2> QED
    BY <1>2, <2>1
<1>5. CASE mgr.container = <<>> /\ mgr.idsave = <<>>
  <2>1. Clean(mgr) = mgr
    BY <1>5, Zenon DEF Clean
  <2>2. Len(mgr.idsave) = 0 /\ Len(mgr.container) = 0
    BY <1>5
  <2>3. Family = {} /\ Elements(mgr.container) = {} /\ Old = {}
    <3>1. Family = {}
      BY <2>2 DEF Family, IdsOf
    <3>2. Elements(mgr.container) = {}
      BY <1>5 DEF Elements
    <3>3. Old = {}
      <4>1. Elements(OldOf(mgr)) = Old /\ Elements(mgr.container) = Old \cup New
        BY OldAndNew
      <4> QED
        BY <3>2, <4>1
    <3> QED
      BY <3>1, <3>2, <3>3
  <2>4. \A j \in 1 .. A : j \in 1 .. h
    BY <1>2, <1>4, <2>3
  <2>5. h = A
    <3>1. A \in 1 .. A => A \in 1 .. h
      BY <2>4
    <3> QED
      BY <1>2, <1>4, <3>1
  <2>6. \A j \in 1 .. A : /\ a[j].id \in Past \cup Family
                          /\ a[j].mother = Nearest(track, Elements(mgr.container), a[j].id)
    BY <1>2, <2>3, <2>4
  <2> QED
    BY <1>2, <1>5, <2>1, <2>3, <2>5, <2>6
<1>6. CASE ~(mgr.container = <<>> /\ mgr.idsave = <<>>)
  <2> DEFINE c == OldOf(mgr) \o KeptOf(mgr)
             r == ResolvedOf(mgr)
             filled == FillMotherList(r, a, h)
             stored == Elements(c)
  <2>1. Clean(mgr) = [container |-> c, saved |-> SavedOf(mgr), idsave |-> <<>>, ancestors |-> filled,
                      lastTrack |-> Len(c), lastHist |-> A]
    BY <1>6, CleanFills, Zenon
  <2>2. stored = Old \cup Elements(KeptOf(mgr)) /\ Elements(KeptOf(mgr)) \subseteq New
    <3>1. /\ OldOf(mgr) \in Seq(1 .. N) /\ KeptOf(mgr) \in Seq(1 .. N)
          /\ Elements(KeptOf(mgr)) = Elements(NewOf(mgr)) \cap SavedOf(mgr)
      BY <1>1, PartsOfManager
    <3>2. Elements(OldOf(mgr)) = Old /\ Elements(NewOf(mgr)) = New
      BY OldAndNew
    <3>3. stored = Elements(OldOf(mgr)) \cup Elements(KeptOf(mgr))
      BY <3>1, ElementsJoined
    <3> QED
      BY <3>1, <3>2, <3>3
  <2> HIDE DEF filled, r, c
  <2>3. \A i \in Family : i \in stored <=> i \in Elements(KeptOf(mgr))
    BY <1>2, <1>3, <2>2
  <2>4. Chained(r, stored) /\ IdsOf(r) = Family
    <3> HIDE DEF stored
    <3> QED
      BY <2>3, ResolvedIsChained DEF r
  <2>5. filled = Mothered(a, h, A, stored)
    <3>1. \A n \in 1 .. A : h < n => a[n].id \in IdsOf(r)
      <4>1. \A n \in 1 .. A : h < n => n \in h + 1 .. A
        BY <1>4
      <4> QED
        BY <1>2, <2>4, <4>1
    <3> HIDE DEF stored, a, h
    <3> QED
      BY <1>1, <1>4, <2>4, <3>1, FillsMothers DEF filled
  <2>6. ASSUME NEW j \in 1 .. A
        PROVE  /\ filled[j] \in Pairs /\ filled[j].id = a[j].id
               /\ a[j].id \in Past \cup Family
               /\ filled[j].mother = Nearest(track, stored, a[j].id)
    <3>1. a[j] \in Pairs
      BY <1>4
    <3>2. a[j].id \in Past \cup Family /\ a[j].id \in 0 .. N
      <4>1. a[j].id \in Past \cup Family
        BY <1>2, <1>4
      <4>2. a[j].id \in 1 .. N
        BY <1>3, <4>1
      <4> HIDE DEF a
      <4> QED
        BY <1>1, <4>1, <4>2
    <3>3. CASE h < j
      <4>1. filled[j] = [id |-> a[j].id, mother |-> Nearest(track, stored, a[j].id)]
        <5>1. h < j /\ j <= A
          BY <1>4, <3>3
        <5> QED
          BY <2>5, <5>1 DEF Mothered
      <4>2. Nearest(track, stored, a[j].id) \in Nat /\ a[j].id \in Nat
        <5>1. Nearest(track, stored, a[j].id) \in Nat
          <6>1. \A i \in 0 .. N : Nearest(track, stored, i) \in Nat
            BY <1>3, NearestIsNat
          <6> QED
            BY <3>2, <6>1
        <5> QED
          BY <3>2, <5>1
      <4> QED
        BY <3>2, <4>1, <4>2 DEF Pairs
    <3>4. CASE ~(h < j)
      <4>1. filled[j] = a[j] /\ j \in 1 .. h
        <5>1. filled[j] = a[j]
          BY <2>5, <3>4 DEF Mothered
        <5> QED
          BY <1>4, <3>4, <5>1
      <4>2. a[j].id \in Past /\ a[j].mother = Nearest(track, Old, a[j].id)
        BY <1>2, <4>1
      <4>3. \A i \in Past : Nearest(track, stored, i) = Nearest(track, Old, i)
        <5>1. \A i \in Past : /\ track[i].parent = track[i].parent
                              /\ track[i].parent \in Past \cup {0}
                              /\ i \in Old <=> i \in stored
          BY <1>2, <1>3, <2>2
        <5>2. Past \in SUBSET (1 .. Len(track)) /\ ParentsBefore(track) /\ Len(track) <= Len(track)
          BY <1>1, <1>3
        <5> HIDE DEF stored
        <5> QED
          BY <5>1, <5>2, NearestAgrees
      <4> QED
        BY <3>1, <3>2, <4>1, <4>2, <4>3
    <3> QED
      BY <3>3, <3>4
  <2>7. filled \in Seq(Pairs) /\ Len(filled) = A
    <3>1. filled = [j \in 1 .. A |-> filled[j]]
      BY <2>5 DEF Mothered
    <3>2. \A j \in 1 .. A : filled[j] \in Pairs
      BY <2>6
    <3> HIDE DEF A
    <3>3. filled \in [1 .. A -> Pairs]
      BY <3>1, <3>2
    <3> QED
      BY <1>4, <3>3
  <2>8. PairsOfTracks(filled)
    <3>1. \A j, k \in 1 .. A : a[j].id = a[k].id => j = k
      BY <1>2 DEF PairsOfTracks
    <3>2. \A j, k \in 1 .. A : filled[j].id = filled[k].id => j = k
      BY <2>6, <3>1
    <3> QED
      BY <2>7, <3>2 DEF PairsOfTracks
  <2>9. stored \subseteq Past \cup Family
    BY <1>2, <2>2
  <2> DEFINE m == Clean(mgr)
  <2>10. m.idsave = <<>> /\ m.ancestors = filled /\ m.lastHist = A /\ Elements(m.container) = stored
    BY <2>1
  <2> HIDE DEF m, stored
  <2>11. \A j \in 1 .. Len(filled) :
           filled[j].id \in Past \cup Family /\ filled[j].mother = Nearest(track, stored, filled[j].id)
    BY <2>6, <2>7
  <2>12. /\ m.idsave = <<>> /\ PairsOfTracks(m.ancestors) /\ m.lastHist = Len(m.ancestors)
         /\ Elements(m.container) \subseteq Past \cup Family
         /\ \A j \in 1 .. Len(m.ancestors) :
                 /\ m.ancestors[j].id \in Past \cup Family
                 /\ m.ancestors[j].mother = Nearest(track, Elements(m.container), m.ancestors[j].id)
    BY <2>7, <2>8, <2>9, <2>10, <2>11
  <2> QED
    BY <2>12 DEF m
<1> QED
  BY <1>5, <1>6


LEMMA BeginMothers == ASSUME BeginEvent PROVE MotherInv'
<1>1. PICK n \in 1 .. MaxPrimaries, x \in Positions : track' = [i \in 1 .. n |-> NewTrack(0, TRUE, x)]
  BY DEF BeginEvent
<1>2. Len(track') = n /\ \A i \in 1 .. n : track'[i].parent = 0
  BY <1>1 DEF NewTrack
<1>3. Live' \subseteq 1 .. n
  <2>1. PICK killed \in SUBSET (1 .. n) : phase' = "event" /\ stack' = InOrder((1 .. n) \ killed)
    <3>1. PICK k \in 1 .. MaxPrimaries, y \in Positions :
            /\ track' = [i \in 1 .. k |-> NewTrack(0, TRUE, y)]
            /\ \E killed \in SUBSET (1 .. k) : stack' = InOrder((1 .. k) \ killed)
      BY DEF BeginEvent
    <3>2. Len(track') = k
      BY <3>1
    <3> QED
      BY <1>2, <3>1, <3>2 DEF BeginEvent
  <2> DEFINE S == (1 .. n) \ killed
  <2>2. S \subseteq Int /\ S \subseteq 1 .. n /\ IsFiniteSet(S)
    <3>1. IsFiniteSet(1 .. n) /\ S \in SUBSET (1 .. n)
      BY FS_Interval
    <3>2. S \subseteq Int
      OBVIOUS
    <3> HIDE DEF S
    <3> QED
      BY <3>1, <3>2, FS_Subset
  <2> HIDE DEF S
  <2>3. Elements(InOrder(S)) = S
    BY <2>2, InOrderElements
  <2>4. stack' = InOrder(S) /\ phase' = "event"
    BY <2>1 DEF S
  <2>5. Live' = Elements(InOrder(S))
    BY <2>4 DEF Live, Elements
  <2> QED
    BY <2>2, <2>3, <2>5
<1>4. mgr' = Reset
  BY DEF BeginEvent, ResetEvent
<1>5. /\ mgr'.idsave = <<>> /\ mgr'.ancestors = <<>> /\ mgr'.lastHist = 0 /\ Len(mgr'.idsave) = 0
      /\ Len(mgr'.ancestors) = 0 /\ mgr'.lastTrack = 0 /\ Len(mgr'.container) = 0
  BY <1>4 DEF Reset
<1>6. Family' = {} /\ Old' = {} /\ New' = {}
  BY <1>5 DEF Family, IdsOf, Old, New
<1>7. PairsOfTracks(mgr'.idsave) /\ PairsOfTracks(mgr'.ancestors)
  BY <1>5 DEF PairsOfTracks
<1>8. \A t \in Family' \cup Live' \cup Past' : track'[t].parent = 0
  BY <1>2, <1>3, <1>6 DEF Past
<1>9. mgr'.lastHist \in 0 .. Len(mgr'.ancestors)
  BY <1>5
<1> QED
  BY <1>5, <1>6, <1>7, <1>8, <1>9 DEF MotherInv

LEMMA PreMothers == ASSUME HistoryTyped, BranchInv, MotherInv, PreUserTracking PROVE MotherInv'
<1> DEFINE N == Len(track)
           next == stack[Len(stack)]
<1>1. /\ phase = "event" /\ phase' = "tracking" /\ track' = track
      /\ mgr' = IF track[next].primary THEN Clean(mgr) ELSE mgr
  BY DEF PreUserTracking, Last
<1>2. /\ Live' = Live /\ Live \subseteq 1 .. N
      /\ track[next].primary => \A t \in Live : track[t].parent = 0
  BY TrackTaken, Zenon
<1> HIDE DEF next
<1>3. CASE ~track[next].primary
  <2>1. mgr' = mgr
    BY <1>1, <1>3
  <2>2. Old' = Old /\ New' = New /\ Family' = Family /\ Past' = Past
    BY <1>1, <1>2, <2>1 DEF Old, New, Family, IdsOf, Past
  <2>3. PairsOfTracks(mgr.idsave)' /\ PairsOfTracks(mgr.ancestors)'
    BY <1>1, <2>1 DEF PairsOfTracks, MotherInv
  <2> QED
    BY <1>1, <1>2, <2>1, <2>2, <2>3 DEF MotherInv
<1>4. CASE track[next].primary
  <2> DEFINE m == Clean(mgr)
  <2>1. /\ m.idsave = <<>> /\ PairsOfTracks(m.ancestors) /\ m.lastHist = Len(m.ancestors)
        /\ Elements(m.container) \subseteq Past \cup Family
        /\ \A j \in 1 .. Len(m.ancestors) :
             /\ m.ancestors[j].id \in Past \cup Family
             /\ m.ancestors[j].mother = Nearest(track, Elements(m.container), m.ancestors[j].id)
    BY <1>1, CleanMothers
  <2>2. m.lastTrack = Len(m.container)
    BY <1>1, CleanCloses
  <2>3. m.container \in Seq(1 .. N)
    <3>1. N \in Nat /\ IsManager(mgr, N)
      BY DEF HistoryTyped
    <3>2. IsManager(m, N)
      BY <3>1, CleanIsTyped
    <3> QED
      BY <3>2 DEF IsManager
  <2>4. mgr' = m
    BY <1>1, <1>4
  <2> HIDE DEF m
  <2>5. Old' = Elements(m.container) /\ New' = {}
    <3>1. DOMAIN m.container = 1 .. Len(m.container) /\ Len(m.container) \in Nat
      BY <2>3
    <3> QED
      BY <2>2, <2>4, <3>1 DEF Old, New, Elements
  <2>6. Family' = {}
    BY <2>1, <2>4 DEF Family, IdsOf
  <2>7. Past \cup Family \subseteq Past' /\ Past' = {i \in 1 .. N : i \notin Live}
    <3>1. Family \subseteq {i \in 1 .. N : i \notin Live}
      BY <1>1 DEF MotherInv, Family, IdsOf
    <3>2. Past' = {i \in 1 .. N : i \notin Live}
      BY <1>1, <1>2, <2>6 DEF Past
    <3> QED
      BY <3>1, <3>2 DEF Past
  <2>8. \A t \in Past' : track[t].parent \in Past' \cup {0}
    <3> TAKE t \in Past'
    <3>1. track[t].parent \in 0 .. t - 1 /\ t \in 1 .. N /\ track[t].parent \notin Live
      <4>1. TracksAreTyped
        BY DEF HistoryTyped, TracksAreTyped
      <4> QED
        BY <1>1, <2>7, <4>1, TypedParents DEF ParentsBefore, BranchInv
    <3>2. track[t].parent \in 1 .. N \/ track[t].parent = 0
      BY <3>1
    <3> QED
      BY <2>7, <3>1, <3>2
  <2>9. m.lastHist \in 0 .. Len(m.ancestors) /\ Len(m.ancestors) \in Nat
    <3>1. m.ancestors \in Seq(Pairs)
      BY <2>1 DEF PairsOfTracks
    <3> QED
      BY <2>1, <3>1
  <2>10. PairsOfTracks(mgr'.idsave) /\ Len(mgr'.idsave) = 0
    <3>1. PairsOfTracks(<<>>) /\ Len(<<>>) = 0
      BY DEF PairsOfTracks
    <3>2. mgr'.idsave = <<>>
      BY <2>1, <2>4
    <3> QED
      BY <3>1, <3>2
  <2>11. \A t \in Family' \cup Live' : track'[t].parent \in Family' \cup {0}
    BY <1>1, <1>2, <1>4, <2>6
  <2>12. \A j \in 1 .. mgr'.lastHist :
           /\ mgr'.ancestors[j].id \in Past'
           /\ mgr'.ancestors[j].mother = Nearest(track', Old', mgr'.ancestors[j].id)
    BY <1>1, <2>1, <2>4, <2>5, <2>7
  <2>13. \A j \in mgr'.lastHist + 1 .. Len(mgr'.ancestors) : mgr'.ancestors[j].id \in Family'
    BY <2>1, <2>4, <2>9
  <2>14. New' \subseteq Family' /\ Old' \subseteq Past' /\ \A t \in Past' : track'[t].parent \in Past' \cup {0}
    BY <1>1, <2>1, <2>5, <2>7, <2>8
  <2> QED
    BY <2>1, <2>4, <2>9, <2>10, <2>11, <2>12, <2>13, <2>14 DEF MotherInv
<1> QED
  BY <1>3, <1>4


LEMMA PairAppended ==
  ASSUME NEW s, PairsOfTracks(s), NEW p \in Pairs, p.id \notin IdsOf(s)
  PROVE  /\ PairsOfTracks(Append(s, p)) /\ IdsOf(Append(s, p)) = IdsOf(s) \cup {p.id}
         /\ Len(Append(s, p)) = Len(s) + 1 /\ Append(s, p)[Len(s) + 1] = p
         /\ \A j \in 1 .. Len(s) : Append(s, p)[j] = s[j]
         /\ Len(s) \in Nat /\ \A j \in 1 .. Len(s) + 1 : j \in 1 .. Len(s) \/ j = Len(s) + 1
<1> DEFINE r == Append(s, p)
           n == Len(s)
<1>1. s \in Seq(Pairs) /\ \A j, k \in 1 .. n : s[j].id = s[k].id => j = k
  BY DEF PairsOfTracks
<1>2. r \in Seq(Pairs) /\ n \in Nat /\ Len(r) = n + 1 /\ r[n + 1] = p /\ \A j \in 1 .. n : r[j] = s[j]
  BY <1>1
<1>3. \A j \in 1 .. n + 1 : j \in 1 .. n \/ j = n + 1
  BY <1>2
<1> HIDE DEF r, n
<1>4. \A j \in 1 .. n : r[j].id # p.id
  BY <1>2 DEF IdsOf, n
<1>5. ASSUME NEW j \in 1 .. n + 1, NEW k \in 1 .. n + 1, r[j].id = r[k].id PROVE j = k
  BY <1>1, <1>2, <1>3, <1>4, <1>5
<1>6. IdsOf(r) = IdsOf(s) \cup {p.id}
  <2>1. IdsOf(r) = {r[j].id : j \in 1 .. n + 1} /\ IdsOf(s) = {s[j].id : j \in 1 .. n}
    BY <1>2 DEF IdsOf, n
  <2>2. (\A j \in 1 .. n : j \in 1 .. n + 1) /\ n + 1 \in 1 .. n + 1
    BY <1>2
  <2>3. {r[j].id : j \in 1 .. n + 1} \subseteq {s[j].id : j \in 1 .. n} \cup {p.id}
    BY <1>2, <1>3
  <2>4. \A j \in 1 .. n : s[j].id \in {r[k].id : k \in 1 .. n + 1}
    BY <1>2, <2>2
  <2>5. p.id \in {r[k].id : k \in 1 .. n + 1}
    BY <1>2, <2>2
  <2> QED
    BY <2>1, <2>3, <2>4, <2>5
<1> QED
  <2>1. PairsOfTracks(r)
    BY <1>2, <1>5 DEF PairsOfTracks
  <2> QED
    BY <1>2, <1>3, <1>6, <2>1 DEF r, n

LEMMA PostMothers ==
  ASSUME ~Decays, HistoryTyped, HistoryTyped', BranchInv, MotherInv, PostUserTracking
  PROVE  MotherInv'
<1> DEFINE N == Len(track)
           d == mgr.idsave
           a == mgr.ancestors
           h == mgr.lastHist
           pair == [id |-> current, mother |-> track[current].parent]
           entry == [id |-> current, mother |-> 0]
<1>1. PICK store, inHistory, ancestor \in BOOLEAN, made \in Seq(TrackInfo) :
        TrackEnds(store, inHistory, ancestor, made)
  BY PostStep, Zenon
<1> DEFINE n == Len(made)
           L == Len(stack)
<1>2. /\ phase = "tracking" /\ phase' = "event" /\ n \in Nat /\ (ancestor => inHistory)
      /\ mgr'.idsave = Append(d, pair) /\ mgr'.lastHist = h
      /\ mgr'.ancestors = IF ancestor THEN Append(a, entry) ELSE a
  BY <1>1 DEF TrackEnds, PostUserTracking
<1>3. /\ Live = {stack[i] : i \in 1 .. L} \cup {current}
      /\ current \notin {stack[i] : i \in 1 .. L} /\ \A i \in 1 .. L : stack[i] \in 1 .. N
      /\ Live' = {stack[i] : i \in 1 .. L} \cup {N + i : i \in 1 .. n}
      /\ \A i \in 1 .. N + n : \/ i \in 1 .. N /\ track'[i] = track[i]
                               \/ i \notin 1 .. N /\ track'[i].parent = current
      /\ Len(track') = N + n /\ N + n \in Nat /\ current # 0
      /\ \A i \in 1 .. N : i \in 1 .. N + n /\ track'[i] = track[i]
      /\ \A i \in 1 .. n : N + i \notin 1 .. N
      /\ Old' = Old /\ New' = (IF inHistory THEN New \cup {current} ELSE New)
  <2>1. AfterTrack(inHistory, Len(made))
    BY <1>1, TrackEnded, Zenon
  <2> QED
    BY <2>1, Zenon DEF AfterTrack
<1>4. /\ PairsOfTracks(d)
      /\ \A j \in 1 .. Len(d) : /\ d[j].id \in 1 .. N /\ d[j].id \notin Live
                                /\ d[j].mother = track[d[j].id].parent
      /\ \A t \in Family \cup Live : track[t].parent \in Family \cup {0}
      /\ \A t \in Past : track[t].parent \in Past \cup {0}
      /\ New \subseteq Family /\ Old \subseteq Past
      /\ PairsOfTracks(a) /\ h \in 0 .. Len(a)
      /\ \A j \in 1 .. h : a[j].id \in Past /\ a[j].mother = Nearest(track, Old, a[j].id)
      /\ \A j \in h + 1 .. Len(a) : a[j].id \in Family
  BY <1>2 DEF MotherInv
<1>5. current \in 1 .. N /\ N \in Nat /\ ParentsBefore(track)
  <2>1. current \in 1 .. N /\ TracksAreTyped
    BY <1>2 DEF HistoryTyped, TracksAreTyped
  <2> QED
    BY <2>1, TypedParents DEF TracksAreTyped
<1>6. Family \subseteq 1 .. N /\ \A t \in Family : t \notin Live
  BY <1>4 DEF Family, IdsOf
<1>7. /\ ParentsBefore(track)' /\ N <= Len(track')
  <2>1. TracksAreTyped'
    BY DEF HistoryTyped, TracksAreTyped
  <2>2. ParentsBefore(track)'
    <3>1. /\ Len(track') \in Nat
          /\ \A i \in 1 .. Len(track') : track'[i] \in TrackInfo /\ track'[i].parent < i
      BY <2>1 DEF TracksAreTyped
    <3>2. \A i \in 1 .. Len(track') : track'[i].parent \in 0 .. i - 1
      BY <3>1 DEF TrackInfo
    <3> QED
      BY <3>1, <3>2 DEF ParentsBefore
  <2>3. N <= Len(track')
    <3> HIDE DEF n
    <3> QED
      BY <1>2, <1>3, <1>5
  <2> QED
    BY <2>2, <2>3
<1> HIDE DEF N, n, L
<1>8. pair \in Pairs /\ entry \in Pairs /\ pair.id = current /\ entry.id = current
      /\ pair.mother = track[current].parent
  <2>1. track[current].parent \in Nat /\ current \in Nat
    BY <1>5 DEF ParentsBefore, N
  <2> QED
    BY <2>1 DEF Pairs
<1> HIDE DEF pair, entry
<1>9. current \in Live /\ current \notin Family /\ current \notin Past
  BY <1>3, <1>6 DEF Past
<1>10. /\ PairsOfTracks(mgr'.idsave) /\ Family' = Family \cup {current} /\ Len(mgr'.idsave) = Len(d) + 1
       /\ mgr'.idsave[Len(d) + 1] = pair /\ \A j \in 1 .. Len(d) : mgr'.idsave[j] = d[j]
       /\ \A j \in 1 .. Len(d) + 1 : j \in 1 .. Len(d) \/ j = Len(d) + 1
  <2>1. pair.id \notin IdsOf(d)
    BY <1>8, <1>9 DEF Family
  <2> DEFINE e == Append(d, pair)
  <2>2. /\ PairsOfTracks(e) /\ IdsOf(e) = IdsOf(d) \cup {pair.id} /\ Len(e) = Len(d) + 1
        /\ e[Len(d) + 1] = pair /\ (\A j \in 1 .. Len(d) : e[j] = d[j])
        /\ \A j \in 1 .. Len(d) + 1 : j \in 1 .. Len(d) \/ j = Len(d) + 1
    BY <1>4, <1>8, <2>1, PairAppended
  <2>3. mgr'.idsave = e
    BY <1>2
  <2> HIDE DEF e
  <2>4. Family' = IdsOf(e)
    BY <2>3 DEF Family, IdsOf
  <2> QED
    BY <1>8, <2>2, <2>3, <2>4 DEF Family
<1>11. \A t \in 1 .. N : t \notin Live => t \notin Live' /\ track'[t] = track[t]
  BY <1>3
<1>12. current \notin Live' /\ track'[current] = track[current]
  BY <1>3, <1>5
<1>13. Past' = Past
  <2>1. ASSUME NEW t \in Past' PROVE t \in Past
    <3>1. t \in 1 .. N + n /\ t \notin Live' /\ t \notin Family /\ t # current
      BY <1>3, <1>10 DEF Past
    <3>2. t \in 1 .. N
      <4>1. ASSUME t \notin 1 .. N PROVE FALSE
        <5>1. t - N \in 1 .. n /\ t = N + (t - N)
          BY <1>2, <1>5, <3>1, <4>1 DEF n
        <5> QED
          BY <1>3, <3>1, <5>1
      <4> QED
        BY <4>1
    <3>3. t \notin Live
      BY <1>3, <3>1
    <3> QED
      BY <3>1, <3>2, <3>3 DEF Past, N
  <2>2. ASSUME NEW t \in Past PROVE t \in Past'
    <3>1. t \in 1 .. N /\ t \notin Live /\ t \notin Family
      BY DEF Past, N
    <3>2. t \notin Live' /\ t \in 1 .. N + n /\ t # current
      BY <1>3, <1>9, <1>11, <3>1
    <3> QED
      BY <1>3, <1>10, <3>1, <3>2 DEF Past
  <2> QED
    BY <2>1, <2>2
<1>14. \A t \in Past : track'[t] = track[t] /\ t \in 1 .. N
  BY <1>11 DEF Past, N
<1>15. \A j \in 1 .. Len(mgr'.idsave) :
         /\ mgr'.idsave[j].id \in 1 .. Len(track') /\ mgr'.idsave[j].id \notin Live'
         /\ mgr'.idsave[j].mother = track'[mgr'.idsave[j].id].parent
  <2> SUFFICES ASSUME NEW j \in 1 .. Len(d) + 1
               PROVE  /\ mgr'.idsave[j].id \in 1 .. Len(track') /\ mgr'.idsave[j].id \notin Live'
                      /\ mgr'.idsave[j].mother = track'[mgr'.idsave[j].id].parent
    BY <1>10
  <2>1. CASE j \in 1 .. Len(d)
    <3>1. mgr'.idsave[j] = d[j]
      BY <1>10, <2>1
    <3>2. d[j].id \in 1 .. N /\ d[j].id \notin Live /\ d[j].mother = track[d[j].id].parent
      BY <1>4, <2>1
    <3> QED
      BY <1>3, <1>11, <3>1, <3>2
  <2>2. CASE j = Len(d) + 1
    BY <1>3, <1>5, <1>8, <1>10, <1>12, <2>2
  <2> QED
    BY <1>10, <2>1, <2>2
<1>16. \A t \in Family' \cup Live' : track'[t].parent \in Family' \cup {0}
  <2> TAKE t \in Family' \cup Live'
  <2>1. CASE t \in Family \cup Live
    <3>1. t \in 1 .. N
      BY <1>3, <1>5, <1>6, <2>1
    <3>2. track'[t] = track[t]
      BY <1>3, <3>1
    <3> QED
      BY <1>4, <1>10, <2>1, <3>2
  <2>2. CASE t \notin Family \cup Live
    <3>1. PICK i \in 1 .. n : t = N + i
      BY <1>3, <1>9, <1>10, <2>2
    <3>2. t \in 1 .. N + n /\ t \notin 1 .. N
      BY <1>2, <1>3, <1>5, <3>1 DEF n
    <3> QED
      BY <1>3, <1>10, <3>2
  <2> QED
    BY <2>1, <2>2
<1>17. \A t \in Past' : track'[t].parent \in Past' \cup {0}
  BY <1>4, <1>13, <1>14
<1>18. New' \subseteq Family' /\ Old' \subseteq Past'
  BY <1>3, <1>4, <1>10, <1>13
<1>19. \A i \in Past : Nearest(track', Old, i) = Nearest(track, Old, i)
  <2>1. \A i \in Past : /\ track'[i].parent = track[i].parent
                        /\ track[i].parent \in Past \cup {0}
                        /\ i \in Old <=> i \in Old
    BY <1>4, <1>14
  <2>2. Past \in SUBSET (1 .. Len(track))
    BY DEF Past
  <2> DEFINE new == track'
  <2>3. ParentsBefore(new) /\ Len(track) <= Len(new)
    BY <1>7 DEF ParentsBefore, N
  <2>4. \A i \in Past : new[i].parent = track[i].parent
    BY <2>1
  <2> HIDE DEF new
  <2>5. \A i \in Past : Nearest(new, Old, i) = Nearest(track, Old, i)
    BY <1>5, <2>1, <2>2, <2>3, <2>4, NearestAgrees
  <2> QED
    BY <2>5 DEF new
<1>20. /\ PairsOfTracks(mgr'.ancestors) /\ h \in 0 .. Len(mgr'.ancestors)
       /\ \A j \in 1 .. h : mgr'.ancestors[j] = a[j]
       /\ \A j \in h + 1 .. Len(mgr'.ancestors) : mgr'.ancestors[j].id \in Family'
  <2>1. CASE ~ancestor
    <3>1. mgr'.ancestors = a
      BY <1>2, <2>1
    <3> QED
      BY <1>4, <1>10, <3>1
  <2>2. CASE ancestor
    <3> DEFINE e == Append(a, entry)
    <3>1. entry.id \notin IdsOf(a)
      <4>1. \A j \in 1 .. Len(a) : j \in 1 .. h \/ j \in h + 1 .. Len(a)
        BY <1>4
      <4>2. \A j \in 1 .. Len(a) : a[j].id \in Past \cup Family
        BY <1>4, <4>1
      <4> QED
        BY <1>8, <1>9, <4>2 DEF IdsOf
    <3>2. /\ PairsOfTracks(e) /\ Len(e) = Len(a) + 1
          /\ e[Len(a) + 1] = entry /\ (\A j \in 1 .. Len(a) : e[j] = a[j])
          /\ Len(a) \in Nat
      BY <1>4, <1>8, <3>1, PairAppended
    <3>3. mgr'.ancestors = e
      BY <1>2, <2>2
    <3> HIDE DEF e, a, h
    <3>4. h \in 0 .. Len(e) /\ (\A j \in 1 .. h : j \in 1 .. Len(a))
          /\ \A j \in h + 1 .. Len(e) : j = Len(a) + 1 \/ j \in h + 1 .. Len(a)
      BY <1>4, <3>2
    <3>5. \A j \in h + 1 .. Len(e) : e[j].id \in Family'
      <4> TAKE j \in h + 1 .. Len(e)
      <4>1. CASE j = Len(a) + 1
        BY <1>8, <1>10, <3>2, <4>1
      <4>2. CASE j \in h + 1 .. Len(a)
        <5>1. j \in 1 .. Len(a)
          BY <1>4, <3>2, <4>2
        <5> QED
          BY <1>4, <1>10, <3>2, <4>2, <5>1
      <4> QED
        BY <3>4, <4>1, <4>2
    <3> QED
      BY <3>2, <3>3, <3>4, <3>5
  <2> QED
    BY <2>1, <2>2
<1>21. \A j \in 1 .. h : /\ mgr'.ancestors[j].id \in Past'
                         /\ mgr'.ancestors[j].mother = Nearest(track', Old', mgr'.ancestors[j].id)
  BY <1>3, <1>4, <1>13, <1>19, <1>20
<1> QED
  BY <1>2, <1>10, <1>15, <1>16, <1>17, <1>18, <1>20, <1>21 DEF MotherInv


LEMMA MothersStutter == ASSUME MotherInv, UNCHANGED vars PROVE MotherInv'
<1>1. phase' = phase /\ track' = track /\ stack' = stack /\ current' = current /\ mgr' = mgr
  BY DEF vars
<1>2. Old' = Old /\ New' = New /\ Live' = Live
  BY <1>1 DEF Old, New, Live, Elements
<1>3. Family' = Family
  BY <1>1 DEF Family, IdsOf
<1>4. Past' = Past
  BY <1>1, <1>2, <1>3 DEF Past
<1>5. PairsOfTracks(mgr.idsave)' = PairsOfTracks(mgr.idsave) /\ PairsOfTracks(mgr.ancestors)' = PairsOfTracks(mgr.ancestors)
  BY <1>1 DEF PairsOfTracks
<1> QED
  BY <1>1, <1>2, <1>3, <1>4, <1>5 DEF MotherInv

LEMMA StoredMothers ==
  ASSUME HistoryTyped, BranchInv, MotherInv, StoreTracks
  PROVE  MotherIsNearestStored'
<1> DEFINE m == Clean(mgr)
           s == Sorted(m.container)
           pairs == SortedPairs(m.ancestors)
<1>1. /\ phase = "event" /\ track' = track
      /\ mgr' = [m EXCEPT !.idsave = pairs, !.ancestors = <<>>, !.container = s]
  BY DEF StoreTracks
<1>2. /\ PairsOfTracks(m.ancestors)
      /\ \A j \in 1 .. Len(m.ancestors) :
           m.ancestors[j].mother = Nearest(track, Elements(m.container), m.ancestors[j].id)
  BY <1>1, CleanMothers
<1>3. Elements(s) = Elements(m.container) /\ mgr'.container = s
  BY StoreStep, Zenon
<1>4. m = [container |-> m.container, saved |-> m.saved, idsave |-> m.idsave,
           ancestors |-> m.ancestors, lastTrack |-> m.lastTrack, lastHist |-> m.lastHist]
  <2>1. IsManager(m, Len(track))
    BY CleanIsTyped DEF HistoryTyped
  <2> QED
    BY <2>1, Zenon DEF IsManager
<1> HIDE DEF m, s
<1>5. /\ pairs \in Seq(Pairs) /\ Len(pairs) = Len(m.ancestors)
      /\ \A k \in 1 .. Len(m.ancestors) : \E j \in 1 .. Len(m.ancestors) : pairs[k] = m.ancestors[j]
  BY <1>2, SortedPairsAre, Zenon
<1> HIDE DEF pairs
<1>6. mgr'.idsave = pairs
  BY <1>1, <1>4
<1>7. \A j \in DOMAIN pairs : pairs[j].mother = Nearest(track, Elements(m.container), pairs[j].id)
  <2>1. DOMAIN pairs = 1 .. Len(m.ancestors)
    BY <1>5
  <2> QED
    BY <1>2, <1>5, <2>1
<1>8. \A j \in DOMAIN mgr'.idsave :
        mgr'.idsave[j].mother = Nearest(track', Elements(mgr'.container), mgr'.idsave[j].id)
  BY <1>1, <1>3, <1>6, <1>7
<1> QED
  BY <1>8, Zenon DEF MotherIsNearestStored, NearestStored

\* "the final mother-daughter relationship": whatever the tracks of the event,
\* each track that saw hits or may have descendants with hits is mapped by
\* SimTrackManager::fillMotherList to the stored track nearest to it, itself
\* included, though the mothers of some were fixed when a primary began and tracks
\* were stored after that, as long as primaries do not decay to primaries.
THEOREM MothersAreNearest == ASSUME ~Decays PROVE Spec => []MotherIsNearestStored
<1> DEFINE Found == BranchInv /\ MotherInv /\ MotherIsNearestStored
<1>1. Init => Found
  BY DEF Init, BranchInv, MotherInv, MotherIsNearestStored
<1>2. HistoryTyped /\ HistoryTyped' /\ Found /\ [Next]_vars => Found'
  <2> SUFFICES ASSUME HistoryTyped, HistoryTyped', Found, [Next]_vars PROVE Found'
    OBVIOUS
  <2>1. CASE BeginEvent
    <3>1. phase' = "event"
      BY <2>1 DEF BeginEvent
    <3> QED
      BY <2>1, <3>1, BeginBranches, BeginMothers DEF MotherIsNearestStored
  <2>2. CASE PreUserTracking
    <3>1. phase' = "tracking"
      BY <2>2 DEF PreUserTracking
    <3> QED
      BY <2>2, <3>1, PreBranches, PreMothers DEF MotherIsNearestStored
  <2>3. CASE PostUserTracking
    <3>1. phase' = "event"
      BY <2>3 DEF PostUserTracking
    <3> QED
      BY <2>3, <3>1, PostBranches, PostMothers DEF MotherIsNearestStored
  <2>4. CASE EventThrows
    <3>1. phase' = "none"
      BY <2>4 DEF EventThrows
    <3> QED
      BY <3>1 DEF MotherIsNearestStored, BranchInv, MotherInv
  <2>5. CASE StoreTracks
    <3>1. phase' = "stored"
      BY <2>5 DEF StoreTracks
    <3>2. MotherIsNearestStored'
      BY <2>5, StoredMothers
    <3> QED
      BY <3>1, <3>2 DEF BranchInv, MotherInv
  <2>6. CASE UNCHANGED vars
    <3>1. BranchInv' /\ MotherInv'
      BY <2>6, BranchesStutter, MothersStutter
    <3>2. MotherIsNearestStored'
      <4>1. phase' = phase /\ track' = track /\ mgr' = mgr
        BY <2>6 DEF vars
      <4>2. \A t : NearestStored(t)' = NearestStored(t)
        BY <4>1 DEF NearestStored, Elements
      <4> QED
        BY <4>1, <4>2 DEF MotherIsNearestStored
    <3> QED
      BY <3>1, <3>2
  <2> QED
    BY <2>1, <2>2, <2>3, <2>4, <2>5, <2>6 DEF Next, Finished
<1> QED
  BY <1>1, <1>2, HistoryIsTyped, PTL DEF Spec


-----------------------------------------------------------------------------
(* Sequences of sequences laid end to end.                                   *)

\* The first n of some sequences laid end to end.
Flat(f, seqs, i) == IF i = 1 THEN seqs[i] ELSE f[i - 1] \o seqs[i]

Flattens(f, seqs, n, T) == f \in [1 .. n -> Seq(T)] /\ \A i \in 1 .. n : f[i] = Flat(f, seqs, i)

LEMMA FlatteningExists ==
  ASSUME NEW T, NEW L \in Nat, NEW seqs \in [1 .. L -> Seq(T)]
  PROVE  \E f : Flattens(f, seqs, L, T)
<1> DEFINE A == {n \in 0 .. L : \E f : Flattens(f, seqs, n, T)}
<1>1. 0 \in A
  <2>1. Flattens([i \in {} |-> <<>>], seqs, 0, T)
    BY DEF Flattens
  <2> QED
    BY <2>1
<1>2. ASSUME NEW n \in 1 .. L, n - 1 \in A PROVE n \in A
  <2>1. PICK f : Flattens(f, seqs, n - 1, T)
    BY <1>2
  <2>2. f \in [1 .. n - 1 -> Seq(T)] /\ \A i \in 1 .. n - 1 : f[i] = Flat(f, seqs, i)
    BY <2>1 DEF Flattens
  <2> DEFINE next == Flat(f, seqs, n)
             g == [i \in 1 .. n |-> IF i = n THEN next ELSE f[i]]
  <2>3. next \in Seq(T)
    <3>1. CASE n = 1
      BY <3>1 DEF Flat
    <3>2. CASE n # 1
      <4>1. n - 1 \in 1 .. n - 1 /\ n \in 1 .. L
        BY <3>2
      <4>2. f[n - 1] \in Seq(T) /\ seqs[n] \in Seq(T)
        BY <2>2, <4>1
      <4>3. f[n - 1] \o seqs[n] \in Seq(T)
        BY <4>2
      <4> QED
        BY <3>2, <4>3 DEF Flat
    <3> QED
      BY <3>1, <3>2
  <2> HIDE DEF next
  <2>4. g \in [1 .. n -> Seq(T)]
    <3>1. ASSUME NEW i \in 1 .. n PROVE (IF i = n THEN next ELSE f[i]) \in Seq(T)
      <4>1. i = n \/ i \in 1 .. n - 1
        OBVIOUS
      <4> QED
        BY <2>2, <2>3, <4>1
    <3> QED
      BY <3>1
  <2>5. ASSUME NEW i \in 1 .. n PROVE g[i] = Flat(g, seqs, i)
    <3>1. i = 1 \/ (i - 1 \in 1 .. n /\ i - 1 # n)
      OBVIOUS
    <3>2. i # 1 => g[i - 1] = f[i - 1]
      BY <3>1
    <3> HIDE DEF g
    <3>3. Flat(g, seqs, i) = Flat(f, seqs, i)
      BY <3>2 DEF Flat
    <3>4. CASE i = n
      BY <3>3, <3>4 DEF g, next
    <3>5. CASE i # n
      <4>1. i \in 1 .. n - 1 /\ g[i] = f[i]
        BY <3>5 DEF g
      <4> QED
        BY <2>2, <3>3, <4>1
    <3> QED
      BY <3>4, <3>5
  <2>6. Flattens(g, seqs, n, T)
    <3> HIDE DEF g
    <3> QED
      BY <2>4, <2>5 DEF Flattens
  <2> QED
    BY <2>6
<1>3. \A n \in 0 .. L : n \in A
  <2> HIDE DEF A
  <2> QED
    BY <1>1, <1>2, CountUp
<1> QED
  BY <1>3

\* Every element comes from one of the sequences.
LEMMA Flattened ==
  ASSUME NEW T, NEW seqs \in Seq(Seq(T))
  PROVE  /\ FlattenSeq(seqs) \in Seq(T)
         /\ \A x \in Elements(FlattenSeq(seqs)) : \E k \in 1 .. Len(seqs) : x \in Elements(seqs[k])
<1> DEFINE L == Len(seqs)
<1>1. L \in Nat /\ seqs \in [1 .. L -> Seq(T)] /\ (L = 0 => seqs = <<>>)
  OBVIOUS
<1>2. CASE L = 0
  <2>1. FlattenSeq(seqs) = <<>>
    BY <1>1, <1>2 DEF FlattenSeq
  <2> QED
    BY <2>1 DEF Elements
<1>3. CASE L # 0
  <2> DEFINE flat == CHOOSE f : f = [i \in 1 .. L |-> Flat(f, seqs, i)]
  <2>1. FlattenSeq(seqs) = flat[L]
    BY <1>3, Zenon DEF FlattenSeq, Flat
  <2>2. \E f : f = [i \in 1 .. L |-> Flat(f, seqs, i)] /\ Flattens(f, seqs, L, T)
    <3>1. PICK f : Flattens(f, seqs, L, T)
      <4> HIDE DEF L
      <4> QED
        BY <1>1, FlatteningExists
    <3>2. f = [i \in 1 .. L |-> Flat(f, seqs, i)]
      <4> HIDE DEF L
      <4> QED
        BY <3>1 DEF Flattens
    <3> QED
      BY <3>1, <3>2
  <2>3. flat = [i \in 1 .. L |-> Flat(flat, seqs, i)]
    <3> HIDE DEF L
    <3> QED
      BY <2>2, Zenon
  <2> HIDE DEF flat, L
  <2>4. \A i \in 1 .. L : flat[i] = Flat(flat, seqs, i)
    BY <2>3
  <2> DEFINE Good(n) == /\ flat[n] \in Seq(T)
                        /\ \A x \in Elements(flat[n]) : \E k \in 1 .. L : x \in Elements(seqs[k])
             A == {n \in 0 .. L : n = 0 \/ Good(n)}
  <2>5. 0 \in A
    BY <1>1
  <2>6. ASSUME NEW n \in 1 .. L, n - 1 \in A PROVE n \in A
    <3>1. n \in 0 .. L /\ seqs[n] \in Seq(T)
      BY <1>1
    <3>2. CASE n = 1
      <4>1. flat[n] = seqs[n]
        BY <2>4, <3>2 DEF Flat
      <4>2. Good(n)
        BY <3>1, <4>1
      <4> QED
        BY <3>1, <4>2
    <3>3. CASE n # 1
      <4>1. flat[n] = flat[n - 1] \o seqs[n]
        BY <2>4, <3>3 DEF Flat
      <4>2. Good(n - 1)
        BY <2>6, <3>3
      <4>3. flat[n] \in Seq(T)
        BY <3>1, <4>1, <4>2
      <4>4. Elements(flat[n]) = Elements(flat[n - 1]) \cup Elements(seqs[n])
        <5> DEFINE a == flat[n - 1]
                   b == seqs[n]
        <5>1. a \in Seq(T) /\ b \in Seq(T)
          BY <3>1, <4>2
        <5> HIDE DEF a, b
        <5>2. Elements(a \o b) = Elements(a) \cup Elements(b)
          BY <5>1, ElementsJoined
        <5> QED
          BY <4>1, <5>2 DEF a, b
      <4>5. Good(n)
        BY <4>2, <4>3, <4>4
      <4> QED
        BY <3>1, <4>5
    <3> QED
      BY <3>2, <3>3
  <2>7. \A n \in 0 .. L : n \in A
    <3> HIDE DEF A
    <3> QED
      BY <1>1, <2>5, <2>6, CountUp
  <2>8. Good(L)
    <3>1. L \in 0 .. L
      BY <1>1
    <3> QED
      BY <1>3, <2>7, <3>1
  <2> QED
    BY <2>1, <2>8 DEF L
<1> QED
  BY <1>2, <1>3

-----------------------------------------------------------------------------
(* The tracks Geant4 follows: their types, the stack, weights and regions.   *)

G4Particles  == UNION {Range(beam) : beam \in UNION {j.primaries : j \in Jobs}}
G4Products   == UNION {j.products : j \in Jobs}
G4StepChoice == UNION {j.steps : j \in Jobs}

Pdgs      == {p.pdg : p \in G4Particles \cup G4Products}
Regions   == {p.region : p \in G4Particles} \cup {s.region : s \in G4StepChoice}
Processes == {p.process : p \in G4Particles \cup G4Products}

G4Tracks ==
  [pdg : Pdgs, ke : Nat, region : Regions, process : Processes, parent : Nat, time : Nat,
   weight : Nat \ {0}, odds : Nat \ {0}, flag : 0 .. 3, primary : BOOLEAN, genPID : Pdgs]

G4StepsMade ==
  [track : Nat, pdg : Pdgs, energy : Nat, edeposit : Nat, slice : Nat,
   touch : {s.touch : s \in G4StepChoice}, readout : {s.readout : s \in G4StepChoice},
   region : Regions, next : {s.next : s \in G4StepChoice}]

StepsTyped ==
  /\ job \in Jobs /\ thrown \in BOOLEAN
  /\ tracks \in Seq(G4Tracks) /\ products \in Seq(G4Tracks) /\ history \in Seq(G4StepsMade)
  /\ waiting \in Seq(1 .. Len(tracks)) /\ current4 \in 0 .. Len(tracks)

\* A track waits once, and not if it was begun.
StackInv ==
  /\ \A k \in 1 .. Len(waiting) : waiting[k] # current4
  /\ \A k, l \in 1 .. Len(waiting) : waiting[k] = waiting[l] => k = l
  /\ \A n \in 1 .. Len(history) :
       history[n].track \in 1 .. Len(tracks) /\ \A k \in 1 .. Len(waiting) : waiting[k] # history[n].track

\* The products of the current track have its weight.
WeightInv ==
  /\ \A i \in 1 .. Len(tracks) : tracks[i].parent \in 0 .. Len(tracks)
  /\ \A k \in 1 .. Len(products) :
       current4 # 0 /\ products[k].parent = current4 /\ products[k].weight = tracks[current4].weight
  /\ WeightsAreFair

\* The current track has not yet been where it must end.
BeyondAt(step) == step.region \in job.deadRegions \/ OutOfTime(step.region, step.slice)

LingerInv ==
  /\ NoTrackLingers
  /\ \A n \in 1 .. Len(history) : history[n].track = current4 => ~BeyondAt(history[n])

RulesInv == StepsTyped /\ StackInv /\ WeightInv /\ LingerInv

LEMMA MaxIs ==
  ASSUME NEW x \in Int
  PROVE  Max({0, x}) \in Nat
<1>1. \E m \in {0, x} : \A y \in {0, x} : m >= y
  <2>1. CASE x >= 0
    BY <2>1
  <2>2. CASE ~(x >= 0)
    BY <2>2
  <2> QED
    BY <2>1, <2>2
<1>2. Max({0, x}) \in {0, x} /\ \A y \in {0, x} : Max({0, x}) >= y
  BY <1>1, Zenon DEF Max
<1> QED
  BY <1>2

LEMMA ParticlesAre ==
  ASSUME job \in Jobs
  PROVE  /\ \A beam \in job.primaries :
              /\ beam \in Seq(Range(beam))
              /\ \A p \in Range(beam) : p \in G4Particles /\ p.ke \in Nat /\ p.time \in Nat
         /\ \A p \in job.products : p \in G4Products /\ p.ke \in Nat
         /\ \A s \in job.steps : s \in G4StepChoice /\ s.edeposit \in Nat /\ s.dt \in Nat
         /\ job.gammaRoulette \in [DOMAIN job.gammaRoulette -> Nat \ {0}]
         /\ job.neutronRoulette \in [DOMAIN job.gammaRoulette -> Nat \ {0}]
<1>1. IsG4Job(job)
  BY G4JobsAssumption
<1>2. \A beam \in job.primaries : \A p \in Range(beam) : p \in G4Particles
  BY DEF G4Particles
<1>3. (\A p \in job.products : p \in G4Products) /\ (\A s \in job.steps : s \in G4StepChoice)
  BY DEF G4Products, G4StepChoice
<1> QED
  BY <1>1, <1>2, <1>3 DEF IsG4Job

LEMMA MovedIs ==
  ASSUME StepsTyped, current4 # 0, NEW s \in job.steps
  PROVE  /\ Moved(s) \in G4Tracks /\ current4 \in 1 .. Len(tracks) /\ tracks[current4] \in G4Tracks
         /\ Moved(s).weight = tracks[current4].weight /\ Moved(s).parent = tracks[current4].parent
         /\ Moved(s).odds = tracks[current4].odds /\ Moved(s).region = tracks[current4].region
         /\ Moved(s).genPID = tracks[current4].genPID
         /\ StepOf(s) \in G4StepsMade /\ StepOf(s).track = current4 /\ StepOf(s).slice = Moved(s).time
         /\ StepOf(s).region = s.region /\ StepOf(s).touch = s.touch /\ StepOf(s).readout = s.readout
         /\ StepOf(s).edeposit = s.edeposit
<1> DEFINE old == tracks[current4]
<1>1. current4 \in 1 .. Len(tracks) /\ old \in G4Tracks
  BY DEF StepsTyped
<1>2. s \in G4StepChoice /\ s.edeposit \in Nat /\ s.dt \in Nat
  BY ParticlesAre DEF StepsTyped
<1>3. Moved(s) = [old EXCEPT !.ke = Max({0, old.ke - s.edeposit}), !.time = old.time + s.dt]
  BY DEF Moved
<1> HIDE DEF old
<1>4. old.ke - s.edeposit \in Int /\ old.time + s.dt \in Nat
  <2>1. old.ke \in Nat /\ old.time \in Nat
    BY <1>1 DEF G4Tracks
  <2> QED
    BY <1>2, <2>1
<1>5. Max({0, old.ke - s.edeposit}) \in Nat
  BY <1>4, MaxIs
<1>6. /\ Moved(s) \in G4Tracks /\ Moved(s).weight = old.weight /\ Moved(s).parent = old.parent
      /\ Moved(s).odds = old.odds /\ Moved(s).region = old.region /\ Moved(s).genPID = old.genPID
      /\ Moved(s).time \in Nat
  <2> DEFINE m == Max({0, old.ke - s.edeposit})
             u == old.time + s.dt
  <2>1. m \in Nat /\ u \in Nat /\ Moved(s) = [old EXCEPT !.ke = m, !.time = u]
    BY <1>3, <1>4, <1>5
  <2> HIDE DEF m, u
  <2> QED
    BY <1>1, <2>1 DEF G4Tracks
<1>7. /\ s.region \in Regions /\ s.touch \in {q.touch : q \in G4StepChoice}
      /\ s.readout \in {q.readout : q \in G4StepChoice} /\ s.next \in {q.next : q \in G4StepChoice}
  BY <1>2 DEF Regions
<1>8. current4 \in Nat /\ old.pdg \in Pdgs /\ old.ke \in Nat
  BY <1>1 DEF G4Tracks, StepsTyped
<1>9. StepOf(s) = [track |-> current4, pdg |-> old.pdg, energy |-> old.ke,
                   edeposit |-> s.edeposit, slice |-> Moved(s).time, touch |-> s.touch,
                   readout |-> s.readout, region |-> s.region, next |-> s.next]
  BY DEF StepOf, old
<1>10. StepOf(s) \in G4StepsMade
  BY <1>2, <1>6, <1>7, <1>8, <1>9 DEF G4StepsMade
<1>11. /\ StepOf(s).track = current4 /\ StepOf(s).slice = Moved(s).time /\ StepOf(s).region = s.region
       /\ StepOf(s).touch = s.touch /\ StepOf(s).readout = s.readout /\ StepOf(s).edeposit = s.edeposit
  BY <1>9
<1> QED
  BY <1>1, <1>6, <1>10, <1>11 DEF old

\* ClassifyNewTrack.
LEMMA SecondaryIs ==
  ASSUME StepsTyped, NEW t \in G4Tracks, NEW mother \in G4Tracks, NEW survives
  PROVE  /\ Secondary(t, mother, survives) \in Seq(G4Tracks)
         /\ \A x \in Elements(Secondary(t, mother, survives)) :
              /\ x.parent = t.parent /\ x.region = t.region /\ x.region \notin job.deadRegions
              /\ x.weight = IF t.weight > 1 THEN t.weight ELSE x.odds
<1> DEFINE odds == Odds(t, mother)
           flag == FlagOf(t, mother)
           x == [t EXCEPT !.weight = @ * odds, !.flag = flag, !.primary = flag = 1, !.odds = odds]
<1>1. odds \in Nat \ {0} /\ (t.weight > 1 => odds = 1)
  <2>1. /\ job.gammaRoulette \in [DOMAIN job.gammaRoulette -> Nat \ {0}]
        /\ job.neutronRoulette \in [DOMAIN job.gammaRoulette -> Nat \ {0}]
    BY ParticlesAre DEF StepsTyped
  <2>2. t.region \in DOMAIN job.gammaRoulette =>
          job.gammaRoulette[t.region] \in Nat \ {0} /\ job.neutronRoulette[t.region] \in Nat \ {0}
    BY <2>1
  <2> QED
    BY <2>2 DEF Odds
<1>2. flag \in 0 .. 3
  BY DEF FlagOf, DecayOrConversion
<1>3. Secondary(t, mother, survives) = <<>>
      \/ (~Killed(t, mother) /\ Secondary(t, mother, survives) = <<x>>)
  BY DEF Secondary
<1> HIDE DEF odds, flag
<1>4. t.weight * odds \in Nat \ {0} /\ (t.weight > 1 => t.weight * odds = t.weight)
      /\ (~(t.weight > 1) => t.weight * odds = odds)
  <2>1. t.weight \in Nat \ {0}
    BY DEF G4Tracks
  <2> DEFINE w == t.weight
  <2> HIDE DEF w
  <2>2. w \in Nat \ {0}
    BY <2>1 DEF w
  <2>3. w * odds \in Nat \ {0} /\ w * 1 = w /\ 1 * odds = odds
    <3>1. w >= 1 /\ odds >= 1 /\ w \in Int /\ odds \in Int
      BY <1>1, <2>2
    <3>2. w * odds >= 1
      BY <3>1
    <3>3. w * odds \in Nat
      BY <1>1, <2>2
    <3> QED
      BY <1>1, <2>2, <3>2, <3>3
  <2>4. (w > 1 => w * odds = w) /\ (~(w > 1) => w * odds = odds)
    <3>1. CASE w > 1
      BY <1>1, <2>3, <3>1 DEF w
    <3>2. CASE ~(w > 1)
      <4>1. w = 1
        BY <2>2, <3>2
      <4> QED
        BY <2>3, <3>2, <4>1
    <3> QED
      BY <3>1, <3>2
  <2> QED
    BY <2>3, <2>4 DEF w
<1>5. x \in G4Tracks /\ x.parent = t.parent /\ x.region = t.region /\ x.odds = odds
      /\ x.weight = t.weight * odds
  <2> DEFINE w == t.weight * odds
             p == flag = 1
  <2>1. x = [t EXCEPT !.weight = w, !.flag = flag, !.primary = p, !.odds = odds]
    OBVIOUS
  <2>2. w \in Nat \ {0} /\ p \in BOOLEAN
    BY <1>4
  <2> HIDE DEF w, p, x
  <2>3. x \in G4Tracks /\ x.parent = t.parent /\ x.region = t.region /\ x.odds = odds /\ x.weight = w
    BY <1>1, <1>2, <2>1, <2>2 DEF G4Tracks
  <2> QED
    BY <2>3 DEF w
<1> HIDE DEF x
<1>6. CASE Secondary(t, mother, survives) = <<>>
  BY <1>6 DEF Elements
<1>7. CASE ~Killed(t, mother) /\ Secondary(t, mother, survives) = <<x>>
  <2>1. t.region \notin job.deadRegions
    BY <1>7 DEF Killed
  <2>2. <<x>> \in Seq(G4Tracks) /\ Elements(<<x>>) = {x}
    BY <1>5 DEF Elements
  <2>3. x.weight = IF t.weight > 1 THEN t.weight ELSE x.odds
    BY <1>4, <1>5
  <2> QED
    BY <1>5, <1>7, <2>1, <2>2, <2>3
<1> QED
  BY <1>3, <1>6, <1>7

LEMMA UrgentIs ==
  ASSUME StepsTyped, NEW all \in Seq(G4Tracks), NEW mother \in G4Tracks, NEW survive
  PROVE  /\ Urgent(all, mother, survive) \in Seq(G4Tracks)
         /\ \A x \in Elements(Urgent(all, mother, survive)) : \E k \in 1 .. Len(all) :
              /\ x.parent = all[k].parent /\ x.region \notin job.deadRegions
              /\ x.weight = IF all[k].weight > 1 THEN all[k].weight ELSE x.odds
<1> DEFINE seqs == [k \in DOMAIN all |-> Secondary(all[k], mother, survive[k])]
<1>1. DOMAIN all = 1 .. Len(all) /\ \A k \in 1 .. Len(all) : all[k] \in G4Tracks
  OBVIOUS
<1>2. \A k \in 1 .. Len(all) :
        /\ seqs[k] \in Seq(G4Tracks)
        /\ \A x \in Elements(seqs[k]) :
             /\ x.parent = all[k].parent /\ x.region \notin job.deadRegions
             /\ x.weight = IF all[k].weight > 1 THEN all[k].weight ELSE x.odds
  <2> TAKE k \in 1 .. Len(all)
  <2>1. all[k] \in G4Tracks /\ seqs[k] = Secondary(all[k], mother, survive[k])
    BY <1>1
  <2> QED
    BY <2>1, SecondaryIs
<1>3. seqs \in Seq(Seq(G4Tracks)) /\ Len(seqs) = Len(all)
  BY <1>1, <1>2
<1>4. Urgent(all, mother, survive) = FlattenSeq(seqs)
  BY DEF Urgent
<1> HIDE DEF seqs
<1>5. /\ FlattenSeq(seqs) \in Seq(G4Tracks)
      /\ \A x \in Elements(FlattenSeq(seqs)) : \E k \in 1 .. Len(seqs) : x \in Elements(seqs[k])
  BY <1>3, Flattened
<1> QED
  BY <1>2, <1>3, <1>4, <1>5

\* What was made in a step belongs to the current track.
AllOf(s, made) == products \o [k \in DOMAIN made |-> ProductOf(made[k], Moved(s), StepOf(s))]

OfCurrent(all, weight) ==
  /\ all \in Seq(G4Tracks)
  /\ \A k \in 1 .. Len(all) : all[k].parent = current4 /\ all[k].weight = weight

LEMMA ProductIs ==
  ASSUME StepsTyped, current4 # 0, NEW s \in job.steps, NEW p \in job.products
  PROVE  /\ ProductOf(p, Moved(s), StepOf(s)) \in G4Tracks
         /\ ProductOf(p, Moved(s), StepOf(s)).parent = current4
         /\ ProductOf(p, Moved(s), StepOf(s)).weight = Moved(s).weight
<1> DEFINE t == Moved(s)
           r == s.region
<1>1. t \in G4Tracks /\ StepOf(s).region = r /\ StepOf(s) \in G4StepsMade /\ current4 \in Nat
  BY MovedIs DEF StepsTyped
<1>2. p \in G4Products /\ p.ke \in Nat
  BY ParticlesAre DEF StepsTyped
<1>3. p.pdg \in Pdgs /\ p.process \in Processes /\ r \in Regions
  BY <1>1, <1>2 DEF Pdgs, Processes, G4StepsMade
<1> HIDE DEF t, r
<1>4. t.time \in Nat /\ t.weight \in Nat \ {0} /\ t.genPID \in Pdgs
  BY <1>1 DEF G4Tracks
<1> DEFINE q == [pdg |-> p.pdg, ke |-> p.ke, process |-> p.process, region |-> r, time |-> t.time]
           first == current4 = 0
           n == [pdg |-> q.pdg, ke |-> q.ke, region |-> q.region, process |-> q.process,
                 parent |-> current4, time |-> q.time, weight |-> 1, odds |-> 1, flag |-> 0,
                 primary |-> first, genPID |-> q.pdg]
<1>5. /\ q.pdg \in Pdgs /\ q.ke \in Nat /\ q.region \in Regions /\ q.process \in Processes
      /\ q.time \in Nat /\ first \in BOOLEAN
  BY <1>2, <1>3, <1>4
<1>6. ProductOf(p, t, StepOf(s)) = [NewG4Track(q, current4) EXCEPT !.weight = t.weight, !.genPID = t.genPID]
  BY <1>1, Zenon DEF ProductOf
<1>7. NewG4Track(q, current4) = n
  BY DEF NewG4Track
<1> HIDE DEF first, q
<1>8. n \in G4Tracks /\ n.parent = current4
  BY <1>1, <1>5 DEF G4Tracks
<1> HIDE DEF n
<1> DEFINE w == t.weight
           g == t.genPID
           m == [n EXCEPT !.weight = w, !.genPID = g]
<1>9. w \in Nat \ {0} /\ g \in Pdgs
  BY <1>4
<1> HIDE DEF w, g
<1>10. m \in G4Tracks /\ m.parent = current4 /\ m.weight = w
  BY <1>8, <1>9 DEF G4Tracks
<1>11. ProductOf(p, t, StepOf(s)) = m
  BY <1>6, <1>7, Zenon DEF w, g
<1> QED
  BY <1>10, <1>11 DEF t, w

LEMMA AllIs ==
  ASSUME StepsTyped, WeightInv, current4 # 0, NEW s \in job.steps,
         NEW made \in {<<>>} \cup {<<p>> : p \in job.products}
  PROVE  OfCurrent(AllOf(s, made), Moved(s).weight)
<1> DEFINE w == Moved(s).weight
           new == [k \in DOMAIN made |-> ProductOf(made[k], Moved(s), StepOf(s))]
<1>1. OfCurrent(products, w)
  <2>1. products \in Seq(G4Tracks) /\ w = tracks[current4].weight
    BY MovedIs DEF StepsTyped
  <2> QED
    BY <2>1 DEF OfCurrent, WeightInv
<1>2. OfCurrent(new, w)
  <2>1. CASE made = <<>>
    BY <2>1 DEF OfCurrent
  <2>2. CASE made \in {<<p>> : p \in job.products}
    <3>1. PICK p \in job.products : made = <<p>>
      BY <2>2
    <3> DEFINE x == ProductOf(p, Moved(s), StepOf(s))
    <3>2. x \in G4Tracks /\ x.parent = current4 /\ x.weight = w
      BY ProductIs
    <3>3. new = [k \in 1 .. 1 |-> x]
      <4>1. DOMAIN made = 1 .. 1 /\ made[1] = p
        BY <3>1
      <4> QED
        BY <4>1
    <3> HIDE DEF x, new, w
    <3>4. new \in Seq(G4Tracks) /\ Len(new) = 1 /\ new[1] = x
      BY <3>2, <3>3
    <3> QED
      BY <3>2, <3>4 DEF OfCurrent
  <2> QED
    BY <2>1, <2>2
<1>3. AllOf(s, made) = products \o new
  BY DEF AllOf
<1> HIDE DEF new, w
<1>4. ASSUME NEW a, NEW b, OfCurrent(a, w), OfCurrent(b, w) PROVE OfCurrent(a \o b, w)
  <2>1. /\ a \in Seq(G4Tracks) /\ b \in Seq(G4Tracks)
        /\ \A k \in 1 .. Len(a) : a[k].parent = current4 /\ a[k].weight = w
        /\ \A k \in 1 .. Len(b) : b[k].parent = current4 /\ b[k].weight = w
    BY <1>4 DEF OfCurrent
  <2>2. /\ a \o b \in Seq(G4Tracks) /\ Len(a \o b) = Len(a) + Len(b)
        /\ \A i \in 1 .. Len(a) : (a \o b)[i] = a[i]
        /\ \A i \in 1 .. Len(b) : (a \o b)[Len(a) + i] = b[i]
    BY <2>1, Joined
  <2>3. ASSUME NEW k \in 1 .. Len(a \o b) PROVE (a \o b)[k].parent = current4 /\ (a \o b)[k].weight = w
    <3>1. CASE k \in 1 .. Len(a)
      BY <2>1, <2>2, <3>1
    <3>2. CASE k \notin 1 .. Len(a)
      <4>1. k - Len(a) \in 1 .. Len(b) /\ k = Len(a) + (k - Len(a))
        BY <2>1, <2>2, <3>2
      <4>2. (a \o b)[k] = b[k - Len(a)]
        BY <2>2, <4>1
      <4> QED
        BY <2>1, <4>1, <4>2
    <3> QED
      BY <3>1, <3>2
  <2> QED
    BY <2>2, <2>3 DEF OfCurrent
<1> QED
  BY <1>1, <1>2, <1>3, <1>4 DEF w

\* A step, whether the track goes on or ends and its products are classified.
FollowedBy(s, urgent) ==
  /\ Len(tracks') = Len(tracks) + Len(urgent)
  /\ \A i \in 1 .. Len(tracks) : tracks'[i] = IF i = current4 THEN Moved(s) ELSE tracks[i]
  /\ \A i \in 1 .. Len(urgent) : tracks'[Len(tracks) + i] = urgent[i]
  /\ Len(waiting') = Len(waiting) + Len(urgent)
  /\ \A k \in 1 .. Len(waiting) : waiting'[k] = waiting[k]
  /\ \A k \in 1 .. Len(urgent) : waiting'[Len(waiting) + k] = Len(tracks) + k

Classified(s, urgent) ==
  /\ urgent \in Seq(G4Tracks)
  /\ \A k \in 1 .. Len(urgent) :
       /\ urgent[k].parent = current4 /\ urgent[k].region \notin job.deadRegions
       /\ urgent[k].weight = IF Moved(s).weight > 1 THEN Moved(s).weight ELSE urgent[k].odds

Taken(s, urgent) ==
  /\ Classified(s, urgent) /\ FollowedBy(s, urgent)
  /\ tracks' \in Seq(G4Tracks) /\ waiting' \in Seq(1 .. Len(tracks'))
  /\ OfCurrent(products', Moved(s).weight)
  /\ \/ current4' = current4 /\ ~StoppedByAction(Moved(s), StepOf(s))
     \/ current4' = 0 /\ products' = <<>>

LEMMA StepIsFollowed ==
  ASSUME StepsTyped, current4 # 0, NEW s \in job.steps, NEW urgent \in Seq(G4Tracks),
         tracks' = [tracks EXCEPT ![current4] = Moved(s)] \o urgent,
         waiting' = waiting \o [k \in 1 .. Len(urgent) |-> Len(tracks) + k]
  PROVE  FollowedBy(s, urgent) /\ tracks' \in Seq(G4Tracks) /\ waiting' \in Seq(1 .. Len(tracks'))
<1> DEFINE base == [tracks EXCEPT ![current4] = Moved(s)]
           more == [k \in 1 .. Len(urgent) |-> Len(tracks) + k]
<1>1. /\ tracks \in Seq(G4Tracks) /\ current4 \in 1 .. Len(tracks) /\ Moved(s) \in G4Tracks
      /\ waiting \in Seq(1 .. Len(tracks)) /\ Len(tracks) \in Nat /\ Len(urgent) \in Nat
  BY MovedIs DEF StepsTyped
<1>2. /\ base \in Seq(G4Tracks) /\ Len(base) = Len(tracks)
      /\ \A i \in 1 .. Len(tracks) : base[i] = IF i = current4 THEN Moved(s) ELSE tracks[i]
  <2> DEFINE m == Moved(s)
  <2> HIDE DEF m
  <2>1. [tracks EXCEPT ![current4] = m] \in Seq(G4Tracks)
    BY <1>1 DEF m
  <2> QED
    BY <1>1, <2>1 DEF m
<1> DEFINE N == Len(tracks) + Len(urgent)
<1>3. more \in Seq(1 .. N) /\ Len(more) = Len(urgent) /\ \A k \in 1 .. Len(urgent) : more[k] = Len(tracks) + k
  <2>1. \A k \in 1 .. Len(urgent) : Len(tracks) + k \in 1 .. N
    BY <1>1
  <2> QED
    BY <1>1, <2>1
<1>4. waiting \in Seq(1 .. N)
  <2>1. 1 .. Len(tracks) \subseteq 1 .. N
    BY <1>1
  <2> QED
    BY <1>1, <2>1, SeqWiden, Zenon
<1> HIDE DEF base, more, N
<1>5. tracks' = base \o urgent /\ waiting' = waiting \o more
  BY DEF base, more
<1>6. /\ base \o urgent \in Seq(G4Tracks) /\ Len(base \o urgent) = Len(tracks) + Len(urgent)
      /\ \A i \in 1 .. Len(tracks) : (base \o urgent)[i] = base[i]
      /\ \A i \in 1 .. Len(urgent) : (base \o urgent)[Len(tracks) + i] = urgent[i]
  <2>1. base \in Seq(G4Tracks) /\ urgent \in Seq(G4Tracks)
    BY <1>2
  <2>2. /\ base \o urgent \in Seq(G4Tracks) /\ Len(base \o urgent) = Len(base) + Len(urgent)
        /\ \A i \in 1 .. Len(base) : (base \o urgent)[i] = base[i]
        /\ \A i \in 1 .. Len(urgent) : (base \o urgent)[Len(base) + i] = urgent[i]
    BY <2>1, Joined
  <2> QED
    BY <1>2, <2>2, Zenon
<1>7. /\ waiting \o more \in Seq(1 .. N) /\ Len(waiting \o more) = Len(waiting) + Len(urgent)
      /\ \A i \in 1 .. Len(waiting) : (waiting \o more)[i] = waiting[i]
      /\ \A i \in 1 .. Len(urgent) : (waiting \o more)[Len(waiting) + i] = more[i]
  <2>1. waiting \in Seq(1 .. N) /\ more \in Seq(1 .. N)
    BY <1>3, <1>4
  <2>2. /\ waiting \o more \in Seq(1 .. N) /\ Len(waiting \o more) = Len(waiting) + Len(more)
        /\ \A i \in 1 .. Len(waiting) : (waiting \o more)[i] = waiting[i]
        /\ \A i \in 1 .. Len(more) : (waiting \o more)[Len(waiting) + i] = more[i]
    BY <2>1, Joined
  <2> QED
    BY <1>3, <2>2, Zenon
<1>8. Len(tracks') = N /\ waiting' \in Seq(1 .. Len(tracks')) /\ tracks' \in Seq(G4Tracks)
  BY <1>5, <1>6, <1>7 DEF N
<1>9. FollowedBy(s, urgent)
  BY <1>2, <1>3, <1>5, <1>6, <1>7 DEF FollowedBy
<1> QED
  BY <1>8, <1>9

LEMMA StepIsTaken ==
  ASSUME StepsTyped, WeightInv, TakeStep
  PROVE  \E s \in job.steps : /\ HitSDs(StepOf(s)) /\ history' = Append(history, StepOf(s))
                              /\ \E urgent : Taken(s, urgent)
<1>1. current4 # 0
  BY DEF TakeStep
<1>2. PICK s \in job.steps, made \in {<<>>} \cup {<<p>> : p \in job.products}, stopped \in BOOLEAN :
        LET t == Moved(s)
            step == StepOf(s)
            ends == \/ stopped \/ s.next.volume = "none" \/ StoppedBySD(step)
                    \/ StoppedByAction(t, step)
            all == products \o [k \in DOMAIN made |-> ProductOf(made[k], t, step)]
        IN /\ made # <<>> => Len(tracks) + Len(products) < MaxG4Tracks
           /\ HitSDs(step)
           /\ history' = Append(history, step)
           /\ IF ends
              THEN \E survive \in [DOMAIN all -> BOOLEAN] :
                     LET urgent == Urgent(all, t, survive)
                     IN  /\ tracks' = [tracks EXCEPT ![current4] = t] \o urgent
                         /\ waiting' = waiting \o [k \in DOMAIN urgent |-> Len(tracks) + k]
                         /\ products' = <<>> /\ current4' = 0
              ELSE /\ tracks' = [tracks EXCEPT ![current4] = t]
                   /\ products' = all /\ UNCHANGED <<waiting, current4>>
  BY Zenon DEF TakeStep
<1> DEFINE t == Moved(s)
           step == StepOf(s)
           all == AllOf(s, made)
<1>3. /\ HitSDs(step) /\ history' = Append(history, step)
      /\ \/ \E survive :
              LET urgent == Urgent(all, t, survive)
              IN  /\ tracks' = [tracks EXCEPT ![current4] = t] \o urgent
                  /\ waiting' = waiting \o [k \in DOMAIN urgent |-> Len(tracks) + k]
                  /\ products' = <<>> /\ current4' = 0
         \/ /\ ~StoppedByAction(t, step)
            /\ tracks' = [tracks EXCEPT ![current4] = t]
            /\ products' = all /\ waiting' = waiting /\ current4' = current4
  BY <1>2, Zenon DEF AllOf
<1>4. t \in G4Tracks /\ OfCurrent(all, t.weight) /\ all \in Seq(G4Tracks)
  <2>1. OfCurrent(all, t.weight)
    BY <1>1, AllIs
  <2>2. t \in G4Tracks
    BY <1>1, MovedIs
  <2> QED
    BY <2>1, <2>2 DEF OfCurrent
<1>5. CASE \E survive :
              LET urgent == Urgent(all, t, survive)
              IN  /\ tracks' = [tracks EXCEPT ![current4] = t] \o urgent
                  /\ waiting' = waiting \o [k \in DOMAIN urgent |-> Len(tracks) + k]
                  /\ products' = <<>> /\ current4' = 0
  <2> HIDE DEF t, all, step
  <2>1. PICK survive :
          LET urgent == Urgent(all, t, survive)
          IN  /\ tracks' = [tracks EXCEPT ![current4] = t] \o urgent
              /\ waiting' = waiting \o [k \in DOMAIN urgent |-> Len(tracks) + k]
              /\ products' = <<>> /\ current4' = 0
    BY <1>5
  <2> DEFINE urgent == Urgent(all, t, survive)
  <2>2. /\ urgent \in Seq(G4Tracks)
        /\ \A x \in Elements(urgent) : \E k \in 1 .. Len(all) :
             /\ x.parent = all[k].parent /\ x.region \notin job.deadRegions
             /\ x.weight = IF all[k].weight > 1 THEN all[k].weight ELSE x.odds
    BY <1>4, UrgentIs
  <2>3. /\ tracks' = [tracks EXCEPT ![current4] = t] \o urgent
        /\ waiting' = waiting \o [k \in DOMAIN urgent |-> Len(tracks) + k]
        /\ products' = <<>> /\ current4' = 0
    BY <2>1
  <2> HIDE DEF urgent
  <2>4. DOMAIN urgent = 1 .. Len(urgent) /\ \A k \in 1 .. Len(urgent) : urgent[k] \in Elements(urgent)
    BY <2>2 DEF Elements
  <2>5. Classified(s, urgent)
    <3>1. \A k \in 1 .. Len(all) : all[k].parent = current4 /\ all[k].weight = t.weight
      BY <1>4 DEF OfCurrent
    <3>2. \A x \in Elements(urgent) :
            /\ x.parent = current4 /\ x.region \notin job.deadRegions
            /\ x.weight = IF t.weight > 1 THEN t.weight ELSE x.odds
      BY <2>2, <3>1
    <3> QED
      BY <2>2, <2>4, <3>2 DEF Classified, t
  <2>6. FollowedBy(s, urgent) /\ tracks' \in Seq(G4Tracks) /\ waiting' \in Seq(1 .. Len(tracks'))
    <3>1. /\ tracks' = [tracks EXCEPT ![current4] = Moved(s)] \o urgent
          /\ waiting' = waiting \o [k \in 1 .. Len(urgent) |-> Len(tracks) + k]
      BY <2>3, <2>4 DEF t
    <3> QED
      BY <1>1, <2>2, <3>1, StepIsFollowed
  <2>7. OfCurrent(products', Moved(s).weight)
    BY <2>3 DEF OfCurrent
  <2>8. Taken(s, urgent)
    BY <2>3, <2>5, <2>6, <2>7 DEF Taken
  <2> QED
    BY <1>3, <2>8 DEF step
<1>6. CASE /\ ~StoppedByAction(t, step)
           /\ tracks' = [tracks EXCEPT ![current4] = t]
           /\ products' = all /\ waiting' = waiting /\ current4' = current4
  <2> DEFINE base == [tracks EXCEPT ![current4] = t]
  <2>1. base \in Seq(G4Tracks) /\ waiting \in Seq(1 .. Len(tracks)) /\ <<>> \in Seq(G4Tracks)
    <3>1. /\ tracks \in Seq(G4Tracks) /\ waiting \in Seq(1 .. Len(tracks))
          /\ current4 \in 1 .. Len(tracks) /\ t \in G4Tracks
      BY <1>1, <1>4 DEF StepsTyped
    <3> HIDE DEF t, all, step
    <3>2. base \in Seq(G4Tracks)
      BY <3>1
    <3> QED
      BY <3>1, <3>2
  <2>2. base \o <<>> = base /\ waiting \o <<>> = waiting
    <3> HIDE DEF base
    <3> QED
      BY <2>1
  <2>3. waiting \o [k \in 1 .. Len(<<>>) |-> Len(tracks) + k] = waiting
    <3>1. [k \in 1 .. Len(<<>>) |-> Len(tracks) + k] = <<>>
      OBVIOUS
    <3> QED
      BY <2>2, <3>1
  <2>4. tracks' = base \o <<>> /\ waiting' = waiting \o [k \in 1 .. Len(<<>>) |-> Len(tracks) + k]
    BY <1>6, <2>2, <2>3, Zenon
  <2>5. FollowedBy(s, <<>>) /\ tracks' \in Seq(G4Tracks) /\ waiting' \in Seq(1 .. Len(tracks'))
    BY <1>1, <2>1, <2>4, StepIsFollowed
  <2>6. Classified(s, <<>>)
    BY DEF Classified
  <2> HIDE DEF t, all, step, base
  <2>7. OfCurrent(products', t.weight)
    <3>1. products' = all /\ current4 = current4
      BY <1>6
    <3> QED
      BY <1>4, <3>1
  <2>8. Taken(s, <<>>)
    BY <1>6, <2>5, <2>6, <2>7 DEF Taken, t, step
  <2> QED
    BY <1>3, <2>8 DEF step
<1> QED
  BY <1>3, <1>5, <1>6

LEMMA TakeKeepsTypes ==
  ASSUME StepsTyped, WeightInv, TakeStep
  PROVE  StepsTyped'
<1>1. PICK s \in job.steps : /\ HitSDs(StepOf(s)) /\ history' = Append(history, StepOf(s))
                             /\ \E urgent : Taken(s, urgent)
  BY StepIsTaken
<1>2. PICK urgent : Taken(s, urgent)
  BY <1>1
<1>3. current4 # 0 /\ job' = job /\ thrown' = thrown
  BY DEF TakeStep
<1>4. /\ job \in Jobs /\ thrown \in BOOLEAN /\ history \in Seq(G4StepsMade)
      /\ tracks \in Seq(G4Tracks) /\ current4 \in 0 .. Len(tracks)
  BY DEF StepsTyped
<1>5. StepOf(s) \in G4StepsMade
  BY <1>3, MovedIs
<1>6. history' \in Seq(G4StepsMade)
  BY <1>1, <1>4, <1>5
<1>7. /\ tracks' \in Seq(G4Tracks) /\ waiting' \in Seq(1 .. Len(tracks')) /\ products' \in Seq(G4Tracks)
      /\ urgent \in Seq(G4Tracks) /\ Len(tracks') = Len(tracks) + Len(urgent)
      /\ current4' = current4 \/ current4' = 0
  BY <1>2 DEF Taken, OfCurrent, Classified, FollowedBy
<1>8. current4' \in 0 .. Len(tracks')
  <2>1. Len(tracks) \in Nat /\ Len(urgent) \in Nat
    BY <1>4, <1>7
  <2> QED
    BY <1>4, <1>7, <2>1
<1> QED
  BY <1>3, <1>4, <1>6, <1>7, <1>8 DEF StepsTyped

LEMMA TakeKeepsStack ==
  ASSUME StepsTyped, WeightInv, StackInv, TakeStep
  PROVE  StackInv'
<1>1. PICK s \in job.steps : /\ HitSDs(StepOf(s)) /\ history' = Append(history, StepOf(s))
                             /\ \E urgent : Taken(s, urgent)
  BY StepIsTaken
<1>2. PICK urgent : Taken(s, urgent)
  BY <1>1
<1>3. current4 # 0
  BY DEF TakeStep
<1> DEFINE N == Len(tracks)
           W == Len(waiting)
           U == Len(urgent)
           H == Len(history)
<1>4. /\ N \in Nat /\ W \in Nat /\ U \in Nat /\ H \in Nat /\ current4 \in 1 .. N
      /\ \A k \in 1 .. W : waiting[k] \in 1 .. N
      /\ history \in Seq(G4StepsMade) /\ StepOf(s).track = current4
  <2>1. urgent \in Seq(G4Tracks)
    BY <1>2 DEF Taken, Classified
  <2>2. tracks \in Seq(G4Tracks) /\ waiting \in Seq(1 .. N) /\ history \in Seq(G4StepsMade)
    BY DEF StepsTyped
  <2>3. current4 \in 1 .. N /\ StepOf(s).track = current4
    BY <1>3, MovedIs
  <2> HIDE DEF N
  <2>4. N \in Nat
    BY <2>2 DEF N
  <2> QED
    BY <2>1, <2>2, <2>3, <2>4
<1>5. /\ \A k \in 1 .. W : waiting[k] # current4
      /\ \A k, l \in 1 .. W : waiting[k] = waiting[l] => k = l
      /\ \A n \in 1 .. H : history[n].track \in 1 .. N /\ \A k \in 1 .. W : waiting[k] # history[n].track
  BY DEF StackInv
<1>6. /\ Len(tracks') = N + U /\ Len(waiting') = W + U
      /\ \A k \in 1 .. W : waiting'[k] = waiting[k]
      /\ \A k \in 1 .. U : waiting'[W + k] = N + k
      /\ current4' = current4 \/ current4' = 0
  BY <1>2 DEF Taken, FollowedBy
<1>7. /\ Len(history') = H + 1 /\ \A n \in 1 .. H : history'[n] = history[n]
      /\ history'[H + 1] = StepOf(s)
  BY <1>1, <1>4
<1> HIDE DEF N, W, U, H
<1>8. \A k \in 1 .. W + U : \/ k \in 1 .. W /\ waiting'[k] = waiting[k]
                            \/ k - W \in 1 .. U /\ waiting'[k] = N + (k - W)
  <2> TAKE k \in 1 .. W + U
  <2>1. CASE k \in 1 .. W
    BY <1>6, <2>1
  <2>2. CASE k \notin 1 .. W
    <3>1. k - W \in 1 .. U /\ k = W + (k - W)
      BY <1>4, <2>2
    <3> QED
      BY <1>6, <3>1
  <2> QED
    BY <2>1, <2>2
<1>9. \A k \in 1 .. W + U : waiting'[k] # current4'
  <2> TAKE k \in 1 .. W + U
  <2>1. CASE k \in 1 .. W /\ waiting'[k] = waiting[k]
    BY <1>4, <1>5, <1>6, <2>1
  <2>2. CASE k - W \in 1 .. U /\ waiting'[k] = N + (k - W)
    BY <1>4, <1>6, <2>2
  <2> QED
    BY <1>8, <2>1, <2>2
<1>10. \A k, l \in 1 .. W + U : waiting'[k] = waiting'[l] => k = l
  <2> TAKE k, l \in 1 .. W + U
  <2> HAVE waiting'[k] = waiting'[l]
  <2>1. CASE k \in 1 .. W /\ waiting'[k] = waiting[k]
    <3>1. waiting'[l] \in 1 .. N
      BY <1>4, <2>1
    <3>2. l \in 1 .. W /\ waiting'[l] = waiting[l]
      BY <1>4, <1>8, <3>1
    <3> QED
      BY <1>5, <2>1, <3>2
  <2>2. CASE k - W \in 1 .. U /\ waiting'[k] = N + (k - W)
    <3>1. ~(l \in 1 .. W /\ waiting'[l] = waiting[l])
      BY <1>4, <2>2
    <3>2. l - W \in 1 .. U /\ waiting'[l] = N + (l - W)
      BY <1>8, <3>1
    <3> QED
      <4>1. N + (k - W) = N + (l - W)
        BY <2>2, <3>2, Zenon
      <4>2. k \in Int /\ l \in Int
        BY <1>4
      <4> QED
        BY <1>4, <4>1, <4>2
  <2> QED
    BY <1>8, <2>1, <2>2
<1>11. ASSUME NEW n \in 1 .. H + 1
       PROVE  history'[n].track \in 1 .. N + U /\ \A k \in 1 .. W + U : waiting'[k] # history'[n].track
  <2> DEFINE i == history'[n].track
  <2>1. i \in 1 .. N /\ \A k \in 1 .. W : waiting[k] # i
    <3>1. CASE n \in 1 .. H
      BY <1>5, <1>7, <3>1
    <3>2. CASE n \notin 1 .. H
      <4>1. n = H + 1
        BY <1>4, <3>2
      <4> QED
        BY <1>4, <1>5, <1>7, <4>1
    <3> QED
      BY <3>1, <3>2
  <2> HIDE DEF i
  <2>2. i \in 1 .. N + U
    BY <1>4, <2>1
  <2>3. ASSUME NEW k \in 1 .. W + U PROVE waiting'[k] # i
    <3>1. CASE k \in 1 .. W /\ waiting'[k] = waiting[k]
      BY <2>1, <3>1
    <3>2. CASE k - W \in 1 .. U /\ waiting'[k] = N + (k - W)
      BY <1>4, <2>1, <3>2
    <3> QED
      BY <1>8, <3>1, <3>2
  <2> QED
    BY <2>2, <2>3 DEF i
<1> QED
  BY <1>6, <1>7, <1>9, <1>10, <1>11 DEF StackInv

LEMMA TakeKeepsWeights ==
  ASSUME StepsTyped, WeightInv, TakeStep
  PROVE  WeightInv'
<1>1. PICK s \in job.steps : /\ HitSDs(StepOf(s)) /\ history' = Append(history, StepOf(s))
                             /\ \E urgent : Taken(s, urgent)
  BY StepIsTaken
<1>2. PICK urgent : Taken(s, urgent)
  BY <1>1
<1>3. current4 # 0
  BY DEF TakeStep
<1> DEFINE N == Len(tracks)
           U == Len(urgent)
           Fair(t, weight) ==
             t.weight = IF t.parent = 0 THEN 1 ELSE IF weight > 1 THEN weight ELSE t.odds
<1>4. /\ N \in Nat /\ U \in Nat /\ current4 \in 1 .. N
      /\ Moved(s).weight = tracks[current4].weight /\ Moved(s).parent = tracks[current4].parent
      /\ Moved(s).odds = tracks[current4].odds
      /\ tracks \in Seq(G4Tracks) /\ urgent \in Seq(G4Tracks) /\ tracks' \in Seq(G4Tracks)
  <2>1. urgent \in Seq(G4Tracks) /\ tracks' \in Seq(G4Tracks)
    BY <1>2 DEF Taken, Classified
  <2>2. tracks \in Seq(G4Tracks)
    BY DEF StepsTyped
  <2>3. /\ current4 \in 1 .. N
        /\ Moved(s).weight = tracks[current4].weight /\ Moved(s).parent = tracks[current4].parent
        /\ Moved(s).odds = tracks[current4].odds
    BY <1>3, MovedIs
  <2> QED
    BY <2>1, <2>2, <2>3
<1>5. /\ Len(tracks') = N + U
      /\ \A i \in 1 .. N : tracks'[i] = IF i = current4 THEN Moved(s) ELSE tracks[i]
      /\ \A i \in 1 .. U : tracks'[N + i] = urgent[i]
      /\ \A k \in 1 .. U :
           /\ urgent[k].parent = current4
           /\ urgent[k].weight = IF Moved(s).weight > 1 THEN Moved(s).weight ELSE urgent[k].odds
      /\ \A k \in 1 .. Len(products') : products'[k].parent = current4 /\ products'[k].weight = Moved(s).weight
      /\ current4' = current4 \/ (current4' = 0 /\ products' = <<>>)
  BY <1>2 DEF Taken, FollowedBy, Classified, OfCurrent
<1>6. \A i \in 1 .. N : tracks[i].parent \in 0 .. N /\ Fair(tracks[i], tracks[tracks[i].parent].weight)
  BY <1>4 DEF WeightInv, WeightsAreFair
<1> HIDE DEF N, U
<1>7. \A i \in 1 .. N : /\ tracks'[i].weight = tracks[i].weight /\ tracks'[i].parent = tracks[i].parent
                        /\ tracks'[i].odds = tracks[i].odds
  BY <1>4, <1>5
<1>8. ASSUME NEW i \in 1 .. N + U
      PROVE  tracks'[i].parent \in 0 .. N + U /\ Fair(tracks'[i], tracks'[tracks'[i].parent].weight)
  <2>1. CASE i \in 1 .. N
    <3>1. /\ tracks[i].parent \in 0 .. N /\ Fair(tracks[i], tracks[tracks[i].parent].weight)
          /\ tracks'[i].weight = tracks[i].weight /\ tracks'[i].parent = tracks[i].parent
          /\ tracks'[i].odds = tracks[i].odds
      BY <1>6, <1>7, <2>1
    <3> DEFINE p == tracks[i].parent
    <3>2. p \in 0 .. N + U /\ p \in 0 .. N
      BY <1>4, <3>1
    <3> HIDE DEF p
    <3>3. p # 0 => tracks'[p].weight = tracks[p].weight
      BY <1>4, <1>7, <3>2, SMTT(30)
    <3>4. Fair(tracks'[i], tracks'[p].weight)
      BY <3>1, <3>3 DEF p
    <3> QED
      BY <3>1, <3>2, <3>4 DEF p
  <2>2. CASE i \notin 1 .. N
    <3>1. i - N \in 1 .. U /\ i = N + (i - N)
      BY <1>4, <2>2
    <3>2. tracks'[i] = urgent[i - N] /\ urgent[i - N].parent = current4
      BY <1>5, <3>1
    <3>3. tracks'[current4].weight = Moved(s).weight
      BY <1>4, <1>7
    <3>4. Fair(tracks'[i], tracks'[current4].weight)
      BY <1>3, <1>5, <3>1, <3>2, <3>3
    <3>5. current4 \in 0 .. N + U
      BY <1>4
    <3> QED
      BY <3>2, <3>4, <3>5
  <2> QED
    BY <2>1, <2>2
<1>9. ASSUME NEW k \in 1 .. Len(products')
      PROVE  /\ current4' # 0 /\ products'[k].parent = current4'
             /\ products'[k].weight = tracks'[current4'].weight
  <2>1. current4' = current4
    <3>1. products' # <<>>
      BY <1>9
    <3> QED
      BY <1>5, <3>1
  <2> QED
    BY <1>3, <1>4, <1>5, <1>7, <1>9, <2>1
<1>10. WeightsAreFair'
  <2>1. DOMAIN tracks' = 1 .. N + U
    BY <1>4, <1>5
  <2> QED
    BY <1>8, <2>1 DEF WeightsAreFair
<1> QED
  BY <1>5, <1>8, <1>9, <1>10 DEF WeightInv

LEMMA TakeKeepsLinger ==
  ASSUME RulesInv, TakeStep
  PROVE  LingerInv'
<1>1. StepsTyped /\ StackInv /\ WeightInv /\ LingerInv
  BY DEF RulesInv
<1>2. PICK s \in job.steps : /\ HitSDs(StepOf(s)) /\ history' = Append(history, StepOf(s))
                             /\ \E urgent : Taken(s, urgent)
  BY <1>1, StepIsTaken
<1>3. PICK urgent : Taken(s, urgent)
  BY <1>2
<1>4. current4 # 0 /\ job' = job
  BY DEF TakeStep
<1> DEFINE N == Len(tracks)
           U == Len(urgent)
           H == Len(history)
           step == StepOf(s)
<1>5. /\ N \in Nat /\ U \in Nat /\ H \in Nat /\ current4 \in 1 .. N /\ history \in Seq(G4StepsMade)
      /\ step.track = current4 /\ step.slice = Moved(s).time
      /\ Moved(s).parent = tracks[current4].parent /\ Moved(s).region = tracks[current4].region
      /\ tracks' \in Seq(G4Tracks) /\ tracks \in Seq(G4Tracks)
  <2>1. urgent \in Seq(G4Tracks) /\ tracks' \in Seq(G4Tracks)
    BY <1>3 DEF Taken, Classified
  <2>2. tracks \in Seq(G4Tracks) /\ history \in Seq(G4StepsMade)
    BY <1>1 DEF StepsTyped
  <2>3. /\ current4 \in 1 .. N /\ step.track = current4 /\ step.slice = Moved(s).time
        /\ Moved(s).parent = tracks[current4].parent /\ Moved(s).region = tracks[current4].region
    BY <1>1, <1>4, MovedIs
  <2> QED
    BY <2>1, <2>2, <2>3
<1>6. /\ Len(tracks') = N + U
      /\ \A i \in 1 .. N : tracks'[i] = IF i = current4 THEN Moved(s) ELSE tracks[i]
      /\ \A i \in 1 .. U : tracks'[N + i] = urgent[i] /\ urgent[i].region \notin job.deadRegions
      /\ \/ current4' = current4 /\ ~StoppedByAction(Moved(s), step)
         \/ current4' = 0
  BY <1>3 DEF Taken, FollowedBy, Classified
<1>7. /\ Len(history') = H + 1 /\ \A n \in 1 .. H : history'[n] = history[n]
      /\ history'[H + 1] = step /\ DOMAIN history' = 1 .. H + 1 /\ DOMAIN history = 1 .. H
  BY <1>2, <1>5
<1>8. /\ \A n \in 1 .. H : history[n].track = current4 => ~BeyondAt(history[n])
      /\ \A j, k \in 1 .. H : j < k /\ history[j].track = history[k].track => ~BeyondAt(history[j])
      /\ \A i \in 1 .. N : tracks[i].parent # 0 => tracks[i].region \notin job.deadRegions
      /\ \A n \in 1 .. H : history[n].track # 0
  <2>1. \A n \in 1 .. H : history[n].track # 0
    BY <1>1, <1>5 DEF StackInv
  <2>2. \A j, k \in 1 .. H : j < k /\ history[j].track = history[k].track => ~BeyondAt(history[j])
    BY <1>1, <1>7, Zenon DEF LingerInv, NoTrackLingers, BeyondAt
  <2>3. \A i \in 1 .. N : tracks[i].parent # 0 => tracks[i].region \notin job.deadRegions
    BY <1>1, <1>5 DEF LingerInv, NoTrackLingers
  <2> QED
    BY <1>1, <2>1, <2>2, <2>3 DEF LingerInv
<1>9. current4' = current4 => ~BeyondAt(step)
  BY <1>4, <1>5, <1>6 DEF BeyondAt, StoppedByAction
<1> HIDE DEF N, U, H, step
<1>10. \A n \in 1 .. H + 1 :
         /\ (n \in 1 .. H /\ history'[n] = history[n]) \/ (n = H + 1 /\ history'[n] = step)
         /\ history'[n].track # 0
  <2> TAKE n \in 1 .. H + 1
  <2>1. n \in 1 .. H \/ n = H + 1
    BY <1>5
  <2>2. step.track # 0
    BY <1>5
  <2>3. CASE n \in 1 .. H
    BY <1>7, <1>8, <2>3
  <2>4. CASE n = H + 1
    BY <1>7, <2>2, <2>4
  <2> QED
    BY <2>1, <2>3, <2>4
<1>11. ASSUME NEW n \in 1 .. H + 1, history'[n].track = current4' PROVE ~BeyondAt(history'[n])
  <2>1. current4' = current4
    BY <1>6, <1>10, <1>11
  <2> QED
    BY <1>8, <1>9, <1>10, <1>11, <2>1
<1>12. ASSUME NEW j \in 1 .. H + 1, NEW k \in 1 .. H + 1, j < k, history'[j].track = history'[k].track
       PROVE  ~BeyondAt(history'[j])
  <2>1. j \in 1 .. H /\ history'[j] = history[j]
    BY <1>5, <1>7, <1>12
  <2>2. CASE k \in 1 .. H /\ history'[k] = history[k]
    BY <1>8, <1>12, <2>1, <2>2
  <2>3. CASE k = H + 1 /\ history'[k] = step
    BY <1>5, <1>8, <1>12, <2>1, <2>3
  <2> QED
    BY <1>10, <2>2, <2>3
<1>13. ASSUME NEW i \in 1 .. N + U, tracks'[i].parent # 0 PROVE tracks'[i].region \notin job.deadRegions
  <2>1. CASE i \in 1 .. N
    BY <1>5, <1>6, <1>8, <1>13, <2>1
  <2>2. CASE i \notin 1 .. N
    <3>1. i - N \in 1 .. U /\ i = N + (i - N)
      BY <1>5, <2>2
    <3> QED
      BY <1>6, <3>1
  <2> QED
    BY <2>1, <2>2
<1>14. \A n \in 1 .. H + 1 : BeyondAt(history[n])' <=> BeyondAt(history'[n])
  BY <1>4 DEF BeyondAt, OutOfTime
<1>15. NoTrackLingers'
  <2>1. DOMAIN tracks' = 1 .. N + U /\ DOMAIN history' = 1 .. H + 1
    BY <1>5, <1>6, <1>7
  <2>2. \A j, k \in 1 .. H + 1 : j < k /\ history'[j].track = history'[k].track => ~BeyondAt(history[j])'
    BY <1>12, <1>14
  <2>3. \A i \in 1 .. N + U : tracks'[i].parent # 0 => tracks'[i].region \notin job'.deadRegions
    BY <1>4, <1>13
  <2> QED
    BY <2>1, <2>2, <2>3, Zenon DEF NoTrackLingers, BeyondAt
<1>16. \A n \in 1 .. Len(history') : history'[n].track = current4' => ~BeyondAt(history[n])'
  BY <1>7, <1>11, <1>14
<1> QED
  BY <1>15, <1>16 DEF LingerInv

LEMMA BeginKeepsRules == ASSUME StepsTyped, BeginG4Event PROVE RulesInv'
<1>1. PICK beam \in job.primaries :
        LET urgent == FlattenSeq([k \in DOMAIN beam |-> Primary(NewG4Track(beam[k], 0))])
        IN /\ tracks' = urgent
           /\ waiting' = [k \in DOMAIN urgent |-> k]
  BY DEF BeginG4Event
<1>2. current4' = 0 /\ products' = <<>> /\ history' = <<>> /\ job' = job /\ thrown' = thrown
  BY DEF BeginG4Event
<1> DEFINE pieces == [k \in DOMAIN beam |-> Primary(NewG4Track(beam[k], 0))]
           Fresh(x) == x.parent = 0 /\ x.weight = 1
<1>3. \A k \in DOMAIN beam : /\ pieces[k] \in Seq(G4Tracks)
                             /\ \A x \in Elements(pieces[k]) : Fresh(x)
  <2> TAKE k \in DOMAIN beam
  <2> DEFINE p == beam[k]
             n == NewG4Track(p, 0)
  <2>1. p \in G4Particles /\ p.ke \in Nat /\ p.time \in Nat
    <3>1. p \in Range(beam)
      BY DEF Range
    <3> QED
      BY <3>1, ParticlesAre DEF StepsTyped
  <2>2. p.pdg \in Pdgs /\ p.region \in Regions /\ p.process \in Processes
    BY <2>1 DEF Pdgs, Regions, Processes
  <2> HIDE DEF p
  <2>3. n \in G4Tracks /\ Fresh(n)
    BY <2>1, <2>2 DEF NewG4Track, G4Tracks
  <2>4. pieces[k] = <<>> \/ pieces[k] = <<n>>
    BY DEF Primary, p
  <2> HIDE DEF n, Fresh, pieces
  <2>5. CASE pieces[k] = <<>>
    BY <2>5 DEF Elements
  <2>6. CASE pieces[k] = <<n>>
    <3>1. <<n>> \in Seq(G4Tracks) /\ Elements(<<n>>) = {n}
      BY <2>3 DEF Elements
    <3> QED
      BY <2>3, <2>6, <3>1
  <2> QED
    BY <2>4, <2>5, <2>6
<1>4. pieces \in Seq(Seq(G4Tracks)) /\ DOMAIN beam = 1 .. Len(pieces)
  <2>1. beam \in Seq(Range(beam))
    BY ParticlesAre DEF StepsTyped
  <2>2. DOMAIN beam = 1 .. Len(beam) /\ Len(beam) \in Nat
    BY <2>1
  <2> QED
    BY <1>3, <2>2
<1>5. tracks' = FlattenSeq(pieces) /\ waiting' = [k \in DOMAIN tracks' |-> k]
  BY <1>1
<1> HIDE DEF pieces, Fresh
<1>6. tracks' \in Seq(G4Tracks) /\ \A x \in Elements(tracks') : Fresh(x)
  <2>1. /\ FlattenSeq(pieces) \in Seq(G4Tracks)
        /\ \A x \in Elements(FlattenSeq(pieces)) : \E k \in 1 .. Len(pieces) : x \in Elements(pieces[k])
    BY <1>4, Flattened
  <2> QED
    BY <1>3, <1>4, <1>5, <2>1
<1> DEFINE N == Len(tracks')
<1>7. N \in Nat /\ DOMAIN tracks' = 1 .. N /\ \A i \in 1 .. N : Fresh(tracks'[i])
  BY <1>6 DEF Elements
<1>8. waiting' \in Seq(1 .. N) /\ Len(waiting') = N /\ \A k \in 1 .. N : waiting'[k] = k
  <2> HIDE DEF N
  <2> QED
    BY <1>5, <1>7
<1>9. StepsTyped'
  BY <1>2, <1>6, <1>7, <1>8 DEF StepsTyped
<1>10. StackInv'
  BY <1>2, <1>7, <1>8, SMTT(30) DEF StackInv
<1>11. WeightInv'
  BY <1>2, <1>7 DEF WeightInv, WeightsAreFair, Fresh
<1>12. LingerInv'
  BY <1>2, <1>7 DEF LingerInv, NoTrackLingers, Fresh
<1> QED
  BY <1>9, <1>10, <1>11, <1>12 DEF RulesInv

LEMMA StartKeepsRules == ASSUME RulesInv, StartTrack PROVE RulesInv'
<1>1. /\ current4 = 0 /\ waiting # <<>>
      /\ current4' = Last(waiting) /\ waiting' = Front(waiting)
      /\ job' = job /\ tracks' = tracks /\ products' = products /\ history' = history /\ thrown' = thrown
  BY DEF StartTrack
<1>2. StepsTyped /\ StackInv /\ WeightInv /\ LingerInv
  BY DEF RulesInv
<1> DEFINE N == Len(tracks)
           W == Len(waiting)
<1>3. N \in Nat /\ waiting \in Seq(1 .. N) /\ W \in Nat \ {0}
  <2>1. tracks \in Seq(G4Tracks) /\ waiting \in Seq(1 .. Len(tracks))
    BY <1>2 DEF StepsTyped
  <2> HIDE DEF N
  <2> QED
    BY <1>1, <2>1 DEF N
<1> HIDE DEF N
<1>4. /\ waiting' \in Seq(1 .. N) /\ Len(waiting') = W - 1 /\ \A k \in 1 .. W - 1 : waiting'[k] = waiting[k]
      /\ current4' = waiting[W] /\ current4' \in 1 .. N
  <2>1. waiting' = SubSeq(waiting, 1, W - 1) /\ current4' = waiting[W]
    BY <1>1 DEF Front, Last
  <2>2. W - 1 \in 0 .. W
    BY <1>3
  <2>3. /\ SubSeq(waiting, 1, W - 1) \in Seq(1 .. N) /\ Len(SubSeq(waiting, 1, W - 1)) = W - 1
        /\ \A i \in 1 .. W - 1 : SubSeq(waiting, 1, W - 1)[i] = waiting[i]
    <3> DEFINE last == W - 1
    <3>1. last \in 0 .. Len(waiting)
      BY <2>2
    <3> HIDE DEF last
    <3>2. /\ SubSeq(waiting, 1, last) \in Seq(1 .. N) /\ Len(SubSeq(waiting, 1, last)) = last
          /\ \A i \in 1 .. last : SubSeq(waiting, 1, last)[i] = waiting[i]
      BY <1>3, <3>1, Pieces
    <3> QED
      BY <3>2 DEF last
  <2> QED
    BY <1>3, <2>1, <2>3
<1>5. StepsTyped'
  <2>1. current4' \in 0 .. Len(tracks') /\ waiting' \in Seq(1 .. Len(tracks'))
    BY <1>1, <1>3, <1>4 DEF N
  <2> QED
    BY <1>1, <1>2, <2>1 DEF StepsTyped
<1>6. StackInv'
  <2>1. /\ \A k, l \in 1 .. W : waiting[k] = waiting[l] => k = l
        /\ \A n \in 1 .. Len(history) :
             history[n].track \in 1 .. Len(tracks) /\ \A k \in 1 .. W : waiting[k] # history[n].track
    BY <1>2 DEF StackInv
  <2>2. \A k \in 1 .. W - 1 : k \in 1 .. W /\ k # W
    BY <1>3
  <2>3. W \in 1 .. W
    BY <1>3
  <2> QED
    BY <1>1, <1>4, <2>1, <2>2, <2>3 DEF StackInv
<1>7. WeightInv'
  <2>1. products = <<>>
    <3>1. Len(products) \in Nat /\ products \in Seq(G4Tracks)
      BY <1>2 DEF StepsTyped
    <3>2. \A k \in 1 .. Len(products) : FALSE
      BY <1>1, <1>2 DEF WeightInv
    <3> QED
      BY <3>1, <3>2
  <2>2. WeightsAreFair'
    BY <1>1, <1>2 DEF WeightInv, WeightsAreFair
  <2> QED
    BY <1>1, <1>2, <2>1, <2>2 DEF WeightInv
<1>8. LingerInv'
  <2>1. \A n \in 1 .. Len(history) : history[n].track # current4'
    <3>1. W \in 1 .. W
      BY <1>3
    <3> QED
      BY <1>2, <1>4, <3>1 DEF StackInv
  <2>2. NoTrackLingers'
    BY <1>1, <1>2 DEF LingerInv, NoTrackLingers, OutOfTime
  <2> QED
    BY <1>1, <2>1, <2>2 DEF LingerInv
<1> QED
  BY <1>5, <1>6, <1>7, <1>8 DEF RulesInv

\* The end of an event, an exception and the absence of a step leave the tracks.
LEMMA RulesStay ==
  ASSUME RulesInv, thrown' \in BOOLEAN,
         UNCHANGED <<job, tracks, waiting, current4, products, history>>
  PROVE  RulesInv'
<1>1. /\ job' = job /\ tracks' = tracks /\ waiting' = waiting /\ current4' = current4
      /\ products' = products /\ history' = history
  OBVIOUS
<1>2. StepsTyped' /\ StackInv'
  BY <1>1 DEF RulesInv, StepsTyped, StackInv
<1>3. WeightInv'
  BY <1>1 DEF RulesInv, WeightInv, WeightsAreFair
<1>4. LingerInv'
  BY <1>1 DEF RulesInv, LingerInv, NoTrackLingers, BeyondAt, OutOfTime
<1> QED
  BY <1>2, <1>3, <1>4 DEF RulesInv

\* The types of the event loop and of its tracks, what waits on the stack, the
\* weights of tracks and products, and where the current track has been: the
\* strengthening of TracksLiveByTheRules that every step keeps, for any job.
THEOREM RulesInvariant == StepsInit /\ [][StepsNext]_stepVars => []RulesInv
<1>1. StepsInit => RulesInv
  <2> SUFFICES ASSUME StepsInit PROVE RulesInv
    OBVIOUS
  <2>1. /\ job \in Jobs /\ tracks = <<>> /\ waiting = <<>> /\ current4 = 0 /\ products = <<>>
        /\ history = <<>> /\ thrown = FALSE
    BY DEF StepsInit
  <2>2. StepsTyped
    <3>1. thrown \in BOOLEAN
      BY <2>1, Zenon
    <3>2. /\ tracks \in Seq(G4Tracks) /\ products \in Seq(G4Tracks) /\ history \in Seq(G4StepsMade)
          /\ waiting \in Seq(1 .. Len(tracks)) /\ current4 \in 0 .. Len(tracks)
      BY <2>1
    <3> QED
      BY <2>1, <3>1, <3>2, Zenon DEF StepsTyped
  <2>3. StackInv /\ WeightInv
    BY <2>1 DEF StackInv, WeightInv, WeightsAreFair
  <2>4. LingerInv
    BY <2>1 DEF LingerInv, NoTrackLingers
  <2> QED
    BY <2>2, <2>3, <2>4 DEF RulesInv
<1>2. RulesInv /\ [StepsNext]_stepVars => RulesInv'
  <2> SUFFICES ASSUME RulesInv, [StepsNext]_stepVars PROVE RulesInv'
    OBVIOUS
  <2>1. StepsTyped /\ StackInv /\ WeightInv /\ thrown \in BOOLEAN
    BY DEF RulesInv, StepsTyped
  <2>2. CASE BeginG4Event
    BY <2>1, <2>2, BeginKeepsRules
  <2>3. CASE StartTrack
    BY <2>3, StartKeepsRules
  <2>4. CASE TakeStep
    BY <2>1, <2>4, TakeKeepsTypes, TakeKeepsStack, TakeKeepsWeights, TakeKeepsLinger DEF RulesInv
  <2>5. CASE EndG4Event
    BY <2>1, <2>5, RulesStay DEF EndG4Event
  <2>6. CASE G4EventThrows
    BY <2>1, <2>6, RulesStay DEF G4EventThrows
  <2>7. CASE UNCHANGED stepVars
    BY <2>1, <2>7, RulesStay DEF stepVars
  <2> QED
    BY <2>2, <2>3, <2>4, <2>5, <2>6, <2>7 DEF StepsNext
<1> QED
  BY <1>1, <1>2, PTL

\* TracksLiveByTheRules holds in every job of Geant4's event loop: the roulette is
\* won at most once along a line of descent and the weight is its inverse
\* probability, no track goes on where or when it must end, and nothing starts
\* in a dead region.
THEOREM TracksFollowTheRules == StepsInit /\ [][StepsNext]_stepVars => []TracksLiveByTheRules
<1>1. RulesInv => TracksLiveByTheRules
  BY DEF RulesInv, WeightInv, LingerInv, TracksLiveByTheRules
<1> QED
  BY <1>1, RulesInvariant, PTL

-----------------------------------------------------------------------------
(* Hits of the pixel planes.                                                 *)

\* The bits of the identifier of a plane are read back.
LEMMA PlaneIsNamed ==
  ASSUME NEW arm \in 0 .. 1, NEW station \in 0 .. 2, NEW rp \in 0 .. 6, NEW plane \in 0 .. 5
  PROVE  /\ PixelId(arm, station, rp, plane) \in Int
         /\ PlaneNamed(PixelId(arm, station, rp, plane)) = <<arm, station, rp, plane>>
<1> DEFINE id == PixelId(arm, station, rp, plane)
<1>1. /\ id \in Int /\ ArmOf(id) = arm /\ StationOf(id) = station /\ RPOf(id) = rp /\ SubdetId(id) = 4
      /\ (id \div 2 ^ 16) % 8 = plane
  BY DEF PixelId, PotId, VeryForward, sdTrackingPixel, PixelLayout, ArmOf, StationOf, RPOf, SubdetId
<1>2. Layout[4] = PixelLayout
  BY DEF Layout, sdTrackingStrip, sdTrackingPixel, sdTimingDiamond
<1>3. PixelLayout.plane = 2 ^ 16 /\ PixelLayout.planes = 8
  BY DEF PixelLayout
<1> HIDE DEF id
<1>4. PlaneOf(id) = plane
  BY <1>1, <1>2, <1>3 DEF PlaneOf
<1> QED
  BY <1>1, <1>4 DEF PlaneNamed, id

CopyReads(c, arm, station, rp) ==
  /\ PotOfCopy(c) = [arm |-> arm, station |-> station, rp |-> rp]
  /\ c \div 100 = arm /\ (c \div 10) % 10 = station /\ c % 10 = rp

LEMMA CopyNumbers ==
  ASSUME NEW arm \in 0 .. 1, NEW station \in 0 .. 2, NEW rp \in 0 .. 6
  PROVE  CopyReads(100 * arm + 10 * station + rp, arm, station, rp)
<1> DEFINE c == 100 * arm + 10 * station + rp
<1>1. c \div 100 = arm /\ (c \div 10) % 10 = station /\ c % 10 = rp /\ (c \div 100) % 10 = arm
  OBVIOUS
<1> HIDE DEF c
<1>2. CopyReads(c, arm, station, rp)
  BY <1>1 DEF PotOfCopy, CopyReads
<1> QED
  BY <1>2 DEF c

IsTheOne(k, touch, name) ==
  /\ Has(touch, {name}) /\ CopyNo(touch, {name}) = touch[k].copyNo
  /\ (CHOOSE i \in DOMAIN touch : touch[i].name = name) = k

LEMMA OneNamed ==
  ASSUME NEW touch, touch \in Seq(Range(touch)), NEW name, NEW k \in DOMAIN touch, Named(touch, {name}) = {k}
  PROVE  IsTheOne(k, touch, name)
<1>1. k \in Nat
  <2>1. DOMAIN touch = 1 .. Len(touch) /\ Len(touch) \in Nat
    OBVIOUS
  <2> QED
    BY <2>1
<1>2. Max({k}) = k
  <2>1. \E m \in {k} : \A y \in {k} : m >= y
    BY <1>1
  <2>2. Max({k}) \in {k}
    BY <2>1, Zenon DEF Max
  <2> QED
    BY <2>2
<1>3. \A i \in DOMAIN touch : touch[i].name = name <=> i = k
  BY DEF Named
<1>4. Has(touch, {name}) /\ CopyNo(touch, {name}) = touch[k].copyNo
  BY <1>2 DEF Has, CopyNo
<1>5. (CHOOSE i \in DOMAIN touch : touch[i].name = name) = k
  BY <1>3
<1> QED
  BY <1>4, <1>5, Zenon DEF IsTheOne

\* A step in a plane gives its identifier, whatever the step before.
LEMMA PlaceIsPlane ==
  ASSUME NEW touch, touch \in Seq(Range(touch)), InPlane(touch), NEW org
  PROVE  /\ PixelUnit(PixelPlace(org, touch)) \in Int
         /\ PlaneNamed(PixelUnit(PixelPlace(org, touch))) = PlaneAround(touch)
<1>1. PICK pot \in DOMAIN touch, envelope \in DOMAIN touch :
        /\ Named(touch, {"RP_box_primary_vacuum"}) = {pot} /\ Named(touch, {"Envelop"}) = {envelope}
        /\ \E arm \in 0 .. 1, station \in 0 .. 2, rp \in 0 .. 6 :
             touch[pot].copyNo = 100 * arm + 10 * station + rp
        /\ touch[envelope].copyNo \in 1 .. 6
  BY DEF InPlane
<1>2. PICK arm \in 0 .. 1, station \in 0 .. 2, rp \in 0 .. 6 :
        touch[pot].copyNo = 100 * arm + 10 * station + rp
  BY <1>1
<1> DEFINE c == touch[pot].copyNo
           p == touch[envelope].copyNo - 1
<1>3. p \in 0 .. 5
  BY <1>1
<1>4. IsTheOne(pot, touch, "RP_box_primary_vacuum") /\ IsTheOne(envelope, touch, "Envelop")
  BY <1>1, OneNamed, Zenon
<1>5. /\ Has(touch, {"RP_box_primary_vacuum"}) /\ CopyNo(touch, {"RP_box_primary_vacuum"}) = c
      /\ (CHOOSE i \in DOMAIN touch : touch[i].name = "RP_box_primary_vacuum") = pot
      /\ Has(touch, {"Envelop"}) /\ CopyNo(touch, {"Envelop"}) = touch[envelope].copyNo
      /\ (CHOOSE i \in DOMAIN touch : touch[i].name = "Envelop") = envelope
  BY <1>4, Zenon DEF IsTheOne
<1>6. PlaneAround(touch) = <<c \div 100, (c \div 10) % 10, c % 10, p>>
  BY <1>5, Zenon DEF PlaneAround
<1>7. CopyReads(c, arm, station, rp)
  <2>1. c = 100 * arm + 10 * station + rp
    BY <1>2
  <2> HIDE DEF c
  <2> QED
    BY <2>1, CopyNumbers, Zenon
<1>8. PixelPlace(org, touch) = [arm |-> PotOfCopy(c).arm, station |-> PotOfCopy(c).station,
                                rp |-> PotOfCopy(c).rp, plane |-> p]
  BY <1>5, Zenon DEF PixelPlace
<1> HIDE DEF c, p
<1>9. PixelUnit(PixelPlace(org, touch)) = PixelId(arm, station, rp, p)
  BY <1>7, <1>8 DEF PixelUnit, CopyReads
<1>10. /\ PixelId(arm, station, rp, p) \in Int
       /\ PlaneNamed(PixelId(arm, station, rp, p)) = <<arm, station, rp, p>>
  BY <1>3, PlaneIsNamed
<1> QED
  BY <1>6, <1>7, <1>9, <1>10 DEF CopyReads

PixelHits == [track : Nat, slice : Nat, unit : Int, energyLoss : Nat]

IsPixelSD(sd) ==
  /\ {"hits", "currentHit", "tsID", "primID", "previousUnitID", "slave", "org"} \subseteq DOMAIN sd
  /\ sd.hits \in Seq(PixelHits)

\* The hits of some steps.
PixelGood(sd, h) ==
  /\ \A k \in 1 .. Len(h) : h[k].readout = "CTPPSPixelHits" /\ h[k].edeposit > 0 =>
       \E i \in 1 .. Len(sd.hits) : /\ PlaneNamed(sd.hits[i].unit) = PlaneAround(h[k].touch)
                                    /\ sd.hits[i].slice = h[k].slice
  /\ \A i \in 1 .. Len(sd.hits) : \E k \in 1 .. Len(h) :
       /\ h[k].readout = "CTPPSPixelHits" /\ PlaneNamed(sd.hits[i].unit) = PlaneAround(h[k].touch)
       /\ sd.hits[i].slice = h[k].slice /\ sd.hits[i].energyLoss = h[k].edeposit
  /\ \A i, j \in 1 .. Len(sd.hits) :
       /\ sd.hits[i].track = sd.hits[j].track /\ sd.hits[i].slice = sd.hits[j].slice
       /\ sd.hits[i].unit = sd.hits[j].unit
       => i = j
  /\ sd.tsID = -2 \/ ( /\ sd.currentHit \in 1 .. Len(sd.hits)
                       /\ sd.hits[sd.currentHit].slice = sd.tsID
                       /\ sd.hits[sd.currentHit].unit = sd.previousUnitID )

\* What a step does to the hits: it adds one, changes the energy of one, or none.
LastIs(new, i, step, unit) ==
  IsPixelSD(new) /\ new.currentHit = i /\ new.tsID = step.slice /\ new.previousUnitID = unit

AddsHit(sd, new, step, unit) ==
  /\ LastIs(new, Len(sd.hits) + 1, step, unit)
  /\ new.hits = Append(sd.hits, [track |-> step.track, slice |-> step.slice, unit |-> unit,
                                 energyLoss |-> step.edeposit])
  /\ Matching(sd, step, unit) = {}

ChangesHit(sd, new, step, unit) ==
  \E i \in 1 .. Len(sd.hits) :
    /\ LastIs(new, i, step, unit) /\ sd.hits[i].slice = step.slice /\ sd.hits[i].unit = unit
    /\ new.hits = IF step.edeposit > 0 THEN [sd.hits EXCEPT ![i].energyLoss = step.edeposit] ELSE sd.hits

LEMMA UpdateHitIs ==
  ASSUME NEW sd, IsPixelSD(sd), NEW i \in 1 .. Len(sd.hits), NEW step \in G4StepsMade, NEW unit
  PROVE  /\ LastIs(UpdateHit(sd, i, step, unit), i, step, unit)
         /\ UpdateHit(sd, i, step, unit).hits =
              IF step.edeposit > 0 THEN [sd.hits EXCEPT ![i].energyLoss = step.edeposit] ELSE sd.hits
<1> DEFINE new == UpdateHit(sd, i, step, unit)
           hits == IF step.edeposit > 0 THEN [sd.hits EXCEPT ![i].energyLoss = step.edeposit] ELSE sd.hits
<1>1. hits \in Seq(PixelHits)
  <2>1. sd.hits \in Seq(PixelHits) /\ step.edeposit \in Nat
    BY DEF IsPixelSD, G4StepsMade
  <2> DEFINE s == sd.hits
             e == step.edeposit
             x == [s[i] EXCEPT !.energyLoss = e]
  <2>2. s[i] \in PixelHits /\ e \in Nat /\ s \in Seq(PixelHits) /\ i \in 1 .. Len(s)
    BY <2>1
  <2> HIDE DEF s, e
  <2>3. x \in PixelHits
    BY <2>2 DEF PixelHits
  <2>4. [s EXCEPT ![i] = x] \in Seq(PixelHits)
    <3> HIDE DEF x
    <3> QED
      BY <2>2, <2>3
  <2> QED
    BY <2>2, <2>4 DEF s, e
<1>2. new = [sd EXCEPT !.currentHit = i, !.hits = hits, !.tsID = step.slice, !.primID = step.track,
                       !.previousUnitID = unit]
  BY DEF UpdateHit
<1> HIDE DEF new, hits
<1>3. /\ new.currentHit = i /\ new.hits = hits /\ new.tsID = step.slice /\ new.previousUnitID = unit
      /\ DOMAIN new = DOMAIN sd
  BY <1>2 DEF IsPixelSD
<1>4. LastIs(new, i, step, unit)
  BY <1>1, <1>3 DEF LastIs, IsPixelSD
<1> QED
  BY <1>3, <1>4 DEF new, hits

LEMMA RecordedIs ==
  ASSUME NEW sd, IsPixelSD(sd), NEW h, PixelGood(sd, h), NEW step \in G4StepsMade, NEW unit \in Int
  PROVE  \/ Recorded(sd, step, unit) = sd /\ ~(step.edeposit > 0)
         \/ AddsHit(sd, Recorded(sd, step, unit), step, unit)
         \/ ChangesHit(sd, Recorded(sd, step, unit), step, unit)
<1> DEFINE L == Len(sd.hits)
           S == Matching(sd, step, unit)
<1>1. sd.hits \in Seq(PixelHits) /\ L \in Nat /\ DOMAIN sd.hits = 1 .. L
  BY DEF IsPixelSD
<1>2. CASE SameAsLast(sd, step, unit)
  <2>1. step.slice = sd.tsID /\ unit = sd.previousUnitID /\ step.slice # -2
    BY <1>2 DEF SameAsLast, G4StepsMade
  <2>2. /\ sd.currentHit \in 1 .. L
        /\ sd.hits[sd.currentHit].slice = step.slice /\ sd.hits[sd.currentHit].unit = unit
    BY <2>1 DEF PixelGood
  <2>3. Recorded(sd, step, unit) = UpdateHit(sd, sd.currentHit, step, unit)
    BY <1>2 DEF Recorded
  <2>4. ChangesHit(sd, Recorded(sd, step, unit), step, unit)
    <3> DEFINE i == sd.currentHit
    <3>1. i \in 1 .. Len(sd.hits) /\ sd.hits[i].slice = step.slice /\ sd.hits[i].unit = unit
      BY <2>2
    <3> HIDE DEF i
    <3>2. Recorded(sd, step, unit) = UpdateHit(sd, i, step, unit)
      BY <2>3 DEF i
    <3>3. /\ LastIs(UpdateHit(sd, i, step, unit), i, step, unit)
          /\ UpdateHit(sd, i, step, unit).hits =
               IF step.edeposit > 0 THEN [sd.hits EXCEPT ![i].energyLoss = step.edeposit] ELSE sd.hits
      BY <3>1, UpdateHitIs
    <3> QED
      BY <3>1, <3>2, <3>3, Zenon DEF ChangesHit
  <2> QED
    BY <2>4
<1>3. CASE ~SameAsLast(sd, step, unit) /\ S # {}
  <2> DEFINE i == Min(S)
  <2>1. i \in S
    <3>1. S \subseteq Nat
      BY <1>1 DEF Matching
    <3> HIDE DEF S
    <3> QED
      BY <1>3, <3>1, LeastIsMin
  <2>2. i \in 1 .. Len(sd.hits) /\ sd.hits[i].slice = step.slice /\ sd.hits[i].unit = unit
    BY <1>1, <2>1 DEF Matching
  <2>3. Recorded(sd, step, unit) = UpdateHit(sd, i, step, unit)
    BY <1>3, Zenon DEF Recorded
  <2> HIDE DEF i
  <2>4. /\ LastIs(UpdateHit(sd, i, step, unit), i, step, unit)
        /\ UpdateHit(sd, i, step, unit).hits =
             IF step.edeposit > 0 THEN [sd.hits EXCEPT ![i].energyLoss = step.edeposit] ELSE sd.hits
    BY <2>2, UpdateHitIs
  <2>5. ChangesHit(sd, Recorded(sd, step, unit), step, unit)
    BY <2>2, <2>3, <2>4, Zenon DEF ChangesHit
  <2> QED
    BY <2>5
<1>4. CASE ~SameAsLast(sd, step, unit) /\ S = {} /\ step.edeposit > 0
  <2> DEFINE x == [track |-> step.track, slice |-> step.slice, unit |-> unit, energyLoss |-> step.edeposit]
             grown == NewHit(sd, step, unit)
             i == L + 1
             all == Append(sd.hits, x)
  <2>1. x \in PixelHits /\ x.energyLoss = step.edeposit
    BY DEF PixelHits, G4StepsMade
  <2>2. Recorded(sd, step, unit) = UpdateHit(grown, i, step, unit)
    BY <1>4, Zenon DEF Recorded
  <2>3. grown = [sd EXCEPT !.hits = all]
    BY DEF NewHit
  <2> HIDE DEF x
  <2>4. all \in Seq(PixelHits) /\ Len(all) = L + 1 /\ all[L + 1] = x
    BY <1>1, <2>1
  <2> HIDE DEF grown, all
  <2>5. IsPixelSD(grown) /\ grown.hits = all
    BY <2>3, <2>4 DEF IsPixelSD
  <2>6. i \in 1 .. Len(grown.hits)
    BY <1>1, <2>4, <2>5
  <2> HIDE DEF i, L
  <2>7. /\ LastIs(UpdateHit(grown, i, step, unit), i, step, unit)
        /\ UpdateHit(grown, i, step, unit).hits =
             IF step.edeposit > 0 THEN [grown.hits EXCEPT ![i].energyLoss = step.edeposit] ELSE grown.hits
    BY <2>5, <2>6, UpdateHitIs
  <2>8. [all EXCEPT ![i].energyLoss = step.edeposit] = all
    <3> DEFINE e == step.edeposit
               y == [all[i] EXCEPT !.energyLoss = e]
    <3>1. all[i] = x /\ x.energyLoss = e /\ x \in PixelHits /\ i \in 1 .. Len(all)
      BY <2>1, <2>4, <2>5, <2>6 DEF i
    <3> HIDE DEF e
    <3>2. y = x
      BY <3>1 DEF PixelHits
    <3>3. [all EXCEPT ![i] = y] = all
      <4> HIDE DEF y
      <4> QED
        BY <2>4, <3>1, <3>2
    <3> QED
      BY <3>3 DEF e
  <2>9. UpdateHit(grown, i, step, unit).hits = all
    BY <1>4, <2>5, <2>7, <2>8, Zenon
  <2>10. AddsHit(sd, Recorded(sd, step, unit), step, unit)
    BY <1>4, <2>2, <2>7, <2>9, Zenon DEF AddsHit, i, all, x, S, L
  <2> QED
    BY <2>10
<1>5. CASE ~SameAsLast(sd, step, unit) /\ S = {} /\ ~(step.edeposit > 0)
  BY <1>5, Zenon DEF Recorded
<1> QED
  BY <1>2, <1>3, <1>4, <1>5

LEMMA LongerHistory ==
  ASSUME NEW h \in Seq(G4StepsMade), NEW step
  PROVE  /\ Len(Append(h, step)) = Len(h) + 1 /\ Len(h) \in Nat
         /\ \A k \in 1 .. Len(h) : k \in 1 .. Len(h) + 1 /\ Append(h, step)[k] = h[k]
         /\ Len(h) + 1 \in 1 .. Len(h) + 1 /\ Append(h, step)[Len(h) + 1] = step
         /\ \A k \in 1 .. Len(h) + 1 : k \in 1 .. Len(h) \/ k = Len(h) + 1
OBVIOUS

\* Hits that are as before but for the energy of one, or one more of them.
LEMMA HitsAreOfTheStep ==
  ASSUME NEW sd, IsPixelSD(sd), NEW h \in Seq(G4StepsMade), PixelGood(sd, h), NEW step \in G4StepsMade,
         step.readout = "CTPPSPixelHits", NEW unit \in Int, PlaneNamed(unit) = PlaneAround(step.touch),
         NEW new, AddsHit(sd, new, step, unit) \/ ChangesHit(sd, new, step, unit)
  PROVE  IsPixelSD(new) /\ PixelGood(new, Append(h, step))
<1> DEFINE L == Len(sd.hits)
           M == Len(new.hits)
           H == Len(h)
           g == Append(h, step)
<1>1. /\ Len(g) = H + 1 /\ H \in Nat
      /\ \A k \in 1 .. H : k \in 1 .. H + 1 /\ g[k] = h[k]
      /\ H + 1 \in 1 .. H + 1 /\ g[H + 1] = step
      /\ \A k \in 1 .. H + 1 : k \in 1 .. H \/ k = H + 1
  BY LongerHistory
<1>2. sd.hits \in Seq(PixelHits) /\ L \in Nat
  BY DEF IsPixelSD
<1>3. \E i \in 1 .. M :
        /\ LastIs(new, i, step, unit)
        /\ new.hits[i].slice = step.slice /\ new.hits[i].unit = unit
        /\ L <= M
        /\ \A j \in 1 .. L : /\ new.hits[j].track = sd.hits[j].track /\ new.hits[j].slice = sd.hits[j].slice
                             /\ new.hits[j].unit = sd.hits[j].unit
        /\ \A j \in 1 .. M : \/ j \in 1 .. L /\ new.hits[j].energyLoss = sd.hits[j].energyLoss
                             \/ j = i /\ new.hits[j].energyLoss = step.edeposit
        /\ \A j \in 1 .. M : j \in 1 .. L \/ ( /\ j = L + 1 /\ new.hits[j].track = step.track
                                               /\ new.hits[j].slice = step.slice /\ new.hits[j].unit = unit
                                               /\ Matching(sd, step, unit) = {} )
  <2>1. CASE AddsHit(sd, new, step, unit)
    <3> DEFINE x == [track |-> step.track, slice |-> step.slice, unit |-> unit, energyLoss |-> step.edeposit]
               i == L + 1
    <3>1. /\ LastIs(new, i, step, unit) /\ new.hits = Append(sd.hits, x) /\ Matching(sd, step, unit) = {}
      BY <2>1 DEF AddsHit
    <3>2. x.track = step.track /\ x.slice = step.slice /\ x.unit = unit /\ x.energyLoss = step.edeposit
      OBVIOUS
    <3> HIDE DEF x, L
    <3>3. M = L + 1 /\ (\A j \in 1 .. L : new.hits[j] = sd.hits[j]) /\ new.hits[L + 1] = x
      BY <1>2, <3>1 DEF L
    <3>4. \A j \in 1 .. M : j \in 1 .. L \/ j = L + 1
      BY <1>2, <3>3
    <3>5. i \in 1 .. M /\ L <= M
      BY <1>2, <3>3
    <3> QED
      BY <3>1, <3>2, <3>3, <3>4, <3>5
  <2>2. CASE ChangesHit(sd, new, step, unit)
    <3>1. PICK i \in 1 .. L :
            /\ LastIs(new, i, step, unit) /\ sd.hits[i].slice = step.slice /\ sd.hits[i].unit = unit
            /\ new.hits = IF step.edeposit > 0 THEN [sd.hits EXCEPT ![i].energyLoss = step.edeposit] ELSE sd.hits
      BY <2>2 DEF ChangesHit
    <3>2. CASE step.edeposit > 0
      <4> DEFINE s == sd.hits
                 e == step.edeposit
                 x == [s[i] EXCEPT !.energyLoss = e]
      <4>1. s \in Seq(PixelHits) /\ i \in 1 .. Len(s) /\ s[i] \in PixelHits /\ L = Len(s)
        BY <1>2
      <4>2. new.hits = [s EXCEPT ![i] = x]
        BY <3>1, <3>2
      <4> HIDE DEF s, e
      <4>3. x.track = s[i].track /\ x.slice = s[i].slice /\ x.unit = s[i].unit /\ x.energyLoss = e
        BY <4>1 DEF PixelHits
      <4> HIDE DEF x, L
      <4>4. M = L /\ \A j \in 1 .. L : new.hits[j] = IF j = i THEN x ELSE s[j]
        BY <4>1, <4>2
      <4>5. L <= M
        BY <1>2, <4>4
      <4> QED
        BY <3>1, <4>1, <4>3, <4>4, <4>5 DEF s, e
    <3>3. CASE ~(step.edeposit > 0)
      <4>1. new.hits = sd.hits
        BY <3>1, <3>3
      <4>2. M = L /\ L <= M
        BY <1>2, <4>1
      <4> HIDE DEF L, M
      <4> QED
        BY <3>1, <4>1, <4>2
    <3> QED
      BY <3>2, <3>3
  <2> QED
    BY <2>1, <2>2
<1>4. PICK i \in 1 .. M :
        /\ LastIs(new, i, step, unit)
        /\ new.hits[i].slice = step.slice /\ new.hits[i].unit = unit
        /\ L <= M
        /\ \A j \in 1 .. L : /\ new.hits[j].track = sd.hits[j].track /\ new.hits[j].slice = sd.hits[j].slice
                             /\ new.hits[j].unit = sd.hits[j].unit
        /\ \A j \in 1 .. M : \/ j \in 1 .. L /\ new.hits[j].energyLoss = sd.hits[j].energyLoss
                             \/ j = i /\ new.hits[j].energyLoss = step.edeposit
        /\ \A j \in 1 .. M : j \in 1 .. L \/ ( /\ j = L + 1 /\ new.hits[j].track = step.track
                                               /\ new.hits[j].slice = step.slice /\ new.hits[j].unit = unit
                                               /\ Matching(sd, step, unit) = {} )
  BY <1>3
<1>5. IsPixelSD(new) /\ new.currentHit = i /\ new.tsID = step.slice /\ new.previousUnitID = unit
  BY <1>4 DEF LastIs
<1>6. M \in Nat
  BY <1>5 DEF IsPixelSD
<1>7. /\ \A k \in 1 .. H : h[k].readout = "CTPPSPixelHits" /\ h[k].edeposit > 0 =>
           \E j \in 1 .. L : /\ PlaneNamed(sd.hits[j].unit) = PlaneAround(h[k].touch)
                             /\ sd.hits[j].slice = h[k].slice
      /\ \A j \in 1 .. L : \E k \in 1 .. H :
           /\ h[k].readout = "CTPPSPixelHits" /\ PlaneNamed(sd.hits[j].unit) = PlaneAround(h[k].touch)
           /\ sd.hits[j].slice = h[k].slice /\ sd.hits[j].energyLoss = h[k].edeposit
      /\ \A m, j \in 1 .. L :
           /\ sd.hits[m].track = sd.hits[j].track /\ sd.hits[m].slice = sd.hits[j].slice
           /\ sd.hits[m].unit = sd.hits[j].unit
           => m = j
  BY DEF PixelGood
<1>8. Matching(sd, step, unit) = {} =>
        \A j \in 1 .. L : ~ ( /\ sd.hits[j].track = step.track /\ sd.hits[j].slice = step.slice
                              /\ sd.hits[j].unit = unit )
  <2>1. DOMAIN sd.hits = 1 .. L
    BY <1>2
  <2> QED
    BY <2>1 DEF Matching
<1> HIDE DEF L, M, H, g
<1>9. \A j \in 1 .. L : j \in 1 .. M
  BY <1>2, <1>4, <1>6
<1>10. ASSUME NEW k \in 1 .. H + 1, g[k].readout = "CTPPSPixelHits", g[k].edeposit > 0
       PROVE  \E j \in 1 .. M : /\ PlaneNamed(new.hits[j].unit) = PlaneAround(g[k].touch)
                                /\ new.hits[j].slice = g[k].slice
  <2>1. CASE k \in 1 .. H
    <3>1. g[k] = h[k]
      BY <1>1, <2>1
    <3>2. PICK j \in 1 .. L : /\ PlaneNamed(sd.hits[j].unit) = PlaneAround(h[k].touch)
                              /\ sd.hits[j].slice = h[k].slice
      BY <1>7, <1>10, <2>1, <3>1
    <3> QED
      BY <1>4, <1>9, <3>1, <3>2
  <2>2. CASE k = H + 1
    BY <1>1, <1>4, <2>2
  <2> QED
    BY <1>1, <2>1, <2>2
<1>11. ASSUME NEW j \in 1 .. M
       PROVE  \E k \in 1 .. H + 1 :
                /\ g[k].readout = "CTPPSPixelHits" /\ PlaneNamed(new.hits[j].unit) = PlaneAround(g[k].touch)
                /\ new.hits[j].slice = g[k].slice /\ new.hits[j].energyLoss = g[k].edeposit
  <2>1. CASE j \in 1 .. L /\ new.hits[j].energyLoss = sd.hits[j].energyLoss
    <3>1. PICK k \in 1 .. H :
            /\ h[k].readout = "CTPPSPixelHits" /\ PlaneNamed(sd.hits[j].unit) = PlaneAround(h[k].touch)
            /\ sd.hits[j].slice = h[k].slice /\ sd.hits[j].energyLoss = h[k].edeposit
      BY <1>7, <2>1
    <3>2. k \in 1 .. H + 1 /\ g[k] = h[k]
      BY <1>1, <3>1
    <3> QED
      BY <1>4, <2>1, <3>1, <3>2
  <2>2. CASE j = i /\ new.hits[j].energyLoss = step.edeposit
    BY <1>1, <1>4, <2>2
  <2> QED
    BY <1>4, <2>1, <2>2
<1>12. ASSUME NEW m \in 1 .. M, NEW j \in 1 .. M,
              new.hits[m].track = new.hits[j].track, new.hits[m].slice = new.hits[j].slice,
              new.hits[m].unit = new.hits[j].unit
       PROVE  m = j
  <2>1. CASE m \in 1 .. L /\ j \in 1 .. L
    BY <1>4, <1>7, <1>12, <2>1
  <2>2. CASE m \in 1 .. L /\ j \notin 1 .. L
    BY <1>4, <1>8, <1>12, <2>2
  <2>3. CASE m \notin 1 .. L /\ j \in 1 .. L
    BY <1>4, <1>8, <1>12, <2>3
  <2>4. CASE m \notin 1 .. L /\ j \notin 1 .. L
    BY <1>4, <2>4
  <2> QED
    BY <2>1, <2>2, <2>3, <2>4
<1>13. \/ new.tsID = -2
       \/ ( /\ new.currentHit \in 1 .. M /\ new.hits[new.currentHit].slice = new.tsID
            /\ new.hits[new.currentHit].unit = new.previousUnitID )
  BY <1>4, <1>5
<1>14. PixelGood(new, g)
  <2>1. Len(g) = H + 1 /\ Len(new.hits) = M
    BY <1>1 DEF M
  <2>2. \A k \in 1 .. H + 1 : g[k].readout = "CTPPSPixelHits" /\ g[k].edeposit > 0 =>
          \E j \in 1 .. M : /\ PlaneNamed(new.hits[j].unit) = PlaneAround(g[k].touch)
                           /\ new.hits[j].slice = g[k].slice
    BY <1>10
  <2>3. \A m, j \in 1 .. M :
          /\ new.hits[m].track = new.hits[j].track /\ new.hits[m].slice = new.hits[j].slice
          /\ new.hits[m].unit = new.hits[j].unit
          => m = j
    BY <1>12
  <2> QED
    <3>1. \A j \in 1 .. M : \E k \in 1 .. H + 1 :
            /\ g[k].readout = "CTPPSPixelHits" /\ PlaneNamed(new.hits[j].unit) = PlaneAround(g[k].touch)
            /\ new.hits[j].slice = g[k].slice /\ new.hits[j].energyLoss = g[k].edeposit
      BY <1>11, Zenon
    <3>2. \A j \in 1 .. Len(new.hits) : \E k \in 1 .. Len(g) :
            /\ g[k].readout = "CTPPSPixelHits" /\ PlaneNamed(new.hits[j].unit) = PlaneAround(g[k].touch)
            /\ new.hits[j].slice = g[k].slice /\ new.hits[j].energyLoss = g[k].edeposit
      BY <2>1, <3>1
    <3>3. \A k \in 1 .. Len(g) : g[k].readout = "CTPPSPixelHits" /\ g[k].edeposit > 0 =>
            \E j \in 1 .. Len(new.hits) : /\ PlaneNamed(new.hits[j].unit) = PlaneAround(g[k].touch)
                                          /\ new.hits[j].slice = g[k].slice
      BY <2>1, <2>2
    <3>4. \A m, j \in 1 .. Len(new.hits) :
            /\ new.hits[m].track = new.hits[j].track /\ new.hits[m].slice = new.hits[j].slice
            /\ new.hits[m].unit = new.hits[j].unit
            => m = j
      BY <2>1, <2>3
    <3>5. \/ new.tsID = -2
          \/ ( /\ new.currentHit \in 1 .. Len(new.hits) /\ new.hits[new.currentHit].slice = new.tsID
               /\ new.hits[new.currentHit].unit = new.previousUnitID )
      BY <1>13, <2>1
    <3> QED
      BY <3>2, <3>3, <3>4, <3>5, Zenon DEF PixelGood
<1> QED
  BY <1>5, <1>14 DEF g

LEMMA SameHits ==
  ASSUME NEW sd, NEW h, PixelGood(sd, h), NEW new, new.hits = sd.hits, new.tsID = sd.tsID,
         new.currentHit = sd.currentHit, new.previousUnitID = sd.previousUnitID
  PROVE  PixelGood(new, h)
BY DEF PixelGood

LEMMA PixelStepKeeps ==
  ASSUME NEW sd, IsPixelSD(sd), NEW h \in Seq(G4StepsMade), PixelGood(sd, h), NEW step \in G4StepsMade,
         step.readout = "CTPPSPixelHits" => step.touch \in Seq(Range(step.touch)) /\ InPlane(step.touch),
         NEW new, new = IF step.readout = "CTPPSPixelHits" THEN PixelProcessHits(sd, step) ELSE sd
  PROVE  IsPixelSD(new) /\ PixelGood(new, Append(h, step))
<1> DEFINE H == Len(h)
           g == Append(h, step)
<1>1. /\ Len(g) = H + 1 /\ H \in Nat
      /\ \A k \in 1 .. H : k \in 1 .. H + 1 /\ g[k] = h[k]
      /\ H + 1 \in 1 .. H + 1 /\ g[H + 1] = step
      /\ \A k \in 1 .. H + 1 : k \in 1 .. H \/ k = H + 1
  BY LongerHistory
<1> HIDE DEF H, g
<1>2. ASSUME NEW sd1, PixelGood(sd1, h), ~(step.readout = "CTPPSPixelHits" /\ step.edeposit > 0)
      PROVE  PixelGood(sd1, g)
  <2>1. ASSUME NEW i \in 1 .. Len(sd1.hits)
        PROVE  \E k \in 1 .. Len(g) :
                 /\ g[k].readout = "CTPPSPixelHits" /\ PlaneNamed(sd1.hits[i].unit) = PlaneAround(g[k].touch)
                 /\ sd1.hits[i].slice = g[k].slice /\ sd1.hits[i].energyLoss = g[k].edeposit
    <3>1. PICK k \in 1 .. H :
            /\ h[k].readout = "CTPPSPixelHits" /\ PlaneNamed(sd1.hits[i].unit) = PlaneAround(h[k].touch)
            /\ sd1.hits[i].slice = h[k].slice /\ sd1.hits[i].energyLoss = h[k].edeposit
      BY <1>2, <2>1, Zenon DEF PixelGood, H
    <3>2. k \in 1 .. Len(g) /\ g[k] = h[k]
      BY <1>1, <3>1
    <3> QED
      BY <3>1, <3>2
  <2>2. ASSUME NEW k \in 1 .. Len(g), g[k].readout = "CTPPSPixelHits", g[k].edeposit > 0
        PROVE  \E i \in 1 .. Len(sd1.hits) : /\ PlaneNamed(sd1.hits[i].unit) = PlaneAround(g[k].touch)
                                              /\ sd1.hits[i].slice = g[k].slice
    <3>1. k \in 1 .. H
      BY <1>1, <1>2, <2>2
    <3>2. g[k] = h[k]
      BY <1>1, <3>1
    <3>3. \A n \in 1 .. H : h[n].readout = "CTPPSPixelHits" /\ h[n].edeposit > 0 =>
            \E i \in 1 .. Len(sd1.hits) : /\ PlaneNamed(sd1.hits[i].unit) = PlaneAround(h[n].touch)
                                          /\ sd1.hits[i].slice = h[n].slice
      BY <1>2, Zenon DEF PixelGood, H
    <3> QED
      BY <2>2, <3>1, <3>2, <3>3, Zenon
  <2> QED
    BY <1>2, <2>1, <2>2, Zenon DEF PixelGood
<1>3. CASE step.readout # "CTPPSPixelHits"
  BY <1>2, <1>3 DEF g
<1>4. CASE step.readout = "CTPPSPixelHits"
  <2> DEFINE unit == PixelUnit(PixelPlace(sd.org, step.touch))
             place == PixelPlace(sd.org, step.touch)
             placed == [sd EXCEPT !.org = place]
  <2>1. unit \in Int /\ PlaneNamed(unit) = PlaneAround(step.touch)
    BY <1>4, PlaceIsPlane
  <2>2. new = Recorded(placed, step, unit)
    BY <1>4, Zenon DEF PixelProcessHits
  <2> HIDE DEF unit, place
  <2>3. /\ IsPixelSD(placed) /\ placed.hits = sd.hits /\ placed.currentHit = sd.currentHit
        /\ placed.tsID = sd.tsID /\ placed.previousUnitID = sd.previousUnitID
    BY DEF IsPixelSD
  <2> HIDE DEF placed
  <2>4. PixelGood(placed, h)
    BY <2>3, SameHits
  <2>5. \/ new = placed /\ ~(step.edeposit > 0)
        \/ AddsHit(placed, new, step, unit)
        \/ ChangesHit(placed, new, step, unit)
    BY <2>1, <2>2, <2>3, <2>4, RecordedIs
  <2>6. CASE new = placed /\ ~(step.edeposit > 0)
    BY <1>2, <2>3, <2>4, <2>6 DEF g
  <2>7. CASE AddsHit(placed, new, step, unit) \/ ChangesHit(placed, new, step, unit)
    BY <1>4, <2>1, <2>3, <2>4, <2>7, HitsAreOfTheStep
  <2> QED
    BY <2>5, <2>6, <2>7
<1> QED
  BY <1>3, <1>4

\* The hits of the planes while an event goes on, and what is handed on after it.
PixelInv ==
  /\ IsPixelSD(pixelSD)
  /\ g4Phase \in {"tracking", "done"} => PixelGood(pixelSD, history)
  /\ g4Phase = "done" => pixelSD.slave = SubSeq(pixelSD.hits, 1, Min({Len(pixelSD.hits), MaxHits}))

LEMMA LesserOf ==
  ASSUME NEW m \in Nat, NEW n \in Nat
  PROVE  Min({m, n}) \in {m, n} /\ Min({m, n}) \in 0 .. m
<1>1. \E x \in {m, n} : \A y \in {m, n} : x <= y
  <2>1. CASE m <= n
    BY <2>1
  <2>2. CASE ~(m <= n)
    BY <2>2
  <2> QED
    BY <2>1, <2>2
<1>2. Min({m, n}) \in {m, n} /\ \A y \in {m, n} : Min({m, n}) <= y
  BY <1>1, Zenon DEF Min
<1> QED
  BY <1>2

LEMMA CopyIsHandedOn ==
  ASSUME NEW T, NEW hits \in Seq(T)
  PROVE  /\ IsPrefix(SubSeq(hits, 1, Min({Len(hits), MaxHits})), hits)
         /\ Len(SubSeq(hits, 1, Min({Len(hits), MaxHits}))) = Min({Len(hits), MaxHits})
<1> DEFINE m == Min({Len(hits), MaxHits})
           slave == SubSeq(hits, 1, m)
<1>1. Len(hits) \in Nat /\ MaxHits \in Nat
  BY MaxHitsAssumption
<1>2. m \in 0 .. Len(hits)
  <2> DEFINE L == Len(hits)
  <2>1. L \in Nat
    BY <1>1
  <2> HIDE DEF L
  <2>2. Min({L, MaxHits}) \in 0 .. L
    BY <1>1, <2>1, LesserOf
  <2> QED
    BY <2>2 DEF L
<1> HIDE DEF m
<1>3. slave \in Seq(T) /\ Len(slave) = m /\ \A i \in 1 .. m : slave[i] = hits[i]
  BY <1>2, Pieces
<1>4. m \in 0 .. Len(slave) /\ m <= Len(hits)
  BY <1>1, <1>2, <1>3
<1>5. SubSeq(slave, 1, m) = SubSeq(hits, 1, m)
  <2> HIDE DEF slave
  <2>1. /\ SubSeq(slave, 1, m) \in Seq(T) /\ Len(SubSeq(slave, 1, m)) = m
        /\ \A i \in 1 .. m : SubSeq(slave, 1, m)[i] = slave[i]
    BY <1>3, <1>4, Pieces
  <2> QED
    BY <1>3, <2>1 DEF slave
<1>6. IsPrefix(slave, hits)
  <2> HIDE DEF slave
  <2> QED
    BY <1>3, <1>4, <1>5, Zenon DEF IsPrefix
<1> QED
  BY <1>3, <1>6 DEF m

LEMMA PixelInvSays == ASSUME StepsTyped, PixelInv PROVE PixelHitsAreDeposits
<1> SUFFICES ASSUME g4Phase = "done"
             PROVE  /\ \A k \in StepsAt("CTPPSPixelHits") : history[k].edeposit > 0 =>
                         \E h \in Range(pixelSD.hits) :
                           /\ PlaneNamed(h.unit) = PlaneAround(history[k].touch)
                           /\ h.slice = history[k].slice
                    /\ \A h \in Range(pixelSD.hits) : \E k \in StepsAt("CTPPSPixelHits") :
                         /\ PlaneNamed(h.unit) = PlaneAround(history[k].touch)
                         /\ h.slice = history[k].slice /\ h.energyLoss = history[k].edeposit
                    /\ \A j, k \in DOMAIN pixelSD.hits : j < k =>
                         \E f \in {"track", "slice", "unit"} : pixelSD.hits[j][f] # pixelSD.hits[k][f]
                    /\ IsPrefix(pixelSD.slave, pixelSD.hits)
                    /\ Len(pixelSD.slave) = Min({Len(pixelSD.hits), MaxHits})
  BY DEF PixelHitsAreDeposits
<1> DEFINE hits == pixelSD.hits
<1>1. hits \in Seq(PixelHits) /\ history \in Seq(G4StepsMade)
  BY DEF PixelInv, IsPixelSD, StepsTyped
<1>2. /\ DOMAIN hits = 1 .. Len(hits) /\ DOMAIN history = 1 .. Len(history) /\ Len(hits) \in Nat
      /\ Range(hits) = {hits[i] : i \in 1 .. Len(hits)}
  BY <1>1 DEF Range
<1>3. PixelGood(pixelSD, history)
  BY DEF PixelInv
<1>4. \A k \in StepsAt("CTPPSPixelHits") : history[k].edeposit > 0 =>
        \E h \in Range(hits) : /\ PlaneNamed(h.unit) = PlaneAround(history[k].touch)
                               /\ h.slice = history[k].slice
  <2> SUFFICES ASSUME NEW k \in StepsAt("CTPPSPixelHits"), history[k].edeposit > 0
               PROVE  \E h \in Range(hits) : /\ PlaneNamed(h.unit) = PlaneAround(history[k].touch)
                                             /\ h.slice = history[k].slice
    OBVIOUS
  <2>1. k \in 1 .. Len(history) /\ history[k].readout = "CTPPSPixelHits"
    BY <1>2 DEF StepsAt
  <2>2. PICK i \in 1 .. Len(hits) : /\ PlaneNamed(hits[i].unit) = PlaneAround(history[k].touch)
                                    /\ hits[i].slice = history[k].slice
    BY <1>3, <2>1, Zenon DEF PixelGood
  <2>3. hits[i] \in Range(hits)
    BY <1>2
  <2> QED
    BY <2>2, <2>3, Zenon
<1>5. \A h \in Range(hits) : \E k \in StepsAt("CTPPSPixelHits") :
        /\ PlaneNamed(h.unit) = PlaneAround(history[k].touch)
        /\ h.slice = history[k].slice /\ h.energyLoss = history[k].edeposit
  <2> TAKE h \in Range(hits)
  <2>1. PICK i \in 1 .. Len(hits) : h = hits[i]
    BY <1>2
  <2>2. PICK k \in 1 .. Len(history) :
          /\ history[k].readout = "CTPPSPixelHits" /\ PlaneNamed(hits[i].unit) = PlaneAround(history[k].touch)
          /\ hits[i].slice = history[k].slice /\ hits[i].energyLoss = history[k].edeposit
    BY <1>3, Zenon DEF PixelGood
  <2>3. k \in StepsAt("CTPPSPixelHits")
    BY <1>2, <2>2 DEF StepsAt
  <2> QED
    BY <2>1, <2>2, <2>3, Zenon
<1>6. \A j, k \in DOMAIN hits : j < k => \E f \in {"track", "slice", "unit"} : hits[j][f] # hits[k][f]
  <2>1. \A i, j \in 1 .. Len(hits) :
          hits[i].track = hits[j].track /\ hits[i].slice = hits[j].slice /\ hits[i].unit = hits[j].unit => i = j
    BY <1>3, Zenon DEF PixelGood
  <2> HIDE DEF hits
  <2> QED
    BY <1>2, <2>1
<1>7. pixelSD.slave = SubSeq(hits, 1, Min({Len(hits), MaxHits}))
  BY DEF PixelInv
<1> HIDE DEF hits
<1>8. IsPrefix(pixelSD.slave, hits) /\ Len(pixelSD.slave) = Min({Len(hits), MaxHits})
  BY <1>1, <1>7, CopyIsHandedOn, Zenon
<1> QED
  BY <1>4, <1>5, <1>6, <1>8 DEF hits

LEMMA BeginKeepsPixels == ASSUME PixelInv, BeginG4Event PROVE PixelInv'
<1>1. g4Phase' = "tracking" /\ history' = <<>> /\ pixelSD' = PixelInitialized(pixelSD) /\ IsPixelSD(pixelSD)
  BY DEF BeginG4Event, BeginSDs, PixelInv
<1>2. IsPixelSD(pixelSD') /\ pixelSD'.hits = <<>> /\ pixelSD'.tsID = -2
  BY <1>1 DEF PixelInitialized, IsPixelSD
<1>3. PixelGood(pixelSD', <<>>)
  BY <1>2 DEF PixelGood
<1> QED
  BY <1>1, <1>2, <1>3 DEF PixelInv

LEMMA TakeKeepsPixels == ASSUME RulesInv, PixelInv, TakeStep PROVE PixelInv'
<1>1. /\ StepsTyped /\ WeightInv /\ history \in Seq(G4StepsMade) /\ job \in Jobs
      /\ g4Phase = "tracking" /\ g4Phase' = "tracking" /\ current4 # 0
  BY DEF RulesInv, StepsTyped, TakeStep
<1>2. PICK s \in job.steps : HitSDs(StepOf(s)) /\ history' = Append(history, StepOf(s))
  BY <1>1, StepIsTaken
<1> DEFINE step == StepOf(s)
<1>3. step \in G4StepsMade /\ step.touch = s.touch /\ step.readout = s.readout
  BY <1>1, MovedIs
<1>4. step.readout = "CTPPSPixelHits" => step.touch \in Seq(Range(step.touch)) /\ InPlane(step.touch)
  <2>1. IsG4Job(job)
    BY <1>1, G4JobsAssumption
  <2> QED
    BY <1>3, <2>1 DEF IsG4Job
<1>5. pixelSD' = IF step.readout = "CTPPSPixelHits" THEN PixelProcessHits(pixelSD, step) ELSE pixelSD
  BY <1>2 DEF HitSDs
<1>6. IsPixelSD(pixelSD) /\ PixelGood(pixelSD, history)
  BY <1>1 DEF PixelInv
<1> HIDE DEF step
<1>7. IsPixelSD(pixelSD') /\ PixelGood(pixelSD', Append(history, step))
  BY <1>1, <1>3, <1>4, <1>5, <1>6, PixelStepKeeps
<1> QED
  BY <1>1, <1>2, <1>7 DEF PixelInv, step

LEMMA EndKeepsPixels == ASSUME PixelInv, EndG4Event PROVE PixelInv'
<1>1. /\ g4Phase = "tracking" /\ g4Phase' = "done" /\ history' = history
      /\ pixelSD' = CopiedToSlave(pixelSD) /\ IsPixelSD(pixelSD) /\ PixelGood(pixelSD, history)
  BY DEF EndG4Event, EndSDs, PixelInv
<1>2. /\ IsPixelSD(pixelSD') /\ pixelSD'.hits = pixelSD.hits /\ pixelSD'.tsID = pixelSD.tsID
      /\ pixelSD'.currentHit = pixelSD.currentHit /\ pixelSD'.previousUnitID = pixelSD.previousUnitID
      /\ pixelSD'.slave = SubSeq(pixelSD.hits, 1, Min({Len(pixelSD.hits), MaxHits}))
  BY <1>1 DEF CopiedToSlave, IsPixelSD
<1>3. PixelGood(pixelSD', history)
  BY <1>1, <1>2, SameHits
<1> QED
  BY <1>1, <1>2, <1>3 DEF PixelInv

-----------------------------------------------------------------------------
(* Hits of the timing bars.                                                  *)

One(true) == IF true THEN 1 ELSE 0

CountIn(s, S) == Cardinality({k \in 1 .. Len(s) : s[k] \in S})

LEMMA CountGrows ==
  ASSUME NEW T, NEW s \in Seq(T), NEW x, NEW S
  PROVE  CountIn(s, S) \in Nat /\ CountIn(Append(s, x), S) = CountIn(s, S) + One(x \in S)
<1> DEFINE L == Len(s)
           A == {k \in 1 .. L : s[k] \in S}
           B == {k \in 1 .. L + 1 : Append(s, x)[k] \in S}
<1>1. L \in Nat /\ Len(Append(s, x)) = L + 1
  OBVIOUS
<1>2. (\A k \in 1 .. L : Append(s, x)[k] = s[k]) /\ Append(s, x)[L + 1] = x
  OBVIOUS
<1>3. \A k \in 1 .. L + 1 : k \in 1 .. L \/ k = L + 1
  BY <1>1
<1>4. (\A k \in 1 .. L : k \in 1 .. L + 1) /\ L + 1 \in 1 .. L + 1 /\ L + 1 \notin 1 .. L
  BY <1>1
<1>5. CountIn(s, S) = Cardinality(A) /\ CountIn(Append(s, x), S) = Cardinality(B)
  BY <1>1 DEF CountIn
<1>6. IsFiniteSet(A) /\ Cardinality(A) \in Nat
  <2>1. 1 \in Int /\ L \in Int
    BY <1>1
  <2> HIDE DEF L
  <2>2. IsFiniteSet(1 .. L)
    BY <2>1, FS_Interval
  <2>3. IsFiniteSet(A)
    BY <2>2, FS_Subset
  <2> QED
    BY <2>3, FS_CardinalityType
<1> HIDE DEF L
<1>7. B = IF x \in S THEN A \cup {L + 1} ELSE A
  BY <1>2, <1>3, <1>4
<1>8. L + 1 \notin A
  BY <1>4
<1> HIDE DEF A, B
<1>9. Cardinality(A \cup {L + 1}) = Cardinality(A) + 1
  BY <1>6, <1>8, FS_AddElement
<1> QED
  BY <1>5, <1>6, <1>7, <1>9 DEF One

First  == "CTPPS_Timing_Box_First"
Second == "CTPPS_Timing_Box_Second"

TimingHits ==
  [track : Nat, slice : Nat, energyLoss : Nat,
   unit : {TimingUnit(TimingPlace(touch)) : touch \in {s.touch : s \in G4StepChoice}}]

IsTimingSD(sd) ==
  {"hits", "switchF", "switchS", "slave"} \subseteq DOMAIN sd /\ sd.hits \in Seq(TimingHits)

\* The steps and hits of a track that the property counts.
InTiming(step) == step.readout = "CTPPSTimingHits"
BarAt(h, i, box) == \E k \in 1 .. Len(h) : InTiming(h[k]) /\ h[k].track = i /\ InBar(h[k], box)
WindowsOf(i) == {step \in G4StepsMade : InTiming(step) /\ step.track = i /\ AtWindow(step)}
HitsOf(i) == {hit \in TimingHits : hit.track = i}

SwitchesAre(sd, h) ==
  \A i \in Nat \ {0} : (i \in sd.switchF <=> BarAt(h, i, First)) /\ (i \in sd.switchS <=> BarAt(h, i, Second))

HitsAreCounted(sd, h) ==
  \A i \in Nat \ {0} :
    CountIn(sd.hits, HitsOf(i)) =
      CountIn(h, WindowsOf(i)) + One(BarAt(h, i, First)) + One(BarAt(h, i, Second))

\* What a step does to the detector.
IsHitOf(hit, step) == hit \in TimingHits /\ hit.track = step.track

HitAdded(sd, step) ==
  InTiming(step) /\ ( \/ AtWindow(step)
                      \/ InBar(step, First) /\ step.track \notin sd.switchF
                      \/ InBar(step, Second) /\ step.track \notin sd.switchS )

TimingFollows(sd, new, step) ==
  /\ IsTimingSD(new)
  /\ HitAdded(sd, step) => \E hit : IsHitOf(hit, step) /\ new.hits = Append(sd.hits, hit)
  /\ ~HitAdded(sd, step) => new.hits = sd.hits
  /\ new.switchF = IF InTiming(step) /\ InBar(step, First) THEN sd.switchF \cup {step.track} ELSE sd.switchF
  /\ new.switchS = IF InTiming(step) /\ InBar(step, Second) THEN sd.switchS \cup {step.track} ELSE sd.switchS

LEMMA PlacesDiffer ==
  ASSUME NEW step
  PROVE  /\ AtWindow(step) => ~InBar(step, First) /\ ~InBar(step, Second)
         /\ InBar(step, First) => ~InBar(step, Second)
BY DEF AtWindow, InBar, First, Second

LEMMA TimingStepIs ==
  ASSUME NEW sd, IsTimingSD(sd), NEW step \in G4StepsMade
  PROVE  TimingFollows(sd, IF step.readout = "CTPPSTimingHits" THEN TimingProcessHits(sd, step) ELSE sd, step)
<1> DEFINE grown == WithTimingHit(sd, step)
           x == [track |-> step.track, slice |-> step.slice, unit |-> TimingUnit(TimingPlace(step.touch)),
                 energyLoss |-> step.energy]
           new == IF step.readout = "CTPPSTimingHits" THEN TimingProcessHits(sd, step) ELSE sd
<1> SUFFICES TimingFollows(sd, new, step)
  OBVIOUS
<1>1. IsHitOf(x, step)
  <2>1. /\ step.track \in Nat /\ step.slice \in Nat /\ step.energy \in Nat
        /\ step.touch \in {s.touch : s \in G4StepChoice}
    BY DEF G4StepsMade
  <2> DEFINE u == TimingUnit(TimingPlace(step.touch))
  <2>2. u \in {TimingUnit(TimingPlace(touch)) : touch \in {s.touch : s \in G4StepChoice}}
    BY <2>1
  <2> HIDE DEF u
  <2> QED
    BY <2>1, <2>2 DEF IsHitOf, TimingHits
<1>2. grown = [sd EXCEPT !.hits = Append(sd.hits, x)]
  BY DEF WithTimingHit
<1> HIDE DEF x, grown
<1>3. Append(sd.hits, x) \in Seq(TimingHits)
  BY <1>1 DEF IsHitOf, IsTimingSD
<1>4. /\ IsTimingSD(grown) /\ grown.hits = Append(sd.hits, x)
      /\ grown.switchF = sd.switchF /\ grown.switchS = sd.switchS
  BY <1>2, <1>3 DEF IsTimingSD
<1> DEFINE inF == [grown EXCEPT !.switchF = grown.switchF \cup {step.track}]
           inS == [grown EXCEPT !.switchS = grown.switchS \cup {step.track}]
<1>5. /\ IsTimingSD(inF) /\ inF.hits = grown.hits /\ inF.switchF = sd.switchF \cup {step.track}
      /\ inF.switchS = sd.switchS
  BY <1>4 DEF IsTimingSD
<1>6. /\ IsTimingSD(inS) /\ inS.hits = grown.hits /\ inS.switchS = sd.switchS \cup {step.track}
      /\ inS.switchF = sd.switchF
  BY <1>4 DEF IsTimingSD
<1>7. new = IF ~InTiming(step) THEN sd
            ELSE IF AtWindow(step) THEN grown
            ELSE IF InBar(step, First) /\ step.track \notin sd.switchF THEN inF
            ELSE IF InBar(step, Second) /\ step.track \notin sd.switchS THEN inS
            ELSE sd
  BY DEF TimingProcessHits, InTiming, grown, First, Second
<1> HIDE DEF new, inF, inS
<1>8. sd.switchF \cup {step.track} = sd.switchF \/ step.track \notin sd.switchF
  OBVIOUS
<1>9. sd.switchS \cup {step.track} = sd.switchS \/ step.track \notin sd.switchS
  OBVIOUS
<1>10. CASE ~InTiming(step)
  <2>1. new = sd /\ ~HitAdded(sd, step)
    BY <1>7, <1>10 DEF HitAdded
  <2> QED
    BY <1>10, <2>1 DEF TimingFollows
<1>11. CASE InTiming(step) /\ AtWindow(step)
  <2>1. HitAdded(sd, step) /\ ~InBar(step, First) /\ ~InBar(step, Second)
    BY <1>11, PlacesDiffer DEF HitAdded
  <2> QED
    <3>1. new = grown
      BY <1>7, <1>11
    <3> QED
      BY <1>1, <1>4, <2>1, <3>1 DEF TimingFollows
<1>12. CASE InTiming(step) /\ InBar(step, First)
  <2>1. ~AtWindow(step) /\ ~InBar(step, Second)
    BY <1>12, PlacesDiffer
  <2>2. HitAdded(sd, step) <=> step.track \notin sd.switchF
    BY <1>12, <2>1 DEF HitAdded
  <2> QED
    <3>1. CASE step.track \notin sd.switchF
      <4>1. new = inF
        BY <1>7, <1>12, <2>1, <3>1
      <4> QED
        BY <1>1, <1>4, <1>5, <1>12, <2>1, <2>2, <3>1, <4>1 DEF TimingFollows
    <3>2. CASE step.track \in sd.switchF
      <4>1. new = sd /\ sd.switchF \cup {step.track} = sd.switchF
        BY <1>7, <1>8, <1>12, <2>1, <3>2
      <4> QED
        BY <1>12, <2>1, <2>2, <3>2, <4>1 DEF TimingFollows
    <3> QED
      BY <3>1, <3>2
<1>13. CASE InTiming(step) /\ InBar(step, Second)
  <2>1. ~AtWindow(step) /\ ~InBar(step, First)
    BY <1>13, PlacesDiffer
  <2>2. HitAdded(sd, step) <=> step.track \notin sd.switchS
    BY <1>13, <2>1 DEF HitAdded
  <2> QED
    <3>1. CASE step.track \notin sd.switchS
      <4>1. new = inS
        BY <1>7, <1>13, <2>1, <3>1
      <4> QED
        BY <1>1, <1>4, <1>6, <1>13, <2>1, <2>2, <3>1, <4>1 DEF TimingFollows
    <3>2. CASE step.track \in sd.switchS
      <4>1. new = sd /\ sd.switchS \cup {step.track} = sd.switchS
        BY <1>7, <1>9, <1>13, <2>1, <3>2
      <4> QED
        BY <1>13, <2>1, <2>2, <3>2, <4>1 DEF TimingFollows
    <3> QED
      BY <3>1, <3>2
<1>14. CASE InTiming(step) /\ ~AtWindow(step) /\ ~InBar(step, First) /\ ~InBar(step, Second)
  <2>1. new = sd /\ ~HitAdded(sd, step)
    BY <1>7, <1>14 DEF HitAdded
  <2> QED
    BY <1>14, <2>1 DEF TimingFollows
<1> QED
  BY <1>10, <1>11, <1>12, <1>13, <1>14

LEMMA BarAfter ==
  ASSUME NEW h \in Seq(G4StepsMade), NEW step, NEW i, NEW box
  PROVE  BarAt(Append(h, step), i, box) <=>
           BarAt(h, i, box) \/ (InTiming(step) /\ step.track = i /\ InBar(step, box))
<1> DEFINE g == Append(h, step)
<1>1. /\ Len(g) = Len(h) + 1
      /\ \A k \in 1 .. Len(h) : k \in 1 .. Len(g) /\ g[k] = h[k]
      /\ Len(g) \in 1 .. Len(g) /\ g[Len(g)] = step
      /\ \A k \in 1 .. Len(g) : k \in 1 .. Len(h) \/ k = Len(g)
  BY LongerHistory
<1> HIDE DEF g
<1>2. BarAt(g, i, box) <=> BarAt(h, i, box) \/ (InTiming(step) /\ step.track = i /\ InBar(step, box))
  BY <1>1, Zenon DEF BarAt
<1> QED
  BY <1>2 DEF g

LEMMA TimingStepKeeps ==
  ASSUME NEW sd, IsTimingSD(sd), NEW h \in Seq(G4StepsMade), SwitchesAre(sd, h), HitsAreCounted(sd, h),
         NEW step \in G4StepsMade, NEW new, TimingFollows(sd, new, step)
  PROVE  SwitchesAre(new, Append(h, step)) /\ HitsAreCounted(new, Append(h, step))
<1> DEFINE g == Append(h, step)
           t == step.track
<1>1. t \in Nat
  BY DEF G4StepsMade
<1>2. SwitchesAre(new, g)
  <2> SUFFICES ASSUME NEW i \in Nat \ {0}
               PROVE  /\ i \in new.switchF <=> BarAt(g, i, First)
                      /\ i \in new.switchS <=> BarAt(g, i, Second)
    BY DEF SwitchesAre
  <2>1. /\ i \in sd.switchF <=> BarAt(h, i, First)
        /\ i \in sd.switchS <=> BarAt(h, i, Second)
    BY DEF SwitchesAre
  <2>2. BarAt(g, i, First) <=> BarAt(h, i, First) \/ (InTiming(step) /\ t = i /\ InBar(step, First))
    BY BarAfter
  <2>3. BarAt(g, i, Second) <=> BarAt(h, i, Second) \/ (InTiming(step) /\ t = i /\ InBar(step, Second))
    BY BarAfter
  <2> HIDE DEF g, t
  <2>4. /\ new.switchF = IF InTiming(step) /\ InBar(step, First) THEN sd.switchF \cup {t} ELSE sd.switchF
        /\ new.switchS = IF InTiming(step) /\ InBar(step, Second) THEN sd.switchS \cup {t} ELSE sd.switchS
    BY DEF TimingFollows, t
  <2> QED
    BY <2>1, <2>2, <2>3, <2>4
<1>3. HitsAreCounted(new, g)
  <2> SUFFICES ASSUME NEW i \in Nat \ {0}
               PROVE  CountIn(new.hits, HitsOf(i)) =
                        CountIn(g, WindowsOf(i)) + One(BarAt(g, i, First)) + One(BarAt(g, i, Second))
    BY DEF HitsAreCounted
  <2> DEFINE n == CountIn(sd.hits, HitsOf(i))
             w == CountIn(h, WindowsOf(i))
             ours == InTiming(step) /\ t = i
  <2>1. n = w + One(BarAt(h, i, First)) + One(BarAt(h, i, Second))
    BY DEF HitsAreCounted
  <2>2. n \in Nat /\ \A hit : CountIn(Append(sd.hits, hit), HitsOf(i)) = n + One(hit \in HitsOf(i))
    <3> DEFINE hits == sd.hits
               ofTrack == HitsOf(i)
    <3>1. hits \in Seq(TimingHits)
      BY DEF IsTimingSD
    <3> HIDE DEF hits, ofTrack
    <3>2. \A hit : /\ CountIn(hits, ofTrack) \in Nat
                   /\ CountIn(Append(hits, hit), ofTrack) = CountIn(hits, ofTrack) + One(hit \in ofTrack)
      BY <3>1, CountGrows, Zenon
    <3> QED
      BY <3>2, Zenon DEF hits, ofTrack
  <2>3. w \in Nat /\ CountIn(g, WindowsOf(i)) = w + One(step \in WindowsOf(i))
    BY CountGrows, Zenon
  <2>4. step \in WindowsOf(i) <=> ours /\ AtWindow(step)
    BY DEF WindowsOf
  <2>5. BarAt(g, i, First) <=> BarAt(h, i, First) \/ (ours /\ InBar(step, First))
    BY BarAfter
  <2>6. BarAt(g, i, Second) <=> BarAt(h, i, Second) \/ (ours /\ InBar(step, Second))
    BY BarAfter
  <2>7. CountIn(new.hits, HitsOf(i)) = n + One(HitAdded(sd, step) /\ t = i)
    <3>1. CASE HitAdded(sd, step)
      <4>1. PICK hit : IsHitOf(hit, step) /\ new.hits = Append(sd.hits, hit)
        BY <3>1 DEF TimingFollows
      <4>2. hit \in HitsOf(i) <=> t = i
        BY <4>1 DEF IsHitOf, HitsOf
      <4> QED
        BY <2>2, <3>1, <4>1, <4>2 DEF One
    <3>2. CASE ~HitAdded(sd, step)
      <4>1. new.hits = sd.hits
        BY <3>2 DEF TimingFollows
      <4> HIDE DEF n
      <4> QED
        BY <2>2, <3>2, <4>1 DEF One, n
    <3> QED
      BY <3>1, <3>2
  <2>8. HitAdded(sd, step) /\ t = i <=>
          ours /\ ( \/ AtWindow(step)
                    \/ InBar(step, First) /\ ~BarAt(h, i, First)
                    \/ InBar(step, Second) /\ ~BarAt(h, i, Second) )
    <3>1. /\ i \in sd.switchF <=> BarAt(h, i, First)
          /\ i \in sd.switchS <=> BarAt(h, i, Second)
      BY DEF SwitchesAre
    <3> QED
      BY <3>1 DEF HitAdded
  <2>9. /\ AtWindow(step) => ~InBar(step, First) /\ ~InBar(step, Second)
        /\ InBar(step, First) => ~InBar(step, Second)
    BY PlacesDiffer
  <2> HIDE DEF n, w, ours, g, t
  <2> QED
    BY <2>1, <2>2, <2>3, <2>4, <2>5, <2>6, <2>7, <2>8, <2>9 DEF One
<1> QED
  BY <1>2, <1>3

\* The hits of the bars until an event throws.
TimingInv ==
  ~thrown =>
    /\ IsTimingSD(timingSD)
    /\ g4Phase = "tracking" => SwitchesAre(timingSD, history)
    /\ g4Phase # "tracking" => \A i \in Nat \ {0} : i \notin timingSD.switchF /\ i \notin timingSD.switchS
    /\ g4Phase \in {"tracking", "done"} => HitsAreCounted(timingSD, history)

LEMMA NothingCounted ==
  ASSUME NEW S
  PROVE  CountIn(<<>>, S) = 0 /\ \A i, box : ~BarAt(<<>>, i, box)
<1>1. {k \in 1 .. Len(<<>>) : <<>>[k] \in S} = {}
  OBVIOUS
<1>2. CountIn(<<>>, S) = 0
  BY <1>1, FS_EmptySet, Zenon DEF CountIn
<1>3. \A i, box : ~BarAt(<<>>, i, box)
  BY DEF BarAt
<1> QED
  BY <1>2, <1>3

LEMMA BoxesCounted ==
  ASSUME NEW first \in BOOLEAN, NEW second \in BOOLEAN
  PROVE  Cardinality({box \in {First, Second} : (box = First /\ first) \/ (box = Second /\ second)})
           = One(first) + One(second)
<1> DEFINE B == {box \in {First, Second} : (box = First /\ first) \/ (box = Second /\ second)}
<1>1. First # Second
  BY DEF First, Second
<1>2. /\ Cardinality({}) = 0 /\ IsFiniteSet({}) /\ Cardinality({First}) = 1 /\ IsFiniteSet({First})
      /\ Cardinality({Second}) = 1
  BY FS_EmptySet, FS_Singleton
<1>3. Cardinality({First} \cup {Second}) = 2
  <2> DEFINE S == {First}
  <2>1. IsFiniteSet(S) /\ Cardinality(S) = 1 /\ Second \notin S
    BY <1>1, <1>2
  <2> HIDE DEF S
  <2>2. Cardinality(S \cup {Second}) = Cardinality(S) + 1
    BY <2>1, FS_AddElement
  <2> QED
    BY <2>1, <2>2 DEF S
<1>4. CASE first /\ second
  <2>1. B = {First} \cup {Second}
    BY <1>4
  <2> QED
    BY <1>3, <1>4, <2>1 DEF One
<1>5. CASE first /\ ~second
  <2>1. B = {First}
    BY <1>1, <1>5
  <2> QED
    BY <1>2, <1>5, <2>1 DEF One
<1>6. CASE ~first /\ second
  <2>1. B = {Second}
    BY <1>1, <1>6
  <2> QED
    BY <1>2, <1>6, <2>1 DEF One
<1>7. CASE ~first /\ ~second
  <2>1. B = {}
    BY <1>7
  <2> QED
    BY <1>2, <1>7, <2>1 DEF One
<1> QED
  BY <1>4, <1>5, <1>6, <1>7

LEMMA TimingInvSays == ASSUME StepsTyped, TimingInv PROVE TimingHitsAreOnce
<1> SUFFICES ASSUME g4Phase = "done", ~thrown, NEW i \in DOMAIN tracks
             PROVE  Cardinality({k \in DOMAIN timingSD.hits : timingSD.hits[k].track = i}) =
                      Cardinality({k \in StepsAt("CTPPSTimingHits") :
                                     history[k].track = i /\ AtWindow(history[k])})
                      + Cardinality({box \in {"CTPPS_Timing_Box_First", "CTPPS_Timing_Box_Second"} :
                                       TrackHasStep(i, "CTPPSTimingHits", box)})
  BY DEF TimingHitsAreOnce
<1>1. IsTimingSD(timingSD) /\ HitsAreCounted(timingSD, history)
  BY Zenon DEF TimingInv
<1>2. i \in Nat \ {0} /\ history \in Seq(G4StepsMade) /\ DOMAIN history = 1 .. Len(history)
  BY DEF StepsTyped
<1>3. timingSD.hits \in Seq(TimingHits) /\ DOMAIN timingSD.hits = 1 .. Len(timingSD.hits)
  BY <1>1 DEF IsTimingSD
<1>4. Cardinality({k \in DOMAIN timingSD.hits : timingSD.hits[k].track = i}) = CountIn(timingSD.hits, HitsOf(i))
  <2>1. \A k \in DOMAIN timingSD.hits : timingSD.hits[k].track = i <=> timingSD.hits[k] \in HitsOf(i)
    BY <1>3 DEF HitsOf
  <2>2. {k \in DOMAIN timingSD.hits : timingSD.hits[k].track = i} =
          {k \in 1 .. Len(timingSD.hits) : timingSD.hits[k] \in HitsOf(i)}
    BY <1>3, <2>1
  <2> QED
    BY <2>2, Zenon DEF CountIn
<1>5. Cardinality({k \in StepsAt("CTPPSTimingHits") : history[k].track = i /\ AtWindow(history[k])})
        = CountIn(history, WindowsOf(i))
  <2>1. \A k \in DOMAIN history : history[k] \in G4StepsMade
    BY <1>2
  <2>2. {k \in StepsAt("CTPPSTimingHits") : history[k].track = i /\ AtWindow(history[k])} =
          {k \in 1 .. Len(history) : history[k] \in WindowsOf(i)}
    BY <1>2, <2>1 DEF StepsAt, WindowsOf, InTiming
  <2> QED
    BY <2>2, Zenon DEF CountIn
<1>6. Cardinality({box \in {"CTPPS_Timing_Box_First", "CTPPS_Timing_Box_Second"} :
                     TrackHasStep(i, "CTPPSTimingHits", box)})
        = One(BarAt(history, i, First)) + One(BarAt(history, i, Second))
  <2>1. \A box : TrackHasStep(i, "CTPPSTimingHits", box) <=> BarAt(history, i, box)
    BY <1>2 DEF TrackHasStep, StepsAt, BarAt, InTiming
  <2> DEFINE first == BarAt(history, i, First)
             second == BarAt(history, i, Second)
  <2>2. first \in BOOLEAN /\ second \in BOOLEAN
    BY DEF BarAt
  <2> HIDE DEF first, second
  <2>3. Cardinality({box \in {First, Second} : (box = First /\ first) \/ (box = Second /\ second)})
           = One(first) + One(second)
    BY <2>2, BoxesCounted
  <2>4. {box \in {First, Second} : (box = First /\ first) \/ (box = Second /\ second)} =
          {box \in {"CTPPS_Timing_Box_First", "CTPPS_Timing_Box_Second"} :
             TrackHasStep(i, "CTPPSTimingHits", box)}
    <3>1. \A box \in {First, Second} : TrackHasStep(i, "CTPPSTimingHits", box) <=>
                                         (box = First /\ first) \/ (box = Second /\ second)
      BY <2>1, Zenon DEF first, second, First, Second
    <3>2. {First, Second} = {"CTPPS_Timing_Box_First", "CTPPS_Timing_Box_Second"}
      BY DEF First, Second
    <3> HIDE DEF First, Second
    <3> QED
      BY <3>1, <3>2
  <2> QED
    BY <2>3, <2>4 DEF first, second
<1>7. CountIn(timingSD.hits, HitsOf(i)) =
        CountIn(history, WindowsOf(i)) + (One(BarAt(history, i, First)) + One(BarAt(history, i, Second)))
  <2>1. CountIn(history, WindowsOf(i)) \in Nat
    BY <1>2, CountGrows, Zenon
  <2>2. CountIn(timingSD.hits, HitsOf(i)) =
          CountIn(history, WindowsOf(i)) + One(BarAt(history, i, First)) + One(BarAt(history, i, Second))
    BY <1>1, <1>2, Zenon DEF HitsAreCounted
  <2>3. One(BarAt(history, i, First)) \in Nat /\ One(BarAt(history, i, Second)) \in Nat
    BY DEF One
  <2> QED
    BY <2>1, <2>2, <2>3
<1> QED
  BY <1>4, <1>5, <1>6, <1>7, Zenon

LEMMA BeginKeepsTiming == ASSUME TimingInv, BeginG4Event PROVE TimingInv'
<1> SUFFICES ASSUME ~thrown'
             PROVE  /\ IsTimingSD(timingSD')
                    /\ g4Phase' = "tracking" => SwitchesAre(timingSD', history')
                    /\ g4Phase' # "tracking" =>
                         \A i \in Nat \ {0} : i \notin timingSD'.switchF /\ i \notin timingSD'.switchS
                    /\ g4Phase' \in {"tracking", "done"} => HitsAreCounted(timingSD', history')
  BY Zenon DEF TimingInv
<1>1. /\ g4Phase # "tracking" /\ g4Phase' = "tracking" /\ history' = <<>> /\ ~thrown
      /\ timingSD' = TimingInitialized(timingSD)
  BY DEF BeginG4Event, BeginSDs
<1>2. /\ IsTimingSD(timingSD)
      /\ \A i \in Nat \ {0} : i \notin timingSD.switchF /\ i \notin timingSD.switchS
  BY <1>1, Zenon DEF TimingInv
<1>3. /\ IsTimingSD(timingSD') /\ timingSD'.hits = <<>>
      /\ timingSD'.switchF = timingSD.switchF \cup {-1} /\ timingSD'.switchS = timingSD.switchS \cup {-1}
  BY <1>1, <1>2 DEF TimingInitialized, IsTimingSD
<1>4. \A i \in Nat \ {0} : i \notin timingSD'.switchF /\ i \notin timingSD'.switchS
  BY <1>2, <1>3
<1>5. SwitchesAre(timingSD', <<>>)
  BY <1>4, NothingCounted DEF SwitchesAre
<1>6. HitsAreCounted(timingSD', <<>>)
  BY <1>3, NothingCounted DEF HitsAreCounted, One
<1> QED
  BY <1>1, <1>3, <1>5, <1>6

LEMMA TakeKeepsTiming == ASSUME RulesInv, TimingInv, TakeStep PROVE TimingInv'
<1> SUFFICES ASSUME ~thrown'
             PROVE  /\ IsTimingSD(timingSD')
                    /\ g4Phase' = "tracking" => SwitchesAre(timingSD', history')
                    /\ g4Phase' # "tracking" =>
                         \A i \in Nat \ {0} : i \notin timingSD'.switchF /\ i \notin timingSD'.switchS
                    /\ g4Phase' \in {"tracking", "done"} => HitsAreCounted(timingSD', history')
  BY Zenon DEF TimingInv
<1>1. /\ StepsTyped /\ WeightInv /\ history \in Seq(G4StepsMade)
      /\ g4Phase = "tracking" /\ g4Phase' = "tracking" /\ current4 # 0 /\ ~thrown
  BY DEF RulesInv, StepsTyped, TakeStep
<1>2. PICK s \in job.steps : HitSDs(StepOf(s)) /\ history' = Append(history, StepOf(s))
  BY <1>1, StepIsTaken
<1> DEFINE step == StepOf(s)
<1>3. step \in G4StepsMade
  BY <1>1, MovedIs
<1>4. timingSD' = IF step.readout = "CTPPSTimingHits" THEN TimingProcessHits(timingSD, step) ELSE timingSD
  BY <1>2 DEF HitSDs
<1>5. IsTimingSD(timingSD) /\ SwitchesAre(timingSD, history) /\ HitsAreCounted(timingSD, history)
  BY <1>1, Zenon DEF TimingInv
<1> HIDE DEF step
<1>6. TimingFollows(timingSD, timingSD', step)
  BY <1>3, <1>4, <1>5, TimingStepIs, Zenon
<1>7. SwitchesAre(timingSD', Append(history, step)) /\ HitsAreCounted(timingSD', Append(history, step))
  BY <1>1, <1>3, <1>5, <1>6, TimingStepKeeps, Zenon
<1>8. IsTimingSD(timingSD')
  BY <1>6 DEF TimingFollows
<1> QED
  BY <1>1, <1>2, <1>7, <1>8 DEF step

LEMMA EndKeepsTiming == ASSUME TimingInv, EndG4Event PROVE TimingInv'
<1> SUFFICES ASSUME ~thrown'
             PROVE  /\ IsTimingSD(timingSD')
                    /\ g4Phase' = "tracking" => SwitchesAre(timingSD', history')
                    /\ g4Phase' # "tracking" =>
                         \A i \in Nat \ {0} : i \notin timingSD'.switchF /\ i \notin timingSD'.switchS
                    /\ g4Phase' \in {"tracking", "done"} => HitsAreCounted(timingSD', history')
  BY Zenon DEF TimingInv
<1>1. /\ g4Phase = "tracking" /\ g4Phase' = "done" /\ history' = history /\ ~thrown
      /\ timingSD' = TimingForgotten(timingSD)
  BY DEF EndG4Event, EndSDs
<1>2. IsTimingSD(timingSD) /\ HitsAreCounted(timingSD, history)
  BY <1>1, Zenon DEF TimingInv
<1>3. /\ IsTimingSD(timingSD') /\ timingSD'.hits = timingSD.hits
      /\ timingSD'.switchF = {} /\ timingSD'.switchS = {}
  <2> DEFINE copied == CopiedToSlave(timingSD)
  <2>1. IsTimingSD(copied) /\ copied.hits = timingSD.hits
    BY <1>2 DEF CopiedToSlave, IsTimingSD
  <2>2. timingSD' = [copied EXCEPT !.switchF = {}, !.switchS = {}]
    BY <1>1 DEF TimingForgotten
  <2> HIDE DEF copied
  <2> QED
    BY <2>1, <2>2 DEF IsTimingSD
<1>4. HitsAreCounted(timingSD', history)
  BY <1>2, <1>3, Zenon DEF HitsAreCounted
<1> QED
  BY <1>1, <1>3, <1>4

\* HitsAreDeposits holds in every job of Geant4's event loop, for any steps in the
\* planes and bars: the pixel hits of an event are the deposits its tracks left,
\* whatever an earlier event or an exception left in the detector, and until one
\* throws a track has one timing hit for each box and photodetector it came to.
THEOREM HitsShowTheDeposits == StepsInit /\ [][StepsNext]_stepVars => []HitsAreDeposits
<1>1. StepsInit => PixelInv /\ TimingInv
  <2> SUFFICES ASSUME StepsInit PROVE PixelInv /\ TimingInv
    OBVIOUS
  <2>1. g4Phase = "idle" /\ pixelSD = NewPixelSD /\ timingSD = NewTimingSD
    BY DEF StepsInit, SDInit
  <2>2. IsPixelSD(pixelSD)
    BY <2>1 DEF NewPixelSD, IsPixelSD
  <2>3. IsTimingSD(timingSD) /\ timingSD.switchF = {-1} /\ timingSD.switchS = {-1}
    BY <2>1 DEF NewTimingSD, IsTimingSD
  <2>4. \A i \in Nat \ {0} : i \notin timingSD.switchF /\ i \notin timingSD.switchS
    BY <2>3
  <2>5. PixelInv
    BY <2>1, <2>2 DEF PixelInv
  <2>6. TimingInv
    BY <2>1, <2>3, <2>4 DEF TimingInv
  <2> QED
    BY <2>5, <2>6
<1>2. RulesInv /\ PixelInv /\ TimingInv /\ [StepsNext]_stepVars => PixelInv' /\ TimingInv'
  <2> SUFFICES ASSUME RulesInv, PixelInv, TimingInv, [StepsNext]_stepVars PROVE PixelInv' /\ TimingInv'
    OBVIOUS
  <2>1. CASE BeginG4Event
    BY <2>1, BeginKeepsPixels, BeginKeepsTiming
  <2>2. CASE TakeStep
    BY <2>2, TakeKeepsPixels, TakeKeepsTiming
  <2>3. CASE EndG4Event
    BY <2>3, EndKeepsPixels, EndKeepsTiming
  <2>4. CASE G4EventThrows
    <3>1. /\ g4Phase' = "idle" /\ thrown' = TRUE /\ pixelSD' = pixelSD
      BY <2>4 DEF G4EventThrows, sdVars
    <3>2. TimingInv'
      BY <3>1, Zenon DEF TimingInv
    <3>3. PixelInv'
      BY <3>1 DEF PixelInv
    <3> QED
      BY <3>2, <3>3
  <2>5. CASE StartTrack \/ UNCHANGED stepVars
    <3>1. /\ g4Phase' = g4Phase /\ thrown' = thrown /\ history' = history
          /\ pixelSD' = pixelSD /\ timingSD' = timingSD
      BY <2>5 DEF StartTrack, stepVars, sdVars
    <3>2. PixelInv'
      BY <3>1 DEF PixelInv
    <3>3. TimingInv'
      BY <3>1, Zenon DEF TimingInv
    <3> QED
      BY <3>2, <3>3
  <2> QED
    BY <2>1, <2>2, <2>3, <2>4, <2>5 DEF StepsNext
<1>3. RulesInv /\ PixelInv /\ TimingInv => HitsAreDeposits
  BY PixelInvSays, TimingInvSays DEF RulesInv, HitsAreDeposits
<1> QED
  BY <1>1, <1>2, <1>3, RulesInvariant, PTL

-----------------------------------------------------------------------------
(* Fast simulation.                                                          *)

\* The spots of a shower among the first n that are hits, and what is expected of
\* them: the energies of the hits, and what a watcher sees.
HitSpots(model, spots, n) == {k \in 1 .. n : spots[k].region = model.region /\ spots[k].sensitive}

IsHitSpot(model, spot) == spot.region = model.region /\ spot.sensitive

EnergyAt(model, spot) == IF model.kind = "EM" THEN spot.energy ELSE SampledEnergy(spot)

EnergyBefore(model, spots, n, before) ==
  IF HitSpots(model, spots, n) = {} THEN before ELSE spots[Max(HitSpots(model, spots, n))].energy

Seen(model, spots, k, before) ==
  IF model.kind = "Hadron" THEN spots[k].energy ELSE EnergyBefore(model, spots, k - 1, before)

Made == [energy : Nat, watched : Seq(Nat), hits : Seq(Nat)]

IsShower(model, spots) ==
  /\ model.kind \in {"EM", "Hadron"}
  /\ spots \in Seq(Range(spots)) /\ \A spot \in Range(spots) : spot.energy \in Nat

HitsSoFar(model, spots, n, hits) ==
  /\ Len(hits) = Cardinality(HitSpots(model, spots, n))
  /\ \A k \in HitSpots(model, spots, n) :
       hits[Cardinality(HitSpots(model, spots, k - 1)) + 1] = EnergyAt(model, spots[k])

WatchedSoFar(model, spots, n, before, watched) ==
  IF ~physicsJob.watcherOn THEN watched = <<>>
  ELSE Len(watched) = n /\ \A k \in 1 .. n : watched[k] = Seen(model, spots, k, before)

ShowerOK(model, spots, before, n, made) ==
  /\ made \in Made
  /\ HitsSoFar(model, spots, n, made.hits)
  /\ WatchedSoFar(model, spots, n, before, made.watched)
  /\ model.kind = "EM" => made.energy = EnergyBefore(model, spots, n, before)

LEMMA HitSpotsFinite ==
  ASSUME NEW model, NEW spots, NEW n \in Nat
  PROVE  IsFiniteSet(HitSpots(model, spots, n)) /\ Cardinality(HitSpots(model, spots, n)) \in Nat
<1>1. IsFiniteSet(1 .. n)
  BY FS_Interval
<1>2. HitSpots(model, spots, n) \subseteq 1 .. n
  BY DEF HitSpots
<1>3. IsFiniteSet(HitSpots(model, spots, n))
  BY <1>1, <1>2, FS_Subset
<1> QED
  BY <1>3, FS_CardinalityType

LEMMA HitSpotsGrow ==
  ASSUME NEW model, NEW spots, NEW n \in Nat \ {0}
  PROVE  /\ IsHitSpot(model, spots[n]) =>
              /\ HitSpots(model, spots, n) = HitSpots(model, spots, n - 1) \cup {n}
              /\ Cardinality(HitSpots(model, spots, n)) = Cardinality(HitSpots(model, spots, n - 1)) + 1
              /\ Max(HitSpots(model, spots, n)) = n
         /\ ~IsHitSpot(model, spots[n]) => HitSpots(model, spots, n) = HitSpots(model, spots, n - 1)
<1> DEFINE S == HitSpots(model, spots, n)
           T == HitSpots(model, spots, n - 1)
<1>1. n - 1 \in Nat /\ (\A k \in 1 .. n : k \in 1 .. n - 1 \/ k = n) /\ n \notin 1 .. n - 1 /\ n \in 1 .. n
      /\ \A k \in 1 .. n - 1 : k \in 1 .. n /\ k <= n
  OBVIOUS
<1>2. ~IsHitSpot(model, spots[n]) => S = T
  BY <1>1 DEF HitSpots, IsHitSpot
<1>3. ASSUME IsHitSpot(model, spots[n])
      PROVE  S = T \cup {n} /\ Cardinality(S) = Cardinality(T) + 1 /\ Max(S) = n
  <2>1. S = T \cup {n}
    BY <1>1, <1>3 DEF HitSpots, IsHitSpot
  <2>2. n \notin T /\ \A k \in T : k <= n /\ k \in Int
    BY <1>1 DEF HitSpots
  <2>3. IsFiniteSet(T) /\ Cardinality(T) \in Nat
    BY <1>1, HitSpotsFinite
  <2> HIDE DEF S, T
  <2>4. Cardinality(T \cup {n}) = Cardinality(T) + 1
    BY <2>2, <2>3, FS_AddElement
  <2>5. n \in S /\ \A k \in S : n >= k /\ k \in Int
    BY <2>1, <2>2
  <2>6. Max(S) \in S /\ \A k \in S : Max(S) >= k
    <3>1. \E m \in S : \A k \in S : m >= k
      BY <2>5
    <3> QED
      BY <3>1, Zenon DEF Max
  <2>7. Max(S) = n
    <3>1. Max(S) \in Int /\ n >= Max(S) /\ Max(S) >= n
      BY <2>5, <2>6, Zenon
    <3> HIDE DEF Max
    <3> QED
      BY <3>1
  <2> QED
    BY <2>1, <2>4, <2>7
<1> QED
  BY <1>2, <1>3

LEMMA SampledIsNat ==
  ASSUME NEW spot, spot.energy \in Nat
  PROVE  SampledEnergy(spot) \in Nat
<1>1. CASE spot.name \in DOMAIN Scale
  <2>1. Scale[spot.name] \in Nat
    BY <1>1, FastSimulationAssumption
  <2>2. spot.energy * Scale[spot.name] \in Nat
    BY <2>1
  <2> QED
    BY <1>1, <2>2 DEF SampledEnergy
<1>2. CASE spot.name \notin DOMAIN Scale
  BY <1>2 DEF SampledEnergy
<1> QED
  BY <1>1, <1>2

\* What one spot does to what was made so far.
LEMMA MakeHitsIs ==
  ASSUME NEW model, model.kind \in {"EM", "Hadron"}, NEW made \in Made, NEW spot, spot.energy \in Nat
  PROVE  LET new == MakeHits(model, made, spot) IN
         /\ new \in Made
         /\ new.hits = IF IsHitSpot(model, spot) THEN Append(made.hits, EnergyAt(model, spot)) ELSE made.hits
         /\ new.watched = IF physicsJob.watcherOn
                          THEN Append(made.watched, IF model.kind = "EM" THEN made.energy ELSE spot.energy)
                          ELSE made.watched
         /\ model.kind = "EM" => new.energy = IF IsHitSpot(model, spot) THEN spot.energy ELSE made.energy
<1> DEFINE e == EnergyAt(model, spot)
           w == IF model.kind = "EM" THEN made.energy ELSE spot.energy
           hit == IsHitSpot(model, spot)
           energy == IF hit THEN e ELSE IF model.kind = "Hadron" /\ physicsJob.watcherOn THEN spot.energy ELSE made.energy
           watched == IF physicsJob.watcherOn THEN Append(made.watched, w) ELSE made.watched
           hits == IF hit THEN Append(made.hits, e) ELSE made.hits
<1>1. e \in Nat /\ w \in Nat /\ made.energy \in Nat /\ made.watched \in Seq(Nat) /\ made.hits \in Seq(Nat)
  BY SampledIsNat DEF EnergyAt, Made
<1>2. MakeHits(model, made, spot) = [energy |-> energy, watched |-> watched, hits |-> hits]
  <2>1. CASE model.kind = "EM"
    BY <2>1 DEF MakeHits, EMSpot, EnergyAt, IsHitSpot
  <2>2. CASE model.kind = "Hadron"
    BY <2>2 DEF MakeHits, HadronSpot, EnergyAt, IsHitSpot
  <2> QED
    BY <2>1, <2>2
<1> HIDE DEF e, w
<1>3. energy \in Nat /\ watched \in Seq(Nat) /\ hits \in Seq(Nat)
  BY <1>1
<1>4. model.kind = "EM" => energy = IF hit THEN spot.energy ELSE made.energy
  BY DEF e, EnergyAt
<1> QED
  BY <1>2, <1>3, <1>4 DEF Made, e, w

LEMMA SpotKeeps ==
  ASSUME NEW model, NEW spots, IsShower(model, spots), NEW before \in Nat,
         NEW n \in 1 .. Len(spots), NEW made, ShowerOK(model, spots, before, n - 1, made)
  PROVE  ShowerOK(model, spots, before, n, MakeHits(model, made, spots[n]))
<1> DEFINE spot == spots[n]
           hit == IsHitSpot(model, spot)
           new == MakeHits(model, made, spot)
           S == HitSpots(model, spots, n)
           T == HitSpots(model, spots, n - 1)
<1>1. n \in Nat \ {0} /\ n - 1 \in Nat /\ n \in 1 .. n
  <2>1. Len(spots) \in Nat
    BY DEF IsShower
  <2> QED
    BY <2>1
<1>2. spot.energy \in Nat /\ model.kind \in {"EM", "Hadron"}
  <2>1. n \in DOMAIN spots
    BY DEF IsShower
  <2>2. spot \in Range(spots)
    BY <2>1 DEF Range
  <2> QED
    BY <2>2 DEF IsShower
<1>3. made \in Made /\ HitsSoFar(model, spots, n - 1, made.hits)
      /\ WatchedSoFar(model, spots, n - 1, before, made.watched)
      /\ (model.kind = "EM" => made.energy = EnergyBefore(model, spots, n - 1, before))
  BY DEF ShowerOK
<1>4. /\ new \in Made
      /\ new.hits = IF hit THEN Append(made.hits, EnergyAt(model, spot)) ELSE made.hits
      /\ new.watched = IF physicsJob.watcherOn
                       THEN Append(made.watched, IF model.kind = "EM" THEN made.energy ELSE spot.energy)
                       ELSE made.watched
      /\ model.kind = "EM" => new.energy = IF hit THEN spot.energy ELSE made.energy
  <2> HIDE DEF spot
  <2> QED
    BY <1>2, <1>3, MakeHitsIs
<1>5. /\ hit => S = T \cup {n} /\ Cardinality(S) = Cardinality(T) + 1 /\ Max(S) = n
      /\ ~hit => S = T
  BY <1>1, HitSpotsGrow
<1>6. made.hits \in Seq(Nat) /\ made.watched \in Seq(Nat)
  BY <1>3 DEF Made
<1>7. HitsSoFar(model, spots, n, new.hits)
  <2>1. CASE ~hit
    BY <1>3, <1>4, <1>5, <2>1 DEF HitsSoFar
  <2>2. CASE hit
    <3> DEFINE e == EnergyAt(model, spot)
               hits == made.hits
    <3>1. Len(hits) = Cardinality(T) /\ Cardinality(S) = Cardinality(T) + 1 /\ S = T \cup {n}
      BY <1>3, <1>5, <2>2 DEF HitsSoFar
    <3>2. hits \in Seq(Nat) /\ new.hits = Append(hits, e)
      BY <1>4, <1>6, <2>2
    <3>3. ASSUME NEW k \in T
          PROVE  hits[Cardinality(HitSpots(model, spots, k - 1)) + 1] = EnergyAt(model, spots[k])
                 /\ Cardinality(HitSpots(model, spots, k - 1)) + 1 \in 1 .. Len(hits)
      <4>1. k \in 1 .. n - 1 /\ k \in Nat \ {0} /\ k - 1 \in Nat /\ IsHitSpot(model, spots[k])
        BY <1>1 DEF HitSpots, IsHitSpot
      <4>2. HitSpots(model, spots, k) \subseteq T /\ Cardinality(HitSpots(model, spots, k)) = Cardinality(HitSpots(model, spots, k - 1)) + 1
        <5>1. \A j \in 1 .. k : j \in 1 .. n - 1
          BY <4>1, <1>1
        <5>2. HitSpots(model, spots, k) \subseteq T
          BY <5>1 DEF HitSpots
        <5> QED
          BY <4>1, <5>2, HitSpotsGrow
      <4>3. IsFiniteSet(T) /\ Cardinality(T) \in Nat
        BY <1>1, HitSpotsFinite
      <4>4. Cardinality(HitSpots(model, spots, k)) <= Cardinality(T)
        <5> HIDE DEF T
        <5> QED
          BY <4>2, <4>3, FS_Subset
      <4>5. Cardinality(HitSpots(model, spots, k - 1)) \in Nat
        BY <4>1, HitSpotsFinite
      <4>6. Cardinality(HitSpots(model, spots, k - 1)) + 1 \in 1 .. Len(hits)
        BY <3>1, <4>2, <4>3, <4>4, <4>5
      <4> QED
        BY <1>3, <4>6 DEF HitsSoFar
    <3>4. Cardinality(T) \in Nat
      BY <1>1, HitSpotsFinite
    <3>5. ASSUME NEW k \in S
          PROVE  Append(hits, e)[Cardinality(HitSpots(model, spots, k - 1)) + 1] = EnergyAt(model, spots[k])
      <4> HIDE DEF T, S, hits, e
      <4>1. CASE k \in T
        <5> DEFINE c == Cardinality(HitSpots(model, spots, k - 1)) + 1
        <5>1. c \in 1 .. Len(hits) /\ hits[c] = EnergyAt(model, spots[k])
          BY <3>3, <4>1
        <5> HIDE DEF c
        <5>2. Append(hits, e)[c] = hits[c]
          BY <3>2, <5>1
        <5> QED
          BY <5>1, <5>2 DEF c
      <4>2. CASE k = n
        <5>1. Cardinality(HitSpots(model, spots, k - 1)) + 1 = Len(hits) + 1
          BY <3>1, <4>2 DEF T
        <5>2. Append(hits, e)[Len(hits) + 1] = e
          BY <3>2
        <5>3. e = EnergyAt(model, spots[k])
          BY <4>2 DEF e
        <5> QED
          BY <5>1, <5>2, <5>3
      <4> QED
        BY <3>1, <4>1, <4>2
    <3>6. Len(Append(hits, e)) = Cardinality(S)
      <4>1. hits \in Seq(Nat)
        BY <3>2
      <4> HIDE DEF T, S, hits, e
      <4>2. Len(Append(hits, e)) = Len(hits) + 1
        BY <4>1
      <4> QED
        BY <3>1, <4>2
    <3> QED
      BY <3>2, <3>5, <3>6 DEF HitsSoFar
  <2> QED
    BY <2>1, <2>2
<1>8. WatchedSoFar(model, spots, n, before, new.watched)
  <2>1. CASE ~physicsJob.watcherOn
    BY <1>3, <1>4, <2>1 DEF WatchedSoFar
  <2>2. CASE physicsJob.watcherOn
    <3> DEFINE watched == made.watched
               w == IF model.kind = "EM" THEN made.energy ELSE spot.energy
    <3>1. new.watched = Append(watched, w) /\ watched \in Seq(Nat)
      BY <1>4, <1>6, <2>2
    <3>2. Len(watched) = n - 1 /\ \A k \in 1 .. n - 1 : watched[k] = Seen(model, spots, k, before)
      BY <1>3, <2>2 DEF WatchedSoFar
    <3>3. w = Seen(model, spots, n, before)
      BY <1>2, <1>3 DEF Seen
    <3> HIDE DEF watched, w, new
    <3>4. Len(Append(watched, w)) = n /\ (\A k \in 1 .. n - 1 : Append(watched, w)[k] = watched[k])
          /\ Append(watched, w)[n] = w
      BY <1>1, <3>1, <3>2
    <3>5. \A k \in 1 .. n : k \in 1 .. n - 1 \/ k = n
      BY <1>1
    <3>6. \A k \in 1 .. n : Append(watched, w)[k] = Seen(model, spots, k, before)
      BY <3>2, <3>3, <3>4, <3>5
    <3> QED
      BY <2>2, <3>1, <3>4, <3>6 DEF WatchedSoFar
  <2> QED
    BY <2>1, <2>2
<1>9. ASSUME model.kind = "EM" PROVE new.energy = EnergyBefore(model, spots, n, before)
  <2>1. CASE hit
    <3>1. S # {} /\ spots[Max(S)].energy = spot.energy
      BY <1>5, <2>1
    <3> HIDE DEF new, spot
    <3> QED
      BY <1>4, <1>9, <2>1, <3>1 DEF EnergyBefore
  <2>2. CASE ~hit
    BY <1>3, <1>4, <1>5, <1>9, <2>2 DEF EnergyBefore
  <2> QED
    BY <2>1, <2>2
<1> HIDE DEF new
<1>10. ShowerOK(model, spots, before, n, new)
  BY <1>4, <1>7, <1>8, <1>9 DEF ShowerOK
<1> QED
  BY <1>10 DEF new

\* A shower is what its spots make it, one after another.
LEMMA ShowerIs ==
  ASSUME NEW model, NEW spots, IsShower(model, spots), NEW before \in Nat
  PROVE  ShowerOK(model, spots, before, Len(spots), Shower(model, spots, before))
<1> DEFINE L == Len(spots)
           base == [energy |-> before, watched |-> <<>>, hits |-> <<>>]
           F == CHOOSE f : f = [n \in 0 .. L |-> IF n = 0 THEN base ELSE MakeHits(model, f[n - 1], spots[n])]
           step == [x \in (1 .. L) \X Made |-> MakeHits(model, x[2], spots[x[1]])]
<1>1. L \in Nat /\ base \in Made
  BY DEF IsShower, Made
<1>2. Shower(model, spots, before) = F[L]
  BY Zenon DEF Shower
<1>3. step \in [(1 .. L) \X Made -> Made]
  <2>1. ASSUME NEW x \in (1 .. L) \X Made PROVE MakeHits(model, x[2], spots[x[1]]) \in Made
    <3>1. x[1] \in 1 .. L /\ x[2] \in Made
      OBVIOUS
    <3>2. x[1] \in DOMAIN spots
      BY <3>1 DEF IsShower
    <3>3. spots[x[1]] \in Range(spots)
      BY <3>2 DEF Range
    <3>4. spots[x[1]].energy \in Nat /\ model.kind \in {"EM", "Hadron"}
      BY <3>3 DEF IsShower
    <3> QED
      BY <3>1, <3>4, MakeHitsIs
  <2> QED
    BY <2>1
<1>4. PICK f \in [0 .. L -> Made] : f[0] = base /\ \A n \in 1 .. L : f[n] = step[<<n, f[n - 1]>>]
  <2> HIDE DEF L, base, step
  <2>1. Recurses(L, Made, base, step)
    BY <1>1, <1>3, RecursionExists
  <2> QED
    BY <2>1 DEF Recurses
<1>5. ASSUME NEW n \in 1 .. L PROVE f[n] = MakeHits(model, f[n - 1], spots[n]) /\ n - 1 \in 0 .. L /\ n # 0
  <2>1. n - 1 \in 0 .. L /\ n # 0
    BY <1>1
  <2>2. f[n - 1] \in Made
    BY <1>4, <2>1
  <2>3. <<n, f[n - 1]>> \in (1 .. L) \X Made
    BY <2>2
  <2> QED
    BY <1>4, <2>1, <2>3
<1>6. f = [n \in 0 .. L |-> IF n = 0 THEN base ELSE MakeHits(model, f[n - 1], spots[n])]
  <2>1. \A n \in 0 .. L : f[n] = IF n = 0 THEN base ELSE MakeHits(model, f[n - 1], spots[n])
    <3>1. \A n \in 0 .. L : n = 0 \/ n \in 1 .. L
      BY <1>1
    <3> HIDE DEF L, base
    <3> QED
      BY <1>4, <1>5, <3>1
  <2> HIDE DEF L, base
  <2> QED
    BY <1>4, <2>1
<1>7. F = [n \in 0 .. L |-> IF n = 0 THEN base ELSE MakeHits(model, F[n - 1], spots[n])]
  <2> HIDE DEF L, base
  <2> QED
    BY <1>6, Zenon
<1> HIDE DEF F
<1>8. F[0] = base /\ \A n \in 1 .. L : F[n] = MakeHits(model, F[n - 1], spots[n])
  <2>1. 0 \in 0 .. L /\ \A n \in 1 .. L : n \in 0 .. L /\ n # 0
    BY <1>1
  <2> HIDE DEF L, base
  <2> QED
    BY <1>7, <2>1
<1> DEFINE A == {n \in 0 .. L : ShowerOK(model, spots, before, n, F[n])}
<1>9. 0 \in A
  <2>1. HitSpots(model, spots, 0) = {}
    BY DEF HitSpots
  <2>2. Cardinality(HitSpots(model, spots, 0)) = 0
    BY <2>1, FS_EmptySet
  <2>3. ShowerOK(model, spots, before, 0, base)
    BY <1>1, <2>1, <2>2 DEF ShowerOK, HitsSoFar, WatchedSoFar, EnergyBefore
  <2>4. 0 \in 0 .. L
    BY <1>1
  <2> HIDE DEF base, L
  <2> QED
    BY <1>8, <2>3, <2>4
<1>10. ASSUME NEW n \in 1 .. L, n - 1 \in A PROVE n \in A
  <2>1. ShowerOK(model, spots, before, n - 1, F[n - 1]) /\ n \in 0 .. L
    BY <1>1, <1>10
  <2>2. ShowerOK(model, spots, before, n, MakeHits(model, F[n - 1], spots[n]))
    BY <2>1, SpotKeeps
  <2> QED
    BY <1>8, <2>1, <2>2
<1>11. L \in A
  <2> HIDE DEF A, L
  <2>1. \A n \in 0 .. L : n \in A
    BY <1>1, <1>9, <1>10, CountUp
  <2>2. L \in 0 .. L
    BY <1>1
  <2> QED
    BY <2>1, <2>2
<1> QED
  BY <1>2, <1>11

\* What is registered when the processes are, and which particle's ranges the
\* limiter reads.
PhysicsOK ==
  /\ physicsJob \in PhysicsJobs
  /\ DOMAIN emPhysics = {"phase", "fast", "biased", "limited", "tables"}
  /\ emPhysics.phase \in {"processes", "built"} =>
       /\ emPhysics.limited \subseteq Leptons
       /\ "positron" \in emPhysics.limited => physicsJob.pLimiter
  /\ emPhysics.phase = "built" /\ emPhysics.limited # {} => emPhysics.tables \in emPhysics.limited
  /\ emPhysics.phase # "built" => fast = NoFastStep

FastInv == PhysicsOK /\ gflashStep \in [Models(physicsJob) -> Nat] /\ FastSimulationIsAsAsked

LEMMA NothingSimulated ==
  /\ fast = NoFastStep => FastSimulationIsAsAsked
  /\ fast' = NoFastStep => FastSimulationIsAsAsked'
BY DEF NoFastStep, FastSimulationIsAsAsked, ShowersAreHits, LimitersAreAsked

\* ShowersAreHits of a step.
Shows(step, watcherOn) ==
  step.fate = "showered" =>
    LET kind == step.model.kind
        spots == step.spots
        Hits == {k \in DOMAIN spots : spots[k].region = step.model.region /\ spots[k].sensitive}
        EnergyOfHit(k) == IF kind = "EM" THEN spots[k].energy ELSE SampledEnergy(spots[k])
        HitsBefore(k) == {h \in Hits : h < k}
    IN  /\ step.track.region = step.model.region /\ ~step.track.boundary
        /\ Len(step.hits) = Cardinality(Hits)
        /\ \A k \in Hits : step.hits[Cardinality(HitsBefore(k)) + 1] = EnergyOfHit(k)
        /\ IF ~watcherOn THEN step.watched = <<>>
           ELSE /\ DOMAIN step.watched = DOMAIN spots
                /\ \A k \in DOMAIN spots :
                     step.watched[k] =
                       IF kind = "Hadron" THEN spots[k].energy
                       ELSE IF HitsBefore(k) = {} THEN step.before
                       ELSE spots[Max(HitsBefore(k))].energy

LEMMA ShowersShow ==
  /\ ShowersAreHits <=> Shows(fast, physicsJob.watcherOn)
  /\ ShowersAreHits' <=> Shows(fast', physicsJob'.watcherOn)
<1>1. ShowersAreHits <=> Shows(fast, physicsJob.watcherOn)
  BY Zenon DEF ShowersAreHits, Shows
<1>2. ShowersAreHits' <=> Shows(fast', physicsJob'.watcherOn)
  BY Zenon DEF ShowersAreHits, Shows, SampledEnergy
<1> QED
  BY <1>1, <1>2

LEMMA ConstructKeeps == ASSUME FastInv, ConstructProcess PROVE FastInv'
<1>1. /\ PhysicsOK /\ emPhysics.phase = "new" /\ UNCHANGED <<physicsJob, gflashStep, fast>>
      /\ gflashStep \in [Models(physicsJob) -> Nat]
  BY DEF FastInv, ConstructProcess
<1>2. fast = NoFastStep
  BY <1>1 DEF PhysicsOK
<1>3. FastSimulationIsAsAsked'
  BY <1>1, <1>2, NothingSimulated
<1>4. /\ DOMAIN emPhysics' = DOMAIN emPhysics
      /\ emPhysics'.phase \in {"crashed", "processes"}
      /\ emPhysics'.limited = (IF HasElectronLimiter(physicsJob) THEN {"electron"} ELSE {})
                                \cup (IF physicsJob.pLimiter THEN {"positron"} ELSE {})
  BY <1>1 DEF PhysicsOK, ConstructProcess
<1>5. emPhysics'.limited \subseteq Leptons /\ ("positron" \in emPhysics'.limited => physicsJob.pLimiter)
  BY <1>4 DEF Leptons
<1>6. PhysicsOK'
  BY <1>1, <1>2, <1>4, <1>5 DEF PhysicsOK
<1> QED
  BY <1>1, <1>3, <1>6 DEF FastInv, Models

LEMMA TablesKeep == ASSUME FastInv, BuildPhysicsTable PROVE FastInv'
<1>1. /\ PhysicsOK /\ emPhysics.phase = "processes" /\ UNCHANGED <<physicsJob, gflashStep, fast>>
      /\ gflashStep \in [Models(physicsJob) -> Nat]
  BY DEF FastInv, BuildPhysicsTable
<1>2. fast = NoFastStep
  BY <1>1 DEF PhysicsOK
<1>3. FastSimulationIsAsAsked'
  BY <1>1, <1>2, NothingSimulated
<1>4. PICK pdg \in IF emPhysics.limited = {} THEN {"none"} ELSE emPhysics.limited :
        emPhysics' = [emPhysics EXCEPT !.phase = "built", !.tables = pdg]
  BY DEF BuildPhysicsTable
<1>5. /\ DOMAIN emPhysics' = DOMAIN emPhysics /\ emPhysics'.phase = "built"
      /\ emPhysics'.limited = emPhysics.limited /\ emPhysics'.tables = pdg
  BY <1>1, <1>4 DEF PhysicsOK
<1>6. emPhysics.limited # {} => pdg \in emPhysics.limited
  BY <1>4
<1>7. PhysicsOK'
  BY <1>1, <1>5, <1>6 DEF PhysicsOK
<1> QED
  BY <1>1, <1>3, <1>7 DEF FastInv, Models

LEMMA ModelsAreKnown ==
  ASSUME physicsJob \in PhysicsJobs, NEW model \in Models(physicsJob), NEW spots \in Profiles
  PROVE  IsShower(model, spots)
<1>1. model \in physicsJob.gflash
  BY DEF Models
<1> QED
  BY <1>1, FastSimulationAssumption DEF IsShower

\* What a shower that its model was triggered for leaves.
LEMMA DoItShows ==
  ASSUME FastInv, NEW t, NEW model \in Models(physicsJob), ModelTrigger(model, t), DoIt(model, t),
         UNCHANGED <<physicsJob, emPhysics>>
  PROVE  ShowersAreHits' /\ fast'.fate = "showered" /\ gflashStep' \in [Models(physicsJob) -> Nat]
<1>1. PICK spots \in Profiles :
        /\ gflashStep' = [gflashStep EXCEPT ![model] = Shower(model, spots, gflashStep[model]).energy]
        /\ fast' = [count |-> fast.count + 1, fate |-> "showered", track |-> t, model |-> model,
                    spots |-> spots, before |-> gflashStep[model],
                    watched |-> Shower(model, spots, gflashStep[model]).watched,
                    hits |-> Shower(model, spots, gflashStep[model]).hits]
  BY Zenon DEF DoIt
<1> DEFINE before == gflashStep[model]
           made == Shower(model, spots, before)
           L == Len(spots)
<1>2. gflashStep \in [Models(physicsJob) -> Nat] /\ before \in Nat /\ physicsJob \in PhysicsJobs
  BY DEF FastInv, PhysicsOK
<1>3. IsShower(model, spots)
  BY <1>2, ModelsAreKnown
<1>4. ShowerOK(model, spots, before, L, made)
  BY <1>2, <1>3, ShowerIs
<1>5. /\ fast'.fate = "showered" /\ fast'.track = t /\ fast'.model = model /\ fast'.spots = spots
      /\ fast'.before = before /\ fast'.watched = made.watched /\ fast'.hits = made.hits
  BY <1>1
<1>6. L \in Nat /\ DOMAIN spots = 1 .. L /\ model.kind \in {"EM", "Hadron"}
  BY <1>3 DEF IsShower
<1>7. made \in Made /\ HitsSoFar(model, spots, L, made.hits) /\ WatchedSoFar(model, spots, L, before, made.watched)
  BY <1>4 DEF ShowerOK
<1>8. made.energy \in Nat /\ made.hits \in Seq(Nat) /\ made.watched \in Seq(Nat)
  BY <1>7 DEF Made
<1>9. gflashStep' \in [Models(physicsJob) -> Nat]
  <2> HIDE DEF made
  <2> QED
    BY <1>1, <1>2, <1>8 DEF made
<1>10. t.region = model.region /\ ~t.boundary
  BY DEF ModelTrigger, EMTrigger, HadronTrigger, Excluded
<1> DEFINE Hits == {k \in DOMAIN spots : spots[k].region = model.region /\ spots[k].sensitive}
           HitsBefore(k) == {h \in Hits : h < k}
<1>11. Hits = HitSpots(model, spots, L)
  BY <1>6 DEF HitSpots
<1>12. ASSUME NEW k \in 1 .. L PROVE HitsBefore(k) = HitSpots(model, spots, k - 1)
  <2>1. \A h \in 1 .. L : h < k <=> h \in 1 .. k - 1
    BY <1>6
  <2>2. \A h \in 1 .. k - 1 : h \in 1 .. L
    BY <1>6
  <2> QED
    BY <1>11, <2>1, <2>2 DEF HitSpots
<1>13. Len(made.hits) = Cardinality(Hits)
       /\ \A k \in Hits : made.hits[Cardinality(HitsBefore(k)) + 1] = EnergyAt(model, spots[k])
  <2>1. \A k \in Hits : k \in 1 .. L
    BY <1>6
  <2> HIDE DEF Hits, made
  <2> QED
    BY <1>7, <1>11, <1>12, <2>1, Zenon DEF HitsSoFar
<1>14. IF ~physicsJob.watcherOn THEN made.watched = <<>>
       ELSE /\ DOMAIN made.watched = DOMAIN spots
            /\ \A k \in DOMAIN spots :
                 made.watched[k] = IF model.kind = "Hadron" THEN spots[k].energy
                                   ELSE IF HitsBefore(k) = {} THEN before
                                   ELSE spots[Max(HitsBefore(k))].energy
  <2>1. CASE ~physicsJob.watcherOn
    BY <1>7, <2>1 DEF WatchedSoFar
  <2>2. CASE physicsJob.watcherOn
    <3>1. Len(made.watched) = L /\ \A k \in 1 .. L : made.watched[k] = Seen(model, spots, k, before)
      BY <1>7, <2>2 DEF WatchedSoFar
    <3>2. DOMAIN made.watched = DOMAIN spots
      <4> HIDE DEF made, L
      <4> QED
        BY <1>6, <1>8, <3>1
    <3>3. ASSUME NEW k \in 1 .. L
          PROVE  made.watched[k] = IF model.kind = "Hadron" THEN spots[k].energy
                                   ELSE IF HitsBefore(k) = {} THEN before
                                   ELSE spots[Max(HitsBefore(k))].energy
      <4>1. HitsBefore(k) = HitSpots(model, spots, k - 1)
        BY <1>12
      <4>2. made.watched[k] = Seen(model, spots, k, before)
        BY <3>1
      <4> HIDE DEF made, before, HitsBefore
      <4> QED
        BY <4>1, <4>2 DEF Seen, EnergyBefore
    <3> HIDE DEF made, L, HitsBefore, before
    <3> QED
      BY <1>6, <2>2, <3>2, <3>3
  <2> QED
    BY <2>1, <2>2
<1>15. physicsJob' = physicsJob
  OBVIOUS
<1>16. ShowersAreHits'
  <2>1. \A k \in Hits : made.hits[Cardinality(HitsBefore(k)) + 1] = IF model.kind = "EM" THEN spots[k].energy ELSE SampledEnergy(spots[k])
    BY <1>13 DEF EnergyAt
  <2> HIDE DEF made, before
  <2> HIDE DEF Hits, HitsBefore
  <2>4. Shows(fast', physicsJob.watcherOn)
    <3> DEFINE f == fast'
               hitsF == {k \in DOMAIN f.spots : f.spots[k].region = f.model.region /\ f.spots[k].sensitive}
               beforeF(k) == {h \in hitsF : h < k}
    <3> HIDE DEF f
    <3>1. /\ f.track = t /\ f.model = model /\ f.spots = spots
          /\ f.before = before /\ f.watched = made.watched /\ f.hits = made.hits
      BY <1>5 DEF f
    <3>2. hitsF = Hits
      BY <3>1 DEF Hits
    <3> HIDE DEF hitsF
    <3>3. \A k : beforeF(k) = HitsBefore(k)
      BY <3>2 DEF HitsBefore
    <3> HIDE DEF beforeF
    <3>4. /\ f.track.region = f.model.region /\ ~f.track.boundary
          /\ Len(f.hits) = Cardinality(hitsF)
      BY <1>10, <1>13, <3>1, <3>2
    <3>5. \A k \in hitsF : f.hits[Cardinality(beforeF(k)) + 1]
                             = IF f.model.kind = "EM" THEN f.spots[k].energy ELSE SampledEnergy(f.spots[k])
      BY <2>1, <3>1, <3>2, <3>3
    <3>6. IF ~physicsJob.watcherOn THEN f.watched = <<>>
          ELSE /\ DOMAIN f.watched = DOMAIN f.spots
               /\ \A k \in DOMAIN f.spots :
                    f.watched[k] = IF f.model.kind = "Hadron" THEN f.spots[k].energy
                                   ELSE IF beforeF(k) = {} THEN f.before
                                   ELSE f.spots[Max(beforeF(k))].energy
      BY <1>14, <3>1, <3>3
    <3>7. Shows(f, physicsJob.watcherOn)
      BY <3>4, <3>5, <3>6, Zenon DEF Shows, hitsF, beforeF
    <3> QED
      BY <3>7 DEF f
  <2>3. ShowersAreHits'
    BY <1>15, <2>4, ShowersShow
  <2> QED
    BY <2>3
<1> QED
  BY <1>5, <1>9, <1>16

\* What a step without a shower leaves.
LEMMA LimitsAreKept ==
  ASSUME PhysicsOK, emPhysics.phase = "built", NEW t, \A model \in Models(physicsJob) : ~ModelTrigger(model, t),
         fast' = [count |-> fast.count + 1, fate |-> LimitedStep(t).fate, track |-> t, step |-> LimitedStep(t).step],
         UNCHANGED <<physicsJob, emPhysics>>
  PROVE  LimitersAreAsked' /\ fast'.fate \in {"free", "killed", "limited"}
<1>1. fast'.fate = LimitedStep(t).fate /\ fast'.track = t /\ fast'.step = LimitedStep(t).step
  OBVIOUS
<1>2. MinStepLimit(physicsJob) <= 1
  BY DEF MinStepLimit
<1>3. LimitedStep(t).fate \in {"free", "killed", "limited"}
  BY DEF LimitedStep
<1>4. ASSUME LimitedStep(t).fate \in {"killed", "limited"}
      PROVE  /\ t.pdg \in emPhysics.limited
             /\ IF LimitedStep(t).fate = "killed"
                THEN physicsJob.rLimiter /\ t.safety >= t.range[emPhysics.tables]
                ELSE physicsJob.eLimiter /\ LimitedStep(t).step = MinStepLimit(physicsJob) /\ MinStepLimit(physicsJob) < t.step
  BY <1>4 DEF LimitedStep
<1>5. t.pdg \in emPhysics.limited => /\ t.pdg \in Leptons /\ emPhysics.tables \in Leptons
                                     /\ t.pdg = "positron" => physicsJob.pLimiter
  BY DEF PhysicsOK
<1>6. \A model \in Models(physicsJob)' : ~ModelTrigger(model, t)'
  BY DEF Models, ModelTrigger, EMTrigger, HadronTrigger
<1>7. ASSUME fast'.fate \in {"killed", "limited"}
      PROVE  /\ fast'.track.pdg \in Leptons
             /\ fast'.track.pdg = "positron" => physicsJob'.pLimiter
             /\ IF fast'.fate = "killed"
                THEN physicsJob'.rLimiter /\ \E pdg \in Leptons : fast'.track.safety >= fast'.track.range[pdg]
                ELSE physicsJob'.eLimiter /\ fast'.step <= 1 /\ fast'.step < fast'.track.step
             /\ \A model \in Models(physicsJob)' : ~ModelTrigger(model, fast.track)'
  <2>1. \A model \in Models(physicsJob)' : ~ModelTrigger(model, fast.track)'
    BY <1>1, <1>6 DEF Models, ModelTrigger, EMTrigger, HadronTrigger
  <2>2. physicsJob' = physicsJob
    OBVIOUS
  <2>3. LimitedStep(t).fate \in {"killed", "limited"}
    BY <1>1, <1>7
  <2>4. CASE LimitedStep(t).fate = "killed"
    BY <1>1, <1>4, <1>5, <2>1, <2>2, <2>3, <2>4
  <2>5. CASE LimitedStep(t).fate = "limited"
    <3>1. fast'.step <= 1 /\ fast'.step < fast'.track.step
      BY <1>1, <1>2, <1>4, <2>3, <2>5
    <3> QED
      BY <1>1, <1>4, <1>5, <2>1, <2>2, <2>3, <2>5, <3>1
  <2> QED
    BY <2>3, <2>4, <2>5
<1> QED
  BY <1>1, <1>3, <1>7 DEF LimitersAreAsked

LEMMA FastStepKeeps == ASSUME FastInv, FastStep PROVE FastInv'
<1>1. PhysicsOK /\ emPhysics.phase = "built" /\ UNCHANGED <<physicsJob, emPhysics>> /\ gflashStep \in [Models(physicsJob) -> Nat]
  BY DEF FastInv, FastStep
<1>2. PhysicsOK'
  BY <1>1 DEF PhysicsOK
<1>3. PICK t \in FastTracks :
        \/ \E model \in Models(physicsJob) : ModelTrigger(model, t) /\ DoIt(model, t)
        \/ /\ \A model \in Models(physicsJob) : ~ModelTrigger(model, t)
           /\ fast' = [count |-> fast.count + 1, fate |-> LimitedStep(t).fate, track |-> t,
                       step |-> LimitedStep(t).step]
           /\ UNCHANGED gflashStep
  BY DEF FastStep
<1>4. ShowersAreHits' /\ LimitersAreAsked' /\ gflashStep' \in [Models(physicsJob) -> Nat]
  <2>1. CASE \E model \in Models(physicsJob) : ModelTrigger(model, t) /\ DoIt(model, t)
    <3>1. ShowersAreHits' /\ fast'.fate = "showered" /\ gflashStep' \in [Models(physicsJob) -> Nat]
      BY <1>1, <2>1, DoItShows
    <3>2. LimitersAreAsked'
      BY <3>1 DEF LimitersAreAsked
    <3> QED
      BY <3>1, <3>2
  <2>2. CASE /\ \A model \in Models(physicsJob) : ~ModelTrigger(model, t)
             /\ fast' = [count |-> fast.count + 1, fate |-> LimitedStep(t).fate, track |-> t,
                         step |-> LimitedStep(t).step]
             /\ UNCHANGED gflashStep
    <3>1. LimitersAreAsked' /\ fast'.fate \in {"free", "killed", "limited"}
      BY <1>1, <2>2, LimitsAreKept
    <3>2. ShowersAreHits'
      BY <3>1 DEF ShowersAreHits
    <3> QED
      BY <1>1, <2>2, <3>1, <3>2
  <2> QED
    BY <1>3, <2>1, <2>2
<1> QED
  BY <1>1, <1>2, <1>4 DEF FastInv, FastSimulationIsAsAsked, Models

LEMMA FastStutters == ASSUME FastInv, UNCHANGED fastVars PROVE FastInv'
<1>1. PhysicsOK' /\ gflashStep' \in [Models(physicsJob)' -> Nat]
  BY DEF FastInv, PhysicsOK, fastVars, Models
<1>2. ShowersAreHits'
  <2>1. ShowersAreHits /\ fast' = fast /\ physicsJob' = physicsJob
    BY DEF FastInv, FastSimulationIsAsAsked, fastVars
  <2> QED
    BY <2>1, ShowersShow
<1>3. LimitersAreAsked'
  BY DEF FastInv, FastSimulationIsAsAsked, LimitersAreAsked, fastVars, Models, ModelTrigger, EMTrigger, HadronTrigger
<1> QED
  BY <1>1, <1>2, <1>3 DEF FastInv, FastSimulationIsAsAsked

\* Whatever the options of the job, the shower profiles and the tracks: a shower
\* makes one hit for each of its sensitive spots in its model's region, what the
\* watchers see is what the code hands them, and only those electrons and positrons
\* are limited or killed that the options ask for and no model takes.
THEOREM FastSimulation == FastInit /\ [][FastNext]_fastVars => []FastSimulationIsAsAsked
<1>1. FastInit => FastInv
  <2> SUFFICES ASSUME FastInit PROVE FastInv
    OBVIOUS
  <2>1. fast = NoFastStep /\ emPhysics = NewPhysics /\ physicsJob \in PhysicsJobs
        /\ gflashStep = [model \in Models(physicsJob) |-> 0]
    BY DEF FastInit
  <2>2. PhysicsOK
    BY <2>1 DEF PhysicsOK, NewPhysics
  <2>3. gflashStep \in [Models(physicsJob) -> Nat]
    BY <2>1
  <2> QED
    BY <2>1, <2>2, <2>3, NothingSimulated DEF FastInv
<1>2. FastInv /\ [FastNext]_fastVars => FastInv'
  BY ConstructKeeps, TablesKeep, FastStepKeeps, FastStutters DEF FastNext
<1>3. FastInv => FastSimulationIsAsAsked
  BY DEF FastInv
<1> QED
  BY <1>1, <1>2, <1>3, PTL

===============================================================================
