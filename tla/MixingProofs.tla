----------------------------- MODULE MixingProofs -----------------------------
(* Proofs about MixingModule, for any jobs: whatever the sources deliver, an   *)
(* event is piled up in the bunch and source it was read for, and a job that   *)
(* plays back finds the number of events of every bunch and source.  The       *)
(* argument is about the loop over bunches, sources and events: the offsets of *)
(* the crossing frame count its turns, and every event piled up so far lies    *)
(* between the offsets of its own turn and the next.                           *)
EXTENDS MixingModule, FiniteSetTheorems, TLAPS

Phases    == {"idle", "bunch", "source", "read"}
Width     == Len(config.sources)
Crossings(event) == config.signals[event].bunches.last - config.signals[event].bunches.first + 1
IsSeq(s)  == s \in Seq(Range(s))

\* The number of a turn (a bunch and a source) of an event.
Turn(first, width, bunch, source) == (bunch - first) * width + source

PlaceOK ==
  /\ config \in Jobs /\ pass \in {"mix", "playback", "done"}
  /\ at \in [event : Nat \ {0}, phase : Phases, bunch : Int, source : Nat, left : Nat, nr : Nat]
  /\ at.event <= Len(config.signals) + 1
  /\ at.phase # "idle" =>
       /\ pass # "done" /\ at.event <= Len(config.signals)
       /\ Bunches.first <= at.bunch /\ at.bunch <= Bunches.last + 1
  /\ at.phase \in {"source", "read"} => at.bunch <= Bunches.last
  /\ at.phase = "source" => at.source \in 1 .. Width + 1
  /\ at.phase = "read" => at.source \in 1 .. Width

\* recordEventID's sizes: one for each turn, and for each event of the first job.
SizesOf(info) == info.sizes \in Seq(Nat)

RecordOK ==
  /\ DOMAIN record = {"ids", "sizes", "complete"}
  /\ SizesOf(record)
  /\ at.phase # "idle" => Len(record.sizes) = Len(frame.src)
  /\ IsSeq(infos)
  /\ \A event \in DOMAIN infos :
       /\ SizesOf(infos[event])
       /\ Len(infos[event].sizes) = Crossings(event) * Width
  /\ Len(infos) = IF pass = "mix" THEN at.event - 1 ELSE Len(config.signals)
  /\ at.phase # "idle" /\ (playback \/ DoPileUp(1, 0)) => list \in [1 .. Crossings(at.event) -> Nat]

\* Events piled up before the source of the crossing frame at hand began.
FrameOK ==
  /\ DOMAIN frame = {"labels", "bcr", "src", "piled"}
  /\ frame.bcr \in Seq(Nat) /\ frame.src \in Seq(Nat) /\ IsSeq(frame.piled)
  /\ \A b \in 1 .. Len(frame.bcr) : frame.bcr[b] <= Len(frame.piled)
  /\ \A k \in 1 .. Len(frame.src) : frame.src[k] <= Len(frame.piled)
  /\ Len(frame.bcr) = at.bunch - Bunches.first + (IF at.phase = "bunch" THEN 0 ELSE 1)
  /\ at.phase = "bunch"  => Len(frame.src) = Turn(Bunches.first, Width, at.bunch, 0)
  /\ at.phase = "source" => Len(frame.src) = Turn(Bunches.first, Width, at.bunch, at.source - 1)
  /\ at.phase = "read"   => /\ Len(frame.src) = Turn(Bunches.first, Width, at.bunch, at.source)
                            /\ frame.src[Len(frame.src)] + at.nr = Len(frame.piled)

\* Offsets of which the first n are those before event i.
OffsetsBefore(offsets, i, n) ==
  n \in 1 .. Len(offsets) /\ \A k \in 1 .. Len(offsets) : offsets[k] < i <=> k <= n

\* Event p is in place i: its bunch and turn are the last that began before it.
Placed(p, i, first, width, bcr, src) ==
  LET turn == Turn(first, width, p.bunch, p.source)
  IN /\ p.bunch \in Int /\ p.source \in 1 .. width
     /\ OffsetsBefore(bcr, i, p.bunch - first + 1) /\ OffsetsBefore(src, i, turn)
     /\ p.id = <<p.bunch, i - src[turn]>>

IsPlaced(i) == Placed(frame.piled[i], i, Bunches.first, Width, frame.bcr, frame.src)

\* checkSignal: what was chosen by the first of the events begun that has any.
Begun == IF at.phase = "idle" THEN at.event - 1 ELSE at.event
PresentIn(event) == {o.label : o \in {p \in AdjustersObjects : p.label \in config.signals[event].products}}

AdjustersOK ==
  /\ adjusters = {} => \A j \in 1 .. Begun : j <= Len(config.signals) => PresentIn(j) = {}
  /\ adjusters # {} => \E k \in 1 .. Begun :
       /\ k <= Len(config.signals) /\ adjusters = PresentIn(k)
       /\ \A j \in 1 .. k - 1 : PresentIn(j) = {}

\* Every event was adjusted by what is chosen now.
IsShifted(i) ==
  LET p == frame.piled[i]
  IN p.time = [o \in Timed |-> IF o \in adjusters THEN p.bunch ELSE 0]

PileUpInv ==
  /\ PlaceOK /\ RecordOK /\ AdjustersOK
  /\ at.phase # "idle" => FrameOK /\ \A i \in 1 .. Len(frame.piled) : IsPlaced(i) /\ IsShifted(i)

-------------------------------------------------------------------------------
(* Sequences, and the numbering of the turns.                                  *)

LEMMA AppendIsSeq ==
  ASSUME NEW s, IsSeq(s), NEW e
  PROVE  /\ IsSeq(Append(s, e)) /\ Len(s) \in Nat /\ Len(Append(s, e)) = Len(s) + 1
         /\ \A i \in 1 .. Len(s) : Append(s, e)[i] = s[i]
         /\ Append(s, e)[Len(s) + 1] = e
<1> DEFINE S == Range(s) \cup {e}
           t == Append(s, e)
<1>1. s \in Seq(S)
  BY DEF IsSeq
<1>2. t \in Seq(S) /\ Len(t) = Len(s) + 1 /\ Len(s) \in Nat
  BY <1>1
<1>3. /\ \A i \in 1 .. Len(s) : t[i] = s[i]
      /\ t[Len(s) + 1] = e
  BY <1>1
<1> HIDE DEF t, S
<1>4. t \in Seq(Range(t))
  <2>1. t \in [1 .. Len(t) -> S] /\ DOMAIN t = 1 .. Len(t)
    BY <1>2
  <2>2. t \in [1 .. Len(t) -> Range(t)]
    BY <2>1 DEF Range
  <2> QED
    BY <2>2, <1>2
<1> QED
  BY <1>2, <1>3, <1>4 DEF IsSeq, t

LEMMA NatSeq ==
  ASSUME NEW s \in Seq(Nat), NEW n \in Nat
  PROVE  /\ Append(s, n) \in Seq(Nat) /\ Len(s) \in Nat /\ Len(Append(s, n)) = Len(s) + 1
         /\ \A i \in 1 .. Len(s) : Append(s, n)[i] = s[i] /\ s[i] \in Nat
         /\ Append(s, n)[Len(s) + 1] = n
OBVIOUS

LEMMA EmptyIsSeq == IsSeq(<<>>) /\ Len(<<>>) = 0 /\ <<>> \in Seq(Nat)
BY DEF IsSeq, Range

\* A row of w turns after those before.
LEMMA NextRow ==
  ASSUME NEW a \in Int, NEW w \in Nat
  PROVE  (a + 1) * w = a * w + w
OBVIOUS

\* Turns of the bunches from 0 to m are numbered from 1.
LEMMA TurnInRange ==
  ASSUME NEW a \in Nat, NEW m \in Nat, a < m, NEW w \in Nat, NEW s \in 1 .. w
  PROVE  a * w + s \in 1 .. m * w
<1>1. a * w \in Nat /\ (m - a - 1) * w \in Nat
  OBVIOUS
<1>2. m * w = a * w + w + (m - a - 1) * w
  OBVIOUS
<1> QED
  BY <1>1, <1>2

\* What the configuration says of the signal events.
LEMMA SignalsAreTyped ==
  ASSUME config \in Jobs
  PROVE  /\ Width \in Nat \ {0} /\ Len(config.signals) \in Nat
         /\ \A e \in 1 .. Len(config.signals) :
              /\ config.signals[e].bunches.first \in Int /\ config.signals[e].bunches.last \in Int
              /\ config.signals[e].bunches.first <= 0 /\ config.signals[e].bunches.last >= 0
              /\ Crossings(e) \in Nat \ {0}
              /\ \/ config.sources[1].bunches = {}
                 \/ config.signals[e].bunches.first .. config.signals[e].bunches.last \subseteq config.sources[1].bunches
<1>1. /\ config.sources \in Seq(Range(config.sources)) /\ config.sources # <<>>
      /\ config.signals \in Seq(Range(config.signals))
  BY JobsAssumption
<1>2. Width \in Nat \ {0} /\ Len(config.signals) \in Nat
  BY <1>1 DEF Width
<1>3. ASSUME NEW e \in 1 .. Len(config.signals)
      PROVE  config.signals[e] \in Range(config.signals)
  BY <1>1, <1>3 DEF Range
<1>4. ASSUME NEW e \in 1 .. Len(config.signals)
      PROVE  /\ config.signals[e].bunches.first \in Int /\ config.signals[e].bunches.last \in Int
             /\ config.signals[e].bunches.first <= 0 /\ config.signals[e].bunches.last >= 0
             /\ \/ config.sources[1].bunches = {}
                \/ config.signals[e].bunches.first .. config.signals[e].bunches.last \subseteq config.sources[1].bunches
  BY <1>3, <1>4, JobsAssumption
<1>5. ASSUME NEW e \in 1 .. Len(config.signals) PROVE Crossings(e) \in Nat \ {0}
  <2> DEFINE first == config.signals[e].bunches.first
             last  == config.signals[e].bunches.last
  <2>1. first \in Int /\ last \in Int /\ first <= 0 /\ last >= 0
    BY <1>4, <1>5
  <2>2. Crossings(e) = last - first + 1
    BY DEF Crossings
  <2> HIDE DEF first, last
  <2> QED
    BY <2>1, <2>2
<1> QED
  BY <1>2, <1>4, <1>5

-------------------------------------------------------------------------------
(* The actions.                                                                *)

\* What the invariant says of a state with an event under way.
LEMMA Underway ==
  ASSUME PileUpInv, at.phase # "idle"
  PROVE  /\ config \in Jobs /\ at.event \in 1 .. Len(config.signals)
         /\ Width \in Nat \ {0} /\ Len(config.signals) \in Nat
         /\ Bunches.first \in Int /\ Bunches.last \in Int /\ Bunches.first <= 0 /\ Bunches.last >= 0
         /\ Crossings(at.event) = Bunches.last - Bunches.first + 1
         /\ at.bunch - Bunches.first \in Nat
         /\ Len(frame.bcr) \in Nat /\ Len(frame.src) \in Nat /\ Len(frame.piled) \in Nat
<1>1. /\ config \in Jobs /\ at.event \in Nat \ {0} /\ at.event <= Len(config.signals) /\ FrameOK
      /\ Bunches.first <= at.bunch /\ at.bunch \in Int
  BY DEF PileUpInv, PlaceOK
<1>2. at.event \in 1 .. Len(config.signals)
  BY <1>1, SignalsAreTyped
<1>3. Bunches.first \in Int /\ Bunches.last \in Int /\ Bunches.first <= 0 /\ Bunches.last >= 0
  BY <1>1, <1>2, SignalsAreTyped DEF Bunches, Signal
<1>4. Len(frame.bcr) \in Nat /\ Len(frame.src) \in Nat /\ Len(frame.piled) \in Nat
  BY <1>1 DEF FrameOK, IsSeq
<1> QED
  BY <1>1, <1>2, <1>3, <1>4, SignalsAreTyped DEF Bunches, Signal, Crossings

LEMMA TurnsCount ==
  ASSUME NEW first \in Int, NEW width \in Nat, NEW b \in Int, NEW s \in Int
  PROVE  /\ Turn(first, width, b, s) \in Int /\ Turn(first, width, b, s) = Turn(first, width, b, s - 1) + 1
         /\ Turn(first, width, b + 1, 0) = Turn(first, width, b, width) /\ Turn(first, width, first, 0) = 0
<1>1. (b - first) * width \in Int
  OBVIOUS
<1>2. ((b + 1) - first) * width = (b - first) * width + width
  BY NextRow
<1> QED
  BY <1>1, <1>2 DEF Turn

\* Names that depend on the event and the configuration only.
LEMMA SameEvent ==
  ASSUME config' = config, at'.event = at.event
  PROVE  /\ Bunches' = Bunches /\ Width' = Width /\ Timed' = Timed
         /\ \A e : Crossings(e)' = Crossings(e) /\ PresentIn(e)' = PresentIn(e)
BY DEF Bunches, Signal, Width, Timed, Turn, Crossings, PresentIn, AdjustersObjects

LEMMA AdjustersKept ==
  ASSUME AdjustersOK, config' = config, adjusters' = adjusters, Begun' = Begun
  PROVE  AdjustersOK'
<1>1. \A e : PresentIn(e)' = PresentIn(e)
  BY DEF PresentIn, AdjustersObjects
<1> QED
  BY <1>1 DEF AdjustersOK

\* Offsets that are appended leave an event before them where it is.
Extended(s, t, i) ==
  /\ Len(s) \in Nat /\ Len(t) \in Nat /\ Len(s) <= Len(t)
  /\ \A k \in 1 .. Len(s) : t[k] = s[k]
  /\ \A k \in Len(s) + 1 .. Len(t) : t[k] \in Int /\ t[k] >= i

LEMMA BeforeKept ==
  ASSUME NEW s, NEW t, NEW i \in Int, NEW n, OffsetsBefore(s, i, n), Extended(s, t, i)
  PROVE  OffsetsBefore(t, i, n) /\ t[n] = s[n]
<1> USE DEF Extended
<1>1. n \in 1 .. Len(s) /\ n \in Int /\ n \in 1 .. Len(t) /\ t[n] = s[n]
  BY DEF OffsetsBefore
<1>2. ASSUME NEW k \in 1 .. Len(t) PROVE t[k] < i <=> k <= n
  <2>1. CASE k \in 1 .. Len(s)
    BY <2>1 DEF OffsetsBefore
  <2>2. CASE k \in Len(s) + 1 .. Len(t)
    BY <2>2, <1>1
  <2> QED
    BY <2>1, <2>2
<1> QED
  BY <1>1, <1>2 DEF OffsetsBefore

LEMMA SameExtended == ASSUME NEW s, Len(s) \in Nat, NEW i PROVE Extended(s, s, i)
BY DEF Extended

LEMMA PlacedKept ==
  ASSUME config' = config, at'.event = at.event, adjusters' = adjusters,
         NEW i \in Int, frame'.piled[i] = frame.piled[i], IsPlaced(i), IsShifted(i),
         Extended(frame.bcr, frame'.bcr, i), Extended(frame.src, frame'.src, i)
  PROVE  IsPlaced(i)' /\ IsShifted(i)'
<1>1. IsPlaced(i)'
  <2> DEFINE p == frame.piled[i]
             first == Bunches.first
             turn == Turn(first, Width, p.bunch, p.source)
             bunch == p.bunch - first + 1
             bcr == frame.bcr
             src == frame.src
             ext == frame'.bcr
             more == frame'.src
  <2>1. Placed(p, i, first, Width, bcr, src)
    BY DEF IsPlaced
  <2>2. OffsetsBefore(bcr, i, bunch) /\ OffsetsBefore(src, i, turn)
        /\ p.bunch \in Int /\ p.source \in 1 .. Width /\ p.id = <<p.bunch, i - src[turn]>>
    BY <2>1 DEF Placed
  <2> HIDE DEF p, first, turn, bunch
  <2>3. OffsetsBefore(ext, i, bunch)
    BY <2>2, BeforeKept
  <2>4. OffsetsBefore(more, i, turn) /\ more[turn] = src[turn]
    BY <2>2, BeforeKept
  <2>5. Placed(p, i, first, Width, ext, more)
    BY <2>2, <2>3, <2>4 DEF Placed, turn, bunch
  <2>6. Bunches'.first = first /\ Width' = Width /\ frame'.piled[i] = p
    BY SameEvent DEF first, p
  <2> QED
    BY <2>5, <2>6 DEF IsPlaced
<1>2. IsShifted(i)'
  BY SameEvent DEF IsShifted
<1> QED
  BY <1>1, <1>2

\* The turn at hand is one of the event.
LEMMA TurnOfEvent ==
  ASSUME PileUpInv, at.phase # "idle", NEW b \in Int, b >= Bunches.first, b <= Bunches.last, NEW s \in 1 .. Width
  PROVE  Turn(Bunches.first, Width, b, s) \in 1 .. Crossings(at.event) * Width
<1>1. b - Bunches.first \in Nat /\ Crossings(at.event) \in Nat /\ b - Bunches.first < Crossings(at.event)
  BY Underway, SMTT(30)
<1> QED
  BY <1>1, Underway, TurnInRange DEF Turn

LEMMA BeginBunchKeeps == ASSUME PileUpInv, BeginBunch PROVE PileUpInv'
<1> USE DEF BeginBunch
<1>1. at.phase = "bunch" /\ FrameOK /\ PlaceOK /\ RecordOK /\ AdjustersOK
  BY DEF PileUpInv
<1>2. /\ config' = config /\ pass' = pass /\ adjusters' = adjusters
      /\ at' = [at EXCEPT !.phase = "source", !.source = 1]
      /\ at'.phase = "source" /\ at'.source = 1 /\ at'.bunch = at.bunch /\ at'.event = at.event
      /\ at' \in [event : Nat \ {0}, phase : Phases, bunch : Int, source : Nat, left : Nat, nr : Nat]
  BY <1>1 DEF PlaceOK, Phases
<1>3. /\ DOMAIN frame' = DOMAIN frame /\ frame'.bcr = Append(frame.bcr, Len(frame.piled))
      /\ frame'.src = frame.src /\ frame'.piled = frame.piled
  BY <1>1 DEF FrameOK
<1>0. /\ Len(frame'.bcr) = Len(frame.bcr) + 1 /\ frame'.bcr \in Seq(Nat)
      /\ frame'.bcr[Len(frame.bcr) + 1] = Len(frame.piled)
      /\ \A b \in 1 .. Len(frame.bcr) : frame'.bcr[b] = frame.bcr[b]
  BY <1>1, <1>3, Underway, NatSeq, SMTT(30) DEF FrameOK
<1>9. Bunches' = Bunches /\ Width' = Width
  BY <1>2, SameEvent
<1>4. PlaceOK'
  BY <1>1, <1>2, <1>9, Underway DEF PlaceOK, BeginBunch
<1>5. RecordOK'
  BY <1>1, <1>2, <1>3 DEF RecordOK, SizesOf, Width, Crossings, playback, DoPileUp
<1>6. AdjustersOK'
  BY <1>1, <1>2, AdjustersKept DEF Begun
<1>7. FrameOK'
  <2>1. /\ Len(frame.bcr) \in Nat /\ Len(frame.piled) \in Nat /\ Len(frame.bcr) = at.bunch - Bunches.first
        /\ at.bunch - Bunches.first \in Nat /\ Len(frame.src) = Turn(Bunches.first, Width, at.bunch, 0)
    BY <1>1, Underway DEF FrameOK
  <2>2. Len(frame'.bcr) = at.bunch - Bunches.first + 1
    BY <1>0, <2>1
  <2>3. ASSUME NEW b \in 1 .. Len(frame'.bcr) PROVE frame'.bcr[b] <= Len(frame.piled)
    <3>1. b \in 1 .. Len(frame.bcr) \/ b = Len(frame.bcr) + 1
      BY <1>0, <2>1
    <3> QED
      BY <1>0, <1>1, <2>1, <3>1 DEF FrameOK
  <2>4. at'.source - 1 = 0
    BY <1>2
  <2> QED
    BY <1>0, <1>1, <1>2, <1>3, <1>9, <2>1, <2>2, <2>3, <2>4 DEF FrameOK
<1>8. ASSUME NEW i \in 1 .. Len(frame'.piled) PROVE IsPlaced(i)' /\ IsShifted(i)'
  <2>1. i \in 1 .. Len(frame.piled) /\ IsPlaced(i) /\ IsShifted(i)
    BY <1>1, <1>3, <1>8 DEF PileUpInv
  <2>2. i \in Nat /\ i <= Len(frame.piled)
    BY <2>1, Underway, <1>1
  <2>3. Extended(frame.bcr, frame'.bcr, i)
    BY <1>0, <1>1, <2>2, Underway, SMTT(30) DEF Extended
  <2>4. Extended(frame.src, frame'.src, i)
    BY <1>1, <1>3, Underway DEF Extended
  <2> QED
    BY <1>2, <1>3, <2>1, <2>2, <2>3, <2>4, PlacedKept
<1> QED
  BY <1>4, <1>5, <1>6, <1>7, <1>8 DEF PileUpInv

LEMMA BeginSourceKeeps == ASSUME PileUpInv, BeginSource PROVE PileUpInv'
<1> DEFINE source == at.source
           number == IF ~DoPileUp(source, at.bunch) THEN 0
                     ELSE IF playback THEN NumberOfEvents(infos[at.event], at.bunch, source)
                     ELSE IF source = 1 THEN list[at.bunch - Bunches.first + 1]
                     ELSE 1
<1>1. at.phase = "source" /\ FrameOK /\ PlaceOK /\ RecordOK /\ AdjustersOK
  BY DEF PileUpInv, BeginSource
<1>2. at.source \in 1 .. Width /\ at.bunch \in Int /\ at.bunch >= Bunches.first /\ at.bunch <= Bunches.last
  BY <1>1, Underway DEF PlaceOK, BeginSource, Width
<1>3. number \in Nat
  <2>1. CASE playback /\ DoPileUp(source, at.bunch)
    <3>1. at.event \in DOMAIN infos
      BY <1>1, <2>1, Underway DEF RecordOK, IsSeq, playback
    <3>2. infos[at.event].sizes \in Seq(Nat) /\ Len(infos[at.event].sizes) = Crossings(at.event) * Width
      BY <3>1, <1>1 DEF RecordOK, SizesOf
    <3>3. Turn(Bunches.first, Width, at.bunch, at.source) \in 1 .. Len(infos[at.event].sizes)
      BY <1>1, <1>2, <3>2, TurnOfEvent
    <3>4. Turn(Bunches.first, Width, at.bunch, at.source) = Cell(at.bunch, at.source)
      BY DEF Turn, Cell, Width
    <3> QED
      BY <2>1, <3>2, <3>3, <3>4 DEF NumberOfEvents
  <2>2. CASE ~playback /\ source = 1 /\ DoPileUp(source, at.bunch)
    <3>1. config.sources[1].bunches # {}
      BY <2>2 DEF DoPileUp
    <3>2. Bunches.first .. Bunches.last \subseteq config.sources[1].bunches
      BY <3>1, <1>1, Underway, SignalsAreTyped DEF Bunches, Signal
    <3>3. 0 \in Bunches.first .. Bunches.last
      BY <1>1, Underway
    <3>4. list \in [1 .. Crossings(at.event) -> Nat]
      BY <1>1, <2>2, <3>2, <3>3 DEF RecordOK, DoPileUp
    <3>5. at.bunch - Bunches.first + 1 \in 1 .. Crossings(at.event)
      BY <1>1, <1>2, Underway, SMTT(30)
    <3> QED
      BY <2>2, <3>4, <3>5
  <2> QED
    BY <2>1, <2>2
<1> HIDE DEF number
<1>4. /\ config' = config /\ pass' = pass /\ adjusters' = adjusters /\ infos' = infos /\ list' = list
      /\ at'.phase = "read" /\ at'.source = at.source /\ at'.bunch = at.bunch /\ at'.event = at.event
      /\ at'.left = number /\ at'.nr = 0
      /\ at' \in [event : Nat \ {0}, phase : Phases, bunch : Int, source : Nat, left : Nat, nr : Nat]
  BY <1>1, <1>3 DEF PlaceOK, BeginSource, number, Phases
<1>5. /\ DOMAIN frame' = DOMAIN frame /\ frame'.bcr = frame.bcr
      /\ frame'.src = Append(frame.src, Len(frame.piled)) /\ frame'.piled = frame.piled
  BY <1>1 DEF FrameOK, BeginSource
<1>6. DOMAIN record' = DOMAIN record /\ record'.sizes = Append(record.sizes, number)
  BY <1>1 DEF RecordOK, BeginSource, number
<1>7. PlaceOK'
  BY <1>1, <1>2, <1>4 DEF PlaceOK, Width, Bunches, Signal
<1>8. RecordOK'
  <2>1. record'.sizes \in Seq(Nat) /\ Len(record'.sizes) = Len(frame'.src)
    BY <1>1, <1>3, <1>5, <1>6, Underway, NatSeq, SMTT(30) DEF RecordOK, SizesOf, FrameOK
  <2> QED
    BY <1>1, <1>4, <1>6, <2>1 DEF RecordOK, SizesOf, Width, Crossings, playback, DoPileUp
<1>9. AdjustersOK'
  BY <1>1, <1>4, AdjustersKept DEF Begun
<1>10. Len(frame'.src) = Len(frame.src) + 1 /\ frame'.src \in Seq(Nat)
       /\ frame'.src[Len(frame'.src)] = Len(frame.piled)
       /\ \A k \in 1 .. Len(frame.src) : frame'.src[k] = frame.src[k]
  BY <1>1, <1>5, Underway, NatSeq DEF FrameOK
<1>11. FrameOK'
  <2>1. Bunches' = Bunches /\ Width' = Width
    BY <1>4, SameEvent
  <2>2. Len(frame'.src) = Turn(Bunches.first, Width, at.bunch, at.source)
    <3>1. Len(frame.src) = Turn(Bunches.first, Width, at.bunch, at.source - 1) /\ Len(frame.src) \in Nat
      BY <1>1, Underway DEF FrameOK
    <3>2. Turn(Bunches.first, Width, at.bunch, at.source) = Turn(Bunches.first, Width, at.bunch, at.source - 1) + 1
      <4>1. Bunches.first \in Int /\ Width \in Nat /\ at.source \in Int
        BY <1>1, <1>2, Underway
      <4> QED
        BY <1>2, <4>1, TurnsCount
    <3> QED
      BY <1>10, <3>1, <3>2
  <2>3. Len(frame.src) \in Nat /\ Len(frame.piled) \in Nat
    BY <1>1, Underway
  <2>4. \A k \in 1 .. Len(frame'.src) : frame'.src[k] <= Len(frame.piled)
    <3>1. \A k \in 1 .. Len(frame'.src) : k \in 1 .. Len(frame.src) \/ k = Len(frame'.src)
      BY <1>10, <2>3
    <3> QED
      BY <1>1, <1>10, <2>3, <3>1, SMTT(30) DEF FrameOK
  <2>5. frame'.src[Len(frame'.src)] + at'.nr = Len(frame'.piled)
    BY <1>4, <1>5, <1>10, <2>3
  <2> QED
    BY <1>1, <1>4, <1>5, <1>10, <2>1, <2>2, <2>4, <2>5 DEF FrameOK
<1>12. ASSUME NEW i \in 1 .. Len(frame'.piled) PROVE IsPlaced(i)' /\ IsShifted(i)'
  <2>1. i \in 1 .. Len(frame.piled) /\ IsPlaced(i) /\ IsShifted(i)
    BY <1>1, <1>5, <1>12 DEF PileUpInv
  <2>2. i \in Nat /\ i <= Len(frame.piled)
    BY <2>1, Underway, <1>1
  <2>0. Len(frame.piled) \in Nat /\ Len(frame.src) \in Nat /\ Len(frame.bcr) \in Nat
    BY <1>1, Underway
  <2>3. Extended(frame.bcr, frame'.bcr, i)
    BY <1>5, <2>0 DEF Extended
  <2>4. Extended(frame.src, frame'.src, i)
    <3>1. \A k \in Len(frame.src) + 1 .. Len(frame'.src) : k = Len(frame'.src)
      BY <1>10, <2>0
    <3> QED
      BY <1>10, <2>0, <2>2, <3>1, SMTT(30) DEF Extended
  <2> QED
    BY <1>4, <1>5, <2>1, <2>2, <2>3, <2>4, PlacedKept
<1> QED
  BY <1>7, <1>8, <1>9, <1>11, <1>12 DEF PileUpInv

\* A round of PileUp that piles an event up, from a source or from the record.
LEMMA PileUpKeeps ==
  ASSUME PileUpInv, at.phase = "read", at.left > 0, NEW r, NEW hash, PileUp(r, hash),
         UNCHANGED <<config, pass, adjusters, list, infos>>
  PROVE  PileUpInv'
<1> DEFINE item == PileAllWorkers(r.event, at.nr + 1)
<1>1. FrameOK /\ PlaceOK /\ RecordOK /\ AdjustersOK
  BY DEF PileUpInv
<1>0. Len(frame.bcr) \in Nat /\ Len(frame.src) \in Nat /\ Len(frame.piled) \in Nat
  BY Underway
<1>n. PICK n \in Nat : n = Len(frame.piled)
  BY <1>0
<1>2. at.source \in 1 .. Width /\ at.bunch \in Int /\ at.bunch >= Bunches.first /\ at.bunch <= Bunches.last
  BY <1>1, Underway DEF PlaceOK, Width
<1>3. /\ at'.phase = "read" /\ at'.source = at.source /\ at'.bunch = at.bunch /\ at'.event = at.event
      /\ at'.left = at.left - 1 /\ at'.nr = at.nr + 1
      /\ at' \in [event : Nat \ {0}, phase : Phases, bunch : Int, source : Nat, left : Nat, nr : Nat]
  <2>1. at.left \in Nat /\ at.left - 1 \in Nat /\ at.nr + 1 \in Nat
    BY <1>1 DEF PlaceOK
  <2>2. at' = [at EXCEPT !.left = at.left - 1, !.nr = at.nr + 1]
    BY <1>1 DEF PlaceOK, PileUp
  <2> QED
    BY <1>1, <2>1, <2>2 DEF PlaceOK, Phases
<1>4. /\ DOMAIN frame' = DOMAIN frame /\ frame'.bcr = frame.bcr
      /\ frame'.src = frame.src /\ frame'.piled = Append(frame.piled, item)
  BY <1>1 DEF FrameOK, PileUp
<1>5. DOMAIN record' = DOMAIN record /\ record'.sizes = record.sizes
  BY <1>1 DEF RecordOK, PileUp
<1>6. PlaceOK'
  BY <1>1, <1>2, <1>3 DEF PlaceOK, Width, Bunches, Signal
<1>7. RecordOK'
  BY <1>1, <1>3, <1>4, <1>5 DEF RecordOK, SizesOf, Width, Crossings, playback, DoPileUp
<1>8. AdjustersOK'
  BY <1>1, <1>3, AdjustersKept DEF Begun
<1> HIDE DEF item
<1>9. /\ Len(frame'.piled) = n + 1 /\ IsSeq(frame'.piled)
      /\ \A i \in 1 .. n : frame'.piled[i] = frame.piled[i]
      /\ frame'.piled[n + 1] = item
  BY <1>1, <1>4, <1>n, AppendIsSeq DEF FrameOK
<1>10. FrameOK'
  <2>1. Bunches' = Bunches /\ Width' = Width
    BY <1>3, SameEvent
  <2>2. frame.src[Len(frame.src)] + at.nr = n /\ at.nr \in Nat /\ frame.src[Len(frame.src)] \in Int
    <3>1. Len(frame.src) \in 1 .. Len(frame.src)
      BY <1>0, <1>1, <1>2, TurnOfEvent DEF FrameOK
    <3> QED
      BY <1>1, <1>n, <3>1, SMTT(30) DEF FrameOK, PlaceOK
  <2>3. frame'.src[Len(frame'.src)] + at'.nr = Len(frame'.piled)
    <3>1. frame.src[Len(frame.src)] + (at.nr + 1) = n + 1
      BY <2>2
    <3> QED
      BY <1>3, <1>4, <1>9, <3>1
  <2>4. /\ \A b \in 1 .. Len(frame'.bcr) : frame'.bcr[b] <= Len(frame'.piled)
        /\ \A k \in 1 .. Len(frame'.src) : frame'.src[k] <= Len(frame'.piled)
    <3>1. \A b \in 1 .. Len(frame.bcr) : frame.bcr[b] \in Nat /\ frame.bcr[b] <= n
      BY <1>1, <1>n DEF FrameOK
    <3>2. \A k \in 1 .. Len(frame.src) : frame.src[k] \in Nat /\ frame.src[k] <= n
      BY <1>1, <1>n DEF FrameOK
    <3> QED
      <4>1. Len(frame'.piled) = n + 1 /\ frame'.bcr = frame.bcr /\ frame'.src = frame.src
        BY <1>4, <1>9
      <4>2. \A x \in Nat : x <= n => x <= n + 1
        OBVIOUS
      <4> QED
        BY <3>1, <3>2, <4>1, <4>2
  <2> QED
    BY <1>1, <1>3, <1>4, <1>9, <2>1, <2>3, <2>4 DEF FrameOK
<1>11. ASSUME NEW i \in 1 .. n PROVE IsPlaced(i)' /\ IsShifted(i)'
  <2>1. IsPlaced(i) /\ IsShifted(i) /\ frame'.piled[i] = frame.piled[i]
    BY <1>9, <1>n DEF PileUpInv
  <2>2. i \in Int
    OBVIOUS
  <2>3. Extended(frame.bcr, frame'.bcr, i) /\ Extended(frame.src, frame'.src, i)
    BY <1>4, <1>0, <2>2, SameExtended
  <2> QED
    BY <1>3, <1>4, <2>1, <2>2, <2>3, PlacedKept
<1>12. /\ item.bunch = at.bunch /\ item.source = at.source /\ item.id = <<at.bunch, at.nr + 1>>
       /\ item.time = [o \in Timed |-> IF o \in adjusters THEN at.bunch ELSE 0]
  BY DEF item, PileAllWorkers
<1>13. IsPlaced(n + 1)'
  <2>1. Turn(Bunches.first, Width, at.bunch, at.source) = Len(frame.src) /\ at.bunch - Bunches.first + 1 = Len(frame.bcr)
        /\ frame.src[Len(frame.src)] + at.nr = n /\ at.nr \in Nat
    BY <1>1, <1>n, Underway DEF FrameOK, PlaceOK
  <2>2. Len(frame.src) \in 1 .. Len(frame.src) /\ Len(frame.bcr) \in 1 .. Len(frame.bcr)
    <3>1. Turn(Bunches.first, Width, at.bunch, at.source) \in 1 .. Crossings(at.event) * Width
      BY <1>2, TurnOfEvent
    <3> QED
      BY <2>1, <3>1, Underway
  <2>3. \A k \in 1 .. Len(frame.src) : frame.src[k] < n + 1 /\ frame.src[k] \in Nat
    BY <1>1, <1>n DEF FrameOK
  <2>4. \A b \in 1 .. Len(frame.bcr) : frame.bcr[b] < n + 1
    BY <1>1, <1>n DEF FrameOK
  <2>5. at.nr + 1 = (n + 1) - frame.src[Len(frame.src)]
    BY <2>1, <2>2, <2>3
  <2>6. OffsetsBefore(frame.bcr, n + 1, Len(frame.bcr)) /\ OffsetsBefore(frame.src, n + 1, Len(frame.src))
    BY <1>0, <2>2, <2>3, <2>4 DEF OffsetsBefore
  <2>7. item.id = <<at.bunch, (n + 1) - frame.src[Len(frame.src)]>>
    BY <1>12, <2>5
  <2>8. Placed(item, n + 1, Bunches.first, Width, frame.bcr, frame.src)
    <3> DEFINE turn == Turn(Bunches.first, Width, item.bunch, item.source)
               bunch == item.bunch - Bunches.first + 1
    <3>1. item.bunch = at.bunch /\ item.source = at.source
      BY <1>12
    <3>2. turn = Len(frame.src) /\ bunch = Len(frame.bcr)
      BY <2>1, <3>1
    <3> HIDE DEF item
    <3>3. Placed(item, n + 1, Bunches.first, Width, frame.bcr, frame.src) <=>
            /\ item.bunch \in Int /\ item.source \in 1 .. Width
            /\ OffsetsBefore(frame.bcr, n + 1, bunch) /\ OffsetsBefore(frame.src, n + 1, turn)
            /\ item.id = <<item.bunch, (n + 1) - frame.src[turn]>>
      BY DEF Placed
    <3> HIDE DEF turn, bunch
    <3> QED
      BY <1>2, <2>6, <2>7, <3>1, <3>2, <3>3
  <2>9. Bunches' = Bunches /\ Width' = Width
    BY <1>3, SameEvent
  <2>10. Placed(frame'.piled[n + 1], n + 1, Bunches'.first, Width', frame'.bcr, frame'.src)
    BY <1>4, <1>9, <2>8, <2>9
  <2> QED
    BY <2>10 DEF IsPlaced
<1>14. IsShifted(n + 1)'
  <2>1. Timed' = Timed
    BY <1>3, SameEvent
  <2> QED
    BY <1>9, <1>12, <2>1 DEF IsShifted
<1>15. \A i \in 1 .. Len(frame'.piled) : i \in 1 .. n \/ i = n + 1
  BY <1>9
<1>16. ASSUME NEW i \in 1 .. Len(frame'.piled) PROVE IsPlaced(i)' /\ IsShifted(i)'
  <2>1. CASE i \in 1 .. n
    BY <2>1, <1>11
  <2>2. CASE i = n + 1
    BY <2>2, <1>13, <1>14
  <2> QED
    BY <1>15, <2>1, <2>2
<1> QED
  BY <1>6, <1>7, <1>8, <1>10, <1>16 DEF PileUpInv

\* A step that leaves the crossing frame as it is, and the place but for how
\* many events are left to read.
LEMMA FrameUnchanged ==
  ASSUME PileUpInv,
         UNCHANGED <<config, adjusters, list, infos, frame>>,
         pass' = pass,
         DOMAIN record' = DOMAIN record, record'.sizes = record.sizes,
         at' = at \/ (at.phase = "read" /\ at' = [at EXCEPT !.left = 0])
  PROVE  PileUpInv'
<1>1. PlaceOK /\ RecordOK /\ AdjustersOK
  BY DEF PileUpInv
<1>2. /\ at'.phase = at.phase /\ at'.source = at.source /\ at'.bunch = at.bunch /\ at'.event = at.event
      /\ at'.nr = at.nr
      /\ at' \in [event : Nat \ {0}, phase : Phases, bunch : Int, source : Nat, left : Nat, nr : Nat]
  BY <1>1 DEF PlaceOK
<1>3. PlaceOK'
  BY <1>1, <1>2 DEF PlaceOK, Width, Bunches, Signal
<1>4. RecordOK'
  BY <1>1, <1>2 DEF RecordOK, SizesOf, Width, Crossings, playback, DoPileUp
<1>5. AdjustersOK'
  BY <1>1, <1>2, AdjustersKept DEF Begun
<1>6. ASSUME at.phase # "idle" PROVE FrameOK' /\ \A i \in 1 .. Len(frame'.piled) : IsPlaced(i)' /\ IsShifted(i)'
  <2>1. FrameOK /\ \A i \in 1 .. Len(frame.piled) : IsPlaced(i) /\ IsShifted(i)
    BY <1>6 DEF PileUpInv
  <2>2. FrameOK'
    BY <1>2, <2>1, SameEvent DEF FrameOK
  <2>3. Len(frame.bcr) \in Nat /\ Len(frame.src) \in Nat /\ Len(frame.piled) \in Nat
    BY <1>6, Underway
  <2>4. ASSUME NEW i \in 1 .. Len(frame.piled) PROVE IsPlaced(i)' /\ IsShifted(i)'
    <3>1. i \in Int /\ Extended(frame.bcr, frame'.bcr, i) /\ Extended(frame.src, frame'.src, i)
      BY <2>3, <2>4 DEF Extended
    <3> QED
      BY <1>2, <2>1, <2>4, <3>1, PlacedKept
  <2> QED
    BY <2>2, <2>4
<1> QED
  BY <1>2, <1>3, <1>4, <1>5, <1>6 DEF PileUpInv

LEMMA ReadPileUpKeeps == ASSUME PileUpInv, ReadPileUp PROVE PileUpInv'
<1>1. PICK r \in ReadOneEvent(config.sources[at.source], seqs[at.source], Signal.id) :
        IF r.found THEN PileUp(r, r.s.hash)
        ELSE /\ at' = [at EXCEPT !.left = 0] /\ record' = [record EXCEPT !.complete = FALSE]
             /\ UNCHANGED <<frame, reads>>
  BY DEF ReadPileUp
<1>2. at.phase = "read" /\ at.left > 0 /\ UNCHANGED <<config, pass, adjusters, workers, list, counter, infos, frames>>
  BY DEF ReadPileUp
<1>3. CASE r.found
  BY <1>1, <1>2, <1>3, PileUpKeeps
<1>4. CASE ~r.found
  <2>1. DOMAIN record' = DOMAIN record /\ record'.sizes = record.sizes
    BY <1>1, <1>4 DEF PileUpInv, RecordOK
  <2> QED
    BY <1>1, <1>2, <1>4, <2>1, FrameUnchanged
<1> QED
  BY <1>3, <1>4

LEMMA PlayPileUpKeeps == ASSUME PileUpInv, PlayPileUp PROVE PileUpInv'
<1>1. at.phase = "read" /\ at.left > 0 /\ UNCHANGED <<config, pass, adjusters, workers, list, counter, infos, frames>>
  BY DEF PlayPileUp
<1>2. \/ UNCHANGED <<frame, record, reads, at>>
      \/ \E r, hash : PileUp(r, hash)
  BY DEF PlayPileUp
<1>3. CASE UNCHANGED <<frame, record, reads, at>>
  BY <1>1, <1>3, FrameUnchanged
<1>4. CASE \E r, hash : PileUp(r, hash)
  BY <1>1, <1>4, PileUpKeeps
<1> QED
  BY <1>2, <1>3, <1>4

LEMMA StutterKeeps == ASSUME PileUpInv, UNCHANGED vars PROVE PileUpInv'
BY FrameUnchanged DEF vars

\* The end of a source and of a bunch: only the place in the loop changes.
LEMMA TurnEnds ==
  ASSUME PileUpInv, at.phase # "idle",
         UNCHANGED <<config, pass, adjusters, list, record, infos, frame>>,
         \/ at.phase = "read" /\ at' = [at EXCEPT !.phase = "source", !.source = @ + 1]
         \/ at.phase = "source" /\ at.source > Width /\ at' = [at EXCEPT !.phase = "bunch", !.bunch = @ + 1]
  PROVE  PileUpInv'
<1>1. PlaceOK /\ RecordOK /\ AdjustersOK /\ FrameOK
  BY DEF PileUpInv
<1>0. at.source + 1 \in Nat /\ at.bunch + 1 \in Int /\ at.source \in Nat /\ at.bunch \in Int
  BY <1>1 DEF PlaceOK
<1>3. \/ /\ at.phase = "read" /\ at'.phase = "source" /\ at'.source = at.source + 1 /\ at'.bunch = at.bunch
         /\ at' = [at EXCEPT !.phase = "source", !.source = at.source + 1]
      \/ /\ at.phase = "source" /\ at'.phase = "bunch" /\ at'.bunch = at.bunch + 1 /\ at.source = Width + 1
         /\ at' = [at EXCEPT !.phase = "bunch", !.bunch = at.bunch + 1]
  <2>1. CASE at.phase = "read" /\ at' = [at EXCEPT !.phase = "source", !.source = @ + 1]
    BY <1>1, <2>1 DEF PlaceOK
  <2>2. CASE at.phase = "source" /\ at.source > Width /\ at' = [at EXCEPT !.phase = "bunch", !.bunch = @ + 1]
    <3>1. at'.phase = "bunch" /\ at'.bunch = at.bunch + 1 /\ at' = [at EXCEPT !.phase = "bunch", !.bunch = at.bunch + 1]
      BY <1>1, <2>2 DEF PlaceOK
    <3>2. at.source \in 1 .. Width + 1 /\ Width \in Nat
      BY <1>1, <2>2, Underway DEF PlaceOK
    <3> QED
      BY <2>2, <3>1, <3>2
  <2> QED
    BY <2>1, <2>2
<1>2. /\ at'.event = at.event /\ at'.phase \in {"source", "bunch"}
      /\ at' \in [event : Nat \ {0}, phase : Phases, bunch : Int, source : Nat, left : Nat, nr : Nat]
  BY <1>0, <1>1, <1>3 DEF PlaceOK, Phases
<1>9. Bunches' = Bunches /\ Width' = Width /\ Width \in Nat
  BY <1>2, SameEvent, Underway
<1>4. PlaceOK'
  <2>1. Bunches.first \in Int /\ Bunches.last \in Int /\ at.bunch >= Bunches.first
    BY <1>1, Underway DEF PlaceOK
  <2>2. CASE at.phase = "read"
    BY <1>1, <1>2, <1>3, <1>9, <2>1, <2>2, SMTT(30) DEF PlaceOK
  <2>3. CASE at.phase = "source"
    <3>1. at'.phase = "bunch" /\ at'.bunch = at.bunch + 1
      BY <1>3, <2>3
    <3>2. at.bunch <= Bunches.last
      BY <1>1, <2>3 DEF PlaceOK
    <3>3. at.bunch + 1 >= Bunches.first /\ at.bunch + 1 <= Bunches.last + 1
      BY <1>0, <2>1, <3>2
    <3> QED
      BY <1>1, <1>2, <1>9, <3>1, <3>3 DEF PlaceOK
  <2> QED
    BY <1>3, <2>2, <2>3
<1>5. RecordOK'
  BY <1>1, <1>2 DEF RecordOK, SizesOf, Width, Crossings, playback, DoPileUp
<1>6. AdjustersOK'
  BY <1>1, <1>2, AdjustersKept DEF Begun
<1>7. FrameOK'
  <2>1. CASE at.phase = "read"
    <3>1. at'.source - 1 = at.source /\ at'.phase = "source" /\ at'.bunch = at.bunch
      BY <1>0, <1>3, <2>1
    <3>2. /\ Len(frame.src) = Turn(Bunches.first, Width, at.bunch, at.source)
          /\ Len(frame.bcr) = at.bunch - Bunches.first + 1
      BY <1>1, <2>1 DEF FrameOK
    <3> QED
      BY <1>1, <1>9, <2>1, <3>1, <3>2 DEF FrameOK
  <2>2. CASE at.phase = "source"
    <3>1. Turn(Bunches.first, Width, at.bunch, Width) = Turn(Bunches.first, Width, at.bunch + 1, 0)
      <4>1. Bunches.first \in Int /\ Width \in Nat
        BY Underway
      <4>2. ASSUME NEW b \in Int PROVE Turn(Bunches.first, Width, b + 1, 0) = Turn(Bunches.first, Width, b, Width)
        <5>1. 0 \in Int
          OBVIOUS
        <5> QED
          BY <4>1, <5>1, TurnsCount
      <4> QED
        BY <1>0, <4>2
    <3>2. at.source - 1 = Width
      BY <1>3, <2>2, Underway
    <3>3. (at.bunch - Bunches.first) + 1 = ((at.bunch + 1) - Bunches.first) + 0
      BY <1>0, Underway, SMTT(30)
    <3> QED
      BY <1>0, <1>1, <1>2, <1>3, <1>9, <2>2, <3>1, <3>2, <3>3 DEF FrameOK
  <2> QED
    BY <1>3, <2>1, <2>2
<1>8. ASSUME NEW i \in 1 .. Len(frame.piled) PROVE IsPlaced(i)' /\ IsShifted(i)'
  <2>1. IsPlaced(i) /\ IsShifted(i)
    BY <1>8 DEF PileUpInv
  <2>2. i \in Int /\ Extended(frame.bcr, frame'.bcr, i) /\ Extended(frame.src, frame'.src, i)
    BY Underway DEF Extended
  <2> QED
    BY <1>2, <2>1, <2>2, PlacedKept
<1> QED
  BY <1>4, <1>5, <1>6, <1>7, <1>8 DEF PileUpInv

LEMMA EndSourceKeeps == ASSUME PileUpInv, EndSource PROVE PileUpInv'
BY TurnEnds DEF EndSource

LEMMA EndBunchKeeps == ASSUME PileUpInv, EndBunch PROVE PileUpInv'
BY TurnEnds DEF EndBunch, Width

\* produce puts what it recorded: one number for each turn of the event.
LEMMA PutKeeps == ASSUME PileUpInv, Put PROVE PileUpInv'
<1>1. PlaceOK /\ RecordOK /\ AdjustersOK /\ FrameOK /\ at.phase = "bunch" /\ at.bunch > Bunches.last
  BY DEF PileUpInv, Put
<1>2. /\ at'.event = at.event + 1 /\ at'.phase = "idle" /\ at.event \in Nat \ {0}
      /\ at' \in [event : Nat \ {0}, phase : Phases, bunch : Int, source : Nat, left : Nat, nr : Nat]
      /\ UNCHANGED <<config, pass, adjusters, list, record, frame>>
  BY <1>1 DEF PlaceOK, Phases, Put, Idle
<1>3. PlaceOK'
  BY <1>1, <1>2 DEF PlaceOK
<1>4. Len(record.sizes) = Crossings(at.event) * Width /\ SizesOf(record)
  <2>1. at.bunch = Bunches.last + 1
    <3>1. at.bunch \in Int /\ at.bunch <= Bunches.last + 1
      BY <1>1 DEF PlaceOK
    <3>2. Bunches.last \in Int
      BY <1>1, Underway
    <3> QED
      BY <1>1, <3>1, <3>2
  <2>2. Len(record.sizes) = Turn(Bunches.first, Width, at.bunch, 0)
    BY <1>1 DEF RecordOK, FrameOK
  <2>3. Turn(Bunches.first, Width, at.bunch, 0) = Crossings(at.event) * Width
    <3> DEFINE crossings == at.bunch - Bunches.first
    <3>1. crossings = Crossings(at.event) /\ crossings * Width \in Int
      BY <1>1, <2>1, Underway, SMTT(30)
    <3>2. Turn(Bunches.first, Width, at.bunch, 0) = crossings * Width + 0
      BY DEF Turn
    <3> HIDE DEF crossings
    <3> QED
      BY <3>1, <3>2
  <2> QED
    BY <1>1, <2>2, <2>3 DEF RecordOK
<1>5. RecordOK'
  <2>1. CASE playback
    BY <1>1, <1>2, <2>1 DEF RecordOK, SizesOf, Width, Crossings, playback, Put
  <2>2. CASE ~playback
    <3>1. infos' = Append(infos, record) /\ pass = "mix" /\ Len(infos) = at.event - 1
      BY <1>1, <2>2 DEF Put, playback, PlaceOK, RecordOK
    <3>2. /\ IsSeq(infos') /\ Len(infos') = at.event
          /\ \A e \in 1 .. Len(infos) : infos'[e] = infos[e]
          /\ infos'[at.event] = record
      BY <1>1, <1>2, <3>1, AppendIsSeq DEF RecordOK
    <3>3. ASSUME NEW e \in DOMAIN infos' PROVE e \in DOMAIN infos \/ e = at.event
      BY <1>1, <1>2, <3>1, <3>2 DEF IsSeq, RecordOK
    <3>4. \A e \in DOMAIN infos : infos'[e] = infos[e]
      BY <1>1, <3>2, SMTT(30) DEF IsSeq, RecordOK
    <3> QED
      <4>1. \A e : Crossings(e)' = Crossings(e)
        BY <1>2 DEF Crossings
      <4>2. Width' = Width
        BY <1>2 DEF Width
      <4>3. ASSUME NEW e \in DOMAIN infos' PROVE SizesOf(infos'[e]) /\ Len(infos'[e].sizes) = Crossings(e)' * Width'
        BY <1>1, <1>4, <3>2, <3>3, <3>4, <4>1, <4>2, <4>3 DEF RecordOK
      <4> QED
        BY <1>1, <1>2, <1>4, <3>1, <3>2, <4>3, SMTT(30) DEF RecordOK, SizesOf
  <2> QED
    BY <2>1, <2>2
<1>6. AdjustersOK'
  BY <1>1, <1>2, AdjustersKept DEF Begun
<1> QED
  BY <1>2, <1>3, <1>5, <1>6 DEF PileUpInv

LEMMA BeginPlaybackKeeps == ASSUME PileUpInv, BeginPlayback PROVE PileUpInv'
<1>1. PlaceOK /\ RecordOK /\ config' = config /\ infos' = infos /\ record' = record /\ pass' = "playback" /\ adjusters' = {}
      /\ at'.phase = "idle" /\ at'.event = 1
      /\ at' \in [event : Nat \ {0}, phase : Phases, bunch : Int, source : Nat, left : Nat, nr : Nat]
  BY DEF PileUpInv, BeginPlayback, Idle, Phases
<1>2. Len(infos) = Len(config.signals)
  <2>1. at.event > Len(config.signals) /\ pass = "mix" /\ Len(infos) = at.event - 1
    BY <1>1 DEF BeginPlayback, RecordOK
  <2> QED
    BY <1>1, <2>1, SignalsAreTyped, SMTT(30) DEF PlaceOK
<1>3. PlaceOK'
  BY <1>1 DEF PlaceOK
<1>4. RecordOK'
  BY <1>1, <1>2 DEF RecordOK, SizesOf, Width, Crossings
<1>5. AdjustersOK'
  BY <1>1 DEF AdjustersOK, Begun
<1> QED
  BY <1>1, <1>3, <1>4, <1>5 DEF PileUpInv

LEMMA EndJobKeeps == ASSUME PileUpInv, EndJob PROVE PileUpInv'
<1>1. PlaceOK /\ RecordOK /\ AdjustersOK /\ at.phase = "idle" /\ pass = "playback" /\ pass' = "done"
      /\ UNCHANGED <<config, seqs, adjusters, workers, at, list, record, counter, frame, infos, frames, reads>>
  BY DEF PileUpInv, EndJob, playback
<1>2. PlaceOK'
  BY <1>1 DEF PlaceOK
<1>3. RecordOK'
  BY <1>1 DEF RecordOK, SizesOf, Width, Crossings
<1>4. AdjustersOK'
  BY <1>1, AdjustersKept DEF Begun
<1> QED
  BY <1>1, <1>2, <1>3, <1>4 DEF PileUpInv

LEMMA BeginEventKeeps == ASSUME PileUpInv, BeginEvent PROVE PileUpInv'
<1>1. PlaceOK /\ RecordOK /\ AdjustersOK /\ at.phase = "idle" /\ pass # "done" /\ at.event <= Len(config.signals)
      /\ UNCHANGED <<config, pass, infos>>
  BY DEF PileUpInv, BeginEvent
<1>2. at.event \in 1 .. Len(config.signals)
  BY <1>1, SignalsAreTyped DEF PlaceOK
<1>3. /\ Bunches.first \in Int /\ Bunches.last \in Int /\ Bunches.first <= 0 /\ Bunches.last >= 0
      /\ Crossings(at.event) = Bunches.last - Bunches.first + 1 /\ Width \in Nat \ {0}
  BY <1>1, <1>2, SignalsAreTyped DEF Bunches, Signal, Crossings, PlaceOK
<1>4. /\ at'.event = at.event /\ at'.phase = "bunch" /\ at'.bunch = Bunches.first
      /\ at' \in [event : Nat \ {0}, phase : Phases, bunch : Int, source : Nat, left : Nat, nr : Nat]
  BY <1>1, <1>3 DEF PlaceOK, Phases, BeginEvent
<1>5. PlaceOK'
  BY <1>1, <1>3, <1>4, SameEvent, SMTT(30) DEF PlaceOK
<1>6. /\ frame'.bcr = <<>> /\ frame'.src = <<>> /\ frame'.piled = <<>> /\ DOMAIN frame' = {"labels", "bcr", "src", "piled"}
      /\ record'.sizes = <<>> /\ DOMAIN record' = {"ids", "sizes", "complete"}
  BY DEF BeginEvent, EmptyFrame, EmptyRecord
<1>7. playback \/ DoPileUp(1, 0) => list' \in [1 .. Crossings(at.event) -> Nat]
  <2>1. CASE playback
    <3>1. at.event \in DOMAIN infos
      BY <1>1, <1>2, <2>1 DEF RecordOK, IsSeq, playback
    <3>2. infos[at.event].sizes \in Seq(Nat) /\ Len(infos[at.event].sizes) = Crossings(at.event) * Width
      BY <3>1, <1>1 DEF RecordOK, SizesOf
    <3>3. ASSUME NEW b \in 1 .. Crossings(at.event)
          PROVE  NumberOfEvents(infos[at.event], Bunches.first + b - 1, 1) \in Nat
      <4>1. (Bunches.first + b - 1) - Bunches.first = b - 1
        BY <1>3
      <4>2. (b - 1) * Width + 1 \in 1 .. Crossings(at.event) * Width
        BY <1>3, TurnInRange
      <4>0. Cell(Bunches.first + b - 1, 1) = (b - 1) * Width + 1
        <5> DEFINE row == (Bunches.first + b - 1) - Bunches.first
        <5>1. Cell(Bunches.first + b - 1, 1) = row * Width + 1
          BY DEF Cell, Width
        <5> HIDE DEF row
        <5> QED
          BY <4>1, <5>1 DEF row
      <4>3. NumberOfEvents(infos[at.event], Bunches.first + b - 1, 1) = infos[at.event].sizes[(b - 1) * Width + 1]
        BY <4>0 DEF NumberOfEvents
      <4> QED
        BY <3>2, <4>2, <4>3
    <3>4. list' = [b \in 1 .. Crossings(at.event) |-> NumberOfEvents(infos[at.event], Bunches.first + b - 1, 1)]
      BY <2>1, <1>3 DEF BeginEvent
    <3> QED
      BY <3>3, <3>4
  <2>2. CASE ~playback /\ DoPileUp(1, 0)
    <3>1. list' \in [1 .. Crossings(at.event) -> 0 .. MaxPileUp]
      BY <2>2, <1>3 DEF BeginEvent
    <3> QED
      BY <3>1, JobsAssumption
  <2> QED
    BY <2>1, <2>2
<1>8. RecordOK'
  BY <1>1, <1>4, <1>6, <1>7, EmptyIsSeq DEF RecordOK, SizesOf, Width, Crossings, playback, DoPileUp
<1>9. AdjustersOK'
  <2>1. adjusters' = IF adjusters = {} THEN PresentIn(at.event) ELSE adjusters
    BY DEF BeginEvent, Chosen, Present, PresentIn, Signal
  <2>2. PresentIn(at.event)' = PresentIn(at.event) /\ \A j : PresentIn(j)' = PresentIn(j)
    BY <1>1, <1>4 DEF PresentIn, AdjustersObjects
  <2>3. Begun = at.event - 1 /\ Begun' = at.event /\ at.event \in Nat \ {0}
    BY <1>1, <1>2, <1>4 DEF Begun
  <2>4. CASE adjusters = {}
    <3>1. \A j \in 1 .. at.event - 1 : PresentIn(j) = {}
      <4>1. Len(config.signals) \in Nat
      BY <1>1, SignalsAreTyped DEF PlaceOK
    <4> QED
      BY <1>1, <1>2, <2>3, <2>4, <4>1 DEF AdjustersOK
    <3>2. adjusters' = PresentIn(at.event)
      BY <2>1, <2>4
    <3> QED
      BY <1>1, <1>2, <2>2, <2>3, <3>1, <3>2 DEF AdjustersOK
  <2>5. CASE adjusters # {}
    BY <1>1, <2>1, <2>2, <2>3, <2>5 DEF AdjustersOK
  <2> QED
    BY <2>4, <2>5
<1>10. FrameOK' /\ Len(frame'.piled) = 0
  <2>1. Bunches' = Bunches /\ Width' = Width
    BY <1>1, <1>4 DEF Bunches, Signal, Width
  <2> QED
    BY <1>3, <1>4, <1>6, <2>1, EmptyIsSeq DEF FrameOK, Turn
<1> QED
  BY <1>5, <1>8, <1>9, <1>10 DEF PileUpInv

\* All products with an adjuster were chosen if the first event with one has all.
LEMMA CompleteSignal ==
  ASSUME PileUpInv, at.phase # "idle", FirstSignalIsComplete, NEW o \in Timed
  PROVE  o \in adjusters
<1>1. PICK k \in 1 .. at.event :
        /\ k <= Len(config.signals)
        /\ {x.label : x \in AdjustersObjects} \subseteq config.signals[k].products
        /\ \A j \in 1 .. k - 1 : \A x \in AdjustersObjects : x.label \notin config.signals[j].products
  BY DEF FirstSignalIsComplete
<1>2. /\ at.event \in Nat /\ Begun = at.event /\ Len(config.signals) \in Nat /\ k \in Nat
      /\ at.event <= Len(config.signals)
  BY Underway DEF Begun
<1>3. PICK x \in AdjustersObjects : x.label = o
  BY DEF Timed, AdjustersObjects, Adjustable
<1>4. PresentIn(k) = {y.label : y \in AdjustersObjects} /\ PresentIn(k) # {}
  BY <1>1, <1>3 DEF PresentIn
<1>5. \A j \in 1 .. k - 1 : PresentIn(j) = {}
  BY <1>1 DEF PresentIn
<1>6. AdjustersOK /\ adjusters # {}
  BY <1>1, <1>2, <1>4 DEF PileUpInv, AdjustersOK
<1>7. PICK m \in 1 .. Begun : adjusters = PresentIn(m) /\ \A j \in 1 .. m - 1 : PresentIn(j) = {}
  BY <1>6 DEF AdjustersOK
<1>8. m = k
  <2>1. PresentIn(m) # {} /\ m \in Nat
    BY <1>2, <1>6, <1>7
  <2>2. ASSUME m < k PROVE FALSE
    <3>1. m \in 1 .. k - 1
      BY <1>2, <2>1, <2>2
    <3> QED
      BY <1>5, <2>1, <3>1
  <2>3. ASSUME k < m PROVE FALSE
    <3>1. k \in 1 .. m - 1
      BY <1>2, <2>1, <2>3
    <3> QED
      BY <1>4, <1>7, <3>1
  <2> QED
    BY <1>2, <2>1, <2>2, <2>3
<1> QED
  BY <1>3, <1>4, <1>7, <1>8

\* The loop over bunches, sources and events keeps the crossing frame, the record
\* and the choice of checkSignal in step with the place it is at.
THEOREM PileUpInvariant == Spec => []PileUpInv
<1>1. Init => PileUpInv
  <2> SUFFICES ASSUME Init PROVE PileUpInv
    OBVIOUS
  <2> USE SignalsAreTyped, EmptyIsSeq DEF Init, Idle, EmptyRecord
  <2>1. PlaceOK
    BY DEF PlaceOK, Phases
  <2>2. RecordOK
    BY DEF RecordOK, SizesOf
  <2>3. AdjustersOK
    BY DEF AdjustersOK, Begun
  <2> QED
    BY <2>1, <2>2, <2>3 DEF PileUpInv
<1>2. PileUpInv /\ [Next]_vars => PileUpInv'
  <2> SUFFICES ASSUME PileUpInv, [Next]_vars PROVE PileUpInv'
    OBVIOUS
  <2>1. CASE BeginEvent
    BY <2>1, BeginEventKeeps
  <2>2. CASE BeginBunch
    BY <2>2, BeginBunchKeeps
  <2>3. CASE BeginSource
    BY <2>3, BeginSourceKeeps
  <2>4. CASE ReadPileUp
    BY <2>4, ReadPileUpKeeps
  <2>5. CASE PlayPileUp
    BY <2>5, PlayPileUpKeeps
  <2>6. CASE EndSource
    BY <2>6, EndSourceKeeps
  <2>7. CASE EndBunch
    BY <2>7, EndBunchKeeps
  <2>8. CASE Put
    BY <2>8, PutKeeps
  <2>9. CASE BeginPlayback
    BY <2>9, BeginPlaybackKeeps
  <2>10. CASE EndJob
    BY <2>10, EndJobKeeps
  <2>11. CASE UNCHANGED vars
    BY <2>11, StutterKeeps
  <2> QED
    BY <2>1, <2>2, <2>3, <2>4, <2>5, <2>6, <2>7, <2>8, <2>9, <2>10, <2>11 DEF Next, Finished
<1> QED
  BY <1>1, <1>2, PTL DEF Spec

\* PileUpIsInItsBunch: an event asked of a source is in the bunch and turn of its
\* id and of the offsets of the crossing frame, and what has a time is shifted by
\* that bunch if the first signal event with any of the adjusted products had all.
THEOREM PileUpStaysInItsBunch == Spec => []PileUpIsInItsBunch
<1>1. PileUpInv => PileUpIsInItsBunch
  <2> SUFFICES ASSUME PileUpInv, at.phase # "idle", NEW i \in 1 .. Len(frame.piled)
               PROVE  LET p == frame.piled[i]
                          cells == {k \in 1 .. Len(frame.src) : frame.src[k] < i}
                      IN /\ p.bunch = Bunches.first + Cardinality({b \in 1 .. Len(frame.bcr) : frame.bcr[b] < i}) - 1
                         /\ Max(cells) = Cell(p.bunch, p.source)
                         /\ p.id = <<p.bunch, i - frame.src[Max(cells)]>>
                         /\ FirstSignalIsComplete => \A o \in Timed : p.time[o] = p.bunch
    BY DEF PileUpIsInItsBunch
  <2> DEFINE p == frame.piled[i]
             bunch == p.bunch - Bunches.first + 1
             turn == Turn(Bunches.first, Width, p.bunch, p.source)
             cells == {k \in 1 .. Len(frame.src) : frame.src[k] < i}
             begun == {b \in 1 .. Len(frame.bcr) : frame.bcr[b] < i}
  <2>1. /\ OffsetsBefore(frame.bcr, i, bunch) /\ OffsetsBefore(frame.src, i, turn)
        /\ p.bunch \in Int /\ p.id = <<p.bunch, i - frame.src[turn]>>
    BY DEF PileUpInv, IsPlaced, Placed
  <2>2. Len(frame.bcr) \in Nat /\ Len(frame.src) \in Nat /\ Bunches.first \in Int
    BY Underway
  <2>3. p.bunch = Bunches.first + Cardinality(begun) - 1
    <3> HIDE DEF p
    <3>1. bunch \in 1 .. Len(frame.bcr)
      BY <2>1 DEF OffsetsBefore
    <3>2. begun = 1 .. bunch
      BY <2>1, <2>2, <3>1 DEF OffsetsBefore
    <3>3. Cardinality(1 .. bunch) = bunch
      BY <2>2, <3>1, FS_Interval
    <3>4. Cardinality(begun) = bunch
      BY <3>2, <3>3
    <3>5. ASSUME NEW x \in Int, NEW f \in Int PROVE x = f + (x - f + 1) - 1
      OBVIOUS
    <3>6. p.bunch = Bunches.first + bunch - 1
      BY <2>1, <2>2, <3>5
    <3> QED
      BY <3>4, <3>6
  <2>4. Max(cells) = turn
    <3> HIDE DEF turn
    <3>1. turn \in cells /\ turn \in Nat
      BY <2>1, <2>2 DEF OffsetsBefore
    <3>2. \A k \in cells : k \in Nat /\ k <= turn
      BY <2>1, <2>2 DEF OffsetsBefore
    <3> QED
      BY <3>1, <3>2 DEF Max
  <2>5. turn = Cell(p.bunch, p.source)
    BY DEF Turn, Cell, Width
  <2>6. ASSUME FirstSignalIsComplete, NEW o \in Timed PROVE p.time[o] = p.bunch
    <3>1. p.time = [x \in Timed |-> IF x \in adjusters THEN p.bunch ELSE 0]
      BY DEF PileUpInv, IsShifted
    <3>2. o \in adjusters
      BY <2>6, CompleteSignal
    <3> QED
      BY <3>1, <3>2
  <2> HIDE DEF p, turn, cells, begun
  <2> QED
    BY <2>1, <2>3, <2>4, <2>5, <2>6 DEF p, cells, begun
<1> QED
  BY <1>1, PileUpInvariant, PTL

=============================================================================
