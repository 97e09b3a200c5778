----------------------------- MODULE MixingModule -----------------------------
(* SimGeneral/MixingModule: adds pile-up events to each signal event, for each *)
(* bunch crossing and source, hands them to the digitisers (accumulators) and  *)
(* to crossing frames, and records what it added so that a later job can play  *)
(* it back.  The sources are RootEmbeddedFileSequences; BMixingModule and      *)
(* PileUp (Mixing/Base), which call and are called, are external.  A behaviour *)
(* is a job that mixes some signal events and then a job that plays them back. *)
EXTENDS RootEmbeddedFileSequence

CONSTANTS Jobs,      \* [sources, objects, signals, format, writer], see JobsAssumption
          MaxPileUp  \* bound: events PileUp::CalculatePileup may ask for

\* Types of mixObjects that have an Adjuster, and those that may have a worker.
Adjustable == {"SimTrack", "RecoTrack", "SimVertex", "PCaloHit", "PSimHit"}
Mixable    == {"SimTrack", "SimVertex", "HepMCProduct", "PCaloHit", "PSimHit"}

\* Source 0 is the first of sources; it piles up in every bunch or in none.
ASSUME JobsAssumption ==
  /\ MaxPileUp \in Nat
  /\ \A job \in Jobs :
       /\ job.sources \in Seq(Range(job.sources)) /\ job.sources # <<>> /\ job.signals \in Seq(Range(job.signals))
       /\ \A c \in Range(job.sources) :
            /\ Len(c.files) > 0 /\ c.skip \in Nat /\ c.bunches \subseteq Int /\ c.playback \subseteq Int
            /\ {c.sequential, c.sameLumiBlock, c.skipBadFiles} \subseteq BOOLEAN
       /\ \A o \in job.objects : o.type \in Adjustable \cup Mixable /\ o.frame \in BOOLEAN
       /\ job.writer \in BOOLEAN
       /\ job.format \in {"new", "old"}
       /\ \A e \in Range(job.signals) :
            /\ e.bunches.first \in Int /\ e.bunches.last \in Int /\ e.bunches.first <= 0 /\ e.bunches.last >= 0
            /\ \/ job.sources[1].bunches = {}
               \/ e.bunches.first .. e.bunches.last \subseteq job.sources[1].bunches

VARIABLES config,            \* the configuration of the jobs
          pass,              \* "mix", "playback" or "done"
          seqs,              \* file sequence of each source
          adjusters, workers,\* adjusters_, workers_: labels of objects, {} until chosen
          at,                \* where doPileUp is: [event, phase, bunch, source, left, nr]
          list,              \* PileupList
          record,            \* recordEventID, sizes and whether all were read
          counter,           \* playbackCounter
          frame,             \* the crossing frames of the event, one per worker
          infos, frames,     \* what the first job left for each event, CFWriter's frames included
          reads              \* events read from each source by this job

vars == <<config, pass, seqs, adjusters, workers, at, list, record, counter, frame, infos, frames, reads>>

Sources    == 1 .. Len(config.sources)
Signal     == config.signals[at.event]
playback   == pass = "playback"

-------------------------------------------------------------------------------
(* The constructor: an adjuster for each object that has event ids or times,   *)
(* a worker for each object with a crossing frame.                             *)

AdjustersObjects == {o \in config.objects : o.type \in Adjustable}
WorkersObjects   == {o \in config.objects : o.type \in Mixable /\ o.frame}

\* Only positions in time are shifted; tracks and reconstructed hits get the id.
Timed == {o.label : o \in {p \in config.objects : p.type \in {"SimVertex", "PCaloHit", "PSimHit"}}}

\* reload: bunch crossings of the event, which may change between runs.
Bunches == Signal.bunches

Present(objects) == {o.label : o \in {p \in objects : p.label \in Signal.products}}

\* checkSignal: chosen by the first event that has any of the products.
Chosen(chosen, objects) == IF chosen = {} THEN Present(objects) ELSE chosen

\* createnewEDProduct: no pile-up yet; bcr and src are the offsets in the lists.
EmptyFrame(labels) == [labels |-> labels, bcr |-> <<>>, src |-> <<>>, piled |-> <<>>]
EmptyRecord == [ids |-> <<>>, sizes |-> <<>>, complete |-> TRUE]

Idle(event) == [event |-> event, phase |-> "idle", bunch |-> 0, source |-> 0, left |-> 0, nr |-> 0]

Init ==
  /\ config \in Jobs
  /\ pass = "mix"
  /\ seqs \in [1 .. Len(config.sources) -> UNION {Constructed(c) : c \in Range(config.sources)}]
  /\ \A s \in 1 .. Len(config.sources) : seqs[s] \in Constructed(config.sources[s])
  /\ adjusters = {} /\ workers = {} /\ at = Idle(1)
  /\ list = <<>> /\ record = EmptyRecord /\ counter = 0 /\ frame = EmptyFrame({})
  /\ infos = <<>> /\ frames = <<>>
  /\ reads = [s \in 1 .. Len(config.sources) |-> <<>>]

-------------------------------------------------------------------------------

\* A source or the writer of frames throws, and the job ends.
Failed == \/ \E s \in Sources : seqs[s].failed # ""
          \/ frames # <<>> /\ Last(frames).threw

\* A job that plays back may leave out what a source did in some bunches.
DoPileUp(source, bunch) ==
  bunch \in (IF playback THEN config.sources[source].playback ELSE config.sources[source].bunches)

\* CrossingFramePlaybackInfo (external): the number of events of a bunch and
\* source, and the place of the first in the list of all.
Cell(bunch, source) == (bunch - Bunches.first) * Len(config.sources) + source
NumberOfEvents(info, bunch, source) == info.sizes[Cell(bunch, source)]
Before(info, cell) == FoldLeft(LAMBDA n, i : n + info.sizes[i], 0, [i \in 1 .. cell - 1 |-> i])

\* produce: checkSignal, createnewEDProduct, addSignals, and the number of
\* minimum bias events of each bunch, drawn or recorded.
BeginEvent ==
  /\ at.phase = "idle" /\ pass # "done" /\ at.event <= Len(config.signals) /\ ~Failed
  /\ adjusters' = Chosen(adjusters, AdjustersObjects)
  /\ workers' = Chosen(workers, WorkersObjects)
  /\ frame' = EmptyFrame(workers') /\ record' = EmptyRecord /\ counter' = 0
  /\ LET crossings == Bunches.last - Bunches.first + 1
     IN IF playback
        THEN list' = [b \in 1 .. crossings |-> NumberOfEvents(infos[at.event], Bunches.first + b - 1, 1)]
        ELSE IF DoPileUp(1, 0) THEN list' \in [1 .. crossings -> 0 .. MaxPileUp]
        ELSE list' = <<>>
  /\ at' = [at EXCEPT !.phase = "bunch", !.bunch = Bunches.first]
  /\ UNCHANGED <<config, pass, seqs, infos, frames, reads>>

\* setBcrOffset of the workers and initializeBunchCrossing of the accumulators.
BeginBunch ==
  /\ at.phase = "bunch" /\ at.bunch <= Bunches.last
  /\ frame' = [frame EXCEPT !.bcr = Append(@, Len(frame.piled))]
  /\ at' = [at EXCEPT !.phase = "source", !.source = 1]
  /\ UNCHANGED <<config, pass, seqs, adjusters, workers, list, record, counter, infos, frames, reads>>

\* Variant with a fault: only the sources that pile up move the position.
AdvanceIfPiled(source) ==
  IF playback /\ config.format = "new" /\ DoPileUp(source, at.bunch)
  THEN counter + NumberOfEvents(infos[at.event], at.bunch, source) ELSE counter

\* playbackCounter behind the events recorded for this bunch and source.
Advance(source) ==
  IF playback /\ config.format = "new"
  THEN counter + NumberOfEvents(infos[at.event], at.bunch, source) ELSE counter

\* setSourceOffset, and how many events to ask the source for.
BeginSource ==
  LET source == at.source
      number == IF ~DoPileUp(source, at.bunch) THEN 0
                ELSE IF playback THEN NumberOfEvents(infos[at.event], at.bunch, source)
                ELSE IF source = 1 THEN list[at.bunch - Bunches.first + 1]
                ELSE 1
  IN /\ at.phase = "source" /\ source <= Len(config.sources)
     /\ frame' = [frame EXCEPT !.src = Append(@, Len(frame.piled))]
     /\ record' = [record EXCEPT !.sizes = Append(@, number)]
     /\ counter' = Advance(source)
     /\ at' = [at EXCEPT !.phase = "read", !.left = number, !.nr = 0]
     /\ UNCHANGED <<config, pass, seqs, adjusters, workers, list, infos, frames, reads>>

\* Variant with a fault: the digitisers see the event before it is adjusted.
AccumulateFirst(event, nr) ==
  [bunch |-> at.bunch, source |-> at.source, event |-> event, id |-> <<at.bunch, nr>>, time |-> [o \in Timed |-> 0]]

\* pileAllWorkers: doOffset of the adjusters, accumulate of the digitisers and
\* addPileups of the workers.  time is the number of bunches that the positions
\* in time are shifted by.
PileAllWorkers(event, nr) ==
  [bunch |-> at.bunch, source |-> at.source, event |-> event, id |-> <<at.bunch, nr>>,
   time |-> [o \in Timed |-> IF o \in adjusters THEN at.bunch ELSE 0]]

Key(source, event) == config.sources[source].files[event[1]].entries[event[2]].key

\* An event that was read is recorded and piled up.
PileUp(r, hash) ==
  /\ frame' = [frame EXCEPT !.piled = Append(@, PileAllWorkers(r.event, at.nr + 1))]
  /\ record' = [record EXCEPT !.ids = Append(@, [id |-> Key(at.source, r.event), hash |-> hash])]
  /\ reads' = [reads EXCEPT ![at.source] = Append(@, r.event)]
  /\ at' = [at EXCEPT !.left = @ - 1, !.nr = @ + 1]

\* One round of PileUp::readPileUp (external); it stops at the first failure.
ReadPileUp ==
  /\ at.phase = "read" /\ at.left > 0 /\ ~playback /\ ~Failed
  /\ \E r \in ReadOneEvent(config.sources[at.source], seqs[at.source], Signal.id) :
       /\ seqs' = [seqs EXCEPT ![at.source] = r.s]
       /\ IF r.found THEN PileUp(r, r.s.hash)
          ELSE /\ at' = [at EXCEPT !.left = 0] /\ record' = [record EXCEPT !.complete = FALSE]
               /\ UNCHANGED <<frame, reads>>
  /\ UNCHANGED <<config, pass, adjusters, workers, list, counter, infos, frames>>

\* One round of PileUp::playPileUp or playOldFormatPileUp (external).  If fewer
\* events were recorded than counted, the end of the list is passed.
PlayPileUp ==
  LET info  == infos[at.event]
      place == IF config.format = "new" THEN counter - at.left + 1
               ELSE Before(info, Cell(at.bunch, at.source)) + at.nr + 1
      hash  == IF config.format = "new" THEN info.ids[place].hash ELSE 0
      r     == ReadOneSpecified(config.sources[at.source], seqs[at.source], info.ids[place].id, hash)
  IN /\ at.phase = "read" /\ at.left > 0 /\ playback /\ ~Failed
     /\ IF place > Len(info.ids)
        THEN /\ seqs' = [seqs EXCEPT ![at.source] = Fail(@, "past the end of the record")]
             /\ UNCHANGED <<frame, record, reads, at>>
        ELSE /\ seqs' = [seqs EXCEPT ![at.source] = r.s]
             /\ IF r.found THEN PileUp(r, IF hash = 0 THEN r.s.hash ELSE hash) ELSE UNCHANGED <<frame, record, reads, at>>
     /\ UNCHANGED <<config, pass, adjusters, workers, list, counter, infos, frames>>

EndSource ==
  /\ at.phase = "read" /\ at.left = 0 /\ ~Failed
  /\ at' = [at EXCEPT !.phase = "source", !.source = @ + 1]
  /\ UNCHANGED <<config, pass, seqs, adjusters, workers, list, record, counter, frame, infos, frames, reads>>

\* finalizeBunchCrossing of the accumulators.
EndBunch ==
  /\ at.phase = "source" /\ at.source > Len(config.sources)
  /\ at' = [at EXCEPT !.phase = "bunch", !.bunch = @ + 1]
  /\ UNCHANGED <<config, pass, seqs, adjusters, workers, list, record, counter, frame, infos, frames, reads>>

\* CFWriter, behind MixingModule in the path, makes the crossing frames of the
\* event persistent.  It registers each object under the label of its input.
Registered == {<<o.type, o.input>> : o \in {p \in config.objects : p.type \in Mixable}}

\* produce: tracks, vertices and generated events are sought under fixed labels,
\* hits under those of their inputs; generated events are put under another one.
\* What was not mixed is left out, and what was not registered cannot be put.
SoughtUnder(o) ==
  CASE o.type \in {"SimTrack", "SimVertex"} -> "g4SimHits"
    [] o.type = "HepMCProduct" -> "generatorSmeared"
    [] OTHER -> o.input

Written ==
  {<<o.type, IF o.type = "HepMCProduct" THEN "generator" ELSE SoughtUnder(o)>> : o \in
     {p \in config.objects :
        \E w \in WorkersObjects : w.label \in frame.labels /\ w.type = p.type /\ w.input = SoughtUnder(p)}}

CFWriterThrows == config.writer /\ ~(Written \subseteq Registered)

\* setInfo, put: the playback information and the crossing frames.
Put ==
  /\ at.phase = "bunch" /\ at.bunch > Bunches.last
  /\ at' = Idle(at.event + 1)
  /\ infos' = IF playback THEN infos ELSE Append(infos, record)
  /\ frames' = IF playback THEN frames ELSE Append(frames, [piled |-> frame.piled, written |-> IF config.writer THEN Written ELSE {}, threw |-> CFWriterThrows])
  /\ UNCHANGED <<config, pass, seqs, adjusters, workers, list, record, counter, frame, reads>>

\* The next job reads the same signal events and the playback information.
BeginPlayback ==
  /\ pass = "mix" /\ at.phase = "idle" /\ at.event > Len(config.signals) /\ ~Failed
  /\ pass' = "playback" /\ at' = Idle(1)
  /\ seqs' \in [Sources -> UNION {Constructed(c) : c \in Range(config.sources)}]
  /\ \A s \in Sources : seqs'[s] \in Constructed(config.sources[s])
  /\ adjusters' = {} /\ workers' = {} /\ reads' = [s \in Sources |-> <<>>]
  /\ UNCHANGED <<config, list, record, counter, frame, infos, frames>>

EndJob ==
  /\ playback /\ at.phase = "idle" /\ at.event > Len(config.signals)
  /\ pass' = "done"
  /\ UNCHANGED <<config, seqs, adjusters, workers, at, list, record, counter, frame, infos, frames, reads>>

Finished == (pass = "done" \/ Failed) /\ UNCHANGED vars

Next ==
  \/ BeginEvent \/ BeginBunch \/ BeginSource \/ ReadPileUp \/ PlayPileUp \/ EndSource \/ EndBunch \/ Put
  \/ BeginPlayback \/ EndJob
  \/ Finished

Spec == Init /\ [][Next]_vars

-------------------------------------------------------------------------------
(* Properties.                                                                 *)

\* Files that can be read and share no event: an event id says where it is.
Unambiguous(c) ==
  /\ \A f \in 1 .. Len(c.files) : Opens(c, f)
  /\ \A f, g \in 1 .. Len(c.files) : \A i \in EventsIn(c.files, f), j \in EventsIn(c.files, g) :
       c.files[f].entries[i].key = c.files[g].entries[j].key => f = g /\ i = j

\* Playing back what a job recorded piles up the same events, for the same bunch
\* crossings and sources and in the same order, where the sources still pile up,
\* if ids are unambiguous and no source ran out of events: playbackCounter is
\* where the events of each bunch and source begin, also behind those of a source
\* that is skipped now (MixingModule.cc:455).
PlaybackRepeatsTheMixing ==
  (playback /\ \A c \in Range(config.sources) : Unambiguous(c)) =>
    LET event == at.event
    IN event <= Len(infos) /\ (\A e \in 1 .. event : infos[e].complete) =>
         /\ ~Failed
         /\ at.phase = "bunch" /\ at.bunch > Bunches.last =>
              frame.piled = SelectSeq(frames[event].piled, LAMBDA p : DoPileUp(p.source, p.bunch))

\* Events of a source in the order of its files and their trees.
InOrder(c) ==
  FlattenSeq([f \in 1 .. Len(c.files) |->
    [n \in 1 .. TreeEntries(c.files, f) |-> <<f, IndexOf(c.files, f, n - 1)>>]])

\* A sequential source reads its events in order and begins again after the
\* last; a random one reads each event of the file it has drawn once, from a
\* random one on, before it draws the next file (readOneSequential,
\* readOneRandom, skipEntries).
ReadInOrder ==
  pass = "mix" =>
    \A s \in Sources :
      LET c == config.sources[s]
          r == reads[s]
          n == IF r = <<>> THEN 0 ELSE TreeEntries(c.files, Last(r)[1]) - seqs[s].remaining
          visit == SubSeq(r, Len(r) - n + 1, Len(r))
      IN ~c.sameLumiBlock =>
           IF c.sequential
           THEN LET all == InOrder(c) IN \A j \in 1 .. Len(r) : r[j] = all[1 + ((c.skip + j - 1) % Len(all))]
           ELSE /\ n <= Len(r) /\ IsInjective(visit)
                /\ \A j \in 1 .. Len(visit) : visit[j][1] = Last(r)[1]

\* With sameLumiBlock the pile-up is of the block of the signal event, and the
\* search ends unless a file has the block without an event in it
\* (readOneRandomWithID, readOneSequentialWithID).
LumisAreKept ==
  pass = "mix" => \A s \in Sources :
    LET c == config.sources[s]
    IN c.sameLumiBlock =>
         /\ \A p \in Range(frame.piled) :
              at.event <= Len(config.signals) /\ at.phase # "idle" /\ p.source = s =>
                SubSeq(Key(s, p.event), 1, 2) = SubSeq(Signal.id, 1, 2)
         /\ seqs[s].failed = "endless recursion" =>
              \E f \in 1 .. Len(c.files) :
                ContainsItem(c.files, f, Block(Signal.id)) /\ EventsOfLumi(c, f, Signal.id) = {}

\* The sequences give the mixing the events its configuration asks for.
SourcesReadInOrder == ReadInOrder /\ LumisAreKept

\* The first event with any of the products that are adjusted has them all.
FirstSignalIsComplete ==
  \E k \in 1 .. at.event :
    /\ k <= Len(config.signals)
    /\ {o.label : o \in AdjustersObjects} \subseteq config.signals[k].products
    /\ \A j \in 1 .. k - 1 : \A o \in AdjustersObjects : o.label \notin config.signals[j].products

\* Each event is piled up in the bunch and source for which it was read, whether
\* one asks the offsets of the crossing frame, the event id or the time: its
\* positions in time are shifted by that many bunches, whatever products later
\* signal events lack (checkSignal, setBcrOffset, setSourceOffset, doOffset).
PileUpIsInItsBunch ==
  at.phase # "idle" =>
    \A i \in 1 .. Len(frame.piled) :
      LET p == frame.piled[i]
          cells == {k \in 1 .. Len(frame.src) : frame.src[k] < i}
      IN /\ p.bunch = Bunches.first + Cardinality({b \in 1 .. Len(frame.bcr) : frame.bcr[b] < i}) - 1
         /\ Max(cells) = Cell(p.bunch, p.source)
         /\ p.id = <<p.bunch, i - frame.src[Max(cells)]>>
         /\ FirstSignalIsComplete => \A o \in Timed : p.time[o] = p.bunch

=============================================================================
