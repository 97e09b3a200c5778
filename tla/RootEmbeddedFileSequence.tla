----------------------- MODULE RootEmbeddedFileSequence -----------------------
(* IOPool/Input: the source of pile-up events, an EmbeddedRootSource with its  *)
(* RootEmbeddedFileSequence.  A source is a record of parameters c: files,     *)
(* sequential, sameLumiBlock, skip (skipEvents), skipBadFiles.  The state adds *)
(*   remaining - eventsRemainingInFile_;  toSkip - initialNumberOfEventsToSkip_*)
(* to that of RootInputFileSequence.  An operation that draws random numbers   *)
(* has the set of its results; a result is [s, found], and event <<file, index *)
(* position>> where one was found.                                             *)
EXTENDS RootInputFileSequence

Read(s, event)  == [s |-> s, found |-> TRUE, event |-> event]
NotRead(s)      == [s |-> s, found |-> FALSE, event |-> <<0, 0>>]

\* readCurrentEvent: the event at the current entry of the event tree.
Current(c, s)     == s.entry >= 0 /\ s.entry < TreeEntries(c.files, s.open)
ReadCurrent(c, s) == Read(s, <<s.open, IndexOf(c.files, s.open, s.entry)>>)

\* The next file of the list, or the first one after the last.
CycleFile(c, s) == Use(c.files, s, IF s.file >= Len(c.files) THEN 1 ELSE s.file + 1)

\* skipEntries of the sequence: the rest of the offset carries over to the next
\* file.  It never ends if the files are empty.
SkipInFile(c, s, offset) ==
  LET to == s.entry + offset
      n  == TreeEntries(c.files, s.open)
  IN IF to < n THEN [s |-> [s EXCEPT !.entry = to], offset |-> 0, done |-> TRUE]
     ELSE [s |-> CycleFile(c, s), offset |-> to + 1 - n, done |-> FALSE]

Skipped(r) == IF r.done \/ r.s.failed # "" THEN r.s ELSE Fail(r.s, "endless loop")

SkipEntries(c, s, offset) ==
  LET skip[n \in 0 .. (offset + 1) * Len(c.files)] ==
        IF n = 0 THEN [s |-> s, offset |-> offset, done |-> FALSE]
        ELSE LET r == skip[n - 1]
             IN IF r.done \/ r.s.failed # "" THEN r ELSE SkipInFile(c, r.s, r.offset)
  IN Skipped(skip[(offset + 1) * Len(c.files)])

\* The constructor.  A random source tries as many files as there are, each
\* drawn from the list; it may miss the ones that can be opened.
Opens(c, f) == c.files[f].found /\ (c.files[f].opens \/ c.files[f].fallback)

Constructed(c) ==
  LET s0     == AtEnd(c.files) @@ [remaining |-> 0, toSkip |-> c.skip]
      first  == Use(c.files, s0, 1)
      random == {InitTheFile(c.files, [s0 EXCEPT !.file = f], c.skipBadFiles) : f \in 1 .. Len(c.files)}
  IN IF c.sequential
     THEN {IF first.failed = "" /\ ~c.sameLumiBlock THEN SkipEntries(c, first, c.skip) ELSE first}
     ELSE random

NextEntry(s) == [s EXCEPT !.entry = @ + 1]

ReadIfCurrent(c, s) ==
  IF s.failed # "" THEN NotRead(s)
  ELSE IF Current(c, s) THEN ReadCurrent(c, s)
  ELSE NotRead(Fail(s, "endless recursion"))

\* readOneSequential: the next entry, in the next files if this one has none.
ReadOneSequential(c, s) ==
  LET next[n \in 0 .. Len(c.files)] ==
        IF n = 0 THEN NextEntry(s)
        ELSE LET prev == next[n - 1]
             IN IF prev.failed # "" \/ Current(c, prev) THEN prev ELSE NextEntry(CycleFile(c, prev))
  IN ReadIfCurrent(c, next[Len(c.files)])

\* indexIntoFileIter_ is in the luminosity block of the event id.
InLumi(c, s, id) ==
  /\ ~NoMoreFiles(c.files, s) /\ s.open # 0
  /\ s.at <= Size(c.files, s.open) /\ SubSeq(c.files[s.open].entries[s.at].key, 1, 2) = SubSeq(id, 1, 2)

\* indexIntoFileIter_ moves to its next event.
ToNextEvent(c, s) ==
  LET from == IF Type(c.files, s.open, s.at) = "event" THEN s.at + 1 ELSE s.at
  IN [s EXCEPT !.at = Min({j \in EventsIn(c.files, s.open) : j >= from} \cup {Size(c.files, s.open) + 1})]

EntryIf(c, s, in) ==
  [s |-> IF in THEN [s EXCEPT !.entry = c.files[s.open].entries[s.at].entry] ELSE s, found |-> in]

\* RootFile::setEntryAtNextEventInLumi.
NextEventInLumi(c, s, id) == EntryIf(c, ToNextEvent(c, s), InLumi(c, ToNextEvent(c, s), id))

Block(id) == <<id[1], id[2], 0>>

ReadOrLookFurther(c, e, id) ==
  IF e.found THEN [s |-> e.s, found |-> TRUE, read |-> TRUE]
  ELSE SkipToItemInNewFile(c.files, e.s, Block(id), 1 .. Len(c.files)) @@ [read |-> FALSE]

ReadIf(c, r, read) == IF read THEN ReadCurrent(c, r.s) ELSE NotRead(r.s)

\* readOneSequentialWithID, but for the events skipped first: the next event of
\* the block, in this file or in one that was never opened.
ReadNextInLumi(c, s, id) ==
  LET next[n \in 0 .. Len(c.files) + 1] ==
        IF n = 0
        THEN (IF InLumi(c, s, id) THEN Found(s) ELSE SkipToItem(c.files, s, Block(id), 0, FALSE)) @@ [read |-> FALSE]
        ELSE LET r == next[n - 1]
             IN IF ~r.found \/ r.read THEN r ELSE ReadOrLookFurther(c, NextEventInLumi(c, r.s, id), id)
      end == Len(c.files) + 1
  IN ReadIf(c, next[end], next[end].read)

\* readOneSequentialWithID: the first call skips events of the block.
ReadOneSequentialWithID(c, s, id) ==
  LET read[n \in 0 .. s.toSkip + 1] ==
        IF n = 0 THEN Read([s EXCEPT !.toSkip = 0], <<0, 0>>)
        ELSE LET r == read[n - 1] IN IF r.found THEN ReadNextInLumi(c, r.s, id) ELSE r
  IN read[s.toSkip + 1]

\* Variant with a fault: the events before the first one read are not reread.
RemainingOnly(n, entry) == n - (entry + 1)

\* Events a random source reads of a file of n events, starting behind entry.
Visit(n, entry) == n

\* A file that was drawn: the places to start in it.
Visits(c, s) ==
  LET n == IF s.open = 0 THEN 0 ELSE TreeEntries(c.files, s.open)
  IN IF s.failed # "" THEN {s}
     ELSE IF n = 0 THEN {Fail(s, "no events")}
     ELSE {[s EXCEPT !.remaining = Visit(n, e), !.entry = e] : e \in -1 .. n - 2}

ReadNextOrFirst(c, s) == ReadCurrent(c, IF Current(c, s) THEN s ELSE [s EXCEPT !.entry = 0])

\* readOneRandom: if the file is used up, draw one, and where to start in it.
ReadOneRandom(c, s) ==
  IF s.open = 0 THEN {NotRead(Fail(s, "assert"))}
  ELSE {IF s1.failed # "" THEN NotRead(s1) ELSE ReadNextOrFirst(c, [NextEntry(s1) EXCEPT !.remaining = @ - 1]) :
          s1 \in IF s.remaining > 0 THEN {s}
                 ELSE UNION {Visits(c, IF f # s.file THEN Use(c.files, s, f) ELSE s) : f \in 1 .. Len(c.files)}}

\* Events of the block in a file.
EventsOfLumi(c, f, id) == {i \in EventsIn(c.files, f) : SubSeq(c.files[f].entries[i].key, 1, 2) = SubSeq(id, 1, 2)}

\* In the file of a block, one of the places before an event of it.
StartsInLumi(c, r, id) ==
  LET count == Cardinality(EventsOfLumi(c, r.s.open, id))
      pass[n \in 0 .. count] == IF n = 0 THEN r.s ELSE NextEventInLumi(c, pass[n - 1], id).s
  IN IF ~r.found THEN {r} ELSE {Found(pass[n]) : n \in 0 .. Max({0, count - 1})}

\* The next event of the block, or the first again: there is none in a block
\* without events, which is sought forever.
ReadOrStartAgain(c, e, id) ==
  IF e.found THEN ReadCurrent(c, e.s)
  ELSE IF ~ContainsItem(c.files, e.s.open, Block(id)) THEN NotRead(e.s)
  ELSE LET again == NextEventInLumi(c, SetEntryAtItem(c.files, e.s, Block(id)), id)
       IN IF again.found THEN ReadCurrent(c, again.s) ELSE NotRead(Fail(e.s, "endless recursion"))

\* readOneRandomWithID: starts at a random event of the block and goes on in order.
ReadOneRandomWithID(c, s, id) ==
  {IF r.found THEN ReadOrStartAgain(c, NextEventInLumi(c, r.s, id), id) ELSE NotRead(r.s) :
     r \in IF InLumi(c, s, id) THEN {Found(s)}
           ELSE StartsInLumi(c, SkipToItem(c.files, s, Block(id), 0, TRUE), id)}

\* readOneEvent, for the signal event id.
ReadOneEvent(c, s, id) ==
  IF s.failed # "" THEN {NotRead(s)}
  ELSE IF c.sameLumiBlock
       THEN IF c.sequential THEN {ReadOneSequentialWithID(c, s, id)} ELSE ReadOneRandomWithID(c, s, id)
       ELSE IF c.sequential THEN {ReadOneSequential(c, s)} ELSE ReadOneRandom(c, s)

ReadIfFound(c, r) ==
  IF r.s.failed # "" THEN NotRead(r.s)
  ELSE IF ~r.found THEN NotRead(Fail(r.s, "NotFound"))
  ELSE ReadCurrent(c, r.s)

\* readOneSpecified, for playback: event id of the file whose name has the hash.
ReadOneSpecified(c, s, id, hash) ==
  IF s.failed # "" THEN NotRead(s) ELSE ReadIfFound(c, SkipToItem(c.files, s, id, hash, TRUE))

=============================================================================
