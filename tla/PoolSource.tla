------------------------------ MODULE PoolSource ------------------------------
(* IOPool/Input: PoolSource reads the events of a list of files.  It owns a    *)
(* RootPrimaryFileSequence, which has at most one RootFile open and keeps the  *)
(* indexes of closed files; a DuplicateChecker, which drops events read        *)
(* before; a RunHelper, which may give each luminosity block a run number; and *)
(* a RootSecondaryFileSequence, if secondary files have products that primary  *)
(* ones have not: each item is then looked for in them and its products merged.*)
(* An IndexIntoFile (FWCore, external) is the sequence of a file's runs, lumis *)
(* and events in the order in which it iterates over them.                     *)
EXTENDS Integers, Sequences, FiniteSets, SequencesExt

CONSTANTS Jobs,         \* parameters of jobs: [files, mode, runs, skip, parents, products], for
                        \* fileNames, duplicateCheckMode, setRunNumberForEachLumi, skipEvents and
                        \* secondaryFileNames; products of the first primary and secondary file
          SkipBadFiles, \* skipBadFiles
          LumisToSkip,  \* EventSkipperByID (external): <<run, lumi>> to skip
          EventsToSkip, \* and keys of events to skip
          Offsets,      \* bound: offsets a looper skips by
          MaxJumps,     \* bound: a looper's skips and goToEvents
          MaxRewinds    \* bound: a looper's rewinds

Modes == {"noDuplicateCheck", "checkEachFile", "checkEachRealDataFile", "checkAllFilesOpened"}

\* A file: whether it can be opened and matches the first one, and its index.
Files == [opens : BOOLEAN, matches : BOOLEAN, real : BOOLEAN,
          entries : Seq([type : {"run", "lumi", "event"}, key : Nat \X Nat \X Nat])]

\* A secondary file as RootInputFileSequence knows files; its process histories
\* may be ancestors of those of the primary file, and entries have the GUID of
\* the event, which for a primary one is its key.
ItemTypes == {"run", "lumi", "event"}
ParentFiles == [found : BOOLEAN, opens : BOOLEAN, fallback : BOOLEAN, ancestor : BOOLEAN,
                entries : Seq([type : ItemTypes, key : Nat \X Nat \X Nat, entry : Nat, guid : Nat \X Nat \X Nat])]

ASSUME JobsAssumption ==
  \A j \in Jobs :
    /\ j.files \in Seq(Files) /\ j.mode \in Modes /\ j.runs \in Seq(Nat \ {0}) /\ j.skip \in Nat
    /\ j.parents \in Seq(ParentFiles)
    /\ \A side \in {"primary", "secondary"} : \A p \in j.products[side] : p[1] \in ItemTypes
ASSUME ConfigurationAssumption ==
  /\ SkipBadFiles \in BOOLEAN /\ Offsets \subseteq Int \ {0} /\ MaxJumps \in Nat /\ MaxRewinds \in Nat

VARIABLES config,   \* the job
          seq,      \* file sequence, open file and duplicate checker, see Constructed
          helper,   \* the RunHelper
          state,    \* InputSource::state(): the last item announced
          pending,  \* that item is still to be read
          given,    \* <<file, entry>> of the events read since the last rewind
          lumiRuns, \* run numbers given to the luminosity blocks read
          parents,  \* the RootSecondaryFileSequence, see OpenFirstParent, and saved,
                    \* the run that savedRunAuxiliary_ of its RootFile is of, 0 for null
          merged,   \* the item sought in it last, and what the primary item was merged with
          syncs,    \* <<file, entry>> at which IsSynchronize was announced since then
          jumps, rewinds \* what the looper did

vars == <<config, seq, helper, state, pending, given, lumiRuns, parents, merged, syncs, jumps, rewinds>>

files == config.files
N     == Len(files)

-------------------------------------------------------------------------------
(* One file: its index and the duplicate checker.                              *)

Key(f, i)     == files[f].entries[i].key
Size(f)       == Len(files[f].entries)
EventsOf(f)   == {i \in 1 .. Size(f) : files[f].entries[i].type = "event"}
KeysOf(f)     == {Key(f, i) : i \in 1 .. Size(f)}
EntryType(f, i) == IF i > Size(f) THEN "end" ELSE files[f].entries[i].type

\* An iterator (external) is at entry iter; events before from have been skipped,
\* and with them the lumis and runs that have nothing from there on.
Advance(f, i, types) ==
  Min({j \in i + 1 .. Size(f) : EntryType(f, j) \in types} \cup {Size(f) + 1})

End(f, i) == CASE EntryType(f, i) = "run"  -> Advance(f, i, {"run"}) - 1
               [] EntryType(f, i) = "lumi" -> Advance(f, i, {"run", "lumi"}) - 1
               [] OTHER -> i

Resume(f, i, from) == Min({j \in i .. Size(f) : End(f, j) >= from} \cup {Size(f) + 1})

\* ++, advanceToNextRun, advanceToNextLumiOrRun.
Increment(s) == [s EXCEPT !.iter = Resume(s.open, s.iter + 1, s.from)]

\* The first entry to announce for event e when coming from entry i: e itself,
\* its lumi, or its run.
Announce(f, i, e) ==
  LET last(j, types) == Max({k \in 1 .. j : k <= Size(f) /\ EntryType(f, k) \in types})
  IN IF EntryType(f, i) \in {"run", "end"} \/ last(i, {"run"}) # last(e, {"run"}) THEN last(e, {"run"})
     ELSE IF EntryType(f, i) = "lumi" \/ last(i, {"lumi"}) # last(e, {"lumi"}) THEN last(e, {"lumi"})
     ELSE e

\* EventSkipperByID::skipIt (external) for an event, and skippingLumis.
SkippedEvent(key) == key \in EventsToSkip \/ SubSeq(key, 1, 2) \in LumisToSkip

\* Some luminosity block ahead in the run is not skipped.
RunHasLumis(f, i, from) ==
  \E j \in i + 1 .. End(f, i) :
    /\ EntryType(f, j) = "lumi" /\ End(f, j) >= from
    /\ SubSeq(Key(f, j), 1, 2) \notin LumisToSkip

\* skipThisEntry.
SkipThisEntry(f, i, from) ==
  CASE EntryType(f, i) = "end"   -> FALSE
    [] EntryType(f, i) = "lumi"  -> SubSeq(Key(f, i), 1, 2) \in LumisToSkip
    [] EntryType(f, i) = "event" -> SkippedEvent(Key(f, i))
    [] EntryType(f, i) = "run"   -> LumisToSkip # {} /\ ~RunHasLumis(f, i, from)

CheckDisabled(s) ==
  \/ config.mode = "noDuplicateCheck"
  \/ config.mode = "checkEachRealDataFile" /\ s.dataType = "isSimulation"
  \/ s.disabled

\* isDuplicateAndCheckActive, but for the insertion.
Active(s)          == ~s.known /\ ~CheckDisabled(s)
IsDuplicate(s, key) == Active(s) /\ key \in s.previous

Disable(s) == [s EXCEPT !.disabled = TRUE, !.dataType = "unknown", !.previous = {}, !.known = FALSE]

\* Variant with a fault: compares with the file before only.
KeysOfLastFile(s) == IF s.file - 1 \in s.indexes THEN KeysOf(s.file - 1) ELSE {}

\* What files opened before have in common with the current one.
KeysOfOpenedFiles(s) == UNION {KeysOf(f) : f \in {g \in s.indexes : g < s.file}}

\* DuplicateChecker::inputFileOpened, called if the file has an event.
InputFileOpened(s) ==
  LET ContainsDuplicateEvents(f) ==
        \E i, j \in EventsOf(f) : i # j /\ Key(f, i) = Key(f, j)
      typed    == [s EXCEPT !.dataType = IF files[s.file].real THEN "isRealData" ELSE "isSimulation"]
      previous == IF config.mode = "checkAllFilesOpened"
                  THEN KeysOf(s.file) \cap KeysOfOpenedFiles(s) ELSE {}
  IN IF EventsOf(s.file) = {} THEN s
     ELSE IF CheckDisabled(typed) THEN typed
     ELSE [typed EXCEPT !.previous = previous,
                        !.known = (previous = {} /\ ~ContainsDuplicateEvents(s.file))]

\* DuplicateChecker::inputFileClosed, called when a file is closed.
InputFileClosed(s) == [s EXCEPT !.dataType = "unknown", !.previous = {}, !.known = FALSE]

-------------------------------------------------------------------------------
(* The sequence of files.                                                      *)

NoMoreFiles(s) == s.file > N

CloseFile(s) == IF s.open = 0 THEN s ELSE [InputFileClosed(s) EXCEPT !.open = 0]

\* The index of a file is deleted with it, unless goToEvent or the check across
\* files will need it.
DeleteIndexIntoFile(s) ==
  ~s.usingGoTo /\ ~(config.mode = "checkAllFilesOpened" /\ ~CheckDisabled(s))

Failed(s, why) == [s EXCEPT !.failed = why]

\* initFile: closes the open file and opens the one at fileIter_.  saved is
\* savedRunAuxiliary_ of the new RootFile.
InitFile(s, skipBadFiles) ==
  LET index  == IF s.last # 0 /\ DeleteIndexIntoFile(s) THEN s.indexes \ {s.last} ELSE s.indexes
      closed == CloseFile([s EXCEPT !.indexes = index, !.last = 0])
  IN IF NoMoreFiles(s) THEN closed
     ELSE IF files[s.file].opens
          THEN [InputFileOpened(closed) EXCEPT
                  !.open = s.file, !.last = s.file, !.iter = 1, !.from = 1, !.saved = FALSE,
                  !.indexes = @ \cup {s.file}]
     ELSE IF skipBadFiles THEN closed
     ELSE Failed(closed, "FileOpenError")

CheckMatch(s) ==
  IF s.failed = "" /\ s.open # 0 /\ ~files[s.open].matches THEN Failed(s, "MismatchedInputFiles") ELSE s

\* nextFile; it returned false if NoMoreFiles holds after it.
NextFile(s) ==
  LET next == IF NoMoreFiles(s) THEN s ELSE [s EXCEPT !.file = @ + 1]
  IN IF NoMoreFiles(next) THEN next ELSE CheckMatch(InitFile(next, SkipBadFiles))

\* previousFile, where there is one.
PreviousFile(s) ==
  LET prev == CheckMatch(InitFile([s EXCEPT !.file = @ - 1], FALSE))
  IN IF prev.open = 0 THEN prev ELSE [prev EXCEPT !.iter = Size(prev.open) + 1, !.from = Size(prev.open) + 1]

\* RootFile::skipEvents forward: events counted from iter on are those that are
\* neither skipped by number nor duplicates.  r is [s, offset].
Ahead(s) == {i \in EventsOf(s.open) : i >= s.iter /\ i >= s.from}

Countable(s) ==
  {i \in Ahead(s) :
     /\ ~SkippedEvent(Key(s.open, i))
     /\ Active(s) => /\ Key(s.open, i) \notin s.previous
                     /\ \A j \in Ahead(s) : Key(s.open, j) = Key(s.open, i) => j >= i}

Nth(set, n)     == CHOOSE i \in set : Cardinality({j \in set : j <= i}) = n
NthLast(set, n) == CHOOSE i \in set : Cardinality({j \in set : j >= i}) = n

SkipForward(r) ==
  LET s       == r.s
      count   == Cardinality(Countable(s))
      to      == IF count >= r.offset THEN Nth(Countable(s), r.offset) + 1 ELSE Size(s.open) + 1
      skipped == {Key(s.open, i) : i \in {j \in Ahead(s) : j < to /\ ~SkippedEvent(Key(s.open, j))}}
  IN [s      |-> [s EXCEPT !.iter = Resume(s.open, @, to), !.from = to, !.previous = IF Active(s) THEN @ \cup skipped ELSE @],
      offset |-> IF count >= r.offset THEN 0 ELSE r.offset - count]

\* RootFile::skipEvents backward: duplicates count, the checker is disabled.
SkipBackward(r) ==
  LET Behind(s) == {i \in EventsOf(s.open) \ Ahead(s) : ~SkippedEvent(Key(s.open, i))}
      count == Cardinality(Behind(r.s))
      s     == Disable(r.s)
      e     == NthLast(Behind(r.s), -r.offset)
  IN IF count >= -r.offset
     THEN [s |-> [s EXCEPT !.iter = Announce(s.open, @, e), !.from = e], offset |-> 0]
     ELSE [s |-> [s EXCEPT !.iter = 1, !.from = 1], offset |-> r.offset + count]

\* One round of RootPrimaryFileSequence::skipEvents: within the file, then to
\* the next or the previous one; a missing file has no RootFile to skip in.
SkipRound(r) ==
  LET in    == IF r.offset > 0 THEN SkipForward(r) ELSE SkipBackward(r)
      atEnd == in.s.iter = Size(in.s.open) + 1
      s     == IF in.offset > 0 \/ atEnd THEN NextFile(in.s) ELSE in.s
  IN IF r.s.open = 0 THEN [s |-> Failed(r.s, "null RootFile"), offset |-> 0]
     ELSE IF s.failed # "" \/ in.offset >= 0 \/ NoMoreFiles(s)
          THEN [s |-> s, offset |-> IF NoMoreFiles(s) THEN 0 ELSE in.offset]
     ELSE IF s.file = 1 THEN [s |-> [s EXCEPT !.file = N + 1], offset |-> 0]
     ELSE [s |-> PreviousFile(s), offset |-> in.offset]

\* N + 2 rounds cross every file; more mean that the loop does not end.
SkipEvents(s, offset) ==
  LET rounds[n \in 0 .. N + 2] ==
        IF n = 0 THEN [s |-> s, offset |-> offset]
        ELSE LET r == rounds[n - 1]
             IN IF r.offset = 0 \/ r.s.failed # "" THEN r ELSE SkipRound(r)
      last == rounds[N + 2]
  IN IF last.offset # 0 /\ last.s.failed = "" THEN Failed(last.s, "endless loop") ELSE last.s

ContainsItem(f, key) == \E i \in EventsOf(f) : Key(f, i) = key

\* Variant with a fault: behind the event, which was read to find it.
PositionAfter(f, key) == Min({i \in EventsOf(f) : Key(f, i) = key}) + 1

Position(f, key) == Min({i \in EventsOf(f) : Key(f, i) = key})

\* goToEvent: in the open file, in files opened before, in the others in turn;
\* if it is nowhere, back to the original file and position.
GoToEventIn(s0, key) ==
  LET s        == [Disable(s0) EXCEPT !.usingGoTo = TRUE]
      known    == {f \in s.indexes : ContainsItem(f, key)}
      unopened == (1 .. N) \ s.indexes
      stop     == {f \in unopened : ~files[f].opens \/ ContainsItem(f, key)}
      at(f, indexes, i, from) ==
        LET opened == InitFile([s EXCEPT !.file = f, !.indexes = indexes], FALSE)
        IN IF opened.failed # "" \/ opened.open = 0 THEN opened ELSE [opened EXCEPT !.iter = i, !.from = from]
  IN IF ContainsItem(s.open, key) THEN [s EXCEPT !.iter = Position(s.open, key), !.from = Position(s.open, key)]
     ELSE IF N = 1 THEN s
     ELSE IF known # {} THEN LET i == Position(Min(known), key) IN at(Min(known), s.indexes, i, i)
     ELSE IF stop # {}
          THEN LET f == Min(stop)
                   i == IF files[f].opens THEN Position(f, key) ELSE 1
               IN at(f, s.indexes \cup {u \in unopened : u < f}, i, i)
     ELSE IF unopened = {} THEN s
     ELSE at(s.file, 1 .. N, s.iter, s.from)

\* RootPrimaryFileSequence and its RootFile before the first file is opened.
NotOpened == [file |-> 1, open |-> 0, last |-> 0, iter |-> 1, from |-> 1, saved |-> FALSE,
              firstFile |-> TRUE, usingGoTo |-> FALSE, indexes |-> {},
              dataType |-> "unknown", previous |-> {}, known |-> FALSE, disabled |-> FALSE,
              failed |-> ""]

\* The constructor: opens the first file that can be opened.
OpenFirst ==
  LET first[n \in 0 .. N] ==
        IF n = 0 THEN NotOpened
        ELSE LET s == first[n - 1]
             IN IF s.open # 0 \/ s.failed # "" THEN s ELSE InitFile([s EXCEPT !.file = n], SkipBadFiles)
      last == first[N]
  IN IF last.open = 0 /\ last.failed = "" THEN [last EXCEPT !.file = N + 1] ELSE last

SkipInitially(s) == IF s.open # 0 /\ config.skip # 0 THEN SkipEvents(s, config.skip) ELSE s

Constructed == SkipInitially(OpenFirst)

\* PoolSource::PoolSource: the branches that secondary files add.
IdsToReplace(type) == {p \in config.products.secondary \ config.products.primary : p[1] = type}

\* There is a secondary sequence: without such branches the constructor drops it.
ReadsParents == config.parents # <<>> /\ \E t \in ItemTypes : IdsToReplace(t) # {}

Sequence == INSTANCE RootInputFileSequence

\* RootSecondaryFileSequence: opens the first file that can be opened; a job of
\* secondary files needs one of each.
OpenFirstParent ==
  FoldLeft(LAMBDA s, n : IF s.open # 0 \/ s.failed # "" THEN s
                         ELSE Sequence!InitTheFile(config.parents, [s EXCEPT !.file = n], SkipBadFiles),
           Sequence!AtEnd(config.parents), [n \in DOMAIN config.parents |-> n])

BesideParents(s) ==
  IF config.parents = <<>> \/ s.failed # "" THEN s
  ELSE IF parents.failed # "" THEN Failed(s, parents.failed)
  ELSE IF parents.open = 0 \/ s.open = 0 THEN Failed(s, "assert") ELSE s

Init ==
  /\ config \in Jobs
  /\ parents = OpenFirstParent @@ [saved |-> 0]
  /\ seq = BesideParents(Constructed)
  /\ merged = <<>>
  /\ helper = [index |-> 1, first |-> TRUE, fake |-> FALSE, real |-> 0]
  /\ state = "invalid" /\ pending = FALSE
  /\ given = <<>> /\ lumiRuns = <<>> /\ syncs = {} /\ jumps = 0 /\ rewinds = 0

-------------------------------------------------------------------------------
(* What the framework (external) calls: getNextItemType, then the read of the  *)
(* item; a looper skips and goes to events between events, and rewinds at the  *)
(* end of the input.                                                           *)

\* RootFile::getNextItemType: the first entry that is neither skipped nor a
\* duplicate, from position i on.
NextEntry(s) ==
  LET next[i \in 1 .. Size(s.open) + 1] ==
        IF SkipThisEntry(s.open, i, s.from)
        THEN next[Resume(s.open, End(s.open, i) + 1, s.from)]
        ELSE IF EntryType(s.open, i) = "event" /\ IsDuplicate(s, Key(s.open, i))
        THEN next[Resume(s.open, i + 1, s.from)]
        ELSE i
  IN next[s.iter]

\* The event announced joins relevantPreviousEvents_.
AtNextEntry(s) ==
  LET i == NextEntry(s)
  IN [s EXCEPT !.iter = i,
               !.previous = IF EntryType(s.open, i) = "event" /\ Active(s) THEN @ \cup {Key(s.open, i)} ELSE @]

\* SetRunForEachLumiHelper::checkForNewRun, called for a run of the file, and
\* runNumberToUseForThisLumi.
IsSecondRun(item, run) == config.runs # <<>> /\ item = "run" /\ helper.real \notin {0, run}
WithRun(item, run) == [helper EXCEPT !.real = IF config.runs # <<>> /\ item = "run" THEN run ELSE @]

RunToUse(key) == IF config.runs = <<>> THEN key[1] ELSE config.runs[helper.index]

StartsLumi(item) == item = "run" \/ (item = "lumi" /\ state # "run")

\* SetRunForEachLumiHelper::nextItemType, for an item of the file that has passed
\* checkForNewRun; the result is [item, helper, failed].
RunHelperNext(item, run) ==
  LET index == IF helper.first THEN 1 ELSE helper.index + 1
      same  == index > 1 /\ config.runs[index] = config.runs[index - 1]
      new   == [WithRun(item, run) EXCEPT !.index = index, !.first = FALSE]
  IN IF config.runs = <<>> \/ ~StartsLumi(item)
          THEN [item |-> item, helper |-> WithRun(item, run), failed |-> ""]
     ELSE IF index > Len(config.runs)
          THEN [item |-> item, helper |-> new, failed |-> "more luminosity blocks than runs"]
     ELSE IF same THEN [item |-> item, helper |-> new, failed |-> ""]
     ELSE [item |-> "run", helper |-> [new EXCEPT !.fake = (item # "run")], failed |-> ""]

\* RootPrimaryFileSequence::getNextItemType, of a sequence that is at the next entry.
ItemOf(s) ==
  LET type == IF s.open = 0 THEN "end" ELSE EntryType(s.open, s.iter)
  IN CASE NoMoreFiles(s) -> "stop"
       [] ~NoMoreFiles(s) /\ s.firstFile -> "file"
       [] ~NoMoreFiles(s) /\ ~s.firstFile ->
            IF type # "end" THEN type ELSE IF s.file = N THEN "stop" ELSE "file"

\* The branch of getNextItemType that lets the framework synchronise, unless it
\* has just done so: the item, under the numbers of its own file, is not in the
\* secondary file that is open (containedInCurrentFile).
Synchronizes(item, key) ==
  /\ ReadsParents /\ state # "synchronize" /\ item \in ItemTypes
  /\ parents.open = 0 \/ ~Sequence!ContainsItem(config.parents, parents.open, key)

\* PoolSource::getNextItemType.  The sequence is at the item, and the duplicate
\* checker knows it, even if IsSynchronize is all that is announced.
GetNextItemType ==
  LET at   == IF seq.open # 0 /\ ~NoMoreFiles(seq) /\ ~seq.firstFile THEN AtNextEntry(seq) ELSE seq
      item == ItemOf(at)
      key  == IF item \in ItemTypes THEN Key(at.open, at.iter) ELSE <<0, 0, 0>>
      h    == RunHelperNext(item, key[1])
      To(next, newHelper, failed) ==
        /\ seq' = Failed(at, failed) /\ helper' = newHelper /\ state' = next
        /\ pending' = (next \notin {"stop", "synchronize"})
  IN /\ ~pending /\ state # "stop" /\ seq.failed = ""
     /\ \/ /\ IsSecondRun(item, key[1])
           /\ To(item, helper, "more than one run") /\ UNCHANGED syncs
        \/ /\ ~IsSecondRun(item, key[1]) /\ Synchronizes(item, key)
           /\ To("synchronize", WithRun(item, key[1]), "") /\ syncs' = syncs \cup {<<at.open, at.iter>>}
        \/ /\ ~IsSecondRun(item, key[1]) /\ ~Synchronizes(item, key)
           /\ To(h.item, h.helper, h.failed) /\ UNCHANGED syncs
     /\ UNCHANGED <<config, given, lumiRuns, parents, merged, jumps, rewinds>>

Reading(item) == pending /\ state = item /\ seq.failed = "" /\ pending' = FALSE

\* RootPrimaryFileSequence::readFile_: the first file is open already, unless a
\* rewind has closed it.
AtReadFile(s0) ==
  IF s0.firstFile
  THEN LET s == [s0 EXCEPT !.firstFile = FALSE]
       IN IF s.open = 0 THEN InitFile(s, SkipBadFiles) ELSE s
  ELSE LET s == NextFile(s0)
       IN IF NoMoreFiles(s) THEN Failed(s, "assert") ELSE s

\* PoolSource::readFile_; createFileBlock changes nothing.
ReadFile ==
  /\ Reading("file")
  /\ seq' = AtReadFile(seq)
  /\ UNCHANGED <<config, helper, state, given, lumiRuns, parents, merged, syncs, jumps, rewinds>>

CloseInputFile ==
  \* PoolSource::closeFile_: the framework closes a file before it reads the next
  \* one and at the end of the input, before it rewinds.
  LET ReadyToClose ==
        /\ seq.open # 0 /\ seq.failed = ""
        /\ (pending /\ state = "file" /\ ~seq.firstFile) \/ state = "stop"
  IN
  /\ ReadyToClose
  /\ seq' = CloseFile(seq)
  /\ UNCHANGED <<config, helper, state, pending, given, lumiRuns, parents, merged, syncs, jumps, rewinds>>

-------------------------------------------------------------------------------
(* An item of the primary file, and its counterpart in the secondary files.    *)

\* Variant with a fault: the next item of the open file is taken for the one.
SameOrder(key) == [s |-> parents, found |-> parents.at <= Sequence!Size(config.parents, parents.open)]

\* skipToItem: the run number sought is the one given to the primary item.
SkipToItem(key) == Sequence!SkipToItem(config.parents, parents, key, 0, TRUE)

\* What is read there: a run the helper invented is the last one read in that file.
ItemRead(type, s) == IF type = "run" /\ helper.fake THEN s.saved ELSE s.at

\* checkConsistency and checkHistoryConsistency, of an item that is found.
Inconsistency(type, s, guid) ==
  CASE ItemRead(type, s) = 0 -> "null savedRunAuxiliary"
    [] type = "event" /\ config.parents[s.open].entries[s.at].guid # guid -> "inconsistent auxiliary data"
    [] OTHER -> IF config.parents[s.open].ancestor THEN "" ELSE "not an ancestor"

\* A new RootFile has saved no run.
Opened(s) == [s EXCEPT !.saved = IF s.open = parents.open THEN @ ELSE 0]

\* The item is read from where the search has led, or failed.
MergeWith(type, key, guid, s, failed) ==
  LET ReadFrom ==
        [s EXCEPT !.saved = IF type = "run" THEN ItemRead(type, s) ELSE @,
                  !.at = IF type = "run" /\ helper.fake THEN @ ELSE @ + 1]
  IN
  IF failed # "" THEN [s |-> s, merged |-> <<key>>, failed |-> failed]
  ELSE [s |-> ReadFrom, failed |-> "",
        merged |-> <<key, guid, s.open, ItemRead(type, s), helper.fake>>]

MergeIfFound(type, key, guid, s, found) ==
  MergeWith(type, key, guid, s,
            IF s.failed # "" THEN s.failed
            ELSE IF ~found THEN "not found in secondary files" ELSE Inconsistency(type, s, guid))

\* The rest of readRun_, readLuminosityBlock_ and readEvent_: nothing, or the item
\* of the secondary files is read and merged; failed tells what was thrown.
Merging(type, key, guid) ==
  IF ~ReadsParents \/ IdsToReplace(type) = {} THEN {[s |-> parents, merged |-> merged, failed |-> ""]}
  ELSE {MergeIfFound(type, key, guid, Opened(r.s), r.found) : r \in {SkipToItem(key)}}

\* The identity of the next entry under the run number it is given.
UsedKey == [Key(seq.open, seq.iter) EXCEPT ![1] = RunToUse(Key(seq.open, seq.iter))]

\* The primary item has been read, which leaves the sequence at s.
Merge(s) ==
  LET UsedId(type) == IF type = "run" THEN <<UsedKey[1], 0, 0>> ELSE UsedKey
  IN
  \E m \in Merging(state, UsedId(state), Key(seq.open, seq.iter)) :
    seq' = Failed(s, m.failed) /\ parents' = m.s /\ merged' = m.merged

\* readRunAuxiliary_ and readRun_: a run the helper invented is not in the file.
ReadRun ==
  /\ Reading("run")
  /\ IF ~helper.fake THEN Merge([Increment(seq) EXCEPT !.saved = TRUE])
     ELSE IF seq.saved THEN Merge(seq)
     ELSE seq' = Failed(seq, "null savedRunAuxiliary") /\ UNCHANGED <<parents, merged>>
  /\ UNCHANGED <<config, helper, state, given, lumiRuns, syncs, jumps, rewinds>>

\* readLuminosityBlockAuxiliary_ and readLuminosityBlock_.
ReadLuminosityBlock ==
  /\ Reading("lumi")
  /\ lumiRuns' = Append(lumiRuns, UsedKey[1])
  /\ Merge(Increment(seq))
  /\ UNCHANGED <<config, helper, state, given, syncs, jumps, rewinds>>

\* readEvent_; real data may not be given other run numbers.
ReadEvent ==
  /\ Reading("event")
  /\ IF config.runs # <<>> /\ files[seq.open].real
     THEN seq' = Failed(seq, "setRunNumber on real data") /\ UNCHANGED <<parents, merged>>
     ELSE Merge(Increment(seq))
  /\ given' = IF seq'.failed = "" THEN Append(given, <<seq.open, seq.iter>>) ELSE given
  /\ UNCHANGED <<config, helper, state, lumiRuns, syncs, jumps, rewinds>>

BetweenEvents == ~pending /\ state = "event" /\ seq.open # 0 /\ seq.failed = "" /\ jumps < MaxJumps

\* PoolSource::skip.
Skip(offset) ==
  /\ BetweenEvents
  /\ seq' = SkipEvents(seq, offset) /\ jumps' = jumps + 1
  /\ UNCHANGED <<config, helper, state, pending, given, lumiRuns, parents, merged, syncs, rewinds>>

\* PoolSource::goToEvent_.
GoToEvent(key) ==
  /\ BetweenEvents
  /\ seq' = GoToEventIn(seq, key) /\ jumps' = jumps + 1
  /\ UNCHANGED <<config, helper, state, pending, given, lumiRuns, parents, merged, syncs, rewinds>>

\* RootPrimaryFileSequence::rewind_, with rewindFile.
AtRewind(s) ==
  LET closed == IF s.file # 1 THEN [CloseFile(s) EXCEPT !.file = 1] ELSE s
      opened == IF closed.open = 0 THEN InitFile(closed, FALSE) ELSE closed
  IN IF opened.failed # "" THEN opened
     ELSE SkipInitially([opened EXCEPT !.iter = 1, !.from = 1, !.firstFile = TRUE])

\* PoolSource::rewind_: the secondary files stay where they are.
Rewind ==
  /\ state = "stop" /\ seq.open = 0 /\ seq.failed = "" /\ rewinds < MaxRewinds
  /\ seq' = AtRewind(seq)
  /\ state' = "invalid" /\ rewinds' = rewinds + 1
  /\ given' = <<>> /\ lumiRuns' = <<>> /\ syncs' = {}
  /\ UNCHANGED <<config, helper, pending, parents, merged, jumps>>

\* RootFile::wasLastEventJustRead and wasFirstEventJustRead: no event from the
\* position on, and none before the one just read, skipped ones included.
WasLastEventJustRead(s)  == Ahead(s) = {}
WasFirstEventJustRead(s) == Cardinality(EventsOf(s.open) \ Ahead(s)) <= 1

\* RootPrimaryFileSequence::forwardState and reverseState, by which a looper
\* decides how to move.
ForwardState(s) ==
  CASE s.open = 0                                      -> "kUnknownForward"
    [] s.open # 0 /\ ~WasLastEventJustRead(s)           -> "kEventsAheadInFile"
    [] s.open # 0 /\ WasLastEventJustRead(s) /\ s.file >= N -> "kAtLastEvent"
    [] OTHER                                           -> "kNextFileExists"

ReverseState(s) ==
  CASE s.open = 0                                -> "kUnknownReverse"
    [] s.open # 0 /\ ~WasFirstEventJustRead(s)    -> "kEventsBackwardsInFile"
    [] s.open # 0 /\ WasFirstEventJustRead(s) /\ s.file # 1 -> "kPreviousFileExists"
    [] OTHER                                     -> "kAtFirstEvent"

Finished == (state = "stop" \/ seq.failed # "") /\ UNCHANGED vars

AllKeys == UNION {KeysOf(f) : f \in 1 .. N}

Next ==
  \/ GetNextItemType \/ ReadFile \/ CloseInputFile \/ ReadRun \/ ReadLuminosityBlock \/ ReadEvent
  \/ \E offset \in Offsets : Skip(offset)
  \/ \E key \in AllKeys : key[3] # 0 /\ GoToEvent(key)
  \/ Rewind
  \/ Finished

Spec == Init /\ [][Next]_vars

-------------------------------------------------------------------------------
(* Properties.                                                                 *)

\* All the events of the files that open, <<file, entry>>, and their order.
AllEvents == UNION {{f} \X EventsOf(f) : f \in {g \in 1 .. N : files[g].opens}}

Precedes(d, e) == d[1] < e[1] \/ (d[1] = e[1] /\ d[2] < e[2])

KeyOf(e) == Key(e[1], e[2])

\* An event repeats an earlier one with its key, if the two files are compared.
IsRepetition(e, d) ==
  /\ Precedes(d, e) /\ KeyOf(d) = KeyOf(e)
  /\ CASE config.mode = "noDuplicateCheck"      -> FALSE
       [] config.mode = "checkEachFile"         -> d[1] = e[1]
       [] config.mode = "checkEachRealDataFile" -> d[1] = e[1] /\ files[e[1]].real
       [] config.mode = "checkAllFilesOpened"   -> TRUE

\* The events a pass over the input should read, by the description of the
\* parameters duplicateCheckMode, skipEvents, lumisToSkip and eventsToSkip.
Expected ==
  LET all == {e \in AllEvents : ~SkippedEvent(KeyOf(e)) /\ \A d \in AllEvents : ~IsRepetition(e, d)}
  IN {e \in all : Cardinality({d \in all : Precedes(d, e)}) >= config.skip}

\* The duplicate checker remembers what is read of file f, unless it knows on
\* opening it that nothing can be repeated (inputFileOpened).
Remembers(f) ==
  LET repeats(g) == \E i \in 1 .. Size(f), j \in 1 .. Size(g) : (f # g \/ i # j) /\ Key(f, i) = Key(g, j)
  IN CASE config.mode = "noDuplicateCheck"      -> FALSE
       [] config.mode = "checkEachFile"         -> repeats(f)
       [] config.mode = "checkEachRealDataFile" -> repeats(f) /\ files[f].real
       [] config.mode = "checkAllFilesOpened"   -> \E g \in 1 .. f : files[g].opens /\ repeats(g)

\* The code loses the events at which it synchronised with the secondary files
\* while it remembers events: asked again for the same item, it finds the event
\* among those it has had (isDuplicateEvent), although it has only announced
\* IsSynchronize.  Without secondary files or duplicate check there are none.
LostBySync == {e \in Expected \cap syncs : Remembers(e[1])}

\* Without jumps every pass over the input reads the events it should but for the
\* lost ones, none of which it reads, each once and in order, up to the last one;
\* "Rewind to before the first event that was read" begins another such pass.
PassReadsTheEvents ==
  jumps = 0 /\ (state = "stop" \/ given # <<>>) =>
    LET read == {given[n] : n \in DOMAIN given}
    IN /\ \A n \in 1 .. Len(given) - 1 : Precedes(given[n], given[n + 1])
       /\ read \subseteq Expected \ LostBySync
       /\ \A e \in (Expected \ LostBySync) \ read :
            seq.failed # "" \/ (state # "stop" /\ \A d \in read : Precedes(d, e))

\* "use these as run numbers for each lumi respectively": the n-th luminosity
\* block of the first pass has the n-th number of setRunNumberForEachLumi, unless
\* the source synchronised on a block: after IsSynchronize a block no longer
\* follows its run, so that it takes another number.
LumisHaveTheirRuns ==
  config.runs # <<>> /\ jumps = 0 /\ rewinds = 0 /\ (\A e \in syncs : EntryType(e[1], e[2]) # "lumi") =>
    /\ Len(lumiRuns) <= Len(config.runs)
    /\ \A n \in DOMAIN lumiRuns : lumiRuns[n] = config.runs[n]

\* What an item is merged with is the item of the secondary files that has the
\* identity it was read under, and for an event its GUID (a run that the helper
\* invented aside); and the source says that an item is in no secondary file only
\* if it is in none, wherever the search of earlier items has left the sequence.
MergedWithItsOwn ==
  merged # <<>> =>
    IF Len(merged) = 1
    THEN seq.failed = "not found in secondary files" =>
           \A f \in DOMAIN config.parents : ~Sequence!ContainsItem(config.parents, f, merged[1])
    ELSE \E entry \in {config.parents[merged[3]].entries[merged[4]]} :
           /\ entry.key = merged[1] \/ (entry.type = "run" /\ merged[5])
           /\ entry.type = Sequence!ItemType(merged[1])
           /\ entry.type = "event" => entry.guid = merged[2]

\* A pass over the input is complete, in order, under the right run numbers, and
\* with the products of secondary files that belong to its items.
EveryPassReadsTheEvents == PassReadsTheEvents /\ LumisHaveTheirRuns /\ MergedWithItsOwn

\* goToEvent leads to the event wherever it is; if no file has it, the file and
\* the position are the same as before.
GoToEventFindsIt ==
  [][\A key \in AllKeys :
       key[3] # 0 /\ GoToEvent(key) /\ seq'.failed = "" =>
         IF \E f \in 1 .. N : files[f].opens /\ ContainsItem(f, key)
         THEN seq'.iter \in EventsOf(seq'.open) /\ Key(seq'.open, seq'.iter) = key
         ELSE seq'.file = seq.file /\ seq'.open = seq.open /\ seq'.iter = seq.iter]_vars

\* The number of events before the position of s that are not skipped by number.
Rank(s) ==
  Cardinality({e \in AllEvents :
    ~SkippedEvent(KeyOf(e)) /\ (e[1] < s.file \/ (e[1] = s.file /\ e[2] \notin Ahead(s)))})

\* Without duplicate check, skip moves by as many events as it is told, across
\* files, unless it leaves the input.
SkipMovesByTheOffset ==
  [][\A offset \in Offsets :
       /\ CheckDisabled(seq) /\ ~NoMoreFiles(seq)
       /\ Skip(offset) /\ seq'.failed = "" /\ ~NoMoreFiles(seq')
       => Rank(seq') = Rank(seq) + offset]_vars

\* What the source tells a looper is so: it announces an event only if it said
\* that the file has events ahead, and from the last event forward, or from the
\* first one back before it, every skip leaves the input.
StatesTellTheWay ==
  [][/\ GetNextItemType /\ state' = "event" => ForwardState(seq) = "kEventsAheadInFile"
     /\ \A offset \in Offsets :
          Skip(offset) /\ seq'.failed = "" =>
            /\ offset > 0  /\ ForwardState(seq) = "kAtLastEvent"  => NoMoreFiles(seq')
            /\ offset < -1 /\ ReverseState(seq) = "kAtFirstEvent" => NoMoreFiles(seq')]_vars

\* Where a jump by identifier or by number of events leads, and what the looper
\* is told of it beforehand.
JumpsLand == GoToEventFindsIt /\ SkipMovesByTheOffset /\ StatesTellTheWay
===============================================================================
