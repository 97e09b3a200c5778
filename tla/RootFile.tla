-------------------------------- MODULE RootFile --------------------------------
(* IOPool/Input: a RootFile gives the runs, luminosity blocks and events of a  *)
(* file to the framework.  It reads or rebuilds the index, decides whether the *)
(* output may copy the trees (fast cloning), and hands the events to streams,  *)
(* whose products a RootDelayedReader reads later, when the event tree may be  *)
(* at another entry.  A job is a record                                        *)
(*   events - [phid, run, lumi, event] by entry number + 1;  runs, lumis - the *)
(*            run and the lumi tree, <<>> if they are not in the file;         *)
(*   old    - the format has no index, nor valid times in runs and lumis;      *)
(*   sort   - not noEventSort;  check - the duplicate checker is enabled;      *)
(*   before - keys of events in files read before;  skip - keys of events to   *)
(*            skip;  maxEvents, maxLumis - what remains, -1 for all;           *)
(*   setRun - setRunNumber, 0 if not set;  tree - [autoFlush, learning,        *)
(*            caching];  bad - <<branch, entry>> that cannot be read.          *)
(* The order in which an IndexIntoFile (external) is walked is `items`.        *)
EXTENDS Integers, Sequences, FiniteSets, SequencesExt

CONSTANTS Jobs, Streams, Products,
          MaxJumps  \* bound: skips backward and goToEvents

\* What a file holds: an index it was written with names the events of its tree.
ASSUME JobsAssumption ==
  \A j \in Jobs :
    /\ j.events \in Seq([phid : Nat, run : Nat \ {0}, lumi : Nat \ {0}, event : Nat])
    /\ j.runs \in Seq([phid : Nat, run : Nat \ {0}]) /\ j.lumis \in Seq([run : Nat \ {0}, lumi : Nat \ {0}])
    /\ j.tree \in [autoFlush : Nat, learning : Nat, caching : BOOLEAN] /\ j.sort \in BOOLEAN
    /\ j.old \in BOOLEAN /\ j.check \in BOOLEAN /\ j.maxEvents \in Int
    /\ j.index \in Seq([orderRun : Int, orderLumi : Int, entry : Int, phid : Nat, run : Nat, lumi : Nat,
                        first : Int, end : Int])
    /\ \A k \in 1 .. Len(j.index) : j.index[k].first .. j.index[k].end - 1 \subseteq 0 .. Len(j.events) - 1
    /\ ~j.old => \A e \in 0 .. Len(j.events) - 1 : \E k \in 1 .. Len(j.index) : e \in j.index[k].first .. j.index[k].end - 1

-------------------------------------------------------------------------------
(* IOPool/Input: a RootTree is the event tree of a file with its position and  *)
(* its caches.  After resetTraining the next entry set starts the training:    *)
(* for learningEntries_ entries reads go through the raw cache, which fetches  *)
(* every branch, and the branches read join the tree cache, which takes over   *)
(* at switchOverEntry_.  A tree t is a record                                  *)
(*   entries, autoFlush, learningEntries, caching (cacheSize_ # 0);            *)
(*   entry - entryNumber_;  forIndex - entryNumberForIndex_, by stream;        *)
(*   cache - treeCache_, whether it IsLearning, its first entry and branches;  *)
(*   raw - rawTreeCache_ exists;  trained - trainedSet_;                       *)
(*   trainNow, switchOver;  ok - no assertion failed.                          *)
(* The trigger cache is disabled by the constructor.  TTreeCache is external.  *)

\* autoFlush is the size of a cluster, guessed from the bytes in merged files.
ConstructedTree(entries, autoFlush, learningEntries, caching, streams) ==
  [entries |-> entries, autoFlush |-> autoFlush, learningEntries |-> Min({learningEntries, autoFlush}),
   caching |-> caching, entry |-> -1, forIndex |-> [s \in streams |-> -1],
   cache |-> [learning |-> TRUE, first |-> 0, branches |-> {}], raw |-> FALSE, trained |-> {},
   trainNow |-> FALSE, switchOver |-> -1, ok |-> TRUE]

IsCurrent(t, entry) == entry >= 0 /\ entry < t.entries

TrainCache(t, branch) ==
  IF ~t.caching THEN t
  ELSE [t EXCEPT !.cache = [learning |-> FALSE, first |-> 0, branches |-> {branch}], !.trained = @ \cup {branch}]

ResetTraining(t) == [t EXCEPT !.trainNow = TRUE]

StartTraining(t) ==
  IF ~t.caching THEN t
  ELSE [t EXCEPT !.ok = @ /\ ~t.raw, !.raw = TRUE, !.switchOver = t.entry + t.learningEntries,
                 !.cache = [learning |-> TRUE, first |-> t.entry + t.learningEntries, branches |-> {"Aux", "Lists"}]]

StopTraining(t) == [t EXCEPT !.cache.learning = FALSE, !.raw = FALSE]

StopIfDone(t) ==
  IF t.caching /\ t.cache.learning /\ t.switchOver >= 0 /\ t.entry >= t.switchOver THEN StopTraining(t) ELSE t

StartIfDue(t) ==
  IF t.caching /\ t.trainNow /\ t.entry >= 0
  THEN [StartTraining(t) EXCEPT !.trainNow = FALSE, !.trained = {}] ELSE t

\* A skip backward over more than a cluster refills the cache from the new entry.
Refills(t, entry) ==
  entry < t.entry - t.autoFlush /\ t.caching /\ ~t.cache.learning /\ t.entries > 0 /\ t.switchOver >= 0

MoveTo(t, entry) == [t EXCEPT !.entry = entry, !.cache.first = IF Refills(t, entry) THEN entry ELSE @]

SetEntryNumber(t, entry) == StopIfDone(StartIfDue(MoveTo(t, entry)))

\* getEntry with selectCache: which cache is read, and the branches it learns.
GetEntry(t, branch) ==
  IF t.caching /\ t.cache.learning /\ t.raw
  THEN [t EXCEPT !.cache.branches = @ \cup {branch}, !.trained = @ \cup {branch}] ELSE t

InsertEntryForIndex(t, s) == [t EXCEPT !.forIndex[s] = t.entry]

\* RootFileEventFinder::getEventNumberOfEntry for all entries: the tree comes
\* back to the entry it was at.
FindEventNumbers(t) ==
  LET found[n \in 0 .. t.entries] ==
        IF n = 0 THEN t
        ELSE LET prev == found[n - 1]
             IN SetEntryNumber(GetEntry(SetEntryNumber(prev, n - 1), "Aux"), prev.entry)
  IN found[t.entries]

-------------------------------------------------------------------------------

VARIABLES job, index, items,
          file,     \* position, event auxiliary and duplicate checker, see Constructed
          tree,     \* event tree
          failing,  \* lastException_ of the RootDelayedReader of the event tree
          events,   \* [event, aux]: entry of the event of each stream, and of its auxiliary
          given,    \* entries of the events given, until the first jump
          jumps

vars == <<job, index, items, file, tree, failing, events, given, jumps>>

N == Len(job.events)
Event(e)   == job.events[e + 1]
EventKey(e) == <<Event(e).run, Event(e).lumi, Event(e).event>>

-------------------------------------------------------------------------------
(* fillIndexIntoFile: the index of an old file, from its trees.                *)

\* Variant with a fault: a new run with the same lumi number is no new lumi.
StartsItem(a, b) == a.lumi # b.lumi

\* A new luminosity block item starts at b.
StartsLumi(a, b) == a.phid # b.phid \/ a.run # b.run \/ a.lumi # b.lumi

LumiItem(phid, run, lumi, first, end) == [phid |-> phid, run |-> run, lumi |-> lumi, first |-> first, end |-> end]

AddEvent(list, event, e) ==
  IF list # <<>> /\ ~StartsLumi(job.events[e], event)
  THEN [list EXCEPT ![Len(list)].end = e + 1]
  ELSE Append(list, LumiItem(event.phid, event.run, event.lumi, e, e + 1))

LumisOfEvents ==
  LET lumis[e \in 0 .. N] == IF e = 0 THEN <<>> ELSE LET prev == lumis[e - 1] IN AddEvent(prev, job.events[e], e - 1)
  IN lumis[N]

\* Order of tuples of numbers.
Before(a, b) == \E k \in DOMAIN a : a[k] < b[k] /\ \A j \in 1 .. k - 1 : a[j] = b[j]

\* The members of a set by their keys; <<>> \o makes TLC evaluate it.
Ordered(S, key) ==
  <<>> \o [k \in 1 .. Cardinality(S) |-> CHOOSE x \in S : Cardinality({y \in S : Before(key[y], key[x])}) = k - 1]

\* Those of a sequence at some positions.
Pick(list, at) ==
  LET order == Ordered(at, [k \in at |-> <<k>>]) IN <<>> \o [k \in DOMAIN order |-> list[order[k]]]

RunItem(x) == [phid |-> x.phid, run |-> x.run, lumi |-> 0]

RunsOf(list) == Pick(<<>> \o [k \in DOMAIN list |-> RunItem(list[k])],
                     {k \in DOMAIN list : \A j \in 1 .. k - 1 : RunItem(list[j]) # RunItem(list[k])})

HasRun(list, run) == \E k \in DOMAIN list : list[k].run = run
HasLumi(list, l)  == \E k \in DOMAIN list : list[k].run = l.run /\ list[k].lumi = l.lumi

\* Runs and blocks of the trees without events.
EmptyRuns(eventRuns) ==
  Pick(<<>> \o [k \in DOMAIN job.runs |-> RunItem(job.runs[k])],
       {k \in DOMAIN job.runs : ~HasRun(eventRuns, job.runs[k].run) /\ ~HasRun(SubSeq(job.runs, 1, k - 1), job.runs[k].run)})

\* phidMap: events first, then the run tree.
PhidOf(eventRuns, run) ==
  LET all == eventRuns \o job.runs IN all[Min({k \in DOMAIN all : all[k].run = run})].phid

EmptyLumis(eventLumis, eventRuns) ==
  LET empty == Pick(job.lumis, {k \in DOMAIN job.lumis : ~HasLumi(eventLumis, job.lumis[k]) /\ ~HasLumi(SubSeq(job.lumis, 1, k - 1), job.lumis[k])})
  IN <<>> \o [k \in DOMAIN empty |-> LumiItem(PhidOf(eventRuns, empty[k].run), empty[k].run, empty[k].lumi, -1, -1)]

\* "Use the process history ID from the corresponding run": it must be known.
LumisHaveRuns ==
  \A k \in DOMAIN job.lumis : HasLumi(job.events, job.lumis[k]) \/ HasRun(job.events \o job.runs, job.lumis[k].run)

\* By run, blocks then by block.
ItemLess(a, b) == Before(<<a.run, a.lumi>>, <<b.run, b.lumi>>)

\* The ordered empty ones go before the first item that is greater; the search
\* goes on from there.
InsertAfter(list, from, x) ==
  LET at == Min({k \in from .. Len(list) : ItemLess(x, list[k])} \cup {Len(list) + 1})
  IN [list |-> InsertAt(list, at, x), at |-> at + 1]

InsertEmpty(list, empty) ==
  LET order == Ordered(DOMAIN empty, [k \in DOMAIN empty |-> <<empty[k].run, empty[k].lumi, k>>])
      inserted[n \in 0 .. Len(empty)] ==
        IF n = 0 THEN [list |-> list, at |-> 1]
        ELSE LET prev == inserted[n - 1] IN InsertAfter(prev.list, prev.at, empty[order[n]])
  IN inserted[Len(empty)].list

\* runMap and runLumiMap: the first of that number in the tree, 0 by default.
First(set, default) == IF set = {} THEN default ELSE Min(set)
RunEntry(run)  == First({k \in DOMAIN job.runs : job.runs[k].run = run}, 1) - 1
LumiEntry(run, lumi) == First({k \in DOMAIN job.lumis : job.lumis[k] = [run |-> run, lumi |-> lumi]}, 1) - 1

Position(list, phid, run) == Min({k \in DOMAIN list : list[k].phid = phid /\ list[k].run = run})
SameLumi(a, b) == a.phid = b.phid /\ a.run = b.run /\ a.lumi = b.lumi

\* lumiCountMap: counts different blocks by their first appearance.
LumiCount(list, k) ==
  LET firsts == {j \in DOMAIN list : \A i \in 1 .. j - 1 : ~SameLumi(list[i], list[j])}
      first  == Min({j \in DOMAIN list : SameLumi(list[j], list[k])})
  IN Cardinality({j \in firsts : j < first})

RunOrLumiEntries(runs, lumis) ==
  [k \in DOMAIN runs |->
     [orderRun |-> Position(runs, runs[k].phid, runs[k].run), orderLumi |-> -1, entry |-> RunEntry(runs[k].run),
      phid |-> runs[k].phid, run |-> runs[k].run, lumi |-> 0, first |-> -1, end |-> -1]]
  \o
  [k \in DOMAIN lumis |->
     [orderRun |-> Position(runs, lumis[k].phid, lumis[k].run), orderLumi |-> LumiCount(lumis, k),
      entry |-> LumiEntry(lumis[k].run, lumis[k].lumi), phid |-> lumis[k].phid, run |-> lumis[k].run,
      lumi |-> lumis[k].lumi, first |-> lumis[k].first, end |-> lumis[k].end]]

FillIndexIntoFile ==
  LET eventRuns  == RunsOf(job.events)
      eventLumis == LumisOfEvents
      runs  == InsertEmpty(eventRuns, EmptyRuns(eventRuns))
      lumis == InsertEmpty(eventLumis, EmptyLumis(eventLumis, eventRuns))
      all   == RunOrLumiEntries(runs, lumis)
      order == Ordered(DOMAIN all, [k \in DOMAIN all |-> <<all[k].orderRun, all[k].orderLumi, all[k].entry, k>>])
  IN <<>> \o [k \in DOMAIN order |-> all[order[k]]]

-------------------------------------------------------------------------------
(* The iteration over the index (external): the entries of a run, those of its *)
(* blocks and the events of each block, in the order of the file or by run,    *)
(* block and event number.                                                     *)

Item(type, entry, run, lumi, key) == [type |-> type, entry |-> entry, run |-> run, lumi |-> lumi, key |-> key]

Place(x) == IF job.sort THEN <<x.phid, x.run, x.lumi>> ELSE <<0, x.orderRun, x.orderLumi>>

ItemsOf(x, k) ==
  {Item(IF x.lumi = 0 THEN "run" ELSE "lumi", x.entry, x.run, x.lumi, Place(x) \o <<0, 0, 0, k>>)} \cup
  {Item("event", e, x.run, x.lumi, Place(x) \o <<1, IF job.sort THEN Event(e).event ELSE e, e, k>>) :
     e \in x.first .. x.end - 1}

ItemsInOrder(entries) ==
  LET all == UNION {ItemsOf(entries[k], k) : k \in DOMAIN entries} IN Ordered(all, [i \in all |-> i.key])

IterationWillBeInEntryOrder(list) ==
  LET EntriesAscend(each) == \A k \in 1 .. Len(each) - 1 : each[k].entry < each[k + 1].entry
      OfType(type) == Pick(list, {k \in DOMAIN list : list[k].type = type})
  IN \A type \in {"run", "lumi", "event"} : EntriesAscend(OfType(type))

FirstEvent(list, i) ==
  LET of == {k \in DOMAIN list : list[k].type = "event" /\ list[k].run = list[i].run
                                   /\ (list[i].type = "lumi" => list[k].lumi = list[i].lumi)}
  IN IF of = {} THEN -1 ELSE list[Min(of)].entry

-------------------------------------------------------------------------------
(* The constructor.                                                            *)

Fail(f, why) == IF f.failed = "" THEN [f EXCEPT !.failed = why] ELSE f
Check(f, holds, why) == IF holds THEN f ELSE Fail(f, why)

\* fillThisEventAuxiliary: unless it was read already.  x is [f, t].
FillThisEventAuxiliary(x) ==
  IF x.f.lastRead = x.t.entry THEN x
  ELSE [f |-> [x.f EXCEPT !.aux = x.t.entry, !.shifts = 0, !.lastRead = x.t.entry], t |-> GetEntry(x.t, "Aux")]

\* fillEventAuxiliary.
FillEventAuxiliary(x, entry) ==
  IF IsCurrent(x.t, entry) THEN FillThisEventAuxiliary([f |-> x.f, t |-> SetEntryNumber(x.t, entry)]) ELSE x

\* initializeDuplicateChecker: is the data real?  No lookup without events.
InitializeDuplicateChecker(x) ==
  IF ~job.check THEN x
  ELSE LET first == FillEventAuxiliary([f |-> x.f, t |-> [x.t EXCEPT !.entry = @ + 1]], x.t.entry + 1)
       IN [f |-> first.f, t |-> SetEntryNumber(first.t, -1)]

\* DuplicateChecker::noDuplicatesInFile.
NoDuplicatesInFile ==
  /\ N > 0 /\ {EventKey(e) : e \in 0 .. N - 1} \cap job.before = {}
  /\ IsInjective([e \in 0 .. N - 1 |-> EventKey(e)])

\* setIfFastClonable: whyNotFastClonable_ of the list of items.
WhyNotFastClonable(list) ==
  LET Exceeds(remaining, entries) == remaining >= 0 /\ entries > remaining
  IN
  {why \in {"EventsOrLumisSelectedByID"} : job.skip # {}} \cup
  (IF N = 0 THEN {"NoEventsInFile"}
   ELSE {why \in {"EventsToBeSorted"}       : ~IterationWillBeInEntryOrder(list)} \cup
        {why \in {"MaxEventsTooSmall"}      : Exceeds(job.maxEvents, N)} \cup
        {why \in {"MaxLumisTooSmall"}       : Exceeds(job.maxLumis, Len(job.lumis))} \cup
        {why \in {"DuplicateEventsRemoved"} : job.check /\ ~NoDuplicatesInFile})

\* SetRunHelper::setForcedRunOffset.
RunOffset(list) == IF job.setRun = 0 THEN 0 ELSE job.setRun - (IF list = <<>> THEN 1 ELSE list[1].run)

NotOpened ==
  [iter |-> 1, announced |-> FALSE, aux |-> -1, shifts |-> 0, lastRead |-> -1, numbers |-> FALSE,
   seen |-> {}, checking |-> FALSE, whyNot |-> {}, open |-> FALSE, failed |-> ""]

Init ==
  /\ job \in Jobs
  /\ index = <<>> /\ items = <<>>
  /\ file = NotOpened
  /\ tree = ConstructedTree(N, job.tree.autoFlush, job.tree.learning, job.tree.caching, Streams)
  /\ failing = FALSE
  /\ events = [s \in Streams |-> [event |-> -1, aux |-> -1]]
  /\ given = <<>> /\ jumps = 0

Constructed ==
  [NotOpened EXCEPT !.open = TRUE, !.numbers = job.old \/ job.check, !.checking = job.check /\ ~NoDuplicatesInFile,
                    !.seen = IF job.check /\ ~NoDuplicatesInFile THEN job.before ELSE {}]

\* The index with the items, the tree and the first checks.
Opened(entries, list, x) ==
  /\ index' = entries /\ items' = list
  /\ file' = [Check(Check(x.f, job.old => LumisHaveRuns, "assert"), RunOffset(list) >= 0, "Configuration")
               EXCEPT !.whyNot = WhyNotFastClonable(list)]
  /\ tree' = ResetTraining(x.t)

Open ==
  /\ ~file.open
  /\ \E entries \in {IF ~job.old THEN job.index ELSE IF LumisHaveRuns THEN FillIndexIntoFile ELSE <<>>} :
       \E list \in {ItemsInOrder(entries)} :
         Opened(entries, list, InitializeDuplicateChecker([f |-> Constructed, t |-> TrainCache(tree, "Aux")]))
  /\ UNCHANGED <<job, failing, events, given, jumps>>

-------------------------------------------------------------------------------
(* What the framework calls.                                                   *)

Running == file.open /\ file.failed = ""
At(type) == Running /\ file.announced /\ items[file.iter].type = type
Here == items[file.iter]

\* skipThisEntry, and isDuplicateEvent, which remembers the event.
PassedOver(i) ==
  items[i].type = "event" /\ (EventKey(items[i].entry) \in job.skip \cup (IF file.checking THEN file.seen ELSE {}))

NextItem == First({i \in file.iter .. Len(items) : ~PassedOver(i)}, Len(items) + 1)

Allowed(i) == i \in DOMAIN items /\ items[i].type = "event" => (job.maxEvents < 0 \/ Len(given) < job.maxEvents \/ jumps > 0)

\* getNextItemType: the auxiliary of an event announced is read.
GetNextItemType ==
  /\ Running /\ ~file.announced /\ NextItem <= Len(items) /\ Allowed(NextItem)
  /\ LET f == [file EXCEPT !.iter = NextItem, !.announced = TRUE]
         x == IF items[NextItem].type # "event" THEN [f |-> f, t |-> tree]
              ELSE FillEventAuxiliary([f |-> [f EXCEPT !.seen = IF file.checking THEN @ \cup {EventKey(items[NextItem].entry)} ELSE @],
                                       t |-> tree], items[NextItem].entry)
     IN file' = x.f /\ tree' = x.t
  /\ UNCHANGED <<job, index, items, failing, events, given, jumps>>

\* The time of an old run or block, and its process history, are those of its
\* first event, if it has one.
TimeOfFirstEvent(f) ==
  IF job.old THEN FillEventAuxiliary([f |-> f, t |-> tree], FirstEvent(items, f.iter)) ELSE [f |-> f, t |-> tree]

ReadItem(holds) ==
  LET x == TimeOfFirstEvent(Check(file, holds, "assert"))
  IN /\ file' = IF x.f.failed = "" THEN [x.f EXCEPT !.iter = @ + 1, !.announced = FALSE] ELSE x.f
     /\ tree' = x.t
     /\ UNCHANGED <<job, index, items, failing, events, given, jumps>>

\* readRunAuxiliary_, readRun_: the entry of the run tree, if there is one, must
\* be of the run.
ReadRun == At("run") /\ ReadItem(job.runs = <<>> \/ job.runs[Here.entry + 1].run = Here.run)

\* readLuminosityBlockAuxiliary_, readLuminosityBlock_.
ReadLuminosityBlock ==
  At("lumi") /\ ReadItem(job.lumis = <<>> \/ job.lumis[Here.entry + 1] = [run |-> Here.run, lumi |-> Here.lumi])

\* readEvent with readCurrentEvent.  overrideRunNumber changes the auxiliary
\* kept, which checkRunConsistency compares with the index.
ReadEvent(s) ==
  /\ At("event") /\ events[s].event = -1
  /\ LET x == FillEventAuxiliary([f |-> file, t |-> tree], Here.entry)
         f == [x.f EXCEPT !.shifts = @ + 1]
         t == GetEntry(x.t, "Lists")
     IN /\ tree' = InsertEntryForIndex(t, s)
        /\ IF f.shifts = 1 \/ RunOffset(items) = 0
           THEN /\ file' = [f EXCEPT !.iter = @ + 1, !.announced = FALSE]
                /\ events' = [events EXCEPT ![s] = [event |-> Here.entry, aux |-> f.aux]]
                /\ given' = IF jumps = 0 THEN Append(given, Here.entry) ELSE given
           ELSE file' = Fail(f, "checkRunConsistency") /\ UNCHANGED <<events, given>>
        /\ failing' = FALSE
  /\ UNCHANGED <<job, index, items, jumps>>

\* Variant with a fault: the entry the tree is at.
CurrentEntry(s) == tree.entry

EntryNumberForIndex(s) == tree.forIndex[s]

\* getProduct_ of the RootDelayedReader: an exception of any stream is thrown
\* again to all until the next event is read.
Throws(s, product) == failing \/ <<product, EntryNumberForIndex(s)>> \in job.bad

GetProduct(s, product) ==
  /\ Running /\ events[s].event # -1
  /\ failing' = Throws(s, product)
  /\ tree' = IF failing THEN tree ELSE GetEntry(tree, product)
  /\ UNCHANGED <<job, index, items, file, events, given, jumps>>

\* The framework has processed the event of the stream.
EndEvent(s) ==
  /\ events[s].event # -1
  /\ events' = [events EXCEPT ![s] = [event |-> -1, aux |-> -1]]
  /\ UNCHANGED <<job, index, items, file, tree, failing, given, jumps>>

\* skip backward and goToEvent, to item i: the duplicate checker is disabled.
\* The run and block announced before the event are those of PoolSource.
JumpTo(i, t, numbers) ==
  /\ Running /\ ~file.announced /\ jumps < MaxJumps /\ given # <<>>
  /\ items[i].type = "event"
  /\ file' = [file EXCEPT !.iter = i, !.checking = FALSE, !.seen = {}, !.numbers = numbers]
  /\ tree' = t
  /\ jumps' = jumps + 1 /\ given' = <<-1>>
  /\ UNCHANGED <<job, index, items, failing, events>>

SkipBack(i)  == i < file.iter /\ JumpTo(i, tree, file.numbers)

\* goToEvent looks for event numbers, which it reads unless they are known.
GoToEvent(i) ==
  /\ i \in DOMAIN items
  /\ JumpTo(i, IF file.numbers THEN tree ELSE FindEventNumbers(tree), TRUE)

AtEnd == ~file.announced /\ (NextItem > Len(items) \/ ~Allowed(NextItem))

Finished ==
  /\ file.open /\ (file.failed # "" \/ AtEnd)
  /\ \A s \in Streams : events[s].event = -1
  /\ UNCHANGED vars

Next ==
  \/ Open \/ GetNextItemType \/ ReadRun \/ ReadLuminosityBlock
  \/ \E s \in Streams : ReadEvent(s) \/ EndEvent(s)
  \/ \E s \in Streams, product \in Products : GetProduct(s, product)
  \/ \E i \in DOMAIN items : SkipBack(i)
  \/ \E i \in DOMAIN items : GoToEvent(i)
  \/ Finished

Spec == Init /\ [][Next]_vars

-------------------------------------------------------------------------------
(* Properties.                                                                 *)

\* What a stream would get is of the event read into it, wherever the event
\* tree has moved since, and so is the auxiliary it was given; it gets an
\* exception only if a product of a stream could not be read.
EntriesAgree ==
  \A s \in Streams : events[s].event # -1 =>
    /\ EntryNumberForIndex(s) = events[s].event /\ events[s].aux = events[s].event
    /\ \A p \in Products : Throws(s, p) => \E q \in Products, e \in 0 .. N - 1 : <<q, e>> \in job.bad

\* The raw cache serves until the switch-over and no longer; what is read while it
\* does is in the tree cache then, with the auxiliary and the branch lists.
CacheFollowsTraining ==
  /\ tree.ok
  /\ tree.raw => tree.cache.learning /\ tree.entry < tree.switchOver
  /\ ~tree.raw /\ tree.switchOver >= 0 => ~tree.cache.learning
  /\ tree.switchOver >= 0 => tree.trained \cup {"Aux", "Lists"} \subseteq tree.cache.branches

\* Streams read their own events, through the raw cache or the tree cache: neither
\* a jump of the source nor the switch-over between the caches changes an answer.
StreamsReadTheirEvents == EntriesAgree /\ CacheFollowsTraining

\* The rebuilt index covers the trees: each event is in the range of one entry,
\* of its run and block; runs and blocks have their entry in their tree, and a
\* run comes before its blocks.
RebuiltIndex ==
  job.old /\ index # <<>> =>
    /\ \A e \in 0 .. N - 1 :
         /\ Cardinality({k \in DOMAIN index : e \in index[k].first .. index[k].end - 1}) = 1
         /\ \A k \in DOMAIN index :
              e \in index[k].first .. index[k].end - 1 =>
                index[k].phid = Event(e).phid /\ index[k].run = Event(e).run /\ index[k].lumi = Event(e).lumi
    /\ \A r \in DOMAIN job.runs :
         \E k \in DOMAIN index : index[k].run = job.runs[r].run /\ index[k].lumi = 0
                                   /\ job.runs[index[k].entry + 1].run = job.runs[r].run
    /\ \A l \in DOMAIN job.lumis :
         \E k \in DOMAIN index : index[k].run = job.lumis[l].run /\ index[k].lumi = job.lumis[l].lumi
                                   /\ job.lumis[index[k].entry + 1] = job.lumis[l]
    /\ \A k \in DOMAIN index : index[k].lumi # 0 =>
         \E j \in 1 .. k - 1 : /\ index[j].lumi = 0 /\ index[j].run = index[k].run /\ index[j].phid = index[k].phid
                               /\ \A i \in j .. k : index[i].orderRun = index[k].orderRun

\* If nothing speaks against fast cloning, the events of the file are all given,
\* in the order of their tree, as the copied tree has them.
FastCloneIsFaithful ==
  jumps = 0 /\ Running /\ file.whyNot = {} =>
    /\ \A n \in DOMAIN given : given[n] = n - 1
    /\ AtEnd => Len(given) = N

\* Whether the index is rebuilt or the trees are copied without it, it is the index of the trees.
IndexCoversTheTrees == RebuiltIndex /\ FastCloneIsFaithful
===============================================================================
