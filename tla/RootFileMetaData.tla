---------------------------- MODULE RootFileMetaData ----------------------------
(* IOPool/Input: what a RootFile reads besides its events.  The constructor    *)
(* goes through the metadata trees, of any generation of the format: parameter *)
(* sets, process histories, branch lists, parentages; translates the product   *)
(* registry and drops products on input.  Then each event read by a stream     *)
(* gets its process history, and its provenance when it is asked for.          *)
(* An opening is a record: the job's                                           *)
(*   type - "Primary", "SecondaryFile", "SecondarySource";  selected - product *)
(*   ids the rules keep;  dropDescendants;  bypassVersionCheck;                *)
(* and the file's                                                              *)
(*   format - features of its FileFormatVersion;  has - trees and branches of  *)
(*   metadata in it;  psets, histories - the latter of [process, pset,         *)
(*   release];  convert - what ParameterSetConverter makes of old sets;        *)
(*   products - [id, branch, newBranch, process, type, thinned, mergeable] in  *)
(*   order of key;  branches - in the trees;  children - <<product, product>>; *)
(*   associations - [id, parent, thinned] of the helper;  lists - branch lists;*)
(*   parents - the parentages as the writer numbered them;  parentages - the   *)
(*   tree of them, [id, parents];  events - [key, history, indexes, stored],   *)
(*   stored of <<product id, number of its parentage>>;                        *)
(*   fault - the exception a malformed file must end in, "" for none.          *)
(* Identifiers of parameter sets, histories and parentages are hashes of their *)
(* contents: here the contents.  labelRawDataLikeMC is always reset to 0, so   *)
(* there is never a DaqProvenanceHelper.                                       *)
EXTENDS Integers, Sequences, SequencesExt

CONSTANTS Openings, FileStreams, CurrentRelease,
          MaxReads  \* bound: reads of events, runs and blocks

VARIABLES opening,
          phase,      \* of the constructor, "open" after it
          failed,     \* exception thrown
          registry,   \* global: psets, histories, parentages
          meta,       \* members of the RootFile, see NoMeta
          cursor,     \* entry of the event tree, eventProcessHistoryIter_, saved run history
          streams,    \* [entry, history, indexes, asked, provenance] of the event of each
          auxiliary,  \* run or block auxiliary read last
          readings

metaVars == <<opening, phase, failed, registry, meta, cursor, streams, auxiliary, readings>>

Format(feature) == feature \in opening.format
Has(what)       == what \in opening.has

\* "For thread safety, don't update global registries when a secondary source opens a file."
UpdatesRegistries == opening.type # "SecondarySource"

EventKeys == SortSeq(opening.events, LAMBDA a, b : a.key < b.key)  \* eventProcessHistoryIDs_

NoEvent == [entry |-> 0, history |-> <<>>, indexes |-> {}, asked |-> FALSE, provenance |-> {}]

MetaInit ==
  LET NoMeta ==
        [adaptor |-> FALSE, lists |-> <<>>, reader |-> "", lookup |-> <<>>, products |-> {}, branches |-> {},
         newlyDropped |-> {}, helper |-> {}, tooOld |-> FALSE]
  IN
  /\ opening \in Openings
  /\ phase = "metadata" /\ failed = ""
  /\ registry = [psets |-> {}, histories |-> {}, parentages |-> {}]
  /\ meta = NoMeta
  /\ cursor = [entry |-> 0, history |-> 1, run |-> <<>>]
  /\ streams = [s \in FileStreams |-> NoEvent]
  /\ auxiliary = [type |-> "", lumi |-> 0, history |-> <<>>]
  /\ readings = 0

-------------------------------------------------------------------------------
(* The constructor: in each phase the exceptions come first.                   *)

\* The first reason of a list that holds, "" if none does.
Reason(list) ==
  LET holds == SelectSeq(list, LAMBDA r : r[1]) IN IF holds = <<>> THEN "" ELSE holds[1][2]

\* From a phase to the next, with the registry and the members, unless it throws.
Through(from, to, why, newRegistry, newMeta) ==
  /\ phase = from /\ failed = ""
  /\ failed' = why /\ phase' = (IF why = "" THEN to ELSE from)
  /\ registry' = newRegistry
  /\ meta' = (IF why = "" THEN newMeta ELSE meta)
  /\ UNCHANGED <<opening, cursor, streams, auxiliary, readings>>

\* The metadata tree, the parameter sets from a branch or a tree of their own,
\* and readEventHistoryTree.
ReadMetaData ==
  Through("metadata", "psets",
          Reason(<< <<~Has("MetaData"), "FileReadError">>,
                    <<Has("ParameterSetMap") = Format("parameterSetsTree"), "assert">>,
                    <<~Has("ParameterSetMap") /\ ~Has("ParameterSets"), "FileReadError">>,
                    <<Format("eventHistoryTree") /\ ~Has("EventHistory"), "EventCorruption">> >>),
          registry, meta)

\* ParameterSetConverter (external) of old sets, which registers what it makes.
NewPset(pset) == IF pset \in DOMAIN opening.convert THEN opening.convert[pset] ELSE pset

\* Variant with a fault: every input registers the parameter sets.
RegisterAllParameterSets ==
  Through("psets", "adaptor", "", [registry EXCEPT !.psets = @ \cup {NewPset(p) : p \in opening.psets}], meta)

RegisterParameterSets ==
  Through("psets", "adaptor", "",
          [registry EXCEPT !.psets =
             @ \cup IF ~Format("triggerPathsTracked") THEN {NewPset(p) : p \in opening.psets}
                    ELSE {p \in opening.psets : UpdatesRegistries}], meta)

-------------------------------------------------------------------------------
(* ProvenanceAdaptor, for files before the tracking of trigger paths.          *)

\* fixProcessHistory.
NewHistory(h) == [i \in DOMAIN h |-> [h[i] EXCEPT !.pset = NewPset(@)]]

\* convertID.
ConvertHistory(h) == IF meta.adaptor /\ h \in opening.histories THEN NewHistory(h) ELSE h

EventProducts == SelectSeq(opening.products, LAMBDA p : p.type = "Event")

\* Sorter: in some history, and in none the other way.
Precedes(a, b) ==
  LET IsBefore(order, p, q) == \E i, j \in DOMAIN order : i < j /\ order[i] = p /\ order[j] = q
      \* Histories with two such processes or more, as process names.
      ProcessOrders ==
        LET ProcessesThatProduced == {EventProducts[i].process : i \in DOMAIN EventProducts}
        IN {o \in {SelectSeq([i \in DOMAIN h |-> h[i].process], LAMBDA p : p \in ProcessesThatProduced) : h \in opening.histories} : Len(o) > 1}
  IN (\E o \in ProcessOrders : IsBefore(o, a, b)) /\ ~ \E o \in ProcessOrders : IsBefore(o, b, a)

BranchIDLists ==
  \* fillListsAndIndexes: one list per process of consecutive products.
  LET AddToList(lists, p) ==
        IF lists # <<>> /\ Last(lists).process = p.process
        THEN [lists EXCEPT ![Len(lists)].ids = Append(@, p.id)]
        ELSE Append(lists, [process |-> p.process, ids |-> <<p.id>>])
      \* stable_sort of a short sequence: by insertion, before the first or from the end.
      InsertProduct(list, p) ==
        IF list # <<>> /\ Precedes(p.process, list[1].process) THEN <<p>> \o list
        ELSE InsertAt(list, Max({k \in DOMAIN list : ~Precedes(p.process, list[k].process)} \cup {0}) + 1, p)
  IN FoldLeft(AddToList, <<>>, FoldLeft(InsertProduct, <<>>, EventProducts))

FullConversion == ~Format("splitProductIDs")

\* A full adaptor makes the branch lists too; others read them.
AdaptProvenance ==
  LET adaptor == FullConversion \/ ~Format("triggerPathsTracked")
  IN Through("adaptor", "histories",
             Reason(<< <<adaptor /\ opening.histories = {}, "assert">>,
                       <<FullConversion /\ EventProducts = <<>>, "assert">>,
                       <<~FullConversion /\ ~Has("BranchIDLists"), "EventCorruption">> >>),
             registry,
             [meta EXCEPT !.adaptor = adaptor, !.lists = IF FullConversion THEN BranchIDLists ELSE opening.lists])

\* checkReleaseVersion: "Forward compatibility cannot be supported."
WrittenByLaterRelease == \E h \in opening.histories : \E i \in DOMAIN h : h[i].release > CurrentRelease

RegisterHistories ==
  LET why == Reason(<< <<Format("hasThinnedAssociations") /\ ~Has("ThinnedAssociations"), "EventCorruption">>,
                       <<~opening.bypassVersionCheck /\ WrittenByLaterRelease, "FormatIncompatibility">> >>)
  IN Through("histories", "provenance", why,
             [registry EXCEPT !.histories = @ \cup {ConvertHistory(h) : h \in {x \in opening.histories : why = ""}}], meta)

-------------------------------------------------------------------------------
(* validateFile and makeProvenanceReaderMaker.                                 *)

Reader ==
  IF Format("storedProductProvenanceUsed") THEN "Reduced" ELSE IF Format("splitProductIDs") THEN "Full"
  ELSE IF Format("perEventProductIDs") THEN "Old" ELSE "Dummy"

\* readParentageTree, readEntryDescriptionTree: entries up to a corrupt one.
SoundEntries ==
  {k \in DOMAIN opening.parentages :
     Reader = "Old" => \A j \in 1 .. k : opening.parentages[j].id = opening.parentages[j].parents}

ReadProvenanceTree ==
  LET read == IF Reader # "Dummy" /\ Has("Events") /\ Has("Parentages") THEN SoundEntries ELSE {}
  IN Through("provenance", "products",
             Reason(<< <<~Has("Events"), "EventCorruption">>,
                       <<Reader # "Dummy" /\ ~Has("Parentages"), "FileReadError">>,
                       <<Reader # "Dummy" /\ SoundEntries # DOMAIN opening.parentages, "EventCorruption">> >>),
             [registry EXCEPT !.parentages = @ \cup {opening.parentages[k].parents : k \in {j \in read : UpdatesRegistries}}],
             [meta EXCEPT !.reader = Reader,
                          !.lookup = IF Reader = "Dummy" THEN <<>> ELSE [k \in DOMAIN opening.parentages |-> opening.parentages[k].parents]])

-------------------------------------------------------------------------------
(* The product registry: new friendly names, and dropOnInput.                  *)

FileProducts == Range(opening.products)

\* setPresence: by the branch of the file.
Present(p) == p.branch \in opening.branches

\* Variant with a fault: the descendants of a dropped branch stay.
MarkOnlyThese(ids) == ids

\* markBranchToBeDropped, with BranchChildren::appendToDescendants (external).
MarkToBeDropped(ids) ==
  IF ~opening.dropDescendants THEN ids
  ELSE FoldLeft(LAMBDA reached, p : reached \cup {c[2] : c \in {x \in opening.children : x[1] \in reached}}, ids, opening.products)

IsAssociation(p) == p.thinned /\ Present(p)

\* selectAssociationProducts (external): those whose thinned collection is kept,
\* or is the parent of one that is.
KeepAssociations(kept) ==
  LET candidates == {a \in opening.associations : \E p \in FileProducts : IsAssociation(p) /\ p.id = a.id}
  IN FoldLeft(LAMBDA keep, p : keep \cup {a \in candidates : \E b \in keep : b.parent = a.thinned},
              {a \in candidates : a.thinned \in kept}, opening.products)

DropOnInput ==
  \* The first pass: by the selector; a secondary source drops all associations.
  LET FirstDropped ==
        MarkToBeDropped({p.id : p \in {x \in FileProducts :
           IF IsAssociation(x) THEN opening.type = "SecondarySource" ELSE x.id \notin opening.selected}})
      KeptAssociations(first) ==
        IF opening.type = "SecondarySource" THEN {}
        ELSE KeepAssociations({p.id : p \in {x \in FileProducts : x.id \notin first /\ Present(x) /\ x.type = "Event"}})
      Dropped(first, keep) ==
        IF opening.type = "SecondarySource" THEN first
        ELSE first \cup MarkToBeDropped({p.id : p \in {x \in FileProducts : IsAssociation(x) /\ x.id \notin {a.id : a \in keep}}})
      \* A secondary file gives no mergeable products of runs and blocks.
      MergeableDropped(p) == opening.type = "SecondaryFile" /\ p.type # "Event" /\ p.mergeable
  IN
  \E first \in {FirstDropped} : \E keep \in {KeptAssociations(first)} : \E dropped \in {Dropped(first, keep)} :
    LET out == {p \in FileProducts : p.id \in dropped}
        products == {p \in FileProducts \ out : ~MergeableDropped(p)}
    IN Through("products", "open",
               Reason(<< <<Format("splitProductIDs") /\ \E p \in FileProducts : p.newBranch # p.branch, "UnimplementedFeature">> >>),
               registry,
               [meta EXCEPT !.products = products,
                            !.branches = opening.branches \ {p.branch : p \in FileProducts \ products},
                            !.newlyDropped = {p.type : p \in out},
                            !.helper = {a \in opening.associations : a \in keep},
                            !.tooOld = ~Format("splitProductIDs") \/ (Format("noMetaDataTrees") /\ ~Format("storedProductProvenanceUsed"))])

-------------------------------------------------------------------------------
(* Reading.                                                                    *)

Reading == phase = "open" /\ failed = "" /\ readings < MaxReads

\* fillEventHistory of a file with an event history branch: the iterator is past
\* the last one after the last event, and is followed then too; what it meets
\* there is another event, so that one is searched, or nothing readable.
PositionOfHistory(e) == CHOOSE i \in DOMAIN EventKeys : EventKeys[i].key = opening.events[e].key

\* From the event's place in the branch, the entry of the tree, or its auxiliary.
StoredHistory(e) ==
  IF Format("eventHistoryBranch") THEN EventKeys[PositionOfHistory(e)].history ELSE opening.events[e].history

AfterHistory(e) == IF Format("eventHistoryBranch") THEN PositionOfHistory(e) + 1 ELSE cursor.history

\* Old events have the lists of the adaptor.
IndexesOf(e) == IF FullConversion THEN DOMAIN meta.lists ELSE opening.events[e].indexes

\* readCurrentEvent with makeProductProvenanceRetriever, which forgets what was
\* read for the former event of the stream.
ReadEventOf(s, e) ==
  /\ Reading
  /\ cursor' = [cursor EXCEPT !.entry = e, !.history = AfterHistory(e)]
  /\ streams' = [streams EXCEPT ![s] = [NoEvent EXCEPT !.entry = e, !.history = ConvertHistory(StoredHistory(e)), !.indexes = IndexesOf(e)]]
  /\ readings' = readings + 1
  /\ UNCHANGED <<opening, phase, failed, registry, meta, auxiliary>>

\* Undefined: nothing readable behind the histories.
FollowHistoryPastEnd ==
  LET FollowsEnd == Format("eventHistoryBranch") /\ cursor.history > Len(opening.events)
  IN
  /\ Reading /\ FollowsEnd
  /\ failed' = "undefined"
  /\ UNCHANGED <<opening, phase, registry, meta, cursor, streams, auxiliary, readings>>

\* fillRunAuxiliary in readRunAuxiliary_: before runs had the history of their
\* events, it is that of the first event e.
ReadRunAuxiliary(e) ==
  LET old == ~Format("processHistorySameWithinRun")
      history == ConvertHistory(StoredHistory(e))
  IN /\ Reading
     /\ cursor' = (IF old THEN [entry |-> e, history |-> AfterHistory(e), run |-> history]
                   ELSE [cursor EXCEPT !.run = ConvertHistory(opening.runHistory)])
     /\ auxiliary' = [type |-> "run", lumi |-> 0, history |-> IF old THEN history ELSE ConvertHistory(opening.runHistory)]
     /\ readings' = readings + 1
     /\ UNCHANGED <<opening, phase, failed, registry, meta, streams>>

\* fillLumiAuxiliary in readLuminosityBlockAuxiliary_: an old one has no number;
\* its history is that of the run, if that was read.
ReadLumiAuxiliary ==
  /\ Reading
  /\ auxiliary' =
       [type |-> "lumi", lumi |-> IF opening.lumi = 0 /\ ~Format("runsAndLumis") THEN 1 ELSE opening.lumi,
        history |-> IF ~Format("processHistorySameWithinRun") /\ cursor.run # <<>> THEN cursor.run ELSE ConvertHistory(opening.runHistory)]
  /\ readings' = readings + 1
  /\ UNCHANGED <<opening, phase, failed, registry, meta, cursor, streams>>

\* Variant with a fault: the entry the event tree is at.
EntryTheTreeIsAt(s) == cursor.entry

\* entryNumberForIndex of the stream's transition.
EntryOfStream(s) == streams[s].entry

ReadProvenance(e) ==
  CASE meta.reader = "Reduced" -> {<<x[1], meta.lookup[x[2] + 1]>> : x \in opening.events[e].stored}
    [] meta.reader \in {"Full", "Old"} -> {<<x[1], opening.parents[x[2] + 1]>> : x \in opening.events[e].stored}
    [] OTHER -> {}

\* ProductProvenanceRetriever asks the reader once per event.
AskProvenance(s) ==
  \* The readers: by index in the lookup table, as stored, by entry description.
  LET Resolves(x) == CASE meta.reader = "Reduced" -> x[2] < Len(meta.lookup)
                       [] meta.reader = "Old" -> \E k \in DOMAIN meta.lookup : meta.lookup[k] = opening.parents[x[2] + 1]
                       [] OTHER -> TRUE
  IN
  /\ phase = "open" /\ failed = "" /\ streams[s].entry # 0 /\ ~streams[s].asked
  /\ \E e \in {EntryOfStream(s)} :
       IF \A x \in opening.events[e].stored : Resolves(x)
       THEN streams' = [streams EXCEPT ![s].asked = TRUE, ![s].provenance = ReadProvenance(e)] /\ UNCHANGED failed
       ELSE failed' = (IF meta.reader = "Reduced" THEN "LogicError" ELSE "assert") /\ UNCHANGED streams
  /\ UNCHANGED <<opening, phase, registry, meta, cursor, auxiliary, readings>>

FileIsRead ==
  /\ failed # "" \/ (phase = "open" /\ readings = MaxReads /\ \A s \in FileStreams : streams[s].entry # 0 => streams[s].asked)
  /\ UNCHANGED metaVars

MetaNext ==
  \/ ReadMetaData \/ RegisterParameterSets \/ AdaptProvenance \/ RegisterHistories
  \/ ReadProvenanceTree \/ DropOnInput
  \/ \E s \in FileStreams, e \in DOMAIN opening.events : ReadEventOf(s, e)
  \/ FollowHistoryPastEnd
  \/ \E e \in DOMAIN opening.events : ReadRunAuxiliary(e)
  \/ ReadLumiAuxiliary
  \/ \E s \in FileStreams : AskProvenance(s)
  \/ FileIsRead

-------------------------------------------------------------------------------
(* Properties.                                                                 *)

\* Whatever generation wrote the file and wherever the event tree has moved, a
\* stream gets the parents its event's products were written with, and a history
\* that is registered with the parameter sets of today.
ProvenanceIsAsWritten ==
  \A s \in FileStreams : failed = "" /\ streams[s].entry # 0 =>
    LET event == opening.events[streams[s].entry]
    IN /\ streams[s].asked /\ meta.reader # "Dummy" =>
            streams[s].provenance = {<<x[1], opening.parents[x[2] + 1]>> : x \in event.stored}
       /\ streams[s].asked /\ UpdatesRegistries => \A x \in streams[s].provenance : x[2] \in registry.parentages
       /\ streams[s].history \in registry.histories
       /\ [i \in DOMAIN event.history |-> event.history[i].process] = [i \in DOMAIN event.history |-> streams[s].history[i].process]
       /\ \A i \in DOMAIN streams[s].history : streams[s].history[i].pset \in registry.psets \/ ~UpdatesRegistries

\* A secondary source, which may open a file at any time, leaves the registries
\* that have no lock alone, unless the parameter sets must be converted.
SecondarySourceIsQuiet ==
  opening.type = "SecondarySource" => registry.parentages = {} /\ (Format("triggerPathsTracked") => registry.psets = {})

\* What is kept is whole: no product whose ancestor was dropped, associations if
\* and only if something they lead to is kept, and the branches of the products.
KeptIsWhole ==
  phase = "open" =>
    LET kept == {p.id : p \in meta.products}
    IN /\ opening.dropDescendants => \A c \in opening.children : c[2] \in kept => c[1] \in kept
       /\ {a.id : a \in meta.helper} = {p.id : p \in {x \in meta.products : IsAssociation(x)}}
       /\ \A a \in meta.helper : a.thinned \in kept \/ \E b \in meta.helper : b.parent = a.thinned
       /\ meta.branches = {p.branch : p \in {x \in meta.products : Present(x)}}

\* Each event product is in one list, a list is of one process, and the lists
\* follow the order of processes all histories agree on.
ListsAreOfProcesses ==
  phase = "open" /\ FullConversion =>
    /\ \A i \in DOMAIN EventProducts :
         LET in == {k \in DOMAIN meta.lists : Contains(meta.lists[k].ids, EventProducts[i].id)}
         IN Cardinality(in) = 1 /\ \A k \in in : meta.lists[k].process = EventProducts[i].process
    /\ \A k, l \in DOMAIN meta.lists : Precedes(meta.lists[k].process, meta.lists[l].process) => k < l

\* A file ends in an exception if and only if it is malformed, in that of its
\* fault, but for what lies behind the event histories.
OnlyMalformedFilesFail ==
  /\ failed \in {"", "undefined", opening.fault}
  /\ phase = "open" => opening.fault \in {"", "LogicError"}

MetaDataIsRead ==
  ProvenanceIsAsWritten /\ SecondarySourceIsQuiet /\ KeptIsWhole /\ ListsAreOfProcesses /\ OnlyMalformedFilesFail

===============================================================================
