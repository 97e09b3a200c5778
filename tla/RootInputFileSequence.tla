------------------------ MODULE RootInputFileSequence ------------------------
(* IOPool/Input: what secondary and embedded file sequences have in common.   *)
(* They look for a run, a luminosity block or an event in a list of files,    *)
(* with at most one RootFile open; indexes of closed files are kept.  The     *)
(* operators take the list of files and the state s of a sequence:            *)
(*   file  - fileIter_, Len(files) + 1 for the end;  open - the RootFile or 0 *)
(*   last  - fileIterLastOpened_, 0 for the end;  indexes - files with an     *)
(*           index;  hash - lfnHash_                                          *)
(*   at    - indexIntoFileIter_ of the RootFile, Len(entries) + 1 at the end  *)
(*   entry - entryNumber_ of its event tree;  failed - exception or assertion *)
(* The hash of a file's name is its number: different names are taken to have *)
(* different hashes.                                                          *)
EXTENDS Integers, Sequences, FiniteSets, SequencesExt

Size(files, f) == Len(files[f].entries)
Type(files, f, i) == IF i > Size(files, f) THEN "end" ELSE files[f].entries[i].type
EventsIn(files, f) == {i \in 1 .. Size(files, f) : Type(files, f, i) = "event"}

\* entries() of the event tree, which need not be in the order of the index.
TreeEntries(files, f) == Cardinality(EventsIn(files, f))
IndexOf(files, f, entry) == CHOOSE i \in EventsIn(files, f) : files[f].entries[i].entry = entry

\* Items are keys: <<run, 0, 0>>, <<run, lumi, 0>> or <<run, lumi, event>>.
ItemType(key) == IF key[3] # 0 THEN "event" ELSE IF key[2] # 0 THEN "lumi" ELSE "run"

\* IndexIntoFile::find*Position (external): Size + 1 if the item is not there.
FindPosition(files, f, key) ==
  Min({i \in 1 .. Size(files, f) : Type(files, f, i) = ItemType(key) /\ files[f].entries[i].key = key}
        \cup {Size(files, f) + 1})

ContainsItem(files, f, key) == FindPosition(files, f, key) <= Size(files, f)

NoMoreFiles(files, s) == s.file > Len(files)

Fail(s, why) == IF s.failed = "" THEN [s EXCEPT !.failed = why] ELSE s

\* A constructed sequence with no file open.
AtEnd(files) ==
  [file |-> Len(files) + 1, open |-> 0, last |-> 0, indexes |-> {}, hash |-> 0, at |-> 1, entry |-> -1, failed |-> ""]

\* initTheFile: the file at fileIter_, or its fallback, takes the place of the open one.
InitTheFile(files, s, skipBadFiles) ==
  LET closed == [s EXCEPT !.open = 0, !.last = 0]
  IN IF NoMoreFiles(files, s) THEN closed
     ELSE IF ~files[s.file].found
          THEN IF skipBadFiles THEN closed ELSE Fail(closed, "LogicalFileNameNotFound")
     ELSE IF files[s.file].opens \/ files[s.file].fallback
          THEN [closed EXCEPT !.open = s.file, !.last = s.file, !.hash = s.file, !.at = 1, !.entry = -1,
                              !.indexes = @ \cup {s.file}]
     ELSE IF skipBadFiles THEN [closed EXCEPT !.hash = s.file]
     ELSE Fail([closed EXCEPT !.hash = s.file], "FileOpenError")

Use(files, s, f) == InitTheFile(files, [s EXCEPT !.file = f], FALSE)

\* RootFile::setEntryAtItem, and whether it succeeds.
SetEntryAtItem(files, s, key) ==
  LET i == FindPosition(files, s.open, key)
  IN [s EXCEPT !.at = i,
               !.entry = IF i <= Size(files, s.open) /\ ItemType(key) = "event"
                         THEN files[s.open].entries[i].entry ELSE @]

\* Results of searches.
Found(s)    == [s |-> s, found |-> s.failed = ""]
NotFound(s) == [s |-> s, found |-> FALSE]

Sought(files, s, key) == [s |-> SetEntryAtItem(files, s, key), found |-> ContainsItem(files, s.open, key)]

LookInto(files, s, key) == IF s.failed = "" THEN Sought(files, s, key) ELSE NotFound(s)

\* skipToItemInNewFile, with the files that it may look into: each that was
\* never opened is opened until the item is in it.
SkipToItemInNewFile(files, s, key, among) ==
  LET look[n \in 0 .. Len(files)] ==
        IF n = 0 THEN NotFound(s)
        ELSE LET prev == look[n - 1]
             IN IF prev.found \/ prev.s.failed # "" \/ n \notin among \ s.indexes THEN prev
                ELSE LookInto(files, Use(files, prev.s, n), key)
  IN look[Len(files)]

GoTo(files, s, key) ==
  IF s.failed # "" THEN s
  ELSE IF s.open = 0 THEN Fail(s, "assert")
  ELSE SetEntryAtItem(files, s, key)

\* The known file f is opened unless fileIter_ is at it already.
GoToKnownFile(files, s, f, key) == GoTo(files, IF f # s.file THEN Use(files, s, f) ELSE s, key)

OrInAnyFile(files, key, named) ==
  IF named.found \/ named.s.failed # "" THEN named ELSE SkipToItemInNewFile(files, named.s, key, 1 .. Len(files))

\* In files known by their index; by the hash of the file's name; in all others.
LookElsewhere(files, s, key, hash) ==
  LET known == {f \in s.indexes : ContainsItem(files, f, key)}
  IN IF known # {} THEN Found(GoToKnownFile(files, s, Min(known), key))
     ELSE OrInAnyFile(files, key, IF hash # 0 THEN SkipToItemInNewFile(files, s, key, {hash}) ELSE NotFound(s))

\* skipToItem: in the open file first.
SkipToItem(files, s, key, hash, currentFileFirst) ==
  IF ~currentFileFirst \/ s.open = 0 THEN LookElsewhere(files, s, key, hash)
  ELSE IF ContainsItem(files, s.open, key) \/ Len(files) = 1 THEN Sought(files, s, key)
  ELSE LookElsewhere(files, SetEntryAtItem(files, s, key), key, hash)

=============================================================================
