----------------------------- MODULE MCPoolSource ------------------------------
EXTENDS PoolSource

R(r)       == [type |-> "run", key |-> <<r, 0, 0>>]
L(r, l)    == [type |-> "lumi", key |-> <<r, l, 0>>]
E(r, l, e) == [type |-> "event", key |-> <<r, l, e>>]

File(entries)     == [opens |-> TRUE, matches |-> TRUE, real |-> FALSE, entries |-> entries]
RealFile(entries) == [File(entries) EXCEPT !.real = TRUE]
BadFile           == [File(<<>>) EXCEPT !.opens = FALSE]

\* Within a file, within a luminosity block and across files.
Duplicates == File(<<R(1), L(1, 1), E(1, 1, 1), E(1, 1, 1), E(1, 1, 2)>>)
Repeats    == File(<<R(1), L(1, 1), E(1, 1, 2), E(1, 1, 3), L(1, 2), E(1, 2, 4)>>)
Distinct   == File(<<R(1), L(1, 1), E(1, 1, 1), L(1, 2), E(1, 2, 5)>>)
NextRun    == File(<<R(2), L(2, 1), E(2, 1, 1), E(2, 1, 2)>>)
NoEvents   == File(<<R(1), L(1, 2)>>)

Job(list, mode, runs, skip) ==
  [files |-> list, mode |-> mode, runs |-> runs, skip |-> skip, parents |-> <<>>,
   products |-> [primary |-> {}, secondary |-> {}]]

\* Secondary files: their entries, with the number in the event tree and the GUID.
P(item, entry)    == item @@ [entry |-> entry, guid |-> item.key]
Parent(entries)   == [found |-> TRUE, opens |-> TRUE, fallback |-> FALSE, ancestor |-> TRUE, entries |-> entries]
Lost(parent)      == [parent EXCEPT !.opens = FALSE, !.entries = <<>>]
Renamed(p, run)   == [p EXCEPT !.key[1] = run]

ParentA == Parent(<<P(R(1), 0), P(L(1, 2), 0), P(E(1, 2, 4), 0), P(E(1, 2, 5), 1)>>)
ParentB == Parent(<<P(R(1), 0), P(L(1, 1), 0), P(E(1, 1, 2), 1), P(E(1, 1, 1), 0)>>)
Foreign == Parent(<<P(R(1), 0), P(L(1, 1), 0), [P(E(1, 1, 1), 0) EXCEPT !.guid = <<9, 9, 9>>]>>)
AsRun5And6 ==
  Parent(<<Renamed(P(R(1), 0), 5), Renamed(P(L(1, 1), 0), 5), Renamed(P(E(1, 1, 1), 0), 5),
           Renamed(P(R(1), 1), 6), Renamed(P(L(1, 2), 1), 6), Renamed(P(E(1, 2, 5), 1), 6)>>)

\* Products that only secondary files have.
WithParents(job, parentFiles, types) ==
  [job EXCEPT !.parents = parentFiles,
              !.products = [primary |-> {<<"event", "digis">>, <<"run", "info">>},
                            secondary |-> {<<"run", "info">>} \cup {<<type, "hits">> : type \in types}]]

\* Every mode over files that share events, then files that do not open, do not
\* match or are empty, then numbers for the luminosity blocks.
SomeJobs ==
  {Job(<<Duplicates, Repeats>>, mode, <<>>, 1) : mode \in Modes} \cup
  {Job(<<Duplicates>>, "checkAllFilesOpened", <<>>, 0),
   Job(<<Repeats, NoEvents, Duplicates>>, "checkAllFilesOpened", <<>>, 0),
   Job(<<RealFile(Duplicates.entries), Duplicates>>, "checkEachRealDataFile", <<>>, 0),
   Job(<<BadFile, Distinct, Repeats>>, "checkEachFile", <<>>, 2),
   Job(<<Distinct, BadFile, Repeats>>, "checkAllFilesOpened", <<>>, 0),
   Job(<<Distinct, [NextRun EXCEPT !.matches = FALSE]>>, "noDuplicateCheck", <<>>, 0),
   Job(<<Distinct, File(<<>>), NextRun>>, "noDuplicateCheck", <<>>, 0),
   Job(<<Duplicates, Distinct>>, "checkAllFilesOpened", <<5, 6, 7>>, 0),
   Job(<<Duplicates, Repeats, Distinct>>, "noDuplicateCheck", <<5, 5, 6>>, 1),
   Job(<<Distinct, NextRun>>, "noDuplicateCheck", <<5, 6, 6>>, 0),
   Job(<<RealFile(Distinct.entries)>>, "noDuplicateCheck", <<5>>, 0)} \cup
  {WithParents(Job(<<Distinct, Repeats>>, "checkAllFilesOpened", <<>>, 0), <<ParentA, ParentB>>, ItemTypes),
   WithParents(Job(<<Distinct, Duplicates>>, "checkEachFile", <<>>, 0), <<Lost(ParentA), ParentB, ParentA>>, {"event"}),
   WithParents(Job(<<Distinct>>, "checkEachFile", <<>>, 0), <<Lost(ParentA)>>, {"event"}),
   WithParents(Job(<<Distinct>>, "checkEachFile", <<>>, 0), <<ParentB, Lost(ParentA), ParentA>>, {"event", "lumi"}),
   WithParents(Job(<<Distinct>>, "checkEachFile", <<>>, 0), <<Foreign>>, {"lumi", "event"}),
   WithParents(Job(<<Distinct>>, "checkEachFile", <<>>, 0), <<[ParentB EXCEPT !.ancestor = FALSE], ParentA>>, {"event"}),
   WithParents(Job(<<Distinct>>, "checkEachFile", <<>>, 0), <<ParentB>>, {}),
   WithParents(Job(<<Distinct>>, "noDuplicateCheck", <<5, 6>>, 0), <<AsRun5And6>>, ItemTypes),
   WithParents(Job(<<Distinct>>, "noDuplicateCheck", <<5, 6>>, 0), <<ParentB, ParentA>>, ItemTypes)} \cup
  \* The source synchronises on events, with and without remembering them, and on
  \* luminosity blocks that are given numbers.
  {WithParents(Job(<<Duplicates, Repeats>>, mode, <<>>, 0), <<ParentA, ParentB>>, {"event"}) :
     mode \in {"noDuplicateCheck", "checkEachFile", "checkAllFilesOpened"}} \cup
  {WithParents(Job(<<Distinct>>, "noDuplicateCheck", <<5, 6, 6>>, 0), <<AsRun5And6>>, {"run"}),
   WithParents(Job(<<Distinct>>, "noDuplicateCheck", <<1>>, 0), <<ParentB>>, ItemTypes)}

SkipLumi  == {<<1, 2>>}
SkipEvent == {<<1, 1, 3>>}
Steps     == {-3, -1, 2}
===============================================================================
