------------------------------ MODULE RPAlignments ----------------------------
(***************************************************************************)
(* Geometry/VeryForwardGeometryBuilder: the corrections of the positions of *)
(* pots and sensors.  TotemRPIncludeAlignments reads them from XML files,   *)
(* each of which says when they are valid, merges the files of one record   *)
(* into one sequence of intervals, and answers from it whenever the         *)
(* framework asks what is valid at a time.  A correction is a shift and a   *)
(* rotation about the beam by right angles; errors and the shift along the  *)
(* readout direction are left out.                                          *)
(***************************************************************************)
EXTENDS CTPPSDetId, FiniteSets, SequencesExt

CONSTANTS AlignmentSetups, \* jobs: [files, ...], for each record a sequence of XML trees
          InputResolution, \* values of time in a second; files give seconds
          EndOfTime,       \* the last value
          SyncTimes,       \* values of the times of events
          MaxSyncs         \* bound: events of the job

AlignmentRecords == {"Measured", "Real", "Misaligned"}

ASSUME TimesAssumption ==
  /\ InputResolution \in Nat \ {0} /\ EndOfTime \in Nat
  /\ SyncTimes \subseteq 0 .. EndOfTime
ASSUME SetupsAssumption ==
  \A s \in AlignmentSetups : DOMAIN s.files = AlignmentRecords

VARIABLES setup,  \* an element of AlignmentSetups
          acs,    \* acsMeasured, acsReal, acsMisaligned: intervals to corrections
          ac,     \* acMeasured, acReal, acMisaligned: what would be produced now
          valid,  \* what the framework knows of each record: <<first, last>> or <<>>
          now,    \* time of the event, <<>> before the first
          syncs,  \* events begun
          setupFailed \* the constructor has thrown

alignmentVars == <<setup, acs, ac, valid, now, syncs, setupFailed>>

-----------------------------------------------------------------------------
(* Corrections: a shift (x, y) and rot quarters of a turn; those of pots and *)
(* of sensors in maps.                                                       *)

NoCorrection == [x |-> 0, y |-> 0, rot |-> 0]
Plus(a, b) == [x |-> a.x + b.x, y |-> a.y + b.y, rot |-> (a.rot + b.rot) % 4]
CorrectionOf(corrections, id) == IF id \in DOMAIN corrections THEN corrections[id] ELSE NoCorrection

NoCorrections == [rps |-> <<>>, sensors |-> <<>>]
AddCorrection(corrections, id, c) ==
  [i \in DOMAIN corrections \cup {id} |-> IF i = id THEN Plus(CorrectionOf(corrections, id), c) ELSE corrections[i]]
AddAll(a, b) == [i \in DOMAIN a \cup DOMAIN b |-> Plus(CorrectionOf(a, i), CorrectionOf(b, i))]
AddCorrections(d, e) == [rps |-> AddAll(d.rps, e.rps), sensors |-> AddAll(d.sensors, e.sensors)]

GetRPCorrection(d, id) == CorrectionOf(d.rps, id)
GetFullSensorCorrection(d, id) == Plus(CorrectionOf(d.rps, GetRPId(id)), CorrectionOf(d.sensors, id))

-----------------------------------------------------------------------------
(* RPAlignmentCorrectionsMethods::GetCorrectionsData.  A node is             *)
(* [name, id, correction, first, last, children]; attributes that may be     *)
(* missing are <<value>> or <<>>.                                            *)

\* Decimal ids: arm, station, pot and, for a sensor, plane, always of strips.
Digit(n, i) == (n \div i) % 10
IdOf(n) ==
  IF n.name = "det"
  THEN [arm |-> n.id[1] \div 1000, station |-> Digit(n.id[1], 100), rp |-> Digit(n.id[1], 10), plane |-> Digit(n.id[1], 1)]
  ELSE [arm |-> Digit(n.id[1], 100), station |-> Digit(n.id[1], 10), rp |-> Digit(n.id[1], 1), plane |-> 0]
IdIsValid(i) == ValidId(sdTrackingStrip, i.arm, i.station, i.rp, i.plane, 0)
RawOf(i) == StripId(i.arm, i.station, i.rp, i.plane, 0)

\* Anything else throws.
IsCorrection(n) == n.name \in {"det", "rp"} /\ n.id # <<>> /\ IdIsValid(IdOf(n))

WithNode(d, n) ==
  IF n.name = "det" THEN [d EXCEPT !.sensors = AddCorrection(@, RawOf(IdOf(n)), n.correction)]
                    ELSE [d EXCEPT !.rps = AddCorrection(@, RawOf(IdOf(n)), n.correction)]
GetCorrectionsData(nodes) == FoldLeft(WithNode, NoCorrections, nodes)

(* RPAlignmentCorrectionsDataSequence::LoadXMLFile.  A file without intervals *)
(* is valid for ever; of two blocks with one interval the first is kept.      *)
OldStyle(file) == \E i \in DOMAIN file : file[i].name \in {"det", "rp"}
IsInterval(n) ==
  /\ n.name = "TimeInterval" /\ n.first # <<>> /\ n.last # <<>>
  /\ \A i \in DOMAIN n.children : IsCorrection(n.children[i])
Loads(file) ==
  IF OldStyle(file) THEN \A i \in DOMAIN file : IsCorrection(file[i])
                    ELSE \A i \in DOMAIN file : IsInterval(file[i])

IntervalOf(n) == <<n.first[1], n.last[1]>>
FirstWith(file, interval) == CHOOSE i \in DOMAIN file :
  IntervalOf(file[i]) = interval /\ \A j \in 1 .. i - 1 : IntervalOf(file[j]) # interval
LoadXMLFile(file) ==
  IF OldStyle(file) THEN [interval \in {<<0, EndOfTime>>} |-> GetCorrectionsData(file)]
  ELSE [interval \in {IntervalOf(file[i]) : i \in DOMAIN file} |->
          GetCorrectionsData(file[FirstWith(file, interval)].children)]

-----------------------------------------------------------------------------
(* TotemRPIncludeAlignments::Merge.  A block is an interval of a file.       *)

Blocks(sequences) == UNION {{[file |-> f, interval |-> i] : i \in DOMAIN sequences[f]} : f \in DOMAIN sequences}

\* Variant with a fault: the last second of a block does not belong to it.
EndsAtLast(interval) == interval[2]

\* The boundary at which a block is erased: seconds are included as a whole.
BoundAfter(interval) == IF interval[2] # EndOfTime THEN interval[2] + InputResolution ELSE interval[2]
Bounds(blocks) == {b.interval[1] : b \in blocks} \cup {BoundAfter(b.interval) : b \in blocks}

\* What is in the accumulator after the boundary t: the block was inserted and not erased since.
Accumulator(blocks, t) ==
  {b \in blocks : b.interval[1] <= t /\ ~(BoundAfter(b.interval) \in b.interval[1] .. t)}
After(bounds, t) == Min({u \in bounds : u > t})
Until(bounds, t) == IF After(bounds, t) = EndOfTime THEN EndOfTime ELSE After(bounds, t) - 1

SumOf(sequences, blocks) ==
  FoldLeft(LAMBDA d, b : AddCorrections(d, sequences[b.file][b.interval]), NoCorrections, SetToSeq(blocks))
MergeBlocks(sequences, blocks, bounds) ==
  [interval \in {<<t, Until(bounds, t)>> :
                   t \in {t \in bounds : t # Max(bounds) /\ Accumulator(blocks, t) # {}}} |->
     SumOf(sequences, Accumulator(blocks, interval[1]))]
Merge(sequences) == MergeBlocks(sequences, Blocks(sequences), Bounds(Blocks(sequences)))

PrepareSequence(files) == Merge([i \in DOMAIN files |-> LoadXMLFile(files[i])])

-----------------------------------------------------------------------------
(* setIntervalFor: the first interval that holds the time, or none until the *)
(* next one starts.                                                          *)

Covering(seq, t) == {i \in DOMAIN seq : i[1] <= t /\ t <= i[2]}
LaterStarts(seq, t) == {i[1] : i \in {i \in DOMAIN seq : t <= i[1]}}
NextStart(seq, t) == Min(LaterStarts(seq, t) \cup {EndOfTime})

IntervalFor(seq, t) ==
  IF Covering(seq, t) # {} THEN CHOOSE i \in Covering(seq, t) : \A j \in Covering(seq, t) : i[1] <= j[1]
  ELSE IF LaterStarts(seq, t) = {} THEN <<t, EndOfTime>>
  ELSE <<t, NextStart(seq, t) - 1>>
CorrectionsFor(seq, t) == IF Covering(seq, t) = {} THEN NoCorrections ELSE seq[IntervalFor(seq, t)]

IsValid(r) == valid[r] # <<>> /\ now # <<>> /\ valid[r][1] <= now[1] /\ now[1] <= valid[r][2]

AlignmentInit ==
  /\ setup \in AlignmentSetups
  /\ acs = [r \in AlignmentRecords |-> <<>>] /\ ac = [r \in AlignmentRecords |-> NoCorrections]
  /\ valid = [r \in AlignmentRecords |-> <<>>]
  /\ now = <<>> /\ syncs = -1 /\ setupFailed = FALSE

\* The constructor reads all the files; one of them may throw.
Construct ==
  /\ syncs = -1 /\ ~setupFailed
  /\ IF \A r \in AlignmentRecords : \A i \in DOMAIN setup.files[r] : Loads(setup.files[r][i])
     THEN /\ acs' = [r \in AlignmentRecords |-> PrepareSequence(setup.files[r])]
          /\ syncs' = 0 /\ UNCHANGED setupFailed
     ELSE setupFailed' = TRUE /\ UNCHANGED <<acs, syncs>>
  /\ UNCHANGED <<setup, ac, valid, now>>

\* The next event, of any time: the intervals of the records are no longer believed
\* where they do not hold the time.
Synchronize(t) ==
  /\ syncs \in 0 .. MaxSyncs - 1
  /\ now = <<>> \/ \A r \in AlignmentRecords : IsValid(r)
  /\ now' = <<t>> /\ syncs' = syncs + 1
  /\ UNCHANGED <<setup, acs, ac, valid, setupFailed>>

SetIntervalFor(r) ==
  /\ now # <<>> /\ ~IsValid(r)
  /\ valid' = [valid EXCEPT ![r] = IntervalFor(acs[r], now[1])]
  /\ ac' = [ac EXCEPT ![r] = CorrectionsFor(acs[r], now[1])]
  /\ UNCHANGED <<setup, acs, now, syncs, setupFailed>>

-----------------------------------------------------------------------------
(* What the files say of a time, block by block.                             *)

SaysOf(file, t) ==
  IF OldStyle(file) THEN {<<0, EndOfTime>>}
  ELSE {i \in {IntervalOf(file[j]) : j \in DOMAIN file} : i[1] <= t /\ t \div InputResolution <= i[2] \div InputResolution}
SumOver(files, t, map, id) ==
  FoldLeft(LAMBDA c, file :
             FoldLeft(LAMBDA d, i : Plus(d, CorrectionOf(LoadXMLFile(file)[i][map], id)), c, SetToSeq(SaysOf(file, t))),
           NoCorrection, files)
IdsIn(file, map) == UNION {DOMAIN LoadXMLFile(file)[i][map] : i \in DOMAIN LoadXMLFile(file)}

\* TotemRPIncludeAlignments: whenever the framework believes that a record is valid at
\* the time of the event, what it has produced for the record is the sum of all blocks
\* of all files that include that second, for every pot and every sensor.
\* Blocks are those that LoadXMLFile keeps: of two blocks of one file with the same
\* interval the second is ignored, which is no loss here, though the file has it.
CorrectionsAreTheSum ==
  syncs >= 0 => \A r \in AlignmentRecords :
    IsValid(r) => \A map \in {"rps", "sensors"} :
      \A id \in DOMAIN ac[r][map] \cup UNION {IdsIn(setup.files[r][f], map) : f \in DOMAIN setup.files[r]} :
        CorrectionOf(ac[r][map], id) = SumOver(setup.files[r], now[1], map, id)
===============================================================================
