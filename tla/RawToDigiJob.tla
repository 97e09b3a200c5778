------------------------------ MODULE RawToDigiJob -----------------------------
(* A job that unpacks raw data: the event-setup source of its DAQ mapping      *)
(* (TotemDAQMappingESSourceXML, or CTPPSPixelDAQMappingESSourceXML of which    *)
(* the unpacker of pixels, CTPPSPixelRawToDigi, reads the mapping) and         *)
(* TotemVFATRawToDigi.                                                         *)
(*                                                                             *)
(* The framework (external) goes through the job's times: the begin of a run   *)
(* and of a luminosity block, then events.  At each time it asks the sources   *)
(* of the records whose interval has ended for a new one; a product is made    *)
(* when a module first asks for it and kept until its record's interval ends.  *)
EXTENDS TotemVFATRawToDigi, DAQMapping

CONSTANTS Sources,  \* configurations of the event-setup source, with the job's times
          Malformed \* names of the files that cannot be used

\* EventID: run, luminosity block, event.
EventID(run, lumi, event) == 10000 * run + 100 * lumi + event
IsEvent(t)                == t % 100 # 0

Kinds == {"mapping", "mask"}

\* validityRange is first .. last.
IsConfigBlock(b) ==
  b.first \in Nat /\ b.last \in Nat /\ b.mappingFileNames \in Seq(DOMAIN Files) /\ b.maskFileNames \in Seq(DOMAIN Files)

ASSUME SourcesAssumption ==
  \A s \in Sources :
    /\ s.subSystem \in {"TrackingStrip", "TimingDiamond", "TrackingPixel"}
    /\ s.times \in Seq(Nat) /\ \A i \in DOMAIN s.configuration : IsConfigBlock(s.configuration[i])

VARIABLES source,            \* the configuration
          step,              \* number of times so far
          currentBlock, currentBlockValid,
          interval,          \* record |-> <<first, last>>, or <<>> if not valid
          products,          \* kind |-> <<table>>, or <<>> if not made
          failed,            \* an exception ended the job
          unpacker           \* CTPPSPixelRawToDigi: events, what it looked up, its digis

sourceVars == <<source, step, currentBlock, currentBlockValid, interval, products, failed, unpacker>>
jobVars == <<config, phase, raw, readout, fed, offset, fedInfo, vfatCollection, status, digi,
             errorSummary, unknownSummary, events, source, step, currentBlock, currentBlockValid, interval, products, failed, unpacker>>

Pixel    == source.subSystem = "TrackingPixel"
Records  == IF Pixel THEN Kinds ELSE {"readout"}
time     == source.times[step]

\* The record of a product.
RecordOf(kind) == IF Pixel THEN kind ELSE "readout"

\* CTPPSPixelRawToDigi's constructor: of all it is configured for, only digis are declared.
UnpackerInit == unpacker = [events |-> 0, looked |-> <<>>, digis |-> {}, crashed |-> FALSE]

\* TotemVFATRawToDigi gets the mapping of its own subsystem.
JobInit ==
  /\ Init
  /\ source \in {s \in Sources : s.subSystem \in {config.subSystem, "TrackingPixel"}}
  /\ step = 0 /\ currentBlock = 1 /\ currentBlockValid = FALSE /\ failed = FALSE /\ UnpackerInit
  /\ interval = [r \in Records |-> <<>>] /\ products = [k \in Kinds |-> <<>>]

\* Events that were read so far; the unpacker sees each of them once.
EventsRead == Cardinality({i \in 1 .. step : IsEvent(source.times[i])})
Idle       == phase = "idle" /\ ~failed /\ ~unpacker.crashed /\ (IF Pixel THEN unpacker.events ELSE events) = EventsRead

\* Variant with a fault: "1:min" is the first event.
PlainBegin(first) == first

\* "1:min" is taken for the beginning of the first run.
BeginOf(first) == IF first = EventID(1, 0, 1) THEN EventID(1, 0, 0) ELSE first

Covers(b, t) == BeginOf(b.first) <= t /\ t <= b.last

\* setIntervalFor, for the records whose interval does not contain t: the first
\* block with the time.
BlocksOf(t) == {i \in DOMAIN source.configuration : Covers(source.configuration[i], t)}
SetIntervalFor(t, stale) ==
  LET found == BlocksOf(t)
      b     == source.configuration[Min(found)]
  IN IF found = {}
     THEN /\ currentBlockValid' = FALSE /\ failed' = TRUE
          /\ UNCHANGED <<currentBlock, interval, products>>
     ELSE /\ currentBlockValid' = TRUE /\ currentBlock' = Min(found)
          /\ interval' = [r \in Records |-> IF r \in stale THEN <<BeginOf(b.first), b.last>> ELSE interval[r]]
          /\ products' = [k \in Kinds |-> IF RecordOf(k) \in stale THEN <<>> ELSE products[k]]
          /\ UNCHANGED failed

Synchronize ==
  LET t     == source.times[step + 1]
      stale == {r \in Records : IF interval[r] = <<>> THEN TRUE ELSE t \notin interval[r][1] .. interval[r][2]}
  IN /\ Idle /\ step < Len(source.times)
     /\ step' = step + 1
     /\ IF stale = {} THEN UNCHANGED <<currentBlock, currentBlockValid, interval, products, failed>>
        ELSE SetIntervalFor(t, stale)
     /\ UNCHANGED <<source, unpacker, vars>>

\* Variant with a fault: always the first block.
FirstBlock == source.configuration[1]

BlockInUse == source.configuration[currentBlock]

\* produce, when a module asks for a product that was not made: the source of
\* strips and diamonds makes both at once, the one of pixels makes one of them.
MakeProduct(kind) ==
  /\ ~failed /\ ~unpacker.crashed /\ phase = "idle" /\ step > 0 /\ products[kind] = <<>>
  /\ \E made \in {Products(BlockInUse, Pixel)} :
       IF ~made.ok THEN failed' = TRUE /\ UNCHANGED products
       ELSE /\ products' = [k \in Kinds |-> IF RecordOf(k) = RecordOf(kind) THEN <<made[k]>> ELSE products[k]]
            /\ UNCHANGED failed
  /\ UNCHANGED <<source, step, currentBlock, currentBlockValid, interval, unpacker, vars>>

\* TotemVFATRawToDigi::run, once it has the mapping and the mask.
Unpack(data) ==
  /\ ~failed /\ ~Pixel /\ events < EventsRead /\ products["mapping"] # <<>>
  /\ Produce(data, [k \in Kinds |-> products[k][1]])
  /\ UNCHANGED sourceVars

Indices == INSTANCE CTPPSPixelIndices WITH ROCSizeInX <- 80, ROCSizeInY <- 52

\* fedIds, and the position that is looked up for each of them.
FedIds(theMap) == {p[1] : p \in DOMAIN theMap}
FramePosition(aFed)  == <<aFed, 0, 2, 1>>

\* Variant with a fault: the mapping of the first event is kept.
LookedUpOnce(theMap) ==
  IF unpacker.events > 0 THEN unpacker.looked
  ELSE [aFed \in {f \in FedIds(theMap) : FramePosition(f) \in DOMAIN theMap} |->
          [id |-> theMap[FramePosition(aFed)].id, modPixel |-> Indices!ToGlobalFromDcol(<<5, 7>>, theMap[FramePosition(aFed)].roc)]]

\* The module at the position and where in it pixel 7 of double column 5 is.
LookedUp(theMap) ==
  [aFed \in {f \in FedIds(theMap) : FramePosition(f) \in DOMAIN theMap} |->
     [id |-> theMap[FramePosition(aFed)].id, modPixel |-> Indices!ToGlobalFromDcol(<<5, 7>>, theMap[FramePosition(aFed)].roc)]]

\* interpretRawData is commented out: the collection is put as it was made.
Collection == {}

\* CTPPSPixelRawToDigi::produce.  A FED without the position is past the end of
\* the mapping: what is read there is not defined, and is not used.
UnpackPixels ==
  /\ ~failed /\ ~unpacker.crashed /\ Pixel /\ unpacker.events < EventsRead /\ products["mapping"] # <<>>
  /\ \E theMap \in {products["mapping"][1]} :
       \/ unpacker' = [unpacker EXCEPT !.events = @ + 1, !.looked = LookedUp(theMap), !.digis = Collection]
       \/ DOMAIN LookedUp(theMap) # FedIds(theMap) /\ unpacker' = [unpacker EXCEPT !.crashed = TRUE]
  /\ UNCHANGED <<source, step, currentBlock, currentBlockValid, interval, products, failed, vars>>

\* The end of the job, by an exception or with the last event.
Done == Idle /\ step = Len(source.times) /\ UNCHANGED jobVars
Fail == (failed \/ unpacker.crashed) /\ UNCHANGED jobVars

JobNext ==
  \/ Synchronize
  \/ \E kind \in Kinds : MakeProduct(kind)
  \/ \E data \in Events : Unpack(data)
  \/ UnpackPixels
  \/ SkipFED /\ UNCHANGED sourceVars
  \/ ProcessOptoRxFrameSerial /\ UNCHANGED sourceVars
  \/ ProcessOptoRxFrameParallel /\ UNCHANGED sourceVars
  \/ ProcessVFATDataParallel /\ UNCHANGED sourceVars
  \/ EndOfOptoRxFrame /\ UNCHANGED sourceVars
  \/ Convert /\ UNCHANGED sourceVars
  \/ Done
  \/ Fail

JobSpec == JobInit /\ [][JobNext]_jobVars

-------------------------------------------------------------------------------
(* What the files say of a leaf, by its place in them.                         *)

\* <<file, arm, station, pot, plane, leaf>> of the files of a block.
Places(files) ==
  UNION {UNION {UNION {UNION {UNION {
    {<<f, a, s, p, l, c>> : c \in DOMAIN Files[files[f]][a].children[s].children[p].children[l].children} :
      l \in DOMAIN Files[files[f]][a].children[s].children[p].children} :
      p \in DOMAIN Files[files[f]][a].children[s].children} :
      s \in DOMAIN Files[files[f]][a].children} : a \in DOMAIN Files[files[f]]} : f \in DOMAIN files}

Path(files, w) ==
  LET arm == Files[files[w[1]]][w[2]]  station == arm.children[w[3]]  pot == station.children[w[4]]  plane == pot.children[w[5]]
  IN <<arm, station, pot, plane, plane.children[w[6]]>>

\* The detector unit of a leaf of this subsystem.
LeafTag == CASE source.subSystem = "TrackingStrip" -> "chip" [] source.subSystem = "TimingDiamond" -> "diamond_channel" [] Pixel -> "roc"
IdOf(path) ==
  CASE source.subSystem = "TrackingStrip" -> StripId(path[1].id[1], path[2].id[1], path[3].id[1], path[4].id[1], path[5].id[1])
    [] source.subSystem = "TimingDiamond" -> DiamondId(path[1].id[1], path[2].id[1], path[3].id[1], path[4].id[1], path[5].id[1])
    [] Pixel -> PixelId(path[1].id[1], path[2].id[1], path[3].id[1], path[4].id[1])

\* The position as it is written, with the FED in one part or in three.
PositionOf(a) ==
  CASE Pixel -> <<a.FEDId, a.FMC, a.FEDChannel, a.ROCinChannel>>
    [] ~Pixel /\ "FEDId" \in DOMAIN a -> <<a.FEDId, a.GOHId, a.IdxInFiber>>
    [] OTHER -> <<128 * a.SubSystemId + 4 * a.TOTFEDId + a.OptoRxId, a.GOHId, a.IdxInFiber>>

Leaves(files) == {w \in Places(files) : Path(files, w)[5].type = LeafTag}
Rank(w)       == FoldLeft(LAMBDA r, i : 10 * r + i, 0, w)
LastOf(W)     == CHOOSE w \in W : \A v \in W : Rank(v) <= Rank(w)

\* The mapping has the last chip that the files name for a position.
IsMappingOf(b, map) ==
  LET leaves == Leaves(b.mappingFileNames)
      At(p)  == {w \in leaves : PositionOf(Path(b.mappingFileNames, w)[5].attributes) = p}
  IN /\ DOMAIN map = {PositionOf(Path(b.mappingFileNames, w)[5].attributes) : w \in leaves}
     /\ \A p \in DOMAIN map :
          LET path == Path(b.mappingFileNames, LastOf(At(p)))
          IN /\ map[p].id = IdOf(path)
             /\ IF Pixel THEN map[p].roc = path[5].id[1] ELSE map[p].hwID = path[5].hwID[1]

\* The mask has the last entry that the files have for a chip; bits 13 and 14 of
\* the key of a pixel mask are the ROC.  There is none for diamonds.
IsMaskOf(b, map) ==
  LET leaves == IF source.subSystem = "TimingDiamond" THEN {} ELSE Leaves(b.maskFileNames)
      Unit(w) == LET path == Path(b.maskFileNames, w) IN <<IdOf(path), path[5].id[1]>>
      Key(u)  == IF Pixel THEN u[1] + 2^13 * u[2] ELSE u[1]
      units   == {Unit(w) : w \in leaves}
  IN /\ DOMAIN map = {Key(u) : u \in units}
     /\ \A u \in units :
          LET node == Path(b.maskFileNames, LastOf({w \in leaves : Unit(w) = u}))[5]
          IN map[Key(u)] = [full |-> node.full,
                            channels |-> {IF Pixel THEN c.masks ELSE c.masks[1] : c \in ToSet(node.children)}]

\* What the event setup hands out at a time is what the files of one block whose
\* validity range contains the time say, chip by chip - for both records of the
\* pixels the same block -, and the unpacker works on the event with it.  The
\* unpacker of pixels has looked into the mapping of the event, and crashes only
\* if a FED of a mapping that the block names lacks the position it looks for.
MappingIsTheBlocks ==
  ~failed /\ step > 0 =>
    /\ \E i \in DOMAIN source.configuration :
         LET b == source.configuration[i]
         IN /\ Covers(b, time)
            /\ products["mapping"] # <<>> => IsMappingOf(b, products["mapping"][1])
            /\ products["mask"] # <<>> => IsMaskOf(b, products["mask"][1])
    /\ phase = "unpacking" => IsEvent(time) /\ products = [k \in Kinds |-> <<readout[k]>>]
    /\ Pixel /\ IsEvent(time) /\ unpacker.events = EventsRead =>
         /\ \A aFed \in DOMAIN unpacker.looked :
              \E w \in Leaves(BlockInUse.mappingFileNames) :
                LET path == Path(BlockInUse.mappingFileNames, w)
                IN /\ PositionOf(path[5].attributes) = FramePosition(aFed) /\ unpacker.looked[aFed].id = IdOf(path)
                   /\ Indices!GetROCId(unpacker.looked[aFed].modPixel) = path[5].id[1]
    /\ unpacker.crashed =>
         LET positions == {PositionOf(Path(BlockInUse.mappingFileNames, w)[5].attributes) : w \in Leaves(BlockInUse.mappingFileNames)}
         IN {FramePosition(p[1]) : p \in positions} \ positions # {}

\* A job stops only at a time that no block covers, from the begin of run 1 on if
\* its first block starts with it, or at a product of files that are not usable.
OnlyFaultsStopTheJob ==
  failed =>
    \/ \A i \in DOMAIN source.configuration :
         ~(source.configuration[i].first <= time /\ time <= source.configuration[i].last)
         /\ ~(source.configuration[i].first = EventID(1, 0, 1) /\ time = EventID(1, 0, 0))
    \/ ToSet(BlockInUse.mappingFileNames \o BlockInUse.maskFileNames) \cap Malformed # {}
===============================================================================
