-------------------------- MODULE TotemVFATRawToDigi --------------------------
(* EventFilter/CTPPSRawToDigi: the module TotemVFATRawToDigi unpacks the FED   *)
(* buffers of an event into VFAT frames (RawDataUnpacker), tests the frames,   *)
(* and converts those that are good into digis of silicon strips or diamonds   *)
(* (RawToDigiConverter, CounterChecker).                                       *)
(*                                                                             *)
(* readout is the mapping and the mask that the event setup hands out.         *)
EXTENDS VFATFrame, CTPPSDetId, Sequences, SequencesExt, Functions

CONSTANTS Jobs,     \* configurations, see Configuration
          Events    \* raw data: FED id |-> FED

Position == Nat \X (0 .. 15) \X (0 .. 15)  \* OptoRx id, GOH id, index in the fiber

\* What the data acquisition writes: the data of a chip, padding or an unknown
\* word; a block of the frames of 16 fibers.  A bc, ec or id is negative if absent,
\* size is the error of the size in the trailer.
Item == [kind : {"cluster", "raw", "padding", "unknown"}, goh : 0 .. 15, fiber : 0 .. 15, bc : Int, ec : Int, id : Int,
         hits : SUBSET Channel, clusters : Seq((0 .. 255) \X (0 .. 255)), crc : BOOLEAN, errors : 0 .. 15, size : Int]

Configuration ==
  \* 0 no test, 1 warn, 2 error; fraction in percent.
  LET TestFlags == {0, 1, 2}
  IN
  [subSystem : {"TrackingStrip", "TimingDiamond"}, fedIds : Seq(Nat), verbosity : Nat,
   testFootprint : TestFlags, testCRC : TestFlags, testID : TestFlags,
   testECMostFrequent : TestFlags, testBCMostFrequent : TestFlags,
   minimum : Nat, fraction : 0 .. 100]

ASSUME ConfigurationAssumption == Jobs \subseteq Configuration
\* A FED buffer: too short, its header and footer, and what it holds.
IsFED(f) ==
  LET IsBlock(b) ==
        /\ b.active \in BOOLEAN /\ b.structured \in BOOLEAN /\ b.goh \in 0 .. 15
        /\ DOMAIN b.fibers \subseteq 0 .. 15 /\ \A x \in DOMAIN b.fibers : b.fibers[x] \in Item
  IN
  /\ f.short \in BOOLEAN /\ f.structured \in BOOLEAN /\ f.FOV \in 0 .. 15 /\ f.optoRx \in Nat
  /\ f.items \in Seq(Item) /\ \A n \in DOMAIN f.blocks : IsBlock(f.blocks[n])

ASSUME EventsAssumption == \A data \in Events : \A id \in DOMAIN data : IsFED(data[id])

VARIABLES config,         \* the job
          phase,          \* of produce
          raw,            \* the event
          readout,        \* [mapping |-> position |-> [id, hwID], mask |-> id |-> [full, channels]]
          fed, offset,    \* index in fedIds, next word of its payload or 0
          fedInfo,        \* ids of the FEDs with a TotemFEDInfo
          vfatCollection, \* position |-> frame
          status,         \* TotemVFATStatus: position |-> [flags, masked, ec]
          digi,           \* <<plane, strip>>, or <<channel, times and flags>>
          errorSummary,   \* position |-> status flags |-> number of events
          unknownSummary, \* position |-> number of events
          events          \* number of events so far

vars == <<config, phase, raw, readout, fed, offset, fedInfo, vfatCollection, status, digi,
          errorSummary, unknownSummary, events>>

Mapping == readout.mapping
Mask    == readout.mask

Nowhere == [p \in {} |-> EmptyFrame]
NoWords == [nibble \in {} |-> {}]
Nothing == [p \in {} |-> 0]

-------------------------------------------------------------------------------
(* Data acquisition (external): a FED buffer has a header, a payload and a     *)
(* footer; the payload of a FED in parallel format is a sequence of items, the *)
(* one of a FED in serial format a sequence of GOH blocks.                     *)

\* The words of a chip's data.
FrameData(item) ==
  LET head == [i \in 0 .. 11 |-> CASE i = 11 -> Bits(4096 * 10 + item.bc) [] i = 10 -> Bits(4096 * 12 + 16 * item.ec)
                                   [] i = 9 -> Bits(4096 * 14 + item.id)
                                   [] OTHER -> {ch % 16 : ch \in {c \in item.hits : (c \div 16) + 1 = i}}]
  IN [head EXCEPT ![0] = IF item.crc THEN calculateCRC([i \in 1 .. 11 |-> head[i]]) ELSE {}]

Encode(item) ==
  LET ChannelWords ==
        IF item.kind = "raw" THEN LET data == FrameData(item) IN [i \in 1 .. 9 |-> data[9 - i]]
        ELSE [i \in 1 .. Len(item.clusters) |-> Bits(256 * item.clusters[i][2] + item.clusters[i][1])]
      Optional(nibble, n) == IF n < 0 THEN <<>> ELSE <<Bits((4096 * nibble) + n)>>
      mode == IF item.kind = "raw" THEN 144 ELSE 128
      body == Optional(10, item.bc) \o Optional(12, IF item.ec < 0 THEN -1 ELSE 16 * item.ec)
              \o Optional(14, item.id) \o ChannelWords
  IN CASE item.kind = "padding" -> <<0 .. 15>>
       [] item.kind = "unknown" -> <<Bits(4660)>>
       [] OTHER -> <<Bits(256 * mode + 16 * item.goh + item.fiber)>> \o body \o
                   <<Bits(4096 * 15 + 256 * item.errors + Len(body) + 2 + item.size)>>

Payload(f) == FlattenSeq([i \in DOMAIN f.items |-> Encode(f.items[i])])

\* A GOH block sends the frames of its 16 fibers bit by bit, the highest bit of
\* the last word first; block.fibers is fiber |-> item.
Column(block) ==
  LET data == [x \in DOMAIN block.fibers |-> FrameData(block.fibers[x])]
  IN [i \in 0 .. 191 |-> {x \in DOMAIN data : 15 - (i % 16) \in data[x][11 - (i \div 16)]}]

-------------------------------------------------------------------------------
(* RawDataUnpacker.                                                            *)

\* SimpleVFATFrameCollection::Insert: a frame already there stays.
Insert(coll, p, f) == IF p \in DOMAIN coll THEN coll ELSE coll @@ (p :> f)

\* ProcessOptoRxFrameSerial, one block: bits are added to the frames at the
\* positions of the block, which are new unless another block had its GOH id.
Deserialized(coll, optoRx, block) ==
  LET column     == Column(block)
      frame(x)   == IF <<optoRx, block.goh, x>> \in DOMAIN coll THEN coll[<<optoRx, block.goh, x>>] ELSE EmptyFrame
      words(x)   == [w \in 0 .. 11 |-> frame(x).data[w] \cup
                      {15 - (i % 16) : i \in {j \in 0 .. 191 : 11 - (j \div 16) = w /\ x \in column[j]}}]
      here       == {<<optoRx, block.goh, x>> : x \in 0 .. 15}
  IN [p \in here |-> [frame(p[3]) EXCEPT !.data = words(p[3])]] @@ coll

Serial(coll, f) ==
  FoldLeft(LAMBDA c, block : IF block.active /\ block.structured THEN Deserialized(c, f.optoRx, block) ELSE c,
           coll, f.blocks)

\* Channels <pos-size+1, pos> of a cluster word, none if one of them is invalid.
ClusterChannels(w) ==
  LET size == IF Field(w, 8, 7) = 0 THEN 128 ELSE Field(w, 8, 7)
      pos  == Field(w, 0, 8)
  IN IF pos > 127 \/ pos - size + 1 < 0 THEN {} ELSE pos - size + 1 .. pos

\* The BC, EC and ID words from word i on, if they exist, and the next word.
HeaderWords(words, i) ==
  FoldLeft(LAMBDA h, nibble : IF TopNibble(words[h.next]) # nibble THEN h
                              ELSE [next |-> h.next + 1, found |-> h.found @@ (nibble :> words[h.next])],
           [next |-> i, found |-> NoWords], <<10, 12, 14>>)

\* The frame with header words h whose channel data end before the trailer.
DataFrame(words, isRaw, h, trailer) ==
  LET IsClusterCount(w) == Field(w, 8, 8) = 208
      optional(nibble) == IF nibble \in DOMAIN h.found THEN h.found[nibble] ELSE {}
      counts == IF isRaw THEN {} ELSE {j \in h.next .. trailer - 1 : IsClusterCount(words[j])}
      hits   == UNION {ClusterChannels(words[j]) : j \in (h.next .. trailer - 1) \ counts}
  IN [data      |-> [n \in 0 .. 11 |->
                      CASE n = 11 -> optional(10) [] n = 10 -> optional(12) [] n = 9 -> optional(14)
                        [] n <= 8 /\ isRaw  -> words[h.next + 8 - n]
                        [] n <= 8 /\ ~isRaw -> {ch % 16 : ch \in {c \in hits : (c \div 16) + 1 = n}}],
      present   |-> {part \in PresenceFlags :
                      CASE part = "BC" -> 10 \in DOMAIN h.found [] part = "EC" -> 12 \in DOMAIN h.found
                        [] part = "ID" -> 14 \in DOMAIN h.found [] part = "CRC" -> isRaw [] part = "clusters" -> counts # {}},
      daqErrors |-> Field(words[trailer], 8, 4),
      clusters  |-> IF counts = {} THEN 0 ELSE Field(words[Max(counts)], 0, 8)]

\* ProcessVFATDataParallel at word i, for the channel data between the header
\* words h and the trailer, which must be one and tell the number of words.
Block(words, i, h, trailer) ==
  [processed |-> trailer - i + 1, frame |-> DataFrame(words, Field(words[i], 8, 8) = 144, h, trailer),
   skip |-> TopNibble(words[trailer]) # 15 \/ Field(words[trailer], 0, 8) # trailer - i + 1]

\* Padding and words with an unknown flag are skipped one by one.
VFATData(words, i) ==
  \* Number of words at k, k + 1, ... before one with the trailer's top nibble.
  LET ToTrailer(k) == Min({n \in 0 .. Len(words) - k : TopNibble(words[k + n]) = 15} \cup {Len(words) + 1 - k})
      flag == Field(words[i], 8, 8)
      h    == HeaderWords(words, i + 1)
  IN IF words[i] = 0 .. 15 \/ flag \notin {128, 144} THEN [processed |-> 1, frame |-> EmptyFrame, skip |-> TRUE]
     ELSE Block(words, i, h, h.next + (IF flag = 144 THEN 9 ELSE ToTrailer(h.next)))

-------------------------------------------------------------------------------
(* CounterChecker and RawToDigiConverter.                                      *)

\* The frames of p \in DOMAIN counters whose counter differs from the most
\* frequent one, the smallest of those if several are.
Progress(counters) ==
  LET with(v) == {p \in DOMAIN counters : counters[p] = v}
      values  == Range(counters)
      size    == Max({0} \cup {Cardinality(with(v)) : v \in values})
      total   == Cardinality(DOMAIN counters)
      most    == Min({v \in values : Cardinality(with(v)) = size})
  IN IF values = {} \/ total < config.minimum \/ 100 * size < config.fraction * total THEN {}
     ELSE (DOMAIN counters) \ with(most)

\* Variant with a fault: all 16 bits of the hardware id.
WideIDMismatch(p, f) == config.testID = 2 /\ Present(f, "ID") /\ ChipID(f) # Mapping[p].hwID

IDMismatch(p, f) == config.testID = 2 /\ Present(f, "ID") /\ ChipID(f) # Mapping[p].hwID % 4096

\* The tests of one frame: 0 no test, 1 warn, 2 error; the CRC error is set only
\* under "if (verbosity > 0)".
FrameErrors(p, f) ==
  LET FootprintError == config.testFootprint = 2 /\ ~CheckFootprint(f)
      CRCError == config.testCRC = 2 /\ ~CheckCRC(f) /\ config.verbosity > 0
  IN
  {e \in {"Footprint", "CRC", "IDMismatch"} :
     \/ e = "Footprint"  /\ FootprintError
     \/ e = "CRC"        /\ CRCError
     \/ e = "IDMismatch" /\ IDMismatch(p, f)}

\* RunCommon: the status flags of every VFAT of the mapping.
StatusFlags(coll) ==
  LET good == {p \in (DOMAIN coll) \cap (DOMAIN Mapping) : FrameErrors(p, coll[p]) = {}}
      ec   == [p \in {q \in good : Present(coll[q], "EC")} |-> EC(coll[p])]
      bc   == [p \in {q \in good : Present(coll[q], "BC")} |-> BC(coll[p])]
      ecErrors == IF config.testECMostFrequent = 2 THEN Progress(ec) ELSE {}
      bcErrors == IF config.testBCMostFrequent = 2 THEN Progress(bc) ELSE {}
  IN [p \in DOMAIN Mapping |->
       IF p \notin DOMAIN coll THEN {"Missing"}
       ELSE FrameErrors(p, coll[p]) \cup (IF p \in ecErrors THEN {"ECProgress"} ELSE {})
            \cup (IF p \in bcErrors THEN {"BCProgress"} ELSE {})]

SymbID(p)   == Mapping[p].id
IsMasked(p) == SymbID(p) \in DOMAIN Mask

\* errorSummary and unknownSummary count events (printErrorSummary is set).
Count(summary, keys) ==
  [k \in (DOMAIN summary) \cup keys |->
    (IF k \in DOMAIN summary THEN summary[k] ELSE 0) + (IF k \in keys THEN 1 ELSE 0)]

-------------------------------------------------------------------------------
Init ==
  /\ config \in Jobs
  /\ phase = "idle" /\ raw = Nowhere /\ readout = [mapping |-> Nothing, mask |-> Nothing] /\ fed = 1 /\ offset = 0
  /\ fedInfo = <<>> /\ vfatCollection = Nowhere /\ status = Nowhere /\ digi = {}
  /\ errorSummary = Nothing /\ unknownSummary = Nothing /\ events = 0

Produce(data, products) ==
  /\ phase = "idle"
  /\ phase' = "unpacking" /\ raw' = data /\ readout' = products /\ fed' = 1 /\ offset' = 0
  /\ fedInfo' = <<>> /\ vfatCollection' = Nowhere /\ status' = Nowhere /\ digi' = {}
  /\ UNCHANGED <<config, errorSummary, unknownSummary, events>>

\* The FED at hand; one without data is not in raw.
Unpacking == phase = "unpacking" /\ offset = 0 /\ fed <= Len(config.fedIds)
fedId     == config.fedIds[fed]
HasWords  == fedId \in DOMAIN raw /\ ~raw[fedId].short

\* The format of its OptoRx frame, 0 if the header or the footer is wrong.
FOV == IF HasWords /\ raw[fedId].structured THEN raw[fedId].FOV ELSE 0

\* RawDataUnpacker::Run and ProcessOptoRxFrame, without a frame to process.
SkipFED ==
  /\ Unpacking /\ FOV \notin {1, 2}
  /\ fed' = fed + 1
  /\ fedInfo' = IF HasWords THEN Append(fedInfo, fedId) ELSE fedInfo
  /\ UNCHANGED <<config, phase, raw, readout, offset, vfatCollection, status, digi, errorSummary, unknownSummary, events>>

StartsFrame(format) == Unpacking /\ FOV = format /\ fedInfo' = Append(fedInfo, fedId)

ProcessOptoRxFrameSerial ==
  /\ StartsFrame(1)
  /\ vfatCollection' = Serial(vfatCollection, raw[fedId])
  /\ fed' = fed + 1
  /\ UNCHANGED <<config, phase, raw, readout, offset, status, digi, errorSummary, unknownSummary, events>>

\* ProcessOptoRxFrameParallel up to its loop.
ProcessOptoRxFrameParallel ==
  /\ StartsFrame(2)
  /\ offset' = 1
  /\ UNCHANGED <<config, phase, raw, readout, fed, vfatCollection, status, digi, errorSummary, unknownSummary, events>>

\* One round of the loop, and its end.
ProcessVFATDataParallel ==
  /\ offset # 0
  /\ LET words == Payload(raw[fedId])
         p     == <<raw[fedId].optoRx, Field(words[offset], 4, 4), Field(words[offset], 0, 4)>>
         d     == VFATData(words, offset)
     IN /\ offset <= Len(words)
        /\ offset' = offset + d.processed
        /\ vfatCollection' = IF d.skip THEN vfatCollection ELSE Insert(vfatCollection, p, d.frame)
  /\ UNCHANGED <<config, phase, raw, readout, fed, fedInfo, status, digi, errorSummary, unknownSummary, events>>

EndOfOptoRxFrame ==
  /\ offset # 0 /\ offset > Len(Payload(raw[fedId]))
  /\ offset' = 0 /\ fed' = fed + 1
  /\ UNCHANGED <<config, phase, raw, readout, fedInfo, vfatCollection, status, digi, errorSummary, unknownSummary, events>>

\* RawToDigiConverter::Run; the products are put into the event.
Convert ==
  LET DiamondStatus(p, flags, coll) ==
        [flags |-> flags, masked |-> "no", ec |-> IF flags = {} THEN EC(coll[p]) ELSE 0]
      \* The same for diamonds, Run for CTPPSDiamondDigi; they are never masked.
      DiamondDigis(p, f) ==
        {<<SymbID(p), LeadingEdgeTime(f), TrailingEdgeTime(f), ThresholdVoltage(f), Multihit(f), HptdcErrorFlag(f)>>}
      StripStatus(p, flags) ==
        [flags |-> flags, ec |-> 0,
         masked |-> CASE flags # {} \/ ~IsMasked(p) -> "no" [] Mask[SymbID(p)].full -> "fully" [] OTHER -> "partially"]
      \* Digis and status of one silicon strip VFAT, Run for TotemRPDigi.
      StripDigis(p, f) ==
        LET masked == IF ~IsMasked(p) THEN {} ELSE IF Mask[SymbID(p)].full THEN Channel ELSE Mask[SymbID(p)].channels
        IN {<<GetPlaneId(SymbID(p)), LowOf(SymbID(p)) * 128 + ch>> : ch \in ActiveChannels(f) \ masked}
      flags   == StatusFlags(vfatCollection)
      unknown == (DOMAIN vfatCollection) \ (DOMAIN Mapping)
      good    == {p \in DOMAIN Mapping : flags[p] = {}}
      bad     == (DOMAIN Mapping) \ good
  IN /\ phase = "unpacking" /\ fed > Len(config.fedIds)
     /\ phase' = "idle"
     /\ IF config.subSystem = "TrackingStrip"
        THEN /\ digi' = UNION {StripDigis(p, vfatCollection[p]) : p \in good}
             /\ status' = [p \in DOMAIN Mapping |-> StripStatus(p, flags[p])]
        ELSE /\ digi' = UNION {DiamondDigis(p, vfatCollection[p]) : p \in good}
             /\ status' = [p \in DOMAIN Mapping |-> DiamondStatus(p, flags[p], vfatCollection)]
     /\ errorSummary' = Count(errorSummary, {<<p, flags[p]>> : p \in bad})
     /\ unknownSummary' = Count(unknownSummary, unknown)
     /\ events' = events + 1
     /\ UNCHANGED <<config, raw, readout, fed, offset, fedInfo, vfatCollection>>

-------------------------------------------------------------------------------
\* What the data acquisition sent: <<FED index, number, position, item>>.
IsFrame(item) == item.kind \in {"cluster", "raw"}

SentBy(n) ==
  LET f == raw[config.fedIds[n]]
  IN IF config.fedIds[n] \notin DOMAIN raw \/ f.short \/ ~f.structured THEN {}
     ELSE IF f.FOV = 2
     THEN {<<n, i, <<f.optoRx, f.items[i].goh, f.items[i].fiber>>, f.items[i]>> :
             i \in {j \in DOMAIN f.items : IsFrame(f.items[j]) /\ f.items[j].size = 0}}
     ELSE IF f.FOV = 1
     THEN UNION {{<<n, i, <<f.optoRx, f.blocks[i].goh, x>>, f.blocks[i].fibers[x]>> : x \in DOMAIN f.blocks[i].fibers} :
                   i \in {j \in DOMAIN f.blocks : f.blocks[j].active /\ f.blocks[j].structured}}
     ELSE {}

\* The frame sent first for each position.
Sent ==
  LET all == UNION {SentBy(n) : n \in DOMAIN config.fedIds}
  IN {s \in all : \A t \in all : t[3] = s[3] => s[1] < t[1] \/ (s[1] = t[1] /\ s[2] <= t[2])}

Unpacked == phase = "idle" /\ raw # Nowhere

\* Every frame that was sent is found again, at its position and with its
\* channels, counters and id, whatever padding, unknown words and rejected frames
\* precede it and in whichever format; and no frame is made up.
FramesArrive ==
  Unpacked =>
    /\ \A s \in Sent :
         /\ s[3] \in DOMAIN vfatCollection
         /\ LET f == vfatCollection[s[3]]
            IN /\ ActiveChannels(f) = s[4].hits
               /\ Present(f, "BC") = (s[4].bc >= 0) /\ (Present(f, "BC") => BC(f) = s[4].bc % 4096)
               /\ Present(f, "EC") = (s[4].ec >= 0) /\ (Present(f, "EC") => EC(f) = s[4].ec)
               /\ Present(f, "ID") = (s[4].id >= 0) /\ (Present(f, "ID") => ChipID(f) = s[4].id)
               /\ CheckCRC(f) = (s[4].crc /\ s[4].errors = 0)
    /\ \A p \in DOMAIN vfatCollection :
         (\E s \in Sent : s[3] = p) \/ ActiveChannels(vfatCollection[p]) = {}

\* What the configuration says of a frame: with 2, "print an error message and do
\* not process the frame" (totemVFATRawToDigi_cfi.py:26); with a mapped position
\* only.  For the checksum the code does so only if it also prints, verbosity > 0:
\* with the default of 0 the converter unpacks frames with a bad checksum.
Mapped(s)    == s[3] \in DOMAIN Mapping
BadCRC(s)    == ~s[4].crc \/ s[4].errors # 0
FailsTest(s) ==
  \/ config.testFootprint = 2 /\ s[4].bc > 4095
  \/ config.testCRC = 2 /\ BadCRC(s) /\ config.verbosity > 0
  \/ config.testID = 2 /\ s[4].id >= 0 /\ s[4].id # Mapping[s[3]].hwID % 4096

\* Frames whose counter differs from that of a majority.
OutOfStep(counters) ==
  LET agree(t) == {u \in DOMAIN counters : counters[u] = counters[t]}
      total    == Cardinality(DOMAIN counters)
      majority == {t \in DOMAIN counters : 100 * Cardinality(agree(t)) >= config.fraction * total}
  IN IF total < config.minimum \/ majority = {} THEN {} ELSE (DOMAIN counters) \ majority

Processed ==
  LET tested == {s \in Sent : Mapped(s) /\ ~FailsTest(s)}
      ec     == [s \in {t \in tested : t[4].ec >= 0} |-> s[4].ec]
      bc     == [s \in {t \in tested : t[4].bc >= 0} |-> s[4].bc % 4096]
  IN tested \ ((IF config.testECMostFrequent = 2 THEN OutOfStep(ec) ELSE {}) \cup
               (IF config.testBCMostFrequent = 2 THEN OutOfStep(bc) ELSE {}))

\* A number and the sum of the bits of a set.
Number(bits) == SumSet({2^b : b \in bits})

\* The 21 bits of a leading edge time on channels 64 .. 68 and 80 .. 95; the two
\* highest ones are the lowest of the time.
LeadingEdge(hits) ==
  LET sent == Number({ch - 80 : ch \in hits \cap 80 .. 95} \cup {ch - 48 : ch \in hits \cap 64 .. 68})
  IN 4 * (sent % 2^19) + sent \div 2^19

\* The digis are exactly the unmasked hits of the frames that the configured
\* tests let through, whichever frames are missing, unknown, corrupted or out of
\* step with the others; corrupted ones are let through where FailsTest says so.
\* Only what was not sent is missing.
DigisOfFrames ==
  Unpacked =>
    /\ \A s \in Sent : Mapped(s) => "Missing" \notin status[s[3]].flags
    /\ config.subSystem = "TrackingStrip" =>
         digi = UNION {{<<GetPlaneId(SymbID(s[3])), 128 * LowOf(SymbID(s[3])) + ch>> :
                          ch \in {c \in s[4].hits : ~(IsMasked(s[3]) /\ (Mask[SymbID(s[3])].full \/ c \in Mask[SymbID(s[3])].channels))}} :
                         s \in Processed}
    /\ config.subSystem = "TimingDiamond" =>
         {<<d[1], Number(d[2])>> : d \in digi} = {<<SymbID(s[3]), LeadingEdge(s[4].hits)>> : s \in Processed}
\* From the frames that were sent to the digis of the event.
DigisAreTheHits == FramesArrive /\ DigisOfFrames

===============================================================================
