------------------------------ MODULE DAQMapping --------------------------------
(* CondFormats/CTPPSReadoutObjects: how the event-setup sources                *)
(* TotemDAQMappingESSourceXML and CTPPSPixelDAQMappingESSourceXML make the DAQ *)
(* mapping and the analysis mask of a list of XML files.                       *)
(*                                                                             *)
(* A node has a type (its tag), an id and a hardware id (<<>> if not given),   *)
(* other attributes, full_mask, and children; a child that is not a node of    *)
(* the detector is the channel, or the pixel <<row, column>>, it masks.        *)
EXTENDS CTPPSDetId, SequencesExt, Functions

CONSTANT Files \* name |-> the children of its root

Trees == {"strips", "diamonds", "pixels"}

Parents(plane, leaf) == "arm" :> "top" @@ "station" :> "arm" @@ "pot" :> "station" @@ plane :> "pot" @@ leaf :> plane

\* The nodes of each tree and where they belong; the greatest plane; what the id of a plane
\* is appended to its parent's with, in a mapping; whether its leaves need a hardware id.
StripGrammar ==
  [parent |-> Parents("rp_plane", "chip"), plane |-> "rp_plane", leaf |-> "chip", maxPlane |-> 9, step |-> 10, hwID |-> TRUE]
DiamondGrammar ==
  [parent |-> Parents("rp_plane_diamond", "diamond_channel"), plane |-> "rp_plane_diamond", leaf |-> "diamond_channel",
   maxPlane |-> 3, step |-> 100, hwID |-> TRUE]
PixelGrammar ==
  [parent |-> Parents("rpix_plane", "roc"), plane |-> "rpix_plane", leaf |-> "roc", maxPlane |-> 5, step |-> 10, hwID |-> FALSE]
Grammar == "strips" :> StripGrammar @@ "diamonds" :> DiamondGrammar @@ "pixels" :> PixelGrammar

\* GetNodeType of each source: the tags that it does not throw for.
VFATTags  == {"arm", "chip", "station", "pot", "rp_plane", "diamond_channel", "rp_plane_diamond", "trigger_vfat"}
PixelTags == {"arm", "roc", "station", "pot", "rpix_plane"}
KnownTags(tree) == IF tree = "pixels" THEN PixelTags ELSE VFATTags

-------------------------------------------------------------------------------
(* Positions.  setXMLAttribute keeps the bits of a part; the FED of chips can  *)
(* be given in three parts.                                                    *)

VFATPositionGiven(a) ==
  {"GOHId", "IdxInFiber"} \subseteq DOMAIN a
  /\ ("FEDId" \in DOMAIN a \/ {"SubSystemId", "TOTFEDId", "OptoRxId"} \subseteq DOMAIN a)
FEDOf(a) ==
  IF "FEDId" \in DOMAIN a THEN a.FEDId % 1024 ELSE 128 * (a.SubSystemId % 8) + 4 * (a.TOTFEDId % 32) + (a.OptoRxId % 4)
VFATPosition(a) == <<FEDOf(a), a.GOHId % 16, a.IdxInFiber % 16>>

ROCPositionGiven(a) == {"FEDId", "FMC", "FEDChannel", "ROCinChannel"} \subseteq DOMAIN a
ROCPosition(a) == <<a.FEDId % 4096, a.FMC % 2, a.FEDChannel % 64, a.ROCinChannel % 4>>

-------------------------------------------------------------------------------
(* Leaves: the entry of a mapping or of a mask.                                *)

Error == <<[kind |-> "error"]>>
Entry(kind, key, value) == <<[kind |-> kind, key |-> key, value |-> value]>>

\* ChipFramePosition and the entry of a chip, or of a channel of a diamond.
ChipEntry(n, unit) ==
  IF ~VFATPositionGiven(n.attributes) THEN Error
  ELSE Entry("chip", VFATPosition(n.attributes), [id |-> unit, hwID |-> n.hwID[1]])
ROCEntry(n, unit) ==
  IF ~ROCPositionGiven(n.attributes) THEN Error
  ELSE Entry("chip", ROCPosition(n.attributes), [id |-> unit, roc |-> n.id[1]])

\* GetChannels and GetPixels: unsigned characters.
PartsOf(n, type)  == {c \in ToSet(n.children) : c.type = type}
MaskedChannels(n) == {c.masks[1] % 256 : c \in PartsOf(n, "channel")}
MaskedPixels(n)   == {<<c.masks[1] % 256, c.masks[2] % 256>> : c \in PartsOf(n, "pixel")}

\* The digits of the parent's id are the arm, the station, the pot and the plane.
LeafId(tree, parentID, low) ==
  LET step == Grammar[tree].step
      Digit(unit) == (parentID \div unit) % 10
  IN <<Digit(100 * step), Digit(10 * step), Digit(step), parentID % step, low>>

StripLeaf(n, mode, id) ==
  IF ~ValidId(sdTrackingStrip, id[1], id[2], id[3], id[4], id[5]) THEN Error
  ELSE IF mode = "mapping" THEN ChipEntry(n, StripId(id[1], id[2], id[3], id[4], id[5]))
  ELSE IF \E c \in PartsOf(n, "channel") : c.masks = <<>> THEN Error
  ELSE Entry("mask", StripId(id[1], id[2], id[3], id[4], id[5]), [full |-> n.full, channels |-> MaskedChannels(n)])

\* There are no masks of diamonds: the tree goes on below a channel.
DiamondLeaf(n, id) ==
  IF ~ValidId(sdTimingDiamond, id[1], id[2], id[3], id[4], id[5]) THEN Error
  ELSE ChipEntry(n, DiamondId(id[1], id[2], id[3], id[4], id[5]))

\* CTPPSPixelDetId has no chip; the number of the ROC is beside it, from offsetROCinDetId.
PixelLeaf(n, mode, id) ==
  IF ~ValidId(sdTrackingPixel, id[1], id[2], id[3], id[4], 0) THEN Error
  ELSE IF mode = "mapping" THEN ROCEntry(n, PixelId(id[1], id[2], id[3], id[4]))
  ELSE IF \E c \in PartsOf(n, "pixel") : c.masks = <<>> THEN Error
  ELSE Entry("mask", PixelId(id[1], id[2], id[3], id[4]) + id[5] * 2^13, [full |-> n.full, channels |-> MaskedPixels(n)])

Leaf(tree, n, mode, id) ==
  CASE tree = "strips" -> StripLeaf(n, mode, id) [] tree = "diamonds" -> DiamondLeaf(n, id) [] tree = "pixels" -> PixelLeaf(n, mode, id)

-------------------------------------------------------------------------------
(* Trees.                                                                      *)

\* What the code does not take: a node in the wrong place, without an id, or
\* without a hardware id, or a plane that does not exist.
Refused(tree, n, mode, parentType) ==
  \/ Grammar[tree].parent[n.type] # parentType
  \/ n.id = <<>>
  \/ n.type = Grammar[tree].leaf /\ Grammar[tree].hwID /\ mode = "mapping" /\ n.hwID = <<>>
  \/ n.type = Grammar[tree].plane /\ n.id # <<>> /\ n.id[1] > Grammar[tree].maxPlane

\* The entries of the nodes of one tree, in the order of the file; nodes of the other
\* trees are skipped.
RECURSIVE ParseTree(_, _, _, _, _)
ParseTree(tree, mode, nodes, parentType, parentID) ==
  \* The id of a node's children starts with that of the node.
  LET Step(n) == IF n.type = Grammar[tree].plane /\ mode = "mapping" THEN Grammar[tree].step ELSE 10
  IN
  FlattenSeq([i \in DOMAIN nodes |->
    LET n == nodes[i]
    IN IF n.type \notin KnownTags(tree) THEN Error
       ELSE IF n.type \notin DOMAIN Grammar[tree].parent THEN <<>>
       ELSE IF Refused(tree, n, mode, parentType) THEN Error
       ELSE IF n.type = Grammar[tree].leaf /\ (mode = "mapping" \/ tree # "diamonds")
       THEN Leaf(tree, n, mode, LeafId(tree, parentID, n.id[1]))
       ELSE ParseTree(tree, mode, n.children, n.type, parentID * Step(n) + n.id[1])])

ParseTreeDiamond(mode, root) == ParseTree("diamonds", mode, root, "top", 0)
ParseTreePixel(mode, root)   == ParseTree("pixels", mode, root, "top", 0)

\* ParseXML of each source.
ParseVFATs(mode, file)  ==
  LET ParseTreeRP(root) == ParseTree("strips", mode, root, "top", 0)
  IN ParseTreeRP(Files[file]) \o ParseTreeDiamond(mode, Files[file])
ParsePixels(mode, file) == ParseTreePixel(mode, Files[file])

\* TotemDAQMapping::insert, TotemAnalysisMask::insert and those of the pixels.
InsertEntry(map, key, value) == (key :> value) @@ map

\* A block of the configuration as produce reads it: mapping files, then masks.
Products(block, pixel) ==
  LET Table(entries, kind) ==
        FoldLeft(LAMBDA map, e : IF e.kind = kind THEN InsertEntry(map, e.key, e.value) ELSE map, [k \in {} |-> 0], entries)
      ParseAll(mode, files) == FlattenSeq([i \in DOMAIN files |-> IF pixel THEN ParsePixels(mode, files[i]) ELSE ParseVFATs(mode, files[i])])
      entries == ParseAll("mapping", block.mappingFileNames) \o ParseAll("mask", block.maskFileNames)
  IN [ok |-> \A i \in DOMAIN entries : entries[i].kind # "error",
      mapping |-> Table(entries, "chip"), mask |-> Table(entries, "mask")]
===============================================================================
