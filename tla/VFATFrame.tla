------------------------------- MODULE VFATFrame -------------------------------
(* EventFilter/CTPPSRawToDigi: the words of the raw data and the frame of one  *)
(* VFAT chip.  A 16-bit word is the set of its bits that are one.              *)
EXTENDS Integers, FiniteSets, FiniteSetsExt

CONSTANT calculateCRC(_) \* the CRC word of the data words 1 .. 11 of a frame

Word    == SUBSET (0 .. 15)
Channel == 0 .. 127

\* The word of a number, and the number in the bits lo, lo + 1, ... of a word.
Bits(n)            == {b \in 0 .. 15 : (n \div 2^b) % 2 = 1}
Field(w, lo, size) == SumSet({2^(b - lo) : b \in {c \in w : lo <= c /\ c < lo + size}})
TopNibble(w)       == Field(w, 12, 4)

PresenceFlags == {"BC", "EC", "ID", "CRC", "clusters"}
NoData        == [i \in 0 .. 11 |-> {}]

\* VFATFrame::VFATFrame: by default BC, EC, ID and CRC are present.
EmptyFrame == [data |-> NoData, present |-> {"BC", "EC", "ID", "CRC"}, daqErrors |-> 0, clusters |-> 0]

Frame == [data : [0 .. 11 -> Word], present : SUBSET PresenceFlags, daqErrors : 0 .. 15, clusters : 0 .. 255]

Present(f, part) == part \in f.present

BC(f)     == Field(f.data[11], 0, 12)

EC(f)     == Field(f.data[10], 4, 8)
ChipID(f) == Field(f.data[9], 0, 12)

\* Bits of the words 1 .. 8, channel 0 first.
ActiveChannels(f) == {ch \in Channel : (ch % 16) \in f.data[(ch \div 16) + 1]}

CheckFootprint(f) ==
  /\ Present(f, "ID") => TopNibble(f.data[9]) = 14
  /\ Present(f, "EC") => TopNibble(f.data[10]) = 12
  /\ Present(f, "BC") => TopNibble(f.data[11]) = 10

CheckCRC(f) ==
  f.daqErrors = 0 /\ (Present(f, "CRC") => f.data[0] = calculateCRC([i \in 1 .. 11 |-> f.data[i]]))

\* DiamondVFATFrame: bits of the 21-bit times, with the two interpolation bits,
\* which the HPTDC sends as the highest, moved to the lowest place.
Joined(f, high, low, size) == f.data[low] \cup {b + 16 : b \in {c \in f.data[high] : c < size}}

InterpolationFirst(time) == {b + 2 : b \in time \ {19, 20}} \cup {b - 19 : b \in time \cap {19, 20}}

LeadingEdgeTime(f)  == InterpolationFirst(Joined(f, 5, 6, 5))
TrailingEdgeTime(f) == InterpolationFirst(Joined(f, 7, 8, 5))
ThresholdVoltage(f) == Joined(f, 3, 4, 11)
Multihit(f)         == f.data[2] \cap {0}
HptdcErrorFlag(f)   == f.data[1]
===============================================================================
