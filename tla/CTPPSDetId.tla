------------------------------ MODULE CTPPSDetId ------------------------------
(***************************************************************************)
(* DataFormats/CTPPSDetId: the 32-bit identifiers of the forward detectors. *)
(* The bits of an identifier, from the highest: detector (28), subdetector  *)
(* (25), arm (24), station (22), pot (19), then the plane and the chip or   *)
(* the sensor, at places of their own in each subdetector.  The path of a   *)
(* part, a sequence of its names, is its folder in the monitoring.          *)
(***************************************************************************)
EXTENDS Integers, Sequences, TLC

VeryForward == 7

sdTrackingStrip == 3
sdTrackingPixel == 4
sdTimingDiamond == 5

\* The places of plane and chip (strips) or sensor (diamonds), and the greatest.
StripLayout   == [plane |-> 2^15, planes |-> 16, maxPlane |-> 9, low |-> 2^13, lows |-> 4, maxLow |-> 3]
PixelLayout   == [plane |-> 2^16, planes |-> 8, maxPlane |-> 5, low |-> 1, lows |-> 1, maxLow |-> 0]
DiamondLayout == [plane |-> 2^17, planes |-> 4, maxPlane |-> 3, low |-> 2^12, lows |-> 32, maxLow |-> 11]
Layout        == [sub \in {sdTrackingStrip, sdTrackingPixel, sdTimingDiamond} |->
                    IF sub = sdTrackingStrip THEN StripLayout
                    ELSE IF sub = sdTrackingPixel THEN PixelLayout ELSE DiamondLayout]

\* What the constructors take without throwing InvalidDetId.
ValidId(sub, arm, station, rp, plane, low) ==
  /\ arm \in 0 .. 1 /\ station \in 0 .. 2 /\ rp \in 0 .. 6
  /\ plane \in 0 .. Layout[sub].maxPlane /\ low \in 0 .. Layout[sub].maxLow

\* The constructors: of a pot, and of the planes and their parts.
PotId(sub, arm, station, rp) == VeryForward * 2^28 + sub * 2^25 + arm * 2^24 + station * 2^22 + rp * 2^19
StripId(arm, station, rp, plane, chip) ==
  PotId(sdTrackingStrip, arm, station, rp) + plane * StripLayout.plane + chip * StripLayout.low
PixelId(arm, station, rp, plane) == PotId(sdTrackingPixel, arm, station, rp) + plane * PixelLayout.plane
DiamondId(arm, station, rp, plane, det) ==
  PotId(sdTimingDiamond, arm, station, rp) + plane * DiamondLayout.plane + det * DiamondLayout.low

SubdetId(id)  == (id \div 2^25) % 8
ArmOf(id)     == (id \div 2^24) % 2
StationOf(id) == (id \div 2^22) % 4
RPOf(id)      == (id \div 2^19) % 8
PlaneOf(id)   == (id \div Layout[SubdetId(id)].plane) % Layout[SubdetId(id)].planes
LowOf(id)     == (id \div Layout[SubdetId(id)].low) % Layout[SubdetId(id)].lows

\* The constructor of a strip identifier throws for those of other subdetectors.
IsStripId(id) == SubdetId(id) = sdTrackingStrip

\* getRPId and getPlaneId: the bits below are cleared.
GetRPId(id)    == id - (id % 2^19)
GetPlaneId(id) == id - (id % Layout[SubdetId(id)].plane)

\* armName, stationName, rpName and planeName, as paths.
armNames         == <<"45", "56">>
stationNames     == <<"210", "220cyl", "220">>
rpNames          == <<"nr_tp", "nr_bt", "nr_hr", "fr_hr", "fr_tp", "fr_bt", "cyl_hr">>
subDetectorPaths == <<"", "", "TrackingStrip", "TrackingPixel", "TimingDiamond", "TimingFastSilicon">>
planeNames       == <<"01", "02", "03", "04", "05", "06", "07", "08", "09", "10">>

ArmPath(id)     == <<subDetectorPaths[SubdetId(id)], armNames[ArmOf(id) + 1]>>
StationPath(id) == Append(ArmPath(id), stationNames[StationOf(id) + 1])
RPPath(id)      == Append(StationPath(id), rpNames[RPOf(id) + 1])
PlanePath(id)   == Append(RPPath(id), planeNames[PlaneOf(id) + 1])
===============================================================================
