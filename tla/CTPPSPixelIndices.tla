------------------------- MODULE CTPPSPixelIndices ----------------------------
(* CondFormats/CTPPSReadoutObjects: the pixels of a sensor and of its six      *)
(* readout chips (ROCs), two along the rows and three along the columns, as    *)
(* CTPPSPixelIndices numbers them.                                             *)
EXTENDS Integers

CONSTANTS ROCSizeInX,   \* rows of a ROC, 80
          ROCSizeInY    \* columns of a ROC, 52

ASSUME ROCSizeAssumption == ROCSizeInX \in Nat \ {0} /\ ROCSizeInY \in Nat \ {0}

RowsInDet == 2 * ROCSizeInX
ColsInDet == 3 * ROCSizeInY
ROCs == 0 .. 5

\* A pixel of the sensor, and a pixel of a ROC in the frame of the ROC.
Pixels == [row : 0 .. RowsInDet - 1, col : 0 .. ColsInDet - 1]
ROCPixels == [row : 0 .. ROCSizeInX - 1, col : 0 .. ROCSizeInY - 1]

RocIndex(chipX, chipY) == IF chipX = 0 THEN 5 - chipY ELSE chipY
GetROCId(p) == RocIndex(p.row \div ROCSizeInX, p.col \div ROCSizeInY)

\* ROCs 0 to 2 are mounted upside down.
TransformToModule(q, rocId) ==
  IF rocId < 3
  THEN [row |-> 2 * ROCSizeInX - 1 - q.row, col |-> (rocId + 1) * ROCSizeInY - q.col - 1]
  ELSE [row |-> q.row, col |-> (5 - rocId) * ROCSizeInY + q.col]

\* A pixel of the sensor in the frame of its ROC.
TransformToROC(p) ==
  LET r == p.row % ROCSizeInX
      c == p.col % ROCSizeInY
  IN IF GetROCId(p) < 3 THEN [row |-> 79 - r, col |-> 51 - c] ELSE [row |-> r, col |-> c]

IsOnEdge(p) == p.row \in {0, RowsInDet - 1} \/ p.col \in {0, ColsInDet - 1}

-------------------------------------------------------------------------------
(* The address of a pixel within its ROC: a double column, and a number that   *)
(* zigzags through its two columns from the last row to the first.             *)

DColsPerROC == 26
Addresses(dcol) == {<<dcol, pix>> : pix \in 2 .. 161}

NoPixel == [row |-> -1, col |-> -1]

DColumn(q) == q.col \div 2
DColumnInModule(dcol, chip) == dcol + chip * 26

\* Variant with a fault: numbers counted from 0, as in a table of 160 pixels.
ConvertFromZero(dcol, pix) ==
  IF dcol \in 0 .. DColsPerROC - 1 /\ pix \in 2 .. 161
  THEN [row |-> 79 - (pix \div 2), col |-> 2 * dcol + (pix % 2)] ELSE NoPixel

ConvertDcolToCol(dcol, pix) ==
  IF dcol \in 0 .. DColsPerROC - 1 /\ pix \in 2 .. 161
  THEN [row |-> 80 - (pix \div 2), col |-> 2 * dcol + (pix % 2)] ELSE NoPixel

\* CTPPSPixelROC.  A wrong pixel is left at -1; the ROC that a pixel of the
\* sensor is asked of is not looked at.
ToGlobal(q, rocId) ==
  IF q.row \in 0 .. ROCSizeInX - 1 /\ q.col \in 0 .. ROCSizeInY - 1 /\ rocId \in ROCs
  THEN TransformToModule(q, rocId) ELSE NoPixel
ToGlobalFromDcol(address, rocId) == ToGlobal(ConvertDcolToCol(address[1], address[2]), rocId)
ToLocal(p, rocId) == TransformToROC(p)

\* One number for calibration: six bits of column, seven of row.
PixelToChannelROC(q) == q.row * 64 + q.col
ChannelToPixelROC(chan) == [row |-> (chan \div 64) % 128, col |-> chan % 64]

\* A pixel has one address in its ROC, and address and channel lead back to it.
IsAddressed(p) ==
  \E rocId \in {GetROCId(p)}, q \in {TransformToROC(p)} :
    /\ ToLocal(ToGlobal(q, rocId), rocId) = q
    /\ \E a \in Addresses(DColumn(q)) :
         \A b \in Addresses(DColumn(q)) : (ToGlobalFromDcol(b, rocId) = p) <=> (b = a)
    /\ ChannelToPixelROC(PixelToChannelROC(q)) = q
    /\ DColumnInModule(DColumn(q), rocId) \in 0 .. DColsPerROC * 6 - 1
===============================================================================
