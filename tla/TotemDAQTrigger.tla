---------------------------- MODULE TotemDAQTrigger ----------------------------
(* The trigger and the clocks of the data acquisition: TotemTriggerRawToDigi   *)
(* unpacks the frame of the LoneG board, TotemFEDInfo gives the header and the *)
(* footer of an OptoRx board, and TotemDAQTriggerDQMSource plots both.  A word *)
(* of 64 bits is the set of its bits that are one.                             *)
EXTENDS VFATFrame, Sequences, SequencesExt

CONSTANTS TriggerEvents,  \* [bunchCrossing, lone, feds], see below
          Inputs,         \* products that the monitoring may find
          MaxTriggers     \* bound: events of a job

VARIABLES inputs,         \* those it finds
          lone,           \* the event, or <<>>
          counters,       \* <<TotemTriggerCounters>>, or <<>> if not put
          filled,         \* plot |-> what the event filled in, or <<>>
          triggers        \* number of events

triggerVars == <<inputs, lone, counters, filled, triggers>>

-------------------------------------------------------------------------------
(* The boards (external).  The LoneG board sends five rows of 64 bits in       *)
(* pieces of 16, each as the low bits of a word; lone has the counters sent,   *)
(* the bytes that arrive and what stands in the other bits.  A FED has a       *)
(* header word, [id, bx], or <<>> if its buffer is empty.                      *)

Shifted(n, lo) == {b + lo : b \in {c \in 0 .. 30 : (n \div 2^c) % 2 = 1}}

SentRows(c) ==
  <<Shifted(c.type, 56) \cup Shifted(c.event_num, 32) \cup Shifted(c.bunch_num, 20) \cup Shifted(c.src_id, 8),
    Shifted(c.orbit_num, 32) \cup Shifted(c.revision_num, 24), Shifted(c.run_num, 32) \cup Shifted(c.trigger_num, 0),
    Shifted(c.inhibited_triggers_num, 32) \cup Shifted(c.input_status_bits, 0), {}>>

LoneGFrame(sent, other) ==
  [i \in 0 .. 19 |-> {b - 16 * (i % 4) : b \in SentRows(sent)[(i \div 4) + 1] \cap (16 * (i % 4) .. 16 * (i % 4) + 15)} \cup other]

Header(fed) == Shifted(5, 60) \cup Shifted(77, 32) \cup Shifted(fed.bx, 20) \cup Shifted(fed.id, 8) \cup Shifted(2, 4)

-------------------------------------------------------------------------------
(* TotemFEDInfo.                                                               *)

FEDInfo(fed)  == [fedId |-> fed.id, header |-> Header(fed)]
getBX(info)   == Field(info.header, 20, 12)
FEDInfos(feds) == LET present == SelectSeq(feds, LAMBDA f : f # <<>>) IN [i \in DOMAIN present |-> FEDInfo(present[i])]

-------------------------------------------------------------------------------
(* TotemTriggerRawToDigi.                                                      *)

NoCounters ==
  [type |-> 0, event_num |-> 0, bunch_num |-> 0, src_id |-> 0, orbit_num |-> 0, revision_num |-> 0, run_num |-> 0,
   trigger_num |-> 0, inhibited_triggers_num |-> 0, input_status_bits |-> 0]

\* Variant with a fault: words are not cut to 16 bits.
WholeWords(oBuf) ==
  [row \in 0 .. 4 |-> UNION {{b + 16 * col : b \in oBuf[4 * row + col]} : col \in 0 .. 3}]

\* Four words make a row.
Rows(oBuf) ==
  [row \in 0 .. 4 |-> UNION {{b + 16 * col : b \in oBuf[4 * row + col] \cap 0 .. 15} : col \in 0 .. 3}]

TriggerCounters(buf) ==
  [type |-> Field(buf[0], 56, 4), event_num |-> Field(buf[0], 32, 24), bunch_num |-> Field(buf[0], 20, 12),
   src_id |-> Field(buf[0], 8, 12), orbit_num |-> Field(buf[1], 32, 32), revision_num |-> Field(buf[1], 24, 8),
   run_num |-> Field(buf[2], 32, 32), trigger_num |-> Field(buf[2], 0, 32),
   inhibited_triggers_num |-> Field(buf[3], 32, 32), input_status_bits |-> Field(buf[3], 0, 32)]

ProcessLoneGFrame(oBuf, size, data) == IF size # 20 THEN data ELSE TriggerCounters(Rows(oBuf))

\* Two words before and two after the frame; with less than four the size wraps
\* round to one that is far from 20.
Unpacked20(l) == IF l.bytes = 0 THEN NoCounters ELSE ProcessLoneGFrame(LoneGFrame(l.sent, l.other), (l.bytes \div 8) - 4, NoCounters)

ProduceCounters ==
  /\ lone # <<>> /\ counters = <<>>
  /\ counters' = <<Unpacked20(lone[1].lone)>>
  /\ UNCHANGED <<inputs, lone, filled, triggers>>

-------------------------------------------------------------------------------
(* TotemDAQTriggerDQMSource.                                                   *)

\* A difference of unsigned numbers that is negative becomes larger than any bin.
OutOfBins == 2147483647
UnsignedDifference(a, b) == IF a < b THEN OutOfBins ELSE a - b

\* Variant with a fault: every other board, not only those with a higher id.
OtherBoards(infos, i) == SelectSeq(infos, LAMBDA it2 : it2.fedId # infos[i].fedId)

LaterBoards(infos, i) == SelectSeq(infos, LAMBDA it2 : it2.fedId > infos[i].fedId)

DAQPlots(infos, bunchCrossing) ==
  [daq_event_bx_diff |-> [i \in DOMAIN infos |-> getBX(infos[i]) - bunchCrossing],
   daq_event_bx_diff_vs_fed |-> [i \in DOMAIN infos |-> <<infos[i].fedId, getBX(infos[i]) - bunchCrossing>>],
   daq_bx_diff |->
     FlattenSeq([i \in DOMAIN infos |->
       LET later == LaterBoards(infos, i) IN [j \in DOMAIN later |-> getBX(later[j]) - getBX(infos[i])]])]

\* The plot of the trigger's bunch crossing subtracts the orbit number.
CombinedPlots(infos, c) ==
  [daq_trigger_bx_diff |-> [i \in DOMAIN infos |-> UnsignedDifference(getBX(infos[i]), c.orbit_num)]]

None == [plot \in {} |-> <<>>]

AnalyzeTrigger ==
  /\ counters # <<>> /\ filled = <<>>
  /\ LET infos        == FEDInfos(lone[1].feds)
         daqValid     == "fedInfo" \in inputs
         triggerValid == "triggerCounters" \in inputs
     IN filled' = <<(IF daqValid THEN DAQPlots(infos, lone[1].bunchCrossing) ELSE None)
                    @@ (IF triggerValid THEN [trigger |-> counters] ELSE None)
                    @@ (IF daqValid /\ triggerValid THEN CombinedPlots(infos, counters[1]) ELSE None)>>
  /\ UNCHANGED <<inputs, lone, counters, triggers>>

-------------------------------------------------------------------------------
\* The framework.
TriggerInit ==
  /\ inputs \in Inputs
  /\ lone = <<>> /\ counters = <<>> /\ filled = <<>> /\ triggers = 0

NextTrigger ==
  /\ (lone = <<>> \/ filled # <<>>) /\ triggers < MaxTriggers
  /\ \E e \in TriggerEvents : lone' = <<e>>
  /\ counters' = <<>> /\ filled' = <<>> /\ triggers' = triggers + 1
  /\ UNCHANGED inputs

LastTrigger == filled # <<>> /\ triggers = MaxTriggers /\ UNCHANGED triggerVars

TriggerNext == NextTrigger \/ ProduceCounters \/ AnalyzeTrigger \/ LastTrigger

-------------------------------------------------------------------------------
(* Properties.                                                                 *)

\* The counters of an event are those that its LoneG frame was sent with, whatever
\* the other bits of its words are, or zero if the frame is not whole.
CountersArrive ==
  counters # <<>> =>
    counters[1] = IF lone[1].lone.bytes \div 8 = 24 THEN lone[1].lone.sent ELSE NoCounters

\* Two different boards are compared once, in whatever order and however often
\* their FEDs are listed, so that boards in step give zeros only and a board out
\* of step is seen with each other one; a listed FED is compared with the event.
BoardsAreCompared ==
  filled # <<>> /\ "fedInfo" \in inputs =>
    LET feds   == lone[1].feds
        there  == {i \in DOMAIN feds : feds[i] # <<>>}
        pairs  == {ij \in there \X there : feds[ij[1]].id < feds[ij[2]].id}
        shown  == filled[1].daq_bx_diff
        vsFed  == filled[1].daq_event_bx_diff_vs_fed
    IN /\ Len(shown) = Cardinality(pairs)
       /\ \A d \in Range(shown) :
            Cardinality({k \in DOMAIN shown : shown[k] = d}) = Cardinality({ij \in pairs : feds[ij[2]].bx - feds[ij[1]].bx = d})
       /\ Range(vsFed) = {<<feds[i].id, feds[i].bx - lone[1].bunchCrossing>> : i \in there} /\ Len(vsFed) = Cardinality(there)

TriggerIsShown == CountersArrive /\ BoardsAreCompared
===============================================================================
