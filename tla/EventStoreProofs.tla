-------------------------- MODULE EventStoreProofs --------------------------
(* What EventStore guarantees for every stream of events and every number  *)
(* of crashes and I/O failures.                                            *)
EXTENDS EventStore, SequenceTheorems, FiniteSetTheorems, TLAPS

-----------------------------------------------------------------------------
(* The events of a list of segments, as the list changes.                  *)

LEMMA EventsOfEmpty == EventsOf(<<>>) = {}
  BY DEF EventsOf

LEMMA EventsOfOne ==
  ASSUME NEW seg \in Segment
  PROVE  EventsOf(<<seg>>) = Range(seg.evs)
  BY DEF EventsOf

LEMMA EventsOfConcat ==
  ASSUME NEW s \in Seq(Segment), NEW t \in Seq(Segment)
  PROVE  EventsOf(s \o t) = EventsOf(s) \cup EventsOf(t)
<1>1. /\ s \o t \in Seq(Segment)
      /\ Len(s \o t) = Len(s) + Len(t)
      /\ DOMAIN s = 1..Len(s) /\ DOMAIN t = 1..Len(t)
      /\ DOMAIN (s \o t) = 1..(Len(s) + Len(t))
      /\ Len(s) \in Nat /\ Len(t) \in Nat
  BY ConcatProperties, LenProperties
<1>2. \A i \in 1..Len(s) : (s \o t)[i] = s[i]
  BY <1>1, ConcatProperties
<1>3. \A i \in 1..Len(t) : (s \o t)[i + Len(s)] = t[i]
  BY <1>1, ConcatProperties
<1>4. ASSUME NEW e, e \in EventsOf(s \o t)
      PROVE  e \in EventsOf(s) \cup EventsOf(t)
  <2>1. PICK i \in 1..(Len(s) + Len(t)) : e \in Range((s \o t)[i].evs)
    BY <1>1, <1>4 DEF EventsOf
  <2>2. CASE i <= Len(s)
    BY <1>1, <1>2, <2>1, <2>2 DEF EventsOf
  <2>3. CASE i > Len(s)
    <3>1. i - Len(s) \in 1..Len(t) /\ (i - Len(s)) + Len(s) = i
      BY <1>1, <2>3
    <3> QED
      BY <1>1, <1>3, <2>1, <3>1 DEF EventsOf
  <2> QED
    BY <1>1, <2>2, <2>3
<1>5. ASSUME NEW e, e \in EventsOf(s)
      PROVE  e \in EventsOf(s \o t)
  BY <1>1, <1>2, <1>5 DEF EventsOf
<1>6. ASSUME NEW e, e \in EventsOf(t)
      PROVE  e \in EventsOf(s \o t)
  <2>1. PICK i \in 1..Len(t) : e \in Range(t[i].evs)
    BY <1>1, <1>6 DEF EventsOf
  <2>2. i + Len(s) \in 1..(Len(s) + Len(t))
    BY <1>1
  <2> QED
    BY <1>1, <1>3, <2>1, <2>2 DEF EventsOf
<1> QED
  BY <1>4, <1>5, <1>6

LEMMA EventsOfAppend ==
  ASSUME NEW s \in Seq(Segment), NEW seg \in Segment
  PROVE  EventsOf(Append(s, seg)) = EventsOf(s) \cup Range(seg.evs)
<1>1. <<seg>> \in Seq(Segment)
  OBVIOUS
<1>2. Append(s, seg) = s \o <<seg>>
  BY AppendIsConcat
<1> QED
  BY <1>1, <1>2, EventsOfConcat, EventsOfOne

LEMMA EventsOfHeadTail ==
  ASSUME NEW s \in Seq(Segment), s # <<>>
  PROVE  EventsOf(s) = Range(Head(s).evs) \cup EventsOf(Tail(s))
<1>1. /\ Head(s) \in Segment /\ Tail(s) \in Seq(Segment)
      /\ <<Head(s)>> \in Seq(Segment)
  BY HeadTailProperties
<1>2. s = <<Head(s)>> \o Tail(s)
  OBVIOUS
<1> QED
  BY <1>1, <1>2, EventsOfConcat, EventsOfOne

(* What a drain moves: the first n events, counted.                        *)
LEMMA DrainSplits ==
  ASSUME NEW s \in Seq(Event), NEW n \in 0..Len(s)
  PROVE  /\ \A e \in Event : Cardinality({i \in 1..n : s[i] = e}) \in Nat
         /\ Range(s) = Range(SubSeq(s, n + 1, Len(s)))
                         \cup {e \in Event : Cardinality({i \in 1..n : s[i] = e}) > 0}
<1> DEFINE At(e) == {i \in 1..n : s[i] = e}
           Rest == SubSeq(s, n + 1, Len(s))
<1>1. n \in Nat /\ Len(s) \in Nat /\ n <= Len(s)
  OBVIOUS
<1>2. \A e \in Event : IsFiniteSet(At(e)) /\ Cardinality(At(e)) \in Nat
  <2> TAKE e \in Event
  <2>1. IsFiniteSet(1..n)
    BY <1>1, FS_Interval
  <2> QED
    BY <2>1, FS_Subset, FS_CardinalityType
<1>3. \A e \in Event : Cardinality(At(e)) > 0 <=> At(e) # {}
  <2> TAKE e \in Event
  <2>1. Cardinality(At(e)) = 0 <=> At(e) = {}
    BY <1>2, FS_EmptySet
  <2>2. Cardinality(At(e)) \in Nat
    BY <1>2
  <2> HIDE DEF At
  <2> QED
    BY <2>1, <2>2
<1>4. /\ Rest \in Seq(Event)
      /\ Len(Rest) = Len(s) - n
      /\ \A i \in 1..(Len(s) - n) : Rest[i] = s[i + n]
  <2>1. \A i \in (n + 1)..Len(s) : s[i] \in Event
    BY <1>1, ElementOfSeq
  <2>2. n + 1 \in Int /\ Len(s) \in Int
    BY <1>1
  <2>3. /\ Rest \in Seq(Event)
        /\ Len(Rest) = IF n + 1 <= Len(s) THEN Len(s) - (n + 1) + 1 ELSE 0
        /\ \A i \in 1..(Len(s) - (n + 1) + 1) : Rest[i] = s[(n + 1) + i - 1]
    BY <2>1, <2>2, SubSeqProperties
  <2> QED
    BY <1>1, <2>3
<1>5. /\ Range(s) = {s[i] : i \in 1..Len(s)}
      /\ Range(Rest) = {Rest[i] : i \in 1..Len(Rest)}
  BY <1>4, RangeEquality
<1>6. ASSUME NEW e, e \in Range(s)
      PROVE  e \in Range(Rest) \/ (e \in Event /\ At(e) # {})
  <2>1. PICK i \in 1..Len(s) : s[i] = e
    BY <1>5, <1>6
  <2>2. e \in Event
    BY <2>1, ElementOfSeq
  <2>3. CASE i <= n
    BY <1>1, <2>1, <2>2, <2>3
  <2>4. CASE i > n
    <3>1. i - n \in 1..(Len(s) - n) /\ Rest[i - n] = s[(i - n) + n] /\ (i - n) + n = i
      BY <1>1, <1>4, <2>4
    <3> QED
      BY <1>4, <1>5, <2>1, <3>1
  <2> QED
    BY <1>1, <2>3, <2>4
<1>7. ASSUME NEW e, e \in Range(Rest)
      PROVE  e \in Range(s)
  <2>1. PICK i \in 1..(Len(s) - n) : Rest[i] = e
    BY <1>4, <1>5, <1>7
  <2>2. i + n \in 1..Len(s) /\ s[i + n] = e
    BY <1>1, <1>4, <2>1
  <2> QED
    BY <1>5, <2>2
<1>8. ASSUME NEW e \in Event, At(e) # {}
      PROVE  e \in Range(s)
  BY <1>1, <1>5, <1>8
<1> QED
  BY <1>2, <1>3, <1>6, <1>7, <1>8
-----------------------------------------------------------------------------
(* Type correctness.                                                       *)

LEMMA ConstantTypes ==
  /\ FlushRows \in Nat /\ FlushRows > 0
  /\ Capacity \in Nat /\ Threshold \in Int
  BY FlushRowsAssumption DEF Capacity, Threshold

LEMMA SegmentTypes ==
  /\ EmptySegment \in Segment
  /\ <<>> \in Seq(Segment)
  /\ NoneDrained \in [Event -> Nat]
  /\ \A seg \in Segment : /\ Torn(seg) \in Segment
                          /\ seg.evs \in Seq(Event)
                          /\ \A evs \in Seq(Event) : WithRecord(seg, evs) \in Segment
<1>1. EmptySegment \in Segment /\ <<>> \in Seq(Segment)
  BY DEF EmptySegment, Segment
<1>2. NoneDrained \in [Event -> Nat]
  BY DEF NoneDrained
<1>3. ASSUME NEW seg \in Segment
      PROVE  Torn(seg) \in Segment /\ seg.evs \in Seq(Event)
  BY DEF Segment, Torn
<1>4. ASSUME NEW seg \in Segment, NEW evs \in Seq(Event)
      PROVE  WithRecord(seg, evs) \in Segment
  <2>1. seg.evs \o evs \in Seq(Event) /\ seg.evs \in Seq(Event) /\ seg.size + 1 \in Nat
    BY ConcatProperties DEF Segment
  <2>2. CASE seg.torn
    BY <2>1, <2>2 DEF Segment, WithRecord
  <2>3. CASE ~seg.torn
    BY <2>1, <2>3 DEF Segment, WithRecord
  <2> QED
    BY <2>2, <2>3
<1> QED
  BY <1>1, <1>2, <1>3, <1>4

LEMMA DrainType ==
  ASSUME TypeOK, NEW caller \in {"idle", "fit"}, DrainBuffer(caller)
  PROVE  TypeOK'
<1> DEFINE n == Smaller(FlushRows, Len(buffer))
<1>1. n \in 0..Len(buffer)
  BY ConstantTypes DEF TypeOK, Smaller
<1>2. draining' \in [Event -> Nat]
  BY <1>1, DrainSplits DEF DrainBuffer, TypeOK
<1>3. buffer' \in Seq(Event)
  <2>1. \A i \in (n + 1)..Len(buffer) : buffer[i] \in Event
    BY <1>1, ElementOfSeq DEF TypeOK
  <2>2. n + 1 \in Int /\ Len(buffer) \in Int
    BY <1>1 DEF TypeOK
  <2>3. buffer' = SubSeq(buffer, n + 1, Len(buffer))
    BY DEF DrainBuffer, Popped
  <2> HIDE DEF n
  <2> QED
    BY <2>1, <2>2, <2>3, SubSeqProperties
<1> QED
  BY <1>2, <1>3 DEF DrainBuffer, TypeOK, PC, disk

LEMMA TypeInit == Init => TypeOK
  BY SegmentTypes, InputAssumption, BoundsAssumption DEF Init, TypeOK, PC

LEMMA TypeStep == TypeOK /\ [Next]_vars => TypeOK'
<1> SUFFICES ASSUME TypeOK, [Next]_vars PROVE TypeOK'
  OBVIOUS
<1> USE SegmentTypes, ConstantTypes
<1>1. CASE IngestEvents
  <2>1. Input[sent + 1] \in Seq(Event)
    BY <1>1, InputAssumption DEF IngestEvents, TypeOK
  <2>2. chan' \in Seq(Seq(Event)) /\ Len(chan') <= ChanCap
    BY <1>1, <2>1, AppendProperties, BoundsAssumption
    DEF IngestEvents, ChannelHasRoom, TypeOK
  <2>3. sent' \in 0..Len(Input)
    BY <1>1, InputAssumption DEF IngestEvents, TypeOK
  <2> QED
    BY <1>1, <2>2, <2>3 DEF IngestEvents, TypeOK, disk
<1>2. CASE Receive
  <2>1. /\ hand' \in Seq(Event) /\ chan' \in Seq(Seq(Event))
        /\ Len(chan') = Len(chan) - 1
    BY <1>2, HeadTailProperties DEF Receive, TypeOK
  <2>2. Len(chan') <= ChanCap
    BY <2>1, BoundsAssumption DEF TypeOK
  <2> QED
    BY <1>2, <2>1, <2>2 DEF Receive, TypeOK, PC, disk
<1>3. CASE FlushToFit
  BY <1>3, DrainType DEF FlushToFit
<1>4. CASE FlushAboveThreshold
  BY <1>4, DrainType DEF FlushAboveThreshold
<1>5. CASE Tick
  BY <1>5, DrainType DEF Tick, TypeOK, vars
<1>6. CASE StoreBatch
  <2>1. /\ active' \in Segment /\ sealed' \in Seq(Segment)
        /\ appended' \in SUBSET Event /\ atRisk' \in SUBSET Event
        /\ faults' \in 0..MaxFaults
    <3>1. CASE AppendOk
      <4> DEFINE grown == WithRecord(active, hand)
      <4>1. grown \in Segment /\ Range(hand) \in SUBSET Event
        BY RangeOfSeq DEF TypeOK
      <4>2. Append(sealed, grown) \in Seq(Segment)
        BY <4>1, AppendProperties DEF TypeOK
      <4>3. /\ \/ sealed' = Append(sealed, grown) /\ active' = EmptySegment
               \/ sealed' = sealed /\ active' = grown
            /\ appended' = appended \cup Range(hand)
            /\ atRisk' \in {atRisk, atRisk \cup Range(hand)}
            /\ faults' = faults
        BY <3>1 DEF AppendOk, NoFault
      <4> HIDE DEF grown
      <4> QED
        BY <4>1, <4>2, <4>3 DEF TypeOK
    <3>2. CASE AppendFails
      BY <3>2, BoundsAssumption DEF AppendFails, Fault, TypeOK
    <3> QED
      BY <1>6, <3>1, <3>2 DEF StoreBatch
  <2>2. buffer' \in Seq(Event) /\ hand' \in Seq(Event)
    BY <1>6 DEF StoreBatch, TypeOK
  <2>3. pc' \in PC
    BY <1>6 DEF StoreBatch, PC
  <2> QED
    BY <1>6, <2>1, <2>2, <2>3 DEF StoreBatch, TypeOK
<1>7. ASSUME NEW p \in Partition, WritePartition(p)
      PROVE  TypeOK'
  <2> DEFINE mine == {e \in Event : PartitionOf[e] = p /\ draining[e] > 0}
  <2>1. draining' \in [Event -> Nat]
    BY <1>7 DEF WritePartition, TypeOK
  <2>2. /\ rows' \in [Event -> Nat] /\ atRisk' \in SUBSET Event
        /\ faults' \in 0..MaxFaults
    <3>1. mine \in SUBSET Event
      OBVIOUS
    <3>2. [e \in Event |-> IF e \in mine THEN rows[e] + draining[e] ELSE rows[e]]
             \in [Event -> Nat]
      <4>1. \A e \in Event : rows[e] \in Nat /\ rows[e] + draining[e] \in Nat
        BY DEF TypeOK
      <4> HIDE DEF mine
      <4> QED
        BY <4>1
    <3>3. \/ NoFault /\ atRisk' = atRisk
             /\ rows' = [e \in Event |-> IF e \in mine THEN rows[e] + draining[e]
                                                        ELSE rows[e]]
          \/ Fault /\ rows' = rows /\ atRisk' = atRisk \cup mine
      BY <1>7 DEF WritePartition
    <3> DEFINE more == [e \in Event |-> IF e \in mine THEN rows[e] + draining[e]
                                                      ELSE rows[e]]
    <3>4. faults' \in 0..MaxFaults
      BY <3>3, BoundsAssumption DEF TypeOK, NoFault, Fault
    <3>5. rows' \in {rows, more} /\ atRisk' \in {atRisk, atRisk \cup mine}
      BY <3>3
    <3>6. more \in [Event -> Nat]
      BY <3>2
    <3> HIDE DEF mine, more
    <3> QED
      BY <3>1, <3>4, <3>5, <3>6 DEF TypeOK
  <2> QED
    BY <1>7, <2>1, <2>2 DEF WritePartition, TypeOK, disk
<1>8. CASE FinishFlush
  BY <1>8 DEF FinishFlush, TypeOK, PC, memory
<1>9. CASE DeleteSealed
  BY <1>9 DEF DeleteSealed, TypeOK, memory
<1>10. CASE RotateActive
  BY <1>10 DEF RotateActive, TypeOK, PC, memory
<1>11. CASE DropActive
  BY <1>11 DEF DropActive, TypeOK, PC, memory
<1>12. CASE ReclaimFails
  BY <1>12, BoundsAssumption DEF ReclaimFails, Fault, TypeOK, PC, memory
<1>13. CASE Crash
  <2>1. old' \in Seq(Segment)
    BY <1>13 DEF Crash, TypeOK
  <2>2. crashes' \in 0..MaxCrashes
    BY <1>13, BoundsAssumption DEF Crash, TypeOK
  <2> QED
    BY <1>13, <2>1, <2>2, BoundsAssumption DEF Crash, TypeOK, PC
<1>14. CASE Open
  BY <1>14 DEF Open, TypeOK, PC, memory, disk
<1>15. CASE ReplaySegment
  <2>1. Head(old) \in Segment /\ Tail(old) \in Seq(Segment)
    BY <1>15 DEF ReplaySegment, TypeOK
  <2>2. buffer' \in Seq(Event) /\ Range(Head(old).evs) \in SUBSET Event
    BY <1>15, <2>1, RangeOfSeq DEF ReplaySegment, TypeOK
  <2> QED
    BY <1>15, <2>1, <2>2 DEF ReplaySegment, TypeOK
<1>16. CASE ReplayFails
  <2>1. Head(old) \in Segment /\ Tail(old) \in Seq(Segment)
    BY <1>16 DEF ReplayFails, TypeOK
  <2>2. kept' \in Seq(Segment)
    BY <1>16, <2>1, AppendProperties DEF ReplayFails, TypeOK
  <2>3. buffer' \in Seq(Event)
    <3>1. PICK k \in 0..Len(Head(old).evs) :
             buffer' = buffer \o SubSeq(Head(old).evs, 1, k)
      BY <1>16 DEF ReplayFails
    <3>2. SubSeq(Head(old).evs, 1, k) \in Seq(Event)
      BY <2>1
    <3> QED
      BY <3>1, <3>2 DEF TypeOK
  <2>4. faults' \in 0..MaxFaults
    BY <1>16, BoundsAssumption DEF ReplayFails, Fault, TypeOK
  <2> QED
    BY <1>16, <2>1, <2>2, <2>3, <2>4 DEF ReplayFails, TypeOK
<1>17. CASE StartWriter
  BY <1>17 DEF StartWriter, TypeOK, PC, memory, disk
<1>18. CASE UNCHANGED vars
  BY <1>18 DEF vars, TypeOK
<1> QED
  BY <1>1, <1>2, <1>3, <1>4, <1>5, <1>6, <1>7, <1>8, <1>9, <1>10, <1>11,
     <1>12, <1>13, <1>14, <1>15, <1>16, <1>17, <1>18
  DEF Next, Flush, Replay

(* The variables keep their types: in particular the channel never holds   *)
(* more batches than its capacity.                                         *)
THEOREM TypeCorrect == Spec => []TypeOK
  BY TypeInit, TypeStep, PTL DEF Spec
-----------------------------------------------------------------------------
(***************************************************************************)
(* The inductive invariant.  A reclaim deletes whole segments without a   *)
(* look at their events, so what makes it safe is LogCovered: every event *)
(* of a segment the process tracks is in Parquet, at risk already, or     *)
(* still in memory, and at a reclaim nothing is in memory.  FirstLife      *)
(* says what the gaps can have taken before the second crash.              *)
(***************************************************************************)
Reclaiming == {"reclaim", "dropActive"}
DrainedOnlyInFlush == pc # "write" => draining = NoneDrained
DoomedOnlyInReclaim == pc \notin Reclaiming => doomed = <<>>
ReclaimWhenEmpty == pc \in Reclaiming => buffer = <<>>
LogCovered == Tracked \subseteq Visible \cup atRisk \cup InMemory
FirstLife ==
    /\ crashes = 0 => pc \notin {"down", "replay"}
    /\ faults = 0 => active.torn = FALSE
    /\ crashes = 0 /\ faults = 0 => atRisk = {}
    /\ crashes <= 1 /\ faults = 0 => atRisk \subseteq Visible \cup InMemory

Phase == DrainedOnlyInFlush /\ DoomedOnlyInReclaim /\ ReclaimWhenEmpty
IInv == TypeOK /\ Phase /\ LogCovered /\ NoOtherGap /\ FirstLife

LEMMA InitIInv == Init => IInv
<1> SUFFICES ASSUME Init PROVE IInv
  OBVIOUS
<1>1. TypeOK
  BY TypeInit
<1>2. Tracked = {}
  BY EventsOfEmpty DEF Init, Tracked, EmptySegment, Range
<1> QED
  BY <1>1, <1>2 DEF Init, IInv, Phase, DrainedOnlyInFlush, DoomedOnlyInReclaim,
     ReclaimWhenEmpty, LogCovered, NoOtherGap, FirstLife, EmptySegment, Reclaiming

(* The phases of the writer.                                               *)
LEMMA PhaseStep == IInv /\ [Next]_vars => Phase'
<1> SUFFICES ASSUME IInv, [Next]_vars PROVE Phase'
  OBVIOUS
<1> USE DEF IInv, Phase, DrainedOnlyInFlush, DoomedOnlyInReclaim, ReclaimWhenEmpty,
            Reclaiming, NoneDrained
<1>1. CASE IngestEvents
  BY <1>1 DEF IngestEvents, disk
<1>2. CASE Receive
  BY <1>2 DEF Receive, disk
<1>3. CASE FlushToFit \/ FlushAboveThreshold
  BY <1>3 DEF FlushToFit, FlushAboveThreshold, DrainBuffer, disk
<1>4. CASE Tick
  BY <1>4 DEF Tick, DrainBuffer, disk, vars
<1>5. CASE StoreBatch
  BY <1>5 DEF StoreBatch
<1>6. CASE \E p \in Partition : WritePartition(p)
  BY <1>6 DEF WritePartition, disk
<1>7. CASE FinishFlush
  BY <1>7 DEF FinishFlush, ReclaimDue, memory, TypeOK
<1>8. CASE DeleteSealed \/ RotateActive \/ DropActive \/ ReclaimFails
  BY <1>8 DEF DeleteSealed, RotateActive, DropActive, ReclaimFails, memory, TypeOK
<1>9. CASE Crash
  BY <1>9 DEF Crash
<1>10. CASE Open \/ StartWriter
  BY <1>10 DEF Open, StartWriter, memory, disk
<1>11. CASE ReplaySegment \/ ReplayFails
  BY <1>11 DEF ReplaySegment, ReplayFails
<1>12. CASE UNCHANGED vars
  BY <1>12 DEF vars
<1> QED
  BY <1>1, <1>2, <1>3, <1>4, <1>5, <1>6, <1>7, <1>8, <1>9, <1>10, <1>11, <1>12
  DEF Next, Flush, Replay
(* What an action must show: it may move events around the places that     *)
(* cover them, put events at risk only by a replay or a fault, and have    *)
(* nothing go missing.                                                     *)
Safe == LogCovered /\ NoOtherGap /\ FirstLife

LEMMA DiskSame ==
  ASSUME UNCHANGED disk
  PROVE  Tracked' = Tracked /\ OnDisk' = OnDisk /\ active' = active
  BY DEF disk, Tracked, OnDisk, EventsOf

LEMMA DrainMemory ==
  ASSUME TypeOK, draining = NoneDrained, NEW caller \in {"idle", "fit"},
         DrainBuffer(caller)
  PROVE  InMemory' = InMemory
<1> DEFINE n == Smaller(FlushRows, Len(buffer))
<1>1. n \in 0..Len(buffer)
  BY ConstantTypes DEF TypeOK, Smaller
<1>2. {e \in Event : draining[e] > 0} = {}
  BY DEF NoneDrained
<1>3. /\ buffer' = SubSeq(buffer, n + 1, Len(buffer))
      /\ draining' = [e \in Event |-> Cardinality({i \in 1..n : buffer[i] = e})]
  BY DEF DrainBuffer, Popped
<1>4. Range(buffer) =
        Range(buffer') \cup {e \in Event : draining'[e] > 0}
  <2> HIDE DEF n
  <2>1. buffer \in Seq(Event)
    BY DEF TypeOK
  <2>2. Range(buffer) = Range(SubSeq(buffer, n + 1, Len(buffer)))
           \cup {e \in Event : Cardinality({i \in 1..n : buffer[i] = e}) > 0}
    BY <1>1, <2>1, DrainSplits
  <2>3. {e \in Event : draining'[e] > 0} =
           {e \in Event : Cardinality({i \in 1..n : buffer[i] = e}) > 0}
    BY <1>3
  <2> QED
    BY <1>3, <2>2, <2>3
<1> QED
  BY <1>2, <1>4 DEF InMemory

LEMMA DrainSafe ==
  ASSUME IInv, pc # "write", NEW caller \in {"idle", "fit"}, DrainBuffer(caller)
  PROVE  Safe'
<1>1. TypeOK /\ draining = NoneDrained
  BY DEF IInv, Phase, DrainedOnlyInFlush
<1>2. InMemory' = InMemory
  BY <1>1, DrainMemory
<1>3. /\ UNCHANGED <<disk, rows, appended, atRisk, crashes, faults>>
      /\ pc' = "write"
  BY DEF DrainBuffer
<1>4. Tracked' = Tracked /\ OnDisk' = OnDisk /\ active' = active /\ Visible' = Visible
  BY <1>3, DiskSame DEF Visible
<1> QED
  BY <1>2, <1>3, <1>4 DEF IInv, Safe, LogCovered, NoOtherGap, FirstLife

(* Actions that leave the buffer, the disk and the rows alone.             *)
LEMMA QuietSafe ==
  ASSUME IInv,
         UNCHANGED <<buffer, draining, disk, rows, appended, atRisk, crashes, faults>>,
         pc' \in {"down", "replay"} => pc \in {"down", "replay"}
  PROVE  Safe'
<1>1. Tracked' = Tracked /\ OnDisk' = OnDisk /\ active' = active /\ Visible' = Visible
      /\ InMemory' = InMemory
  BY DiskSame DEF Visible, InMemory
<1> QED
  BY <1>1 DEF IInv, Safe, LogCovered, NoOtherGap, FirstLife

(* The segment with the batch in hand, and what storing the batch does.    *)
LEMMA GrownSegment ==
  ASSUME TypeOK
  PROVE  LET grown == WithRecord(active, hand) IN
         /\ Range(grown.evs) \subseteq Range(active.evs) \cup Range(hand)
         /\ Range(active.evs) \subseteq Range(grown.evs)
         /\ active.torn = FALSE => Range(hand) \subseteq Range(grown.evs)
         /\ grown.torn = active.torn
         /\ grown \in Segment
<1> DEFINE grown == WithRecord(active, hand)
<1>1. /\ active \in Segment /\ active.evs \in Seq(Event) /\ hand \in Seq(Event)
      /\ active.torn \in BOOLEAN
  BY DEF TypeOK, Segment
<1>2. Range(active.evs \o hand) = Range(active.evs) \cup Range(hand)
  BY <1>1, RangeConcatenation
<1>3. grown \in Segment
  BY <1>1, SegmentTypes
<1>4. /\ grown.evs = IF active.torn THEN active.evs ELSE active.evs \o hand
      /\ grown.torn = active.torn
  BY <1>1 DEF WithRecord, Segment
<1> HIDE DEF grown
<1>5. /\ Range(grown.evs) \subseteq Range(active.evs) \cup Range(hand)
      /\ Range(active.evs) \subseteq Range(grown.evs)
      /\ active.torn = FALSE => Range(hand) \subseteq Range(grown.evs)
      /\ grown.torn = active.torn
      /\ grown \in Segment
  BY <1>1, <1>2, <1>3, <1>4
<1> QED
  BY <1>5 DEF grown

LEMMA PushedBatch ==
  ASSUME TypeOK, StoreBatch
  PROVE  InMemory' = InMemory \cup Range(hand)
<1>1. Range(buffer \o hand) = Range(buffer) \cup Range(hand)
  BY RangeConcatenation DEF TypeOK
<1> QED
  BY <1>1 DEF StoreBatch, InMemory

LEMMA LoggedBatch ==
  ASSUME TypeOK, StoreBatch, AppendOk
  PROVE  Tracked' = EventsOf(sealed) \cup EventsOf(doomed)
                      \cup Range(WithRecord(active, hand).evs)
<1> DEFINE grown == WithRecord(active, hand)
<1>1. /\ \/ sealed' = Append(sealed, grown) /\ active' = EmptySegment
         \/ sealed' = sealed /\ active' = grown
      /\ doomed' = doomed /\ grown \in Segment
  BY GrownSegment DEF AppendOk, StoreBatch
<1> HIDE DEF grown
<1>2. CASE sealed' = sealed /\ active' = grown
  BY <1>1, <1>2 DEF Tracked, EventsOf, grown
<1>3. CASE sealed' = Append(sealed, grown) /\ active' = EmptySegment
  <2>1. EventsOf(Append(sealed, grown)) = EventsOf(sealed) \cup Range(grown.evs)
    BY <1>1, EventsOfAppend DEF TypeOK
  <2>2. Range(active'.evs) = {}
    BY <1>3 DEF EmptySegment, Range
  <2>3. EventsOf(sealed)' = EventsOf(Append(sealed, grown))
    BY <1>3 DEF EventsOf
  <2>4. EventsOf(doomed)' = EventsOf(doomed)
    BY <1>1 DEF EventsOf
  <2> QED
    BY <2>1, <2>2, <2>3, <2>4 DEF Tracked, grown
<1> QED
  BY <1>1, <1>2, <1>3

LEMMA StoreSafe == IInv /\ StoreBatch => Safe'
<1> SUFFICES ASSUME IInv, StoreBatch PROVE Safe'
  OBVIOUS
<1> DEFINE grown == WithRecord(active, hand)
<1>1. TypeOK
  BY DEF IInv
<1>2. /\ Range(grown.evs) \subseteq Range(active.evs) \cup Range(hand)
      /\ Range(active.evs) \subseteq Range(grown.evs)
      /\ active.torn = FALSE => Range(hand) \subseteq Range(grown.evs)
      /\ grown.torn = active.torn
      /\ grown \in Segment
  BY <1>1, GrownSegment
<1>3. InMemory' = InMemory \cup Range(hand)
  BY <1>1, PushedBatch
<1>4. Visible' = Visible /\ crashes' = crashes /\ pc' \in {"idle", "above"}
  BY DEF StoreBatch, Visible
<1>5. /\ old' = old /\ kept' = kept /\ doomed' = doomed
  BY DEF StoreBatch
<1>6. CASE AppendOk
  <2>1. /\ \/ sealed' = Append(sealed, grown) /\ active' = EmptySegment
           \/ sealed' = sealed /\ active' = grown
        /\ appended' = appended \cup Range(hand)
        /\ atRisk' = IF active.torn THEN atRisk \cup Range(hand) ELSE atRisk
        /\ faults' = faults
    BY <1>6 DEF AppendOk, NoFault
  <2>2. Tracked' = EventsOf(sealed) \cup EventsOf(doomed) \cup Range(grown.evs)
    BY <1>1, <1>6, LoggedBatch
  <2>3. EventsOf(old)' = EventsOf(old) /\ EventsOf(kept)' = EventsOf(kept)
    BY <1>5 DEF EventsOf
  <2>4. LogCovered'
    BY <1>2, <1>3, <1>4, <2>1, <2>2 DEF IInv, LogCovered, Tracked
  <2>5. NoOtherGap'
    BY <1>1, <1>2, <1>4, <2>1, <2>2, <2>3
    DEF IInv, NoOtherGap, OnDisk, Tracked, TypeOK, Segment
  <2>6. FirstLife'
    BY <1>2, <1>3, <1>4, <2>1 DEF IInv, FirstLife, EmptySegment
  <2> QED
    BY <2>4, <2>5, <2>6 DEF Safe
<1>7. CASE AppendFails
  <2>1. /\ faults' = faults + 1
        /\ UNCHANGED <<sealed, appended, atRisk>>
        /\ active' \in {active, Torn(active), grown}
    BY <1>7 DEF AppendFails, Fault
  <2>2. /\ Range(active'.evs) \subseteq Range(active.evs) \cup Range(hand)
        /\ Range(active.evs) \subseteq Range(active'.evs)
    <3>1. Torn(active).evs = active.evs
      BY <1>1 DEF TypeOK, Torn, Segment
    <3> HIDE DEF grown
    <3> QED
      BY <1>2, <2>1, <3>1
  <2>3. /\ EventsOf(old)' = EventsOf(old) /\ EventsOf(kept)' = EventsOf(kept)
        /\ EventsOf(sealed)' = EventsOf(sealed) /\ EventsOf(doomed)' = EventsOf(doomed)
    BY <1>5, <2>1 DEF EventsOf
  <2>4. LogCovered'
    BY <1>3, <1>4, <2>1, <2>2, <2>3 DEF IInv, LogCovered, Tracked
  <2>5. NoOtherGap'
    BY <1>4, <2>1, <2>2, <2>3 DEF IInv, NoOtherGap, OnDisk, Tracked
  <2>6. faults' # 0
    BY <1>1, <2>1 DEF TypeOK
  <2>7. FirstLife'
    BY <1>4, <2>6 DEF IInv, FirstLife
  <2> QED
    BY <2>4, <2>5, <2>7 DEF Safe
<1> QED
  BY <1>6, <1>7 DEF StoreBatch
LEMMA WriteSafe ==
  ASSUME IInv, NEW p \in Partition, WritePartition(p)
  PROVE  Safe'
<1> DEFINE mine == {e \in Event : PartitionOf[e] = p /\ draining[e] > 0}
           left == [e \in Event |-> IF e \in mine THEN 0 ELSE draining[e]]
           more == [e \in Event |-> IF e \in mine THEN rows[e] + draining[e] ELSE rows[e]]
<1>1. /\ TypeOK
      /\ UNCHANGED <<pc, buffer, disk, appended, crashes>>
      /\ draining' = left
  BY DEF IInv, WritePartition
<1>2. Tracked' = Tracked /\ OnDisk' = OnDisk /\ active' = active
  BY <1>1, DiskSame
<1>3. InMemory \subseteq InMemory' \cup mine /\ mine \subseteq Event
  BY <1>1 DEF InMemory
<1>4. CASE /\ NoFault
           /\ rows' = more
           /\ atRisk' = atRisk
  <2>1. Visible' = Visible \cup mine
    BY <1>1, <1>4 DEF TypeOK, Visible
  <2>2. faults' = faults
    BY <1>4 DEF NoFault
  <2> QED
    BY <1>1, <1>2, <1>3, <1>4, <2>1, <2>2
    DEF IInv, Safe, LogCovered, NoOtherGap, FirstLife
<1>5. CASE /\ Fault
           /\ rows' = rows
           /\ atRisk' = atRisk \cup mine
  <2>1. Visible' = Visible
    BY <1>5 DEF Visible
  <2>2. faults' # 0
    BY <1>1, <1>5 DEF Fault, TypeOK
  <2> QED
    BY <1>1, <1>2, <1>3, <1>5, <2>1, <2>2
    DEF IInv, Safe, LogCovered, NoOtherGap, FirstLife
<1> QED
  BY <1>4, <1>5 DEF WritePartition

(* At a reclaim every tracked event is in Parquet or at risk already.      *)
LEMMA ReclaimCovered ==
  ASSUME IInv, pc \in Reclaiming
  PROVE  Tracked \subseteq Visible \cup atRisk
<1>1. buffer = <<>> /\ draining = NoneDrained
  BY DEF IInv, Phase, ReclaimWhenEmpty, DrainedOnlyInFlush, Reclaiming
<1>2. InMemory = {}
  BY <1>1 DEF InMemory, NoneDrained, Range
<1> QED
  BY <1>2 DEF IInv, LogCovered

(* A step that only rearranges, forgets or deletes tracked segments.       *)
LEMMA ReclaimSafe ==
  ASSUME IInv,
         UNCHANGED <<buffer, draining, old, rows, appended, atRisk, crashes>>,
         faults' = faults \/ faults' # 0,
         pc' \notin {"down", "replay"},
         Tracked' \subseteq Tracked,
         EventsOf(kept) \subseteq EventsOf(kept)',
         active' \in {active, EmptySegment},
         Tracked \subseteq Tracked' \cup Visible \cup atRisk
  PROVE  Safe'
<1>1. InMemory' = InMemory /\ Visible' = Visible /\ EventsOf(old)' = EventsOf(old)
  BY DEF InMemory, Visible, EventsOf
<1>2. LogCovered' /\ NoOtherGap'
  BY <1>1 DEF IInv, LogCovered, NoOtherGap, OnDisk
<1>3. FirstLife'
  BY <1>1 DEF IInv, FirstLife, EmptySegment
<1> QED
  BY <1>2, <1>3 DEF Safe

LEMMA FinishFlushSafe == IInv /\ FinishFlush => Safe'
<1> SUFFICES ASSUME IInv, FinishFlush PROVE Safe'
  OBVIOUS
<1>1. /\ UNCHANGED <<buffer, draining, old, kept, active, rows, appended, atRisk,
                     crashes, faults>>
      /\ pc = "write" /\ TypeOK /\ pc' \in {"reclaim", "idle", "fit"}
  BY DEF FinishFlush, IInv, memory, TypeOK
<1>2. doomed = <<>>
  BY <1>1 DEF IInv, Phase, DoomedOnlyInReclaim, Reclaiming
<1>3. \/ doomed' = sealed /\ sealed' = <<>>
      \/ doomed' = doomed /\ sealed' = sealed
  BY DEF FinishFlush
<1>4. Tracked' = Tracked
  BY <1>1, <1>2, <1>3 DEF Tracked, EventsOf
<1>5. EventsOf(kept)' = EventsOf(kept)
  BY <1>1 DEF EventsOf
<1> QED
  BY <1>1, <1>4, <1>5, ReclaimSafe

LEMMA ReclaimStepsSafe ==
  IInv /\ (DeleteSealed \/ RotateActive \/ DropActive \/ ReclaimFails) => Safe'
<1> SUFFICES ASSUME IInv, DeleteSealed \/ RotateActive \/ DropActive \/ ReclaimFails
             PROVE  Safe'
  OBVIOUS
<1>1. /\ UNCHANGED <<buffer, draining, old, sealed, rows, appended, atRisk, crashes>>
      /\ pc \in Reclaiming /\ TypeOK /\ pc' \notin {"down", "replay"}
      /\ faults' = faults \/ faults' = faults + 1
  BY DEF DeleteSealed, RotateActive, DropActive, ReclaimFails, IInv, memory, TypeOK,
         Fault, Reclaiming
<1>2. faults' = faults \/ faults' # 0
  BY <1>1 DEF TypeOK
<1>3. Tracked \subseteq Visible \cup atRisk
  BY <1>1, ReclaimCovered
<1>4. EventsOf(sealed)' = EventsOf(sealed)
  BY <1>1 DEF EventsOf
<1>5. CASE DeleteSealed
  <2>1. EventsOf(doomed) = Range(Head(doomed).evs) \cup EventsOf(Tail(doomed))
    BY <1>1, <1>5, EventsOfHeadTail DEF DeleteSealed, TypeOK
  <2>2. EventsOf(doomed)' = EventsOf(Tail(doomed)) /\ active' = active
        /\ EventsOf(kept)' = EventsOf(kept)
    BY <1>5 DEF DeleteSealed, EventsOf
  <2>3. Tracked' \subseteq Tracked
    BY <1>4, <2>1, <2>2 DEF Tracked
  <2> QED
    BY <1>1, <1>2, <1>3, <2>2, <2>3, ReclaimSafe
<1>6. CASE RotateActive
  <2>1. active' = EmptySegment /\ EventsOf(kept)' = EventsOf(kept)
        /\ doomed' = <<active>> /\ doomed = <<>>
    BY <1>6 DEF RotateActive, EventsOf
  <2>2. EventsOf(doomed)' = Range(active.evs) /\ EventsOf(doomed) = {}
    BY <1>1, <2>1, EventsOfOne, EventsOfEmpty DEF TypeOK, EventsOf
  <2>3. Range(active'.evs) = {}
    BY <2>1 DEF EmptySegment, Range
  <2>4. Tracked' = Tracked
    BY <1>4, <2>2, <2>3 DEF Tracked
  <2> QED
    BY <1>1, <1>2, <1>3, <2>1, <2>4, ReclaimSafe
<1>7. CASE DropActive
  <2>1. doomed' = <<>> /\ active' = active /\ EventsOf(kept)' = EventsOf(kept)
    BY <1>7 DEF DropActive, EventsOf
  <2>2. EventsOf(doomed)' = {}
    BY <2>1 DEF EventsOf
  <2>3. Tracked' \subseteq Tracked
    BY <1>4, <2>1, <2>2 DEF Tracked
  <2> QED
    BY <1>1, <1>2, <1>3, <2>1, <2>3, ReclaimSafe
<1>8. CASE ReclaimFails
  <2>1. doomed' = <<>> /\ active' = active /\ kept' = kept \o doomed
    BY <1>8 DEF ReclaimFails
  <2>2. EventsOf(kept)' = EventsOf(kept) \cup EventsOf(doomed)
    <3>1. EventsOf(kept \o doomed) = EventsOf(kept) \cup EventsOf(doomed)
      BY <1>1, EventsOfConcat DEF TypeOK
    <3>2. EventsOf(kept)' = EventsOf(kept \o doomed)
      BY <2>1 DEF EventsOf
    <3> QED
      BY <3>1, <3>2
  <2>3. EventsOf(doomed)' = {}
    BY <2>1 DEF EventsOf
  <2>4. Tracked' \subseteq Tracked
    BY <1>4, <2>1, <2>3 DEF Tracked
  <2> QED
    BY <1>1, <1>2, <1>3, <2>1, <2>2, <2>4, ReclaimSafe
<1> QED
  BY <1>5, <1>6, <1>7, <1>8

(* A crash leaves the log on disk, every segment of it, and tracks none.   *)
LEMMA CrashedLog ==
  ASSUME TypeOK, Crash
  PROVE  Tracked' = {} /\ EventsOf(kept)' = {} /\ EventsOf(old)' = OnDisk
<1>1. TypeOK
  OBVIOUS
<1>2. /\ sealed' = <<>> /\ doomed' = <<>> /\ kept' = <<>> /\ active' = EmptySegment
      /\ old' = kept \o old \o doomed \o sealed \o <<active>>
  BY DEF Crash
<1>3. Tracked' = {} /\ EventsOf(kept)' = {}
  BY <1>2, EventsOfEmpty DEF Tracked, EventsOf, EmptySegment, Range
<1>4. EventsOf(old)' = OnDisk
  <2> DEFINE a == kept \o old
             b == a \o doomed
             c == b \o sealed
  <2>1. <<active>> \in Seq(Segment) /\ EventsOf(<<active>>) = Range(active.evs)
    BY <1>1, EventsOfOne DEF TypeOK
  <2>2. a \in Seq(Segment) /\ EventsOf(a) = EventsOf(kept) \cup EventsOf(old)
    BY <1>1, EventsOfConcat, ConcatProperties DEF TypeOK
  <2> HIDE DEF a
  <2>3. b \in Seq(Segment) /\ EventsOf(b) = EventsOf(a) \cup EventsOf(doomed)
    BY <1>1, <2>2, EventsOfConcat, ConcatProperties DEF TypeOK
  <2> HIDE DEF b
  <2>4. c \in Seq(Segment) /\ EventsOf(c) = EventsOf(b) \cup EventsOf(sealed)
    BY <1>1, <2>3, EventsOfConcat, ConcatProperties DEF TypeOK
  <2>5. old' = c \o <<active>>
    BY <1>2 DEF a, b
  <2> HIDE DEF c
  <2>6. EventsOf(c \o <<active>>) = EventsOf(c) \cup Range(active.evs)
    BY <2>1, <2>4, EventsOfConcat
  <2>7. EventsOf(old)' = EventsOf(c \o <<active>>)
    BY <2>5 DEF EventsOf
  <2> QED
    BY <2>2, <2>3, <2>4, <2>6, <2>7 DEF OnDisk, Tracked
<1> QED
  BY <1>3, <1>4

LEMMA CrashSafe == IInv /\ Crash => Safe'
<1> SUFFICES ASSUME IInv, Crash PROVE Safe'
  OBVIOUS
<1>1. TypeOK
  BY DEF IInv
<1>2. /\ sealed' = <<>> /\ doomed' = <<>> /\ kept' = <<>> /\ active' = EmptySegment
      /\ old' = kept \o old \o doomed \o sealed \o <<active>>
      /\ UNCHANGED <<rows, appended, atRisk, faults>>
      /\ crashes' = crashes + 1
  BY DEF Crash
<1>3. Tracked' = {} /\ EventsOf(kept)' = {} /\ EventsOf(old)' = OnDisk
  BY <1>1, CrashedLog
<1>5. Visible' = Visible
  BY <1>2 DEF Visible
<1>6. LogCovered' /\ NoOtherGap'
  BY <1>2, <1>3, <1>5 DEF IInv, LogCovered, NoOtherGap, OnDisk
<1>7. crashes' # 0 /\ (crashes' <= 1 => crashes = 0)
  BY <1>1, <1>2 DEF TypeOK
<1>8. FirstLife'
  BY <1>2, <1>5, <1>7 DEF IInv, FirstLife, EmptySegment
<1> QED
  BY <1>6, <1>8 DEF Safe

LEMMA ReplaySafe == IInv /\ (ReplaySegment \/ ReplayFails) => Safe'
<1> SUFFICES ASSUME IInv, ReplaySegment \/ ReplayFails PROVE Safe'
  OBVIOUS
<1>1. /\ TypeOK /\ old # <<>> /\ pc = "replay" /\ crashes # 0
      /\ Head(old) \in Segment /\ Head(old).evs \in Seq(Event)
      /\ UNCHANGED <<draining, sealed, doomed, active, rows, appended, crashes>>
      /\ old' = Tail(old)
  BY HeadTailProperties, SegmentTypes
  DEF IInv, FirstLife, ReplaySegment, ReplayFails, TypeOK
<1>2. EventsOf(old) = Range(Head(old).evs) \cup EventsOf(old)'
  <2>1. EventsOf(old) = Range(Head(old).evs) \cup EventsOf(Tail(old))
    BY <1>1, EventsOfHeadTail DEF TypeOK
  <2> QED
    BY <1>1, <2>1 DEF EventsOf
<1>3. Tracked' = Tracked /\ Visible' = Visible
  BY <1>1 DEF Tracked, Visible, EventsOf
<1>4. CASE ReplaySegment
  <2>1. /\ buffer' = buffer \o Head(old).evs
        /\ atRisk' = atRisk \cup Range(Head(old).evs)
        /\ kept' = kept /\ faults' = faults
    BY <1>4 DEF ReplaySegment
  <2>2. InMemory' = InMemory \cup Range(Head(old).evs)
    <3>1. Range(buffer \o Head(old).evs) = Range(buffer) \cup Range(Head(old).evs)
      BY <1>1, RangeConcatenation DEF TypeOK
    <3> QED
      BY <1>1, <2>1, <3>1 DEF InMemory
  <2>3. EventsOf(kept)' = EventsOf(kept)
    BY <2>1 DEF EventsOf
  <2>4. LogCovered' /\ NoOtherGap'
    BY <1>1, <1>2, <1>3, <2>1, <2>2, <2>3 DEF IInv, LogCovered, NoOtherGap, OnDisk
  <2>5. FirstLife'
    BY <1>1, <1>3, <2>1, <2>2 DEF IInv, FirstLife
  <2> QED
    BY <2>4, <2>5 DEF Safe
<1>5. CASE ReplayFails
  <2>1. /\ kept' = Append(kept, Head(old)) /\ atRisk' = atRisk
        /\ faults' = faults + 1
    BY <1>5 DEF ReplayFails, Fault
  <2>2. InMemory \subseteq InMemory'
    <3>1. PICK k \in 0..Len(Head(old).evs) :
             buffer' = buffer \o SubSeq(Head(old).evs, 1, k)
      BY <1>5 DEF ReplayFails
    <3>2. SubSeq(Head(old).evs, 1, k) \in Seq(Event)
      BY <1>1
    <3> DEFINE pushed == SubSeq(Head(old).evs, 1, k)
    <3> HIDE DEF pushed
    <3>3. Range(buffer \o pushed) = Range(buffer) \cup Range(pushed)
      <4>1. pushed \in Seq(Event) /\ buffer \in Seq(Event)
        BY <1>1, <3>2 DEF TypeOK, pushed
      <4> QED
        BY <4>1, RangeConcatenation
    <3>4. buffer' = buffer \o pushed
      BY <3>1 DEF pushed
    <3> QED
      BY <1>1, <3>3, <3>4 DEF InMemory
  <2>3. EventsOf(kept)' = EventsOf(kept) \cup Range(Head(old).evs)
    <3>1. EventsOf(Append(kept, Head(old))) = EventsOf(kept) \cup Range(Head(old).evs)
      BY <1>1, EventsOfAppend DEF TypeOK
    <3>2. EventsOf(kept)' = EventsOf(Append(kept, Head(old)))
      BY <2>1 DEF EventsOf
    <3> QED
      BY <3>1, <3>2
  <2>4. LogCovered' /\ NoOtherGap'
    BY <1>1, <1>2, <1>3, <2>1, <2>2, <2>3 DEF IInv, LogCovered, NoOtherGap, OnDisk
  <2>5. faults' # 0
    BY <1>1, <2>1 DEF TypeOK
  <2>6. FirstLife'
    BY <1>1, <2>5 DEF IInv, FirstLife
  <2> QED
    BY <2>4, <2>6 DEF Safe
<1> QED
  BY <1>4, <1>5

LEMMA SafeStep == IInv /\ [Next]_vars => Safe'
<1> SUFFICES ASSUME IInv, [Next]_vars PROVE Safe'
  OBVIOUS
<1>1. CASE IngestEvents \/ Receive \/ Open \/ StartWriter
  BY <1>1, QuietSafe DEF IngestEvents, Receive, Open, StartWriter, Running, memory
<1>2. CASE FlushToFit \/ FlushAboveThreshold
  BY <1>2, DrainSafe DEF FlushToFit, FlushAboveThreshold
<1>3. CASE Tick
  <2>1. CASE DrainBuffer("idle")
    BY <1>3, <2>1, DrainSafe DEF Tick
  <2>2. CASE UNCHANGED vars
    BY <2>2, QuietSafe DEF vars, disk
  <2> QED
    BY <1>3, <2>1, <2>2 DEF Tick
<1>4. CASE UNCHANGED vars
  BY <1>4, QuietSafe DEF vars, disk
<1> QED
  BY <1>1, <1>2, <1>3, <1>4, StoreSafe, WriteSafe, FinishFlushSafe,
     ReclaimStepsSafe, CrashSafe, ReplaySafe
  DEF Next, Flush, Replay

LEMMA StepIInv == IInv /\ [Next]_vars => IInv'
  BY TypeStep, PhaseStep, SafeStep DEF IInv, Safe

LEMMA Invariance == Spec => []IInv
  BY InitIInv, StepIInv, PTL DEF Spec

(* Whatever crashes and whichever I/O fails, an event that the log has     *)
(* taken can only be lost through one of the three named gaps; in          *)
(* particular no crash point of a reclaim loses one.                       *)
THEOREM OnlyKnownGaps == Spec => []NoOtherGap
<1>1. IInv => NoOtherGap
  BY DEF IInv
<1> QED
  BY <1>1, Invariance, PTL

(* With working I/O, the first restart loses no event the log has taken.   *)
THEOREM FirstRestartSafe == Spec => []SurvivesOneCrash
<1>1. IInv => SurvivesOneCrash
  BY DEF IInv, NoOtherGap, FirstLife, SurvivesOneCrash
<1> QED
  BY <1>1, Invariance, PTL

(* Where a batch comes from, so that NoOversizedBatch speaks of the one in *)
(* hand; and what a replay starts from.                                    *)
Accepts(batch) == \E i \in 1..sent : batch = Input[i]
BatchesAreInput ==
    /\ hand # <<>> => Accepts(hand)
    /\ \A j \in DOMAIN chan : Accepts(chan[j])
ReplayStartsAfresh == pc \in {"down", "replay"} => ReplayedBacklog
BufferInv == IInv /\ BatchesAreInput /\ ReplayStartsAfresh /\ BufferStaysLow

(* Ninety percent of four flushes is three flushes and more.               *)
LEMMA ThresholdRoom ==
  /\ Threshold \in Int /\ Capacity \in Int
  /\ Capacity - FlushRows <= Threshold /\ Threshold <= Capacity
  /\ 0 <= Threshold /\ 0 <= Capacity
<1>1. FlushRows \in Nat
  BY FlushRowsAssumption
<1>2. ASSUME NEW r \in Nat
      PROVE  /\ ((4 * r) * 9) \div 10 \in Int /\ 4 * r \in Int
             /\ 4 * r - r <= ((4 * r) * 9) \div 10 /\ ((4 * r) * 9) \div 10 <= 4 * r
             /\ 0 <= ((4 * r) * 9) \div 10 /\ 0 <= 4 * r
  OBVIOUS
<1> QED
  BY <1>1, <1>2 DEF Threshold, Capacity

LEMMA DrainShortens ==
  ASSUME TypeOK, NEW caller \in {"idle", "fit"}, DrainBuffer(caller)
  PROVE  /\ Len(buffer') \in Nat /\ Len(buffer) \in Nat
         /\ Len(buffer') <= Len(buffer)
         /\ Len(buffer') <= Len(buffer) - FlushRows \/ Len(buffer') = 0
<1> DEFINE n == Smaller(FlushRows, Len(buffer))
<1>1. /\ buffer \in Seq(Event) /\ Len(buffer) \in Nat
      /\ n \in 0..Len(buffer) /\ (n = FlushRows \/ n = Len(buffer))
  BY ConstantTypes DEF TypeOK, Smaller
<1>2. buffer' = SubSeq(buffer, n + 1, Len(buffer))
  BY DEF DrainBuffer, Popped
<1> HIDE DEF n
<1>3. Len(SubSeq(buffer, n + 1, Len(buffer))) = Len(buffer) - n
  BY <1>1
<1> QED
  BY <1>1, <1>2, <1>3, ConstantTypes

LEMMA BatchesStep == TypeOK /\ BatchesAreInput /\ [Next]_vars => BatchesAreInput'
<1> SUFFICES ASSUME TypeOK, BatchesAreInput, [Next]_vars PROVE BatchesAreInput'
  OBVIOUS
<1>0. /\ sent \in 0..Len(Input) /\ Len(Input) \in Nat /\ chan \in Seq(Seq(Event))
      /\ DOMAIN chan = 1..Len(chan) /\ Len(chan) \in Nat
  BY InputAssumption DEF TypeOK
<1>1. ASSUME UNCHANGED sent, hand' = <<>> \/ hand' = hand, chan' = <<>> \/ chan' = chan
      PROVE  BatchesAreInput'
  BY <1>1 DEF BatchesAreInput, Accepts
<1>2. CASE IngestEvents
  <2>1. /\ sent' = sent + 1 /\ hand' = hand /\ chan' = Append(chan, Input[sent + 1])
    BY <1>2 DEF IngestEvents
  <2>2. 1..sent \subseteq 1..sent' /\ sent + 1 \in 1..sent'
    BY <1>0, <2>1
  <2>3. /\ DOMAIN chan' = 1..(Len(chan) + 1)
        /\ \A j \in 1..Len(chan) : chan'[j] = chan[j]
        /\ chan'[Len(chan) + 1] = Input[sent + 1]
    <3>1. Input[sent + 1] \in Seq(Event)
      BY <1>2, InputAssumption DEF IngestEvents, TypeOK
    <3> QED
      BY <1>0, <2>1, <3>1
  <2>4. ASSUME NEW j \in DOMAIN chan' PROVE Accepts(chan[j])' \/ chan'[j] = Input[sent + 1]
    BY <1>0, <2>2, <2>3 DEF BatchesAreInput, Accepts
  <2>5. \A j \in DOMAIN chan' : \E i \in 1..sent' : chan'[j] = Input[i]
    BY <2>2, <2>4 DEF Accepts
  <2>6. hand' # <<>> => \E i \in 1..sent' : hand' = Input[i]
    BY <2>1, <2>2 DEF BatchesAreInput, Accepts
  <2> QED
    BY <2>5, <2>6 DEF BatchesAreInput, Accepts
<1>3. CASE Receive
  <2>1. chan # <<>> /\ hand' = Head(chan) /\ chan' = Tail(chan) /\ sent' = sent
    BY <1>3 DEF Receive
  <2>2. /\ Head(chan) = chan[1] /\ 1 \in DOMAIN chan
        /\ \A j \in DOMAIN chan' : j + 1 \in DOMAIN chan /\ chan'[j] = chan[j + 1]
    BY <1>0, <2>1
  <2> QED
    BY <2>1, <2>2 DEF BatchesAreInput, Accepts
<1>4. CASE StoreBatch
  BY <1>1, <1>4 DEF StoreBatch
<1>5. CASE FlushToFit \/ FlushAboveThreshold \/ Tick
  BY <1>1, <1>5 DEF FlushToFit, FlushAboveThreshold, Tick, DrainBuffer, vars
<1>6. CASE Flush
  BY <1>1, <1>6 DEF Flush, WritePartition, FinishFlush, DeleteSealed, RotateActive,
                    DropActive, ReclaimFails, memory
<1>7. CASE Crash \/ Open \/ Replay \/ UNCHANGED vars
  BY <1>1, <1>7 DEF Crash, Open, Replay, ReplaySegment, ReplayFails, StartWriter, memory, vars
<1> QED
  BY <1>2, <1>3, <1>4, <1>5, <1>6, <1>7 DEF Next

LEMMA AfreshStep == TypeOK /\ ReplayStartsAfresh /\ [Next]_vars => ReplayStartsAfresh'
<1> SUFFICES ASSUME TypeOK, ReplayStartsAfresh, [Next]_vars PROVE ReplayStartsAfresh'
  OBVIOUS
<1> USE DEF ReplayStartsAfresh, ReplayedBacklog
<1>1. CASE IngestEvents \/ Receive
  BY <1>1 DEF IngestEvents, Receive, Running, disk
<1>2. CASE FlushToFit \/ FlushAboveThreshold \/ Tick
  BY <1>2 DEF FlushToFit, FlushAboveThreshold, Tick, DrainBuffer, vars, disk
<1>3. CASE StoreBatch
  BY <1>3 DEF StoreBatch
<1>4. CASE Flush
  BY <1>4 DEF Flush, WritePartition, FinishFlush, DeleteSealed, RotateActive,
              DropActive, ReclaimFails, TypeOK
<1>5. CASE Crash
  BY <1>5, BoundsAssumption DEF Crash, TypeOK
<1>6. CASE Open \/ Replay \/ UNCHANGED vars
  BY <1>6 DEF Open, Replay, ReplaySegment, ReplayFails, StartWriter, disk, vars
<1> QED
  BY <1>1, <1>2, <1>3, <1>4, <1>5, <1>6 DEF Next

(* Only a push grows the buffer of a serving writer, and it asks first; the *)
(* flush behind a push that reached the threshold takes a quarter away.    *)
LEMMA BufferStep ==
  ASSUME BufferInv, [Next]_vars, TypeOK'
  PROVE  BufferStaysLow'
<1>0. /\ TypeOK /\ BufferStaysLow /\ ReplayStartsAfresh /\ ReclaimWhenEmpty /\ BatchesAreInput
      /\ Len(buffer) \in Nat /\ Len(buffer') \in Nat
      /\ sent \in 0..Len(Input) /\ sent' \in 0..Len(Input) /\ Len(Input) \in Nat
  <2>1. TypeOK /\ BufferStaysLow /\ ReplayStartsAfresh /\ ReclaimWhenEmpty /\ BatchesAreInput
    BY DEF BufferInv, IInv, Phase
  <2>2. /\ buffer \in Seq(Event) /\ buffer' \in Seq(Event)
        /\ sent \in 0..Len(Input) /\ sent' \in 0..Len(Input)
    BY <2>1 DEF TypeOK
  <2>3. Len(buffer) \in Nat /\ Len(buffer') \in Nat /\ Len(Input) \in Nat
    BY <2>2, InputAssumption, LenProperties
  <2> QED
    BY <2>1, <2>2, <2>3
<1> USE ThresholdRoom, ConstantTypes
<1>1. ASSUME UNCHANGED sent, Len(buffer') <= Len(buffer), pc' # "above", pc # "above",
             ReplayedBacklog => ReplayedBacklog'
      PROVE  BufferStaysLow'
  BY <1>0, <1>1 DEF BufferStaysLow, NoOversizedBatch
<1>2. ASSUME buffer' = <<>> PROVE BufferStaysLow'
  <2>1. Len(buffer') = 0
    BY <1>2
  <2> QED
    BY <2>1 DEF BufferStaysLow
<1>3. CASE IngestEvents
  <2>1. /\ sent' = sent + 1 /\ pc' = pc /\ buffer' = buffer
        /\ ReplayedBacklog' = ReplayedBacklog
    BY <1>3 DEF IngestEvents, disk, ReplayedBacklog
  <2>2. NoOversizedBatch' => NoOversizedBatch
    BY <1>0, <2>1 DEF NoOversizedBatch
  <2> QED
    BY <1>0, <2>1, <2>2 DEF BufferStaysLow
<1>4. CASE Receive
  BY <1>0, <1>1, <1>4 DEF Receive, disk, ReplayedBacklog
<1>5. CASE FlushToFit
  <2>1. DrainBuffer("fit") /\ pc = "fit"
    BY <1>5 DEF FlushToFit
  <2> QED
    BY <1>0, <1>1, <2>1, DrainShortens DEF DrainBuffer, disk, ReplayedBacklog
<1>6. CASE FlushAboveThreshold
  <2>1. DrainBuffer("idle") /\ pc' = "write"
    BY <1>6 DEF FlushAboveThreshold, DrainBuffer
  <2>2. UNCHANGED sent /\ ReplayedBacklog' = ReplayedBacklog
    BY <2>1 DEF DrainBuffer, disk, ReplayedBacklog
  <2>3. Len(buffer') <= Len(buffer) - FlushRows \/ Len(buffer') = 0
    BY <1>0, <2>1, DrainShortens
  <2>4. ASSUME Len(buffer) <= Capacity PROVE Len(buffer') <= Threshold
    <3>1. /\ Len(buffer) \in Int /\ Len(buffer') \in Int /\ FlushRows \in Int
          /\ Threshold \in Int /\ Capacity \in Int
      BY <1>0
    <3> QED
      BY <2>3, <2>4, <3>1
  <2> QED
    BY <1>0, <2>2, <2>4 DEF BufferStaysLow, NoOversizedBatch
<1>7. CASE Tick
  <2>1. CASE DrainBuffer("idle")
    BY <1>0, <1>1, <1>7, <2>1, DrainShortens DEF Tick, DrainBuffer, disk, ReplayedBacklog
  <2>2. CASE UNCHANGED vars
    BY <1>0, <1>1, <1>7, <2>2 DEF Tick, vars, ReplayedBacklog
  <2> QED
    BY <1>7, <2>1, <2>2 DEF Tick
<1>8. CASE StoreBatch
  <2>1. /\ Fits /\ buffer' = buffer \o hand /\ sent' = sent
        /\ pc' = IF AboveThreshold(Len(buffer')) THEN "above" ELSE "idle"
    BY <1>8 DEF StoreBatch
  <2>2. Len(buffer') = Len(buffer) + Len(hand) /\ Len(hand) \in Nat
    BY <1>0, <2>1 DEF TypeOK
  <2>3. ASSUME NoOversizedBatch PROVE Len(hand) <= Capacity
    <3>1. CASE hand = <<>>
      BY <3>1
    <3>2. CASE hand # <<>>
      BY <1>0, <2>3, <3>2 DEF BatchesAreInput, Accepts, NoOversizedBatch
    <3> QED
      BY <3>1, <3>2
  <2>4. ASSUME NoOversizedBatch PROVE Len(buffer') <= Capacity
    BY <1>0, <2>1, <2>2, <2>3, <2>4 DEF Fits
  <2>5. pc' # "above" => Len(buffer') <= Threshold
    BY <1>0, <2>1 DEF AboveThreshold
  <2>6. NoOversizedBatch' = NoOversizedBatch
    BY <2>1 DEF NoOversizedBatch
  <2> QED
    BY <2>4, <2>5, <2>6 DEF BufferStaysLow
<1>9. CASE \E p \in Partition : WritePartition(p)
  BY <1>0, <1>1, <1>9 DEF WritePartition, disk, ReplayedBacklog
<1>10. CASE FinishFlush
  BY <1>0, <1>1, <1>10 DEF FinishFlush, memory, ReplayedBacklog, TypeOK
<1>11. CASE DeleteSealed \/ RotateActive \/ DropActive \/ ReclaimFails
  <2>1. buffer' = <<>>
    BY <1>0, <1>11 DEF DeleteSealed, RotateActive, DropActive, ReclaimFails, memory,
                       ReclaimWhenEmpty, Reclaiming
  <2> QED
    BY <1>2, <2>1
<1>12. CASE Crash
  BY <1>2, <1>12 DEF Crash
<1>13. CASE Open
  BY <1>0, <1>1, <1>13 DEF Open, memory, disk, ReplayedBacklog
<1>14. CASE ReplaySegment \/ ReplayFails
  <2>1. ReplayedBacklog'
    BY <1>0, <1>14 DEF ReplaySegment, ReplayFails, ReplayStartsAfresh, ReplayedBacklog
  <2> QED
    BY <2>1 DEF BufferStaysLow
<1>15. CASE StartWriter
  BY <1>0, <1>1, <1>15 DEF StartWriter, memory, disk, ReplayedBacklog
<1>16. CASE UNCHANGED vars
  <2>1. UNCHANGED <<buffer, pc, sent, crashes, sealed, active>>
    BY <1>16 DEF vars
  <2> QED
    BY <1>0, <2>1 DEF BufferStaysLow, NoOversizedBatch, ReplayedBacklog
<1> QED
  BY <1>3, <1>4, <1>5, <1>6, <1>7, <1>8, <1>9, <1>10, <1>11, <1>12, <1>13, <1>14,
     <1>15, <1>16 DEF Next, Flush, Replay

(* writer.rs:60 "never let the buffer grow past capacity", for every stream *)
(* of batches, every crash and every failing I/O: with batches that can fit *)
(* the writer that has stored its first batch stays within the capacity,   *)
(* and at or below the threshold but between a push and the flush behind   *)
(* it.  A replay alone fills the buffer further.                           *)
THEOREM BufferLow == Spec => []BufferStaysLow
<1>1. Init => BufferInv
  <2> SUFFICES ASSUME Init PROVE BufferInv
    OBVIOUS
  <2>1. buffer = <<>> /\ Len(buffer) = 0 /\ hand = <<>> /\ chan = <<>> /\ pc = "idle"
    BY DEF Init
  <2>2. BufferStaysLow
    BY <2>1, ThresholdRoom DEF BufferStaysLow
  <2> QED
    BY <2>1, <2>2, InitIInv DEF BufferInv, BatchesAreInput, ReplayStartsAfresh
<1>2. BufferInv /\ [Next]_vars => BufferInv'
  <2> SUFFICES ASSUME BufferInv, [Next]_vars PROVE BufferInv'
    OBVIOUS
  <2>1. IInv /\ TypeOK /\ BatchesAreInput /\ ReplayStartsAfresh
    BY DEF BufferInv, IInv
  <2>2. IInv' /\ TypeOK'
    BY <2>1, StepIInv DEF IInv
  <2> QED
    BY <2>1, <2>2, BatchesStep, AfreshStep, BufferStep DEF BufferInv
<1>3. BufferInv => BufferStaysLow
  BY DEF BufferInv
<1> QED
  BY <1>1, <1>2, <1>3, PTL DEF Spec
-----------------------------------------------------------------------------
(***************************************************************************)
(* The store implements DurableLog, step by step.  Each status is a ring  *)
(* of Visible, Stored, Present and SentEvents, one inside the next, so a   *)
(* step is described by what it does to the four.                          *)
(***************************************************************************)
EachEventOnce ==
    \A i, j \in DOMAIN Input : i # j => Range(Input[i]) \cap Range(Input[j]) = {}

(* Between two batches the writer's hand is empty.                         *)
HandInUse ==
    hand # <<>> => pc = "fit" \/ (pc \in {"write", "reclaim", "dropActive"} /\ ret = "fit")

(* Nothing appears that was not sent, and until the first crash every     *)
(* event in memory is in the log as well, unless it is a row already.      *)
Nested == Present \subseteq SentEvents
BufferLogged == crashes = 0 /\ faults = 0 => InMemory \subseteq Tracked \cup Visible
LInv == IInv /\ HandInUse /\ Nested /\ BufferLogged

(* Where the events of a step come from and go to, on the rings.           *)
LEMMA Steady ==
  ASSUME Visible' = Visible, Stored' = Stored, Present' = Present, SentEvents' = SentEvents
  PROVE  UNCHANGED [e \in Event |-> StatusOf(e)]
  BY DEF StatusOf

LEMMA Accepted ==
  ASSUME NEW B \in SUBSET Event, B \cap SentEvents = {}, Present \subseteq SentEvents,
         Visible' = Visible, Stored' = Stored, Present' = Present \cup B,
         SentEvents' = SentEvents \cup B
  PROVE  Log!Next
<1>1. Visible \subseteq Stored /\ Stored \subseteq Present
  BY DEF Stored, Present
<1>2. \A e \in Event : /\ e \in B => StatusOf(e) = "new" /\ StatusOf(e)' = "queued"
                       /\ e \notin B => StatusOf(e)' = StatusOf(e)
  BY <1>1 DEF StatusOf
<1>3. Log!Accept
  BY <1>2 DEF Log!Accept, Log!In, Log!Move
<1> QED
  BY <1>3 DEF Log!Next

LEMMA Persisted ==
  ASSUME NEW B \in SUBSET Event, B \subseteq Present,
         Visible' = Visible, Stored' = Stored \cup B, Present' = Present,
         SentEvents' = SentEvents
  PROVE  Log!Next
<1>1. Visible \subseteq Stored /\ Stored \subseteq Present
  BY DEF Stored, Present
<1> DEFINE S == B \ Stored
<1>2. \A e \in Event : /\ e \in S => StatusOf(e) = "queued" /\ StatusOf(e)' = "durable"
                       /\ e \notin S => StatusOf(e)' = StatusOf(e)
  BY <1>1 DEF StatusOf
<1>3. S \subseteq Event
  OBVIOUS
<1> HIDE DEF S
<1>4. Log!Persist
  BY <1>2, <1>3 DEF Log!Persist, Log!In, Log!Move
<1> QED
  BY <1>4 DEF Log!Next

LEMMA Published ==
  ASSUME NEW B \in SUBSET Event, B \subseteq Stored,
         Visible' = Visible \cup B, Stored' = Stored, Present' = Present,
         SentEvents' = SentEvents
  PROVE  Log!Next
<1>1. Visible \subseteq Stored /\ Stored \subseteq Present
  BY DEF Stored, Present
<1> DEFINE S == B \ Visible
<1>2. \A e \in Event : /\ e \in S => StatusOf(e) = "durable" /\ StatusOf(e)' = "visible"
                       /\ e \notin S => StatusOf(e)' = StatusOf(e)
  BY <1>1 DEF StatusOf
<1>3. S \subseteq Event
  OBVIOUS
<1> HIDE DEF S
<1>4. Log!Publish
  BY <1>2, <1>3 DEF Log!Publish, Log!In, Log!Move
<1> QED
  BY <1>4 DEF Log!Next

LEMMA CutOff ==
  ASSUME Present \subseteq SentEvents,
         Visible' = Visible, Stored' = Stored, Present' = Stored, SentEvents' = SentEvents
  PROVE  Log!Next
<1>1. Visible \subseteq Stored /\ Stored \subseteq Present
  BY DEF Stored, Present
<1>2. \A e \in Event : StatusOf(e)' = IF StatusOf(e) = "queued" THEN "lost" ELSE StatusOf(e)
  BY <1>1 DEF StatusOf
<1>3. Log!Crash
  BY <1>2 DEF Log!Crash, Log!In, Log!Move
<1> QED
  BY <1>3 DEF Log!Next

(* The batches on their way.                                               *)
EventsIn(batches) == UNION {Range(batches[i]) : i \in DOMAIN batches}

LEMMA OneBatchMore ==
  ASSUME NEW s \in Seq(Seq(Event)), NEW b \in Seq(Event)
  PROVE  EventsIn(Append(s, b)) = EventsIn(s) \cup Range(b)
<1>1. /\ DOMAIN s = 1..Len(s) /\ DOMAIN Append(s, b) = 1..(Len(s) + 1) /\ Len(s) \in Nat
      /\ Append(s, b)[Len(s) + 1] = b /\ \A i \in 1..Len(s) : Append(s, b)[i] = s[i]
  BY AppendProperties, LenProperties
<1>2. \A i \in 1..(Len(s) + 1) : i \in 1..Len(s) \/ i = Len(s) + 1
  BY <1>1
<1>3. 1..Len(s) \subseteq 1..(Len(s) + 1) /\ Len(s) + 1 \in 1..(Len(s) + 1)
  BY <1>1
<1> DEFINE m == Append(s, b)
           top == Len(s) + 1
<1> HIDE DEF m, top
<1>4. /\ DOMAIN s = 1..Len(s) /\ DOMAIN m = 1..top /\ m[top] = b /\ top \in 1..top
      /\ \A i \in 1..Len(s) : m[i] = s[i] /\ i \in 1..top
      /\ \A i \in 1..top : i \in 1..Len(s) \/ i = top
  BY <1>1, <1>2, <1>3 DEF m, top
<1>5. EventsIn(m) \subseteq EventsIn(s) \cup Range(b)
  BY <1>4 DEF EventsIn
<1>6. EventsIn(s) \cup Range(b) \subseteq EventsIn(m)
  BY <1>4 DEF EventsIn
<1> QED
  BY <1>5, <1>6 DEF m

LEMMA OneBatchLess ==
  ASSUME NEW s \in Seq(Seq(Event)), s # <<>>
  PROVE  EventsIn(s) = Range(Head(s)) \cup EventsIn(Tail(s))
<1>1. /\ DOMAIN s = 1..Len(s) /\ Len(s) \in Nat \ {0} /\ Head(s) = s[1]
      /\ DOMAIN Tail(s) = 1..(Len(s) - 1) /\ \A i \in 1..(Len(s) - 1) : Tail(s)[i] = s[i + 1]
  BY HeadTailProperties, LenProperties, EmptySeq
<1> DEFINE t == Tail(s)
<1> HIDE DEF t
<1>2. EventsIn(s) \subseteq Range(Head(s)) \cup EventsIn(t)
  <2> SUFFICES ASSUME NEW e \in EventsIn(s), e \notin Range(Head(s)) PROVE e \in EventsIn(t)
    OBVIOUS
  <2>1. PICK i \in 1..Len(s) : e \in Range(s[i]) /\ i # 1
    BY <1>1 DEF EventsIn
  <2>2. i - 1 \in 1..(Len(s) - 1) /\ (i - 1) + 1 = i
    BY <1>1, <2>1
  <2>3. t[i - 1] = s[i] /\ i - 1 \in DOMAIN t
    BY <1>1, <2>2 DEF t
  <2> QED
    BY <2>1, <2>3 DEF EventsIn
<1>3. Range(Head(s)) \subseteq EventsIn(s)
  BY <1>1 DEF EventsIn
<1>4. EventsIn(t) \subseteq EventsIn(s)
  <2> SUFFICES ASSUME NEW e \in EventsIn(t) PROVE e \in EventsIn(s)
    OBVIOUS
  <2>1. PICK i \in 1..(Len(s) - 1) : e \in Range(t[i])
    BY <1>1 DEF EventsIn, t
  <2>2. i + 1 \in 1..Len(s) /\ t[i] = s[i + 1]
    BY <1>1, <2>1 DEF t
  <2> QED
    BY <1>1, <2>1, <2>2 DEF EventsIn
<1> QED
  BY <1>2, <1>3, <1>4 DEF t

LEMMA HandStep == IInv /\ HandInUse /\ [Next]_vars => HandInUse'
<1> SUFFICES ASSUME IInv, HandInUse, [Next]_vars PROVE HandInUse'
  OBVIOUS
<1>1. HandInUse /\ ret \in {"idle", "fit"} /\ DrainedOnlyInFlush
  BY DEF IInv, TypeOK, Phase
<1> USE <1>1 DEF HandInUse
<1>2. CASE IngestEvents
  BY <1>2 DEF IngestEvents
<1>3. CASE Receive
  BY <1>3 DEF Receive
<1>4. CASE FlushToFit \/ FlushAboveThreshold \/ Tick
  BY <1>4 DEF FlushToFit, FlushAboveThreshold, Tick, DrainBuffer, vars
<1>5. CASE StoreBatch
  BY <1>5 DEF StoreBatch
<1>6. CASE \E p \in Partition : WritePartition(p)
  BY <1>6 DEF WritePartition
<1>7. CASE FinishFlush
  BY <1>7 DEF FinishFlush, memory
<1>8. CASE DeleteSealed \/ RotateActive \/ DropActive \/ ReclaimFails
  BY <1>8 DEF DeleteSealed, RotateActive, DropActive, ReclaimFails, memory
<1>9. CASE Crash
  BY <1>9 DEF Crash
<1>10. CASE Open \/ StartWriter \/ ReplaySegment \/ ReplayFails
  BY <1>10 DEF Open, StartWriter, ReplaySegment, ReplayFails, memory
<1>11. CASE UNCHANGED vars
  BY <1>11 DEF vars
<1> QED
  BY <1>2, <1>3, <1>4, <1>5, <1>6, <1>7, <1>8, <1>9, <1>10, <1>11 DEF Next, Flush, Replay

(* What each step must show.                                               *)
Implements ==
    /\ Log!Next \/ UNCHANGED [e \in Event |-> StatusOf(e)]
    /\ Nested' /\ BufferLogged'

(* Steps that only move events about within memory, or within the log.     *)
LEMMA QuietRefines ==
  ASSUME LInv, Visible' = Visible, InMemory' = InMemory, Tracked' = Tracked,
         OnDisk' = OnDisk, Waiting' = Waiting, sent' = sent, crashes' = crashes,
         faults' = faults
  PROVE  Implements
<1>1. SentEvents' = SentEvents
  BY DEF SentEvents
<1>2. Stored' = Stored /\ Present' = Present
  BY DEF Stored, Present
<1> QED
  BY <1>1, <1>2, Steady DEF Implements, LInv, Nested, BufferLogged

LEMMA MemorySame ==
  ASSUME UNCHANGED <<buffer, draining, chan, hand>>
  PROVE  InMemory' = InMemory /\ Waiting' = Waiting
  BY DEF InMemory, Waiting

LEMMA IngestRefines == ASSUME LInv, EachEventOnce, IngestEvents PROVE Implements
<1> DEFINE B == Range(Input[sent + 1])
<1>a. Len(Input) \in Nat
  BY InputAssumption, LenProperties
<1>b. TypeOK /\ sent < Len(Input)
  BY DEF LInv, IInv, IngestEvents
<1>1. TypeOK /\ chan \in Seq(Seq(Event)) /\ sent \in Nat /\ sent < Len(Input) /\ Len(Input) \in Nat
  BY <1>a, <1>b DEF TypeOK
<1>2. sent + 1 \in DOMAIN Input /\ Input[sent + 1] \in Seq(Event)
  BY <1>1, InputAssumption
<1>3. /\ chan' = Append(chan, Input[sent + 1]) /\ sent' = sent + 1
      /\ UNCHANGED <<hand, buffer, draining, disk, rows, crashes, faults>>
  BY DEF IngestEvents
<1>4. EventsIn(chan') = EventsIn(chan) \cup B
  BY <1>1, <1>2, <1>3, OneBatchMore
<1>5. Waiting' = Waiting \cup B
  BY <1>3, <1>4 DEF Waiting, EventsIn
<1>6. SentEvents' = SentEvents \cup B
  <2>1. 1..(sent + 1) = (1..sent) \cup {sent + 1}
    BY <1>1
  <2> QED
    BY <1>3, <2>1 DEF SentEvents
<1>7. B \cap SentEvents = {}
  <2> SUFFICES ASSUME NEW i \in 1..sent PROVE Range(Input[i]) \cap B = {}
    BY DEF SentEvents
  <2>1. i \in DOMAIN Input /\ i # sent + 1
    BY <1>1, InputAssumption
  <2> QED
    BY <1>2, <2>1 DEF EachEventOnce
<1>8. B \in SUBSET Event
  BY <1>2 DEF Range
<1>9. /\ OnDisk' = OnDisk /\ Tracked' = Tracked /\ Visible' = Visible /\ InMemory' = InMemory
  BY <1>3, DiskSame DEF Visible, InMemory
<1>10. Stored' = Stored /\ Present' = Present \cup B
  BY <1>5, <1>9 DEF Stored, Present
<1> HIDE DEF B
<1>11. Log!Next
  BY <1>6, <1>7, <1>8, <1>9, <1>10, Accepted DEF LInv, Nested
<1> QED
  BY <1>3, <1>6, <1>9, <1>10, <1>11 DEF Implements, LInv, Nested, BufferLogged

LEMMA ReceiveRefines == ASSUME LInv, Receive PROVE Implements
<1>1. /\ chan \in Seq(Seq(Event)) /\ chan # <<>> /\ hand = <<>>
      /\ hand' = Head(chan) /\ chan' = Tail(chan)
      /\ UNCHANGED <<sent, buffer, draining, disk, rows, crashes, faults>>
  BY DEF Receive, LInv, IInv, TypeOK, HandInUse
<1>2. EventsIn(chan) = Range(hand') \cup EventsIn(chan')
  BY <1>1, OneBatchLess
<1>3. Range(hand) = {}
  BY <1>1 DEF Range
<1>4. Waiting' = Waiting
  BY <1>2, <1>3 DEF Waiting, EventsIn
<1>5. Visible' = Visible /\ InMemory' = InMemory
  BY <1>1 DEF Visible, InMemory
<1> QED
  BY <1>1, <1>4, <1>5, DiskSame, QuietRefines

LEMMA DrainRefines ==
  ASSUME LInv, pc # "write", NEW caller \in {"idle", "fit"}, DrainBuffer(caller)
  PROVE  Implements
<1>1. TypeOK /\ draining = NoneDrained
  BY DEF LInv, IInv, Phase, DrainedOnlyInFlush
<1>2. InMemory' = InMemory
  BY <1>1, DrainMemory
<1>3. UNCHANGED <<sent, chan, hand, disk, rows, crashes, faults>>
  BY DEF DrainBuffer
<1>4. Visible' = Visible /\ Waiting' = Waiting
  BY <1>3 DEF Visible, Waiting
<1> QED
  BY <1>2, <1>3, <1>4, DiskSame, QuietRefines

(* With working I/O no failure branch runs.                                *)
LEMMA NoFailures ==
  ASSUME TypeOK, MaxFaults = 0
  PROVE  ~Fault /\ faults = 0
  BY DEF TypeOK, Fault

LEMMA StoreRefines == ASSUME LInv, MaxFaults = 0, StoreBatch PROVE Implements
<1> DEFINE grown == WithRecord(active, hand)
<1>1. TypeOK /\ IInv /\ faults = 0 /\ active.torn = FALSE /\ AppendOk
  <2>1. TypeOK /\ IInv
    BY DEF LInv, IInv
  <2> QED
    BY <2>1, NoFailures DEF IInv, FirstLife, StoreBatch, AppendFails
<1>2. InMemory' = InMemory \cup Range(hand)
  BY <1>1, PushedBatch
<1>3. Tracked' = EventsOf(sealed) \cup EventsOf(doomed) \cup Range(grown.evs)
  BY <1>1, LoggedBatch
<1>4. Range(grown.evs) = Range(active.evs) \cup Range(hand)
  BY <1>1, GrownSegment
<1> HIDE DEF grown
<1>5. Tracked' = Tracked \cup Range(hand)
  BY <1>3, <1>4 DEF Tracked
<1>6. /\ UNCHANGED <<sent, chan, old, kept, rows, crashes>> /\ faults' = faults /\ hand' = <<>>
  BY <1>1 DEF StoreBatch, AppendOk, NoFault
<1>7. /\ Visible' = Visible /\ SentEvents' = SentEvents
      /\ EventsOf(old)' = EventsOf(old) /\ EventsOf(kept)' = EventsOf(kept)
  BY <1>6 DEF Visible, SentEvents, EventsOf
<1>8. Waiting = Waiting' \cup Range(hand)
  <2>1. Range(hand') = {}
    BY <1>6 DEF Range
  <2> QED
    BY <1>6, <2>1 DEF Waiting
<1>9. Stored' = Stored \cup Range(hand) /\ Present' = Present
  BY <1>2, <1>5, <1>7, <1>8 DEF Stored, Present, OnDisk
<1>10. Range(hand) \in SUBSET Event /\ Range(hand) \subseteq Present
  BY <1>1, <1>8 DEF TypeOK, Range, Present
<1>11. Log!Next
  BY <1>7, <1>9, <1>10, Persisted
<1>12. Nested' /\ BufferLogged'
  BY <1>1, <1>2, <1>5, <1>6, <1>7, <1>9 DEF LInv, Nested, BufferLogged
<1> QED
  BY <1>11, <1>12 DEF Implements

LEMMA WriteRefines ==
  ASSUME LInv, MaxFaults = 0, NEW p \in Partition, WritePartition(p)
  PROVE  Implements
<1> DEFINE mine == {e \in Event : PartitionOf[e] = p /\ draining[e] > 0}
           left == [e \in Event |-> IF e \in mine THEN 0 ELSE draining[e]]
           more == [e \in Event |-> IF e \in mine THEN rows[e] + draining[e] ELSE rows[e]]
<1>1. TypeOK /\ ~Fault
  BY NoFailures DEF LInv, IInv
<1>2. /\ UNCHANGED <<sent, chan, hand, buffer, disk, crashes>>
      /\ draining' = left /\ rows' = more /\ faults' = faults
  BY <1>1 DEF WritePartition, NoFault
<1>3. /\ Visible' = Visible \cup mine
      /\ InMemory' \subseteq InMemory /\ InMemory \subseteq InMemory' \cup mine
      /\ mine \subseteq InMemory /\ mine \in SUBSET Event
  <2>1. Visible' = Visible \cup mine
    BY <1>1, <1>2 DEF TypeOK, Visible
  <2>2. {e \in Event : draining[e] > 0} = {e \in Event : draining'[e] > 0} \cup mine
    BY <1>1, <1>2 DEF TypeOK
  <2> QED
    BY <1>2, <2>1, <2>2 DEF InMemory
<1> HIDE DEF mine, left, more
<1>4. Tracked' = Tracked /\ OnDisk' = OnDisk
  BY <1>2, DiskSame
<1>5. SentEvents' = SentEvents /\ Waiting' = Waiting
  BY <1>2 DEF SentEvents, Waiting
<1>6. Stored' = Stored /\ mine \subseteq Stored
  BY <1>3, <1>4 DEF Stored
<1>7. Present' = Present
  BY <1>5, <1>6 DEF Present
<1>8. Log!Next
  BY <1>3, <1>5, <1>6, <1>7, Published
<1>9. Nested' /\ BufferLogged'
  BY <1>2, <1>3, <1>4, <1>5, <1>7 DEF LInv, Nested, BufferLogged
<1> QED
  BY <1>8, <1>9 DEF Implements

(* A reclaim deletes only what queries already see.                        *)
LEMMA ReclaimVisible ==
  ASSUME LInv, MaxFaults = 0, MaxCrashes <= 1, pc \in Reclaiming
  PROVE  Tracked \subseteq Visible /\ InMemory = {}
<1>1. IInv /\ TypeOK /\ faults = 0 /\ crashes \in Nat /\ crashes <= 1
  <2>1. IInv /\ TypeOK
    BY DEF LInv, IInv
  <2>2. crashes \in 0 .. MaxCrashes
    BY <2>1 DEF TypeOK
  <2>3. faults = 0
    BY <2>1, NoFailures
  <2> QED
    BY <2>1, <2>2, <2>3, BoundsAssumption
<1>2. buffer = <<>> /\ draining = NoneDrained
  BY <1>1 DEF IInv, Phase, ReclaimWhenEmpty, DrainedOnlyInFlush, Reclaiming
<1>3. InMemory = {}
  BY <1>2 DEF InMemory, NoneDrained, Range
<1>4. Tracked \subseteq Visible \cup atRisk /\ atRisk \subseteq Visible \cup InMemory
  BY <1>1, ReclaimCovered DEF IInv, FirstLife
<1> QED
  BY <1>3, <1>4

LEMMA ReclaimRefines ==
  ASSUME LInv, MaxFaults = 0, MaxCrashes <= 1,
         DeleteSealed \/ RotateActive \/ DropActive \/ ReclaimFails
  PROVE  Implements
<1>1. /\ UNCHANGED <<sent, memory, old, kept, sealed, rows, crashes, faults>>
      /\ pc \in Reclaiming /\ TypeOK
      /\ DeleteSealed \/ RotateActive \/ DropActive
  <2>1. TypeOK /\ ~Fault
    BY NoFailures DEF LInv, IInv
  <2> QED
    BY <2>1 DEF DeleteSealed, RotateActive, DropActive, ReclaimFails, Reclaiming
<1>2. Tracked \subseteq Visible /\ InMemory = {}
  BY <1>1, ReclaimVisible
<1>3. /\ InMemory' = InMemory /\ Waiting' = Waiting /\ Visible' = Visible
      /\ SentEvents' = SentEvents
      /\ EventsOf(old)' = EventsOf(old) /\ EventsOf(kept)' = EventsOf(kept)
      /\ EventsOf(sealed)' = EventsOf(sealed)
  BY <1>1, MemorySame DEF memory, Visible, SentEvents, EventsOf
<1>4. Tracked' \subseteq Tracked
  <2>1. CASE DeleteSealed
    <3>1. EventsOf(doomed) = Range(Head(doomed).evs) \cup EventsOf(Tail(doomed))
      BY <1>1, <2>1, EventsOfHeadTail DEF DeleteSealed, TypeOK
    <3>2. EventsOf(doomed)' = EventsOf(Tail(doomed)) /\ active' = active
      BY <2>1 DEF DeleteSealed, EventsOf
    <3> QED
      BY <1>3, <3>1, <3>2 DEF Tracked
  <2>2. CASE RotateActive
    <3>1. active' = EmptySegment /\ doomed' = <<active>> /\ active \in Segment
      BY <1>1, <2>2 DEF RotateActive, TypeOK
    <3>2. EventsOf(doomed)' = Range(active.evs)
      BY <3>1, EventsOfOne DEF EventsOf
    <3>3. Range(active'.evs) = {}
      BY <3>1 DEF EmptySegment, Range
    <3> QED
      BY <1>3, <3>2, <3>3 DEF Tracked
  <2>3. CASE DropActive
    <3>1. EventsOf(doomed)' = {} /\ active' = active
      BY <2>3 DEF DropActive, EventsOf
    <3> QED
      BY <1>3, <3>1 DEF Tracked
  <2> QED
    BY <1>1, <2>1, <2>2, <2>3
<1>5. Stored' = Stored
  BY <1>2, <1>3, <1>4 DEF Stored, OnDisk
<1>6. Present' = Present
  BY <1>3, <1>5 DEF Present
<1>7. Nested' /\ BufferLogged'
  BY <1>2, <1>3, <1>6 DEF LInv, Nested, BufferLogged
<1> QED
  BY <1>3, <1>5, <1>6, <1>7, Steady DEF Implements

LEMMA FinishRefines == ASSUME LInv, FinishFlush PROVE Implements
<1>1. /\ UNCHANGED <<sent, memory, old, kept, active, rows, crashes, faults>>
      /\ pc = "write" /\ doomed = <<>>
      /\ \/ doomed' = sealed /\ sealed' = <<>>
         \/ doomed' = doomed /\ sealed' = sealed
  BY DEF FinishFlush, LInv, IInv, Phase, DoomedOnlyInReclaim, Reclaiming
<1>2. Tracked' = Tracked
  BY <1>1 DEF Tracked, EventsOf
<1>3. OnDisk' = OnDisk
  BY <1>1, <1>2 DEF OnDisk, EventsOf
<1>4. InMemory' = InMemory /\ Waiting' = Waiting /\ Visible' = Visible
  BY <1>1, MemorySame DEF memory, Visible
<1> QED
  BY <1>1, <1>2, <1>3, <1>4, QuietRefines

(* The first crash takes what is queued, and that alone.                   *)
LEMMA CrashRefines == ASSUME LInv, MaxFaults = 0, MaxCrashes <= 1, Crash PROVE Implements
<1>1. TypeOK /\ faults = 0 /\ crashes = 0 /\ crashes' = 1
  <2>1. TypeOK /\ faults = 0
    BY NoFailures DEF LInv, IInv
  <2>2. crashes \in Nat /\ crashes < MaxCrashes /\ MaxCrashes \in Nat /\ crashes' = crashes + 1
    BY <2>1, BoundsAssumption DEF TypeOK, Crash
  <2> QED
    BY <2>1, <2>2
<1>2. Tracked' = {} /\ EventsOf(kept)' = {} /\ EventsOf(old)' = OnDisk
  BY <1>1, CrashedLog
<1>3. OnDisk' = OnDisk
  BY <1>2 DEF OnDisk
<1>4. InMemory' = {} /\ Waiting' = {}
  BY DEF Crash, InMemory, Waiting, NoneDrained, Range
<1>5. Visible' = Visible /\ SentEvents' = SentEvents
  BY DEF Crash, Visible, SentEvents
<1>6. InMemory \subseteq OnDisk \cup Visible
  BY <1>1 DEF LInv, BufferLogged, OnDisk
<1>7. Stored' = Stored /\ Present' = Stored
  BY <1>3, <1>4, <1>5, <1>6 DEF Stored, Present
<1>8. Log!Next
  BY <1>5, <1>7, CutOff DEF LInv, Nested
<1>9. Nested' /\ BufferLogged'
  BY <1>1, <1>5, <1>7 DEF LInv, Nested, BufferLogged, Present
<1> QED
  BY <1>8, <1>9 DEF Implements

LEMMA ReplayRefines ==
  ASSUME LInv, MaxFaults = 0, ReplaySegment \/ ReplayFails
  PROVE  Implements
<1>1. /\ TypeOK /\ ReplaySegment /\ crashes # 0
  <2>1. TypeOK /\ ~Fault
    BY NoFailures DEF LInv, IInv
  <2> QED
    BY <2>1 DEF ReplayFails, ReplaySegment, LInv, IInv, FirstLife
<1>2. /\ old # <<>> /\ Head(old) \in Segment /\ Head(old).evs \in Seq(Event)
      /\ buffer' = buffer \o Head(old).evs /\ old' = Tail(old)
      /\ UNCHANGED <<sent, chan, hand, draining, kept, sealed, doomed, active, rows, crashes>>
  BY <1>1, HeadTailProperties, SegmentTypes DEF ReplaySegment, TypeOK
<1>3. EventsOf(old) = Range(Head(old).evs) \cup EventsOf(old)'
  <2>1. EventsOf(old) = Range(Head(old).evs) \cup EventsOf(Tail(old))
    BY <1>1, <1>2, EventsOfHeadTail DEF TypeOK
  <2> QED
    BY <1>2, <2>1 DEF EventsOf
<1>4. Range(buffer') = Range(buffer) \cup Range(Head(old).evs)
  BY <1>1, <1>2, RangeConcatenation DEF TypeOK
<1>5. InMemory' = InMemory \cup Range(Head(old).evs)
  BY <1>2, <1>4 DEF InMemory
<1>6. /\ Tracked' = Tracked /\ Visible' = Visible /\ EventsOf(kept)' = EventsOf(kept)
      /\ Waiting' = Waiting /\ SentEvents' = SentEvents
  BY <1>2 DEF Tracked, Visible, EventsOf, Waiting, SentEvents
<1>7. Stored' = Stored
  BY <1>3, <1>5, <1>6 DEF Stored, OnDisk
<1>8. Present' = Present
  BY <1>6, <1>7 DEF Present
<1>9. Nested' /\ BufferLogged'
  BY <1>1, <1>2, <1>6, <1>8 DEF LInv, Nested, BufferLogged
<1> QED
  BY <1>6, <1>7, <1>8, <1>9, Steady DEF Implements

LEMMA Refines ==
  ASSUME MaxFaults = 0, MaxCrashes <= 1, EachEventOnce, LInv, [Next]_vars
  PROVE  Implements
<1>1. CASE FlushToFit \/ FlushAboveThreshold
  BY <1>1, DrainRefines DEF FlushToFit, FlushAboveThreshold
<1>2. CASE UNCHANGED vars
  <2>1. InMemory' = InMemory /\ Waiting' = Waiting /\ Visible' = Visible
    BY <1>2, MemorySame DEF vars, Visible
  <2> QED
    BY <1>2, <2>1, DiskSame, QuietRefines DEF vars, disk
<1>3. CASE Tick
  BY <1>2, <1>3, DrainRefines DEF Tick
<1>4. CASE Open \/ StartWriter
  <2>1. UNCHANGED <<memory, disk, sent, rows, crashes, faults>>
    BY <1>4 DEF Open, StartWriter
  <2>2. InMemory' = InMemory /\ Waiting' = Waiting /\ Visible' = Visible
    BY <2>1, MemorySame DEF memory, Visible
  <2> QED
    BY <2>1, <2>2, DiskSame, QuietRefines
<1> QED
  BY <1>1, <1>2, <1>3, <1>4, IngestRefines, ReceiveRefines, StoreRefines, WriteRefines,
     FinishRefines, ReclaimRefines, CrashRefines, ReplayRefines
  DEF Next, Flush, Replay

LEMMA StartsEmpty == Init => LInv /\ Log!Init
<1> SUFFICES ASSUME Init PROVE LInv /\ Log!Init
  OBVIOUS
<1>1. IInv
  BY InitIInv
<1>2. OnDisk = {} /\ InMemory = {} /\ Visible = {} /\ Waiting = {} /\ SentEvents = {}
  BY EventsOfEmpty
  DEF Init, OnDisk, Tracked, InMemory, Visible, Waiting, SentEvents, EmptySegment,
      NoneDrained, Range
<1>3. Stored = {} /\ Present = {}
  BY <1>2 DEF Stored, Present
<1>4. \A e \in Event : StatusOf(e) = "new"
  BY <1>2, <1>3 DEF StatusOf
<1> QED
  BY <1>1, <1>2, <1>3, <1>4 DEF LInv, HandInUse, Nested, BufferLogged, Init, Log!Init

(* While its I/O works and the server crashes at most once, every run of   *)
(* the store is one of DurableLog: an event that has reached the log or    *)
(* the buffer is published and never lost, whatever flush, reclaim or      *)
(* replay does in between, and the crash takes exactly what was queued.    *)
THEOREM StoreRefinesLog ==
  ASSUME MaxFaults = 0, MaxCrashes <= 1, EachEventOnce
  PROVE  Spec => Log!Spec
<1>1. Init => LInv /\ Log!Init
  BY StartsEmpty
<1>2. LInv /\ [Next]_vars => LInv' /\ [Log!Next]_[e \in Event |-> StatusOf(e)]
  BY StepIInv, HandStep, Refines DEF LInv, Implements
<1> QED
  BY <1>1, <1>2, PTL DEF Spec, Log!Spec
-----------------------------------------------------------------------------
(* Counting.                                                               *)

(* Two sets that a pair of inverse functions relates.                      *)
Paired(S, T) ==
    \E f \in [S -> T], g \in [T -> S] :
       (\A x \in S : g[f[x]] = x) /\ (\A y \in T : f[g[y]] = y)

LEMMA SameSize ==
  ASSUME NEW S, NEW T, IsFiniteSet(S), Paired(S, T)
  PROVE  IsFiniteSet(T) /\ Cardinality(T) = Cardinality(S)
<1>0. PICK f \in [S -> T], g \in [T -> S] :
        (\A x \in S : g[f[x]] = x) /\ (\A y \in T : f[g[y]] = y)
  BY DEF Paired
<1>1. f \in Surjection(S, T) /\ g \in Surjection(T, S)
  BY <1>0 DEF Surjection
<1>2. IsFiniteSet(T) /\ Cardinality(T) <= Cardinality(S)
  BY <1>1, FS_Surjection
<1>3. Cardinality(S) <= Cardinality(T)
  BY <1>1, <1>2, FS_Surjection
<1>4. Cardinality(S) \in Nat /\ Cardinality(T) \in Nat
  BY <1>2, FS_CardinalityType
<1> QED
  BY <1>2, <1>3, <1>4

LEMMA TwoParts ==
  ASSUME NEW S, NEW T, IsFiniteSet(S), IsFiniteSet(T), S \cap T = {}
  PROVE  Cardinality(S \cup T) = Cardinality(S) + Cardinality(T)
<1>1. Cardinality(S \cap T) = 0
  BY FS_EmptySet
<1>2. Cardinality(S \cup T) = Cardinality(S) + Cardinality(T) - Cardinality(S \cap T)
  BY FS_Union
<1>3. Cardinality(S) \in Nat /\ Cardinality(T) \in Nat
  BY FS_CardinalityType
<1> QED
  BY <1>1, <1>2, <1>3

LEMMA TimesType ==
  ASSUME NEW s \in Seq(Event), NEW e
  PROVE  IsFiniteSet({i \in DOMAIN s : s[i] = e}) /\ Times(e, s) \in Nat
<1>1. Len(s) \in Nat /\ DOMAIN s = 1..Len(s)
  BY LenProperties
<1>2. IsFiniteSet(1..Len(s))
  BY <1>1, FS_Interval
<1>3. IsFiniteSet({i \in DOMAIN s : s[i] = e})
  BY <1>1, <1>2, FS_Subset
<1> QED
  BY <1>3, FS_CardinalityType DEF Times

LEMMA TimesNone == \A e : Times(e, <<>>) = 0
<1> TAKE e
<1>1. {i \in DOMAIN <<>> : <<>>[i] = e} = {}
  OBVIOUS
<1> QED
  BY <1>1, FS_EmptySet DEF Times

LEMMA TimesConcat ==
  ASSUME NEW s \in Seq(Event), NEW t \in Seq(Event), NEW e
  PROVE  Times(e, s \o t) = Times(e, s) + Times(e, t)
<1> DEFINE st == s \o t
           n == Len(s)
           A == {i \in DOMAIN s : s[i] = e}
           B == {i \in DOMAIN t : t[i] = e}
           D == {i \in (n + 1)..(n + Len(t)) : t[i - n] = e}
<1>1. /\ n \in Nat /\ Len(t) \in Nat /\ DOMAIN s = 1..n /\ DOMAIN t = 1..Len(t)
      /\ DOMAIN st = 1..(n + Len(t))
      /\ \A i \in 1..(n + Len(t)) : st[i] = IF i <= n THEN s[i] ELSE t[i - n]
  BY ConcatProperties, LenProperties
<1> HIDE DEF st, n
<1>2. IsFiniteSet(A) /\ IsFiniteSet(B) /\ Times(e, s) = Cardinality(A) /\ Times(e, t) = Cardinality(B)
  BY TimesType DEF Times
<1>3. {i \in DOMAIN st : st[i] = e} = A \cup D
  <2>1. \A i \in 1..(n + Len(t)) : i \in 1..n \/ i \in (n + 1)..(n + Len(t))
    BY <1>1
  <2>2. \A i \in 1..n : i \in 1..(n + Len(t)) /\ i <= n
    BY <1>1
  <2>3. \A i \in (n + 1)..(n + Len(t)) : i \in 1..(n + Len(t)) /\ ~(i <= n)
    BY <1>1
  <2> QED
    BY <1>1, <2>1, <2>2, <2>3
<1>4. A \cap D = {}
  BY <1>1
<1>5. IsFiniteSet(D) /\ Cardinality(D) = Cardinality(B)
  <2> DEFINE f == [i \in B |-> i + n]
             g == [i \in D |-> i - n]
  <2>1. \A i \in B : i + n \in D /\ (i + n) - n = i
    BY <1>1
  <2>2. \A i \in D : i - n \in B /\ (i - n) + n = i
    BY <1>1
  <2>3. f \in [B -> D] /\ g \in [D -> B]
    BY <2>1, <2>2
  <2>4. (\A x \in B : g[f[x]] = x) /\ (\A y \in D : f[g[y]] = y)
    BY <2>1, <2>2
  <2>5. Paired(B, D)
    BY <2>3, <2>4 DEF Paired
  <2> HIDE DEF f, g, B, D
  <2>6. IsFiniteSet(B)
    BY <1>2
  <2> QED
    BY <2>5, <2>6, SameSize
<1>6. Cardinality(A \cup D) = Cardinality(A) + Cardinality(D)
  BY <1>2, <1>4, <1>5, TwoParts
<1>7. Times(e, st) = Cardinality(A \cup D)
  BY <1>3 DEF Times
<1> QED
  BY <1>2, <1>5, <1>6, <1>7 DEF st

(* The first n events and the others.                                      *)
LEMMA TimesSplit ==
  ASSUME NEW s \in Seq(Event), NEW n \in 0..Len(s), NEW e
  PROVE  /\ SubSeq(s, 1, n) \in Seq(Event) /\ SubSeq(s, n + 1, Len(s)) \in Seq(Event)
         /\ Times(e, s) = Cardinality({i \in 1..n : s[i] = e}) + Times(e, SubSeq(s, n + 1, Len(s)))
         /\ Times(e, s) = Times(e, SubSeq(s, 1, n)) + Times(e, SubSeq(s, n + 1, Len(s)))
<1> DEFINE first == SubSeq(s, 1, n)
           rest == SubSeq(s, n + 1, Len(s))
<1>1. n \in Nat /\ Len(s) \in Nat /\ n <= Len(s) /\ \A i \in 1..Len(s) : s[i] \in Event
  BY LenProperties, ElementOfSeq
<1>2. /\ first \in Seq(Event) /\ Len(first) = n
      /\ \A i \in 1..n : first[i] = s[i]
  <2>1. /\ first \in Seq(Event) /\ Len(first) = IF 1 <= n THEN n - 1 + 1 ELSE 0
        /\ \A i \in 1..n - 1 + 1 : first[i] = s[1 + i - 1]
    <3>1. \A i \in 1..n : s[i] \in Event
      BY <1>1
    <3> QED
      BY <1>1, <3>1, SubSeqProperties
  <2> QED
    BY <1>1, <2>1
<1>3. rest \in Seq(Event)
  <2>1. \A i \in (n + 1)..Len(s) : s[i] \in Event
    BY <1>1
  <2> QED
    BY <1>1, <2>1, SubSeqProperties
<1>4. s = first \o rest
  <2>1. s = SubSeq(s, 1, Len(s))
    BY SubSeqFull
  <2>2. SubSeq(s, 1, n) \o SubSeq(s, n + 1, Len(s)) = SubSeq(s, 1, Len(s))
    <3>1. 1 \in 1..Len(s) + 1 /\ n \in (1 - 1)..Len(s) /\ Len(s) \in n..Len(s)
      BY <1>1
    <3> QED
      BY <3>1, ConcatAdjacentSubSeq
  <2> QED
    BY <2>1, <2>2
<1>5. Times(e, first) = Cardinality({i \in 1..n : s[i] = e})
  <2>1. {i \in DOMAIN first : first[i] = e} = {i \in 1..n : s[i] = e}
    BY <1>2, LenProperties
  <2> QED
    BY <2>1 DEF Times
<1> HIDE DEF first, rest
<1>6. Times(e, s) = Times(e, first) + Times(e, rest)
  BY <1>2, <1>3, <1>4, TimesConcat
<1> QED
  BY <1>2, <1>3, <1>5, <1>6 DEF first, rest

(* The places of an event in a list of batches.                            *)
Spots(e, batches) ==
    {q \in UNION {{i} \X DOMAIN batches[i] : i \in DOMAIN batches} : batches[q[1]][q[2]] = e}
In(e, batches) == Cardinality(Spots(e, batches))

LEMMA Spot ==
  ASSUME NEW batches, NEW e, NEW q
  PROVE  q \in Spots(e, batches) <=>
           \E i \in DOMAIN batches : \E k \in DOMAIN batches[i] : q = <<i, k>> /\ batches[i][k] = e
<1>1. ASSUME q \in Spots(e, batches)
      PROVE  \E i \in DOMAIN batches : \E k \in DOMAIN batches[i] : q = <<i, k>> /\ batches[i][k] = e
  <2>1. PICK i \in DOMAIN batches : q \in {i} \X DOMAIN batches[i] /\ batches[q[1]][q[2]] = e
    BY <1>1 DEF Spots
  <2>2. q = <<i, q[2]>> /\ q[1] = i /\ q[2] \in DOMAIN batches[i]
    BY <2>1
  <2> QED
    BY <2>1, <2>2
<1>2. ASSUME NEW i \in DOMAIN batches, NEW k \in DOMAIN batches[i], q = <<i, k>>, batches[i][k] = e
      PROVE  q \in Spots(e, batches)
  <2>1. q \in {i} \X DOMAIN batches[i] /\ q[1] = i /\ q[2] = k
    BY <1>2
  <2> QED
    BY <1>2, <2>1 DEF Spots
<1> QED
  BY <1>1, <1>2

LEMMA InType ==
  ASSUME NEW batches \in Seq(Seq(Event)), NEW e
  PROVE  IsFiniteSet(Spots(e, batches)) /\ In(e, batches) \in Nat
<1> DEFINE I == DOMAIN batches
           Row(i) == {i} \X DOMAIN batches[i]
           Rows == {Row(i) : i \in I}
           f == [i \in I |-> Row(i)]
<1>1. IsFiniteSet(I)
  <2>1. Len(batches) \in Nat /\ I = 1..Len(batches)
    BY LenProperties
  <2> QED
    BY <2>1, FS_Interval
<1>2. f \in Surjection(I, Rows)
  BY DEF Surjection
<1>3. IsFiniteSet(Rows)
  <2> HIDE DEF f, Rows, I
  <2> QED
    BY <1>1, <1>2, FS_Surjection
<1>4. \A T \in Rows : IsFiniteSet(T)
  <2> SUFFICES ASSUME NEW i \in I PROVE IsFiniteSet(Row(i))
    OBVIOUS
  <2>1. batches[i] \in Seq(Event)
    BY ElementOfSeq, LenProperties
  <2>2. Len(batches[i]) \in Nat /\ DOMAIN batches[i] = 1..Len(batches[i])
    BY <2>1, LenProperties
  <2>3. IsFiniteSet(DOMAIN batches[i])
    BY <2>2, FS_Interval
  <2>4. IsFiniteSet({i})
    BY FS_Singleton
  <2> QED
    BY <2>3, <2>4, FS_Product
<1>5. IsFiniteSet(UNION Rows)
  <2> HIDE DEF Rows
  <2> QED
    BY <1>3, <1>4, FS_UNION
<1>6. Spots(e, batches) \subseteq UNION Rows
  BY DEF Spots
<1>7. IsFiniteSet(Spots(e, batches))
  BY <1>5, <1>6, FS_Subset
<1> QED
  BY <1>7, FS_CardinalityType DEF In

LEMMA InNone == \A e : In(e, <<>>) = 0
<1> TAKE e
<1>1. Spots(e, <<>>) = {}
  BY DEF Spots
<1> QED
  BY <1>1, FS_EmptySet DEF In

LEMMA InOne ==
  ASSUME NEW s \in Seq(Event), NEW e
  PROVE  In(e, <<s>>) = Times(e, s)
<1> DEFINE A == {i \in DOMAIN s : s[i] = e}
           T == Spots(e, <<s>>)
<1>1. IsFiniteSet(A) /\ Times(e, s) = Cardinality(A)
  BY TimesType DEF Times
<1>2. \A q : q \in T <=> \E k \in A : q = <<1, k>>
  <2>1. DOMAIN <<s>> = {1} /\ <<s>>[1] = s
    OBVIOUS
  <2> TAKE q
  <2>2. q \in T <=> \E i \in DOMAIN <<s>> : \E k \in DOMAIN <<s>>[i] : q = <<i, k>> /\ <<s>>[i][k] = e
    BY Spot
  <2> QED
    BY <2>1, <2>2
<1> HIDE DEF A, T
<1>3. Paired(A, T)
  <2> DEFINE f == [k \in A |-> <<1, k>>]
             g == [q \in T |-> q[2]]
  <2>1. f \in [A -> T] /\ g \in [T -> A]
    BY <1>2
  <2>2. (\A x \in A : g[f[x]] = x) /\ (\A y \in T : f[g[y]] = y)
    BY <1>2
  <2> HIDE DEF f, g
  <2> QED
    BY <2>1, <2>2 DEF Paired
<1> QED
  BY <1>1, <1>3, SameSize DEF In, T

LEMMA InConcat ==
  ASSUME NEW s \in Seq(Seq(Event)), NEW t \in Seq(Seq(Event)), NEW e
  PROVE  In(e, s \o t) = In(e, s) + In(e, t)
<1> DEFINE st == s \o t
           n == Len(s)
           A == Spots(e, s)
           B == Spots(e, t)
           D == {<<q[1] + n, q[2]>> : q \in B}
<1>1. /\ n \in Nat /\ Len(t) \in Nat /\ DOMAIN s = 1..n /\ DOMAIN t = 1..Len(t)
      /\ DOMAIN st = 1..(n + Len(t))
      /\ \A i \in 1..(n + Len(t)) : st[i] = IF i <= n THEN s[i] ELSE t[i - n]
  BY ConcatProperties, LenProperties
<1>2. IsFiniteSet(A) /\ IsFiniteSet(B)
  BY InType
<1>3. /\ \A q : q \in A <=> \E i \in 1..n : \E k \in DOMAIN s[i] : q = <<i, k>> /\ s[i][k] = e
      /\ \A q : q \in B <=> \E i \in 1..Len(t) : \E k \in DOMAIN t[i] : q = <<i, k>> /\ t[i][k] = e
  <2>1. \A q : q \in A <=> \E i \in DOMAIN s : \E k \in DOMAIN s[i] : q = <<i, k>> /\ s[i][k] = e
    BY Spot
  <2>2. \A q : q \in B <=> \E i \in DOMAIN t : \E k \in DOMAIN t[i] : q = <<i, k>> /\ t[i][k] = e
    BY Spot
  <2>3. DOMAIN s = 1..n /\ DOMAIN t = 1..Len(t)
    BY <1>1
  <2> HIDE DEF A, B, n
  <2> QED
    BY <2>1, <2>2, <2>3
<1>4. \A q : q \in Spots(e, st) <=>
                \E i \in 1..(n + Len(t)) : \E k \in DOMAIN st[i] : q = <<i, k>> /\ st[i][k] = e
  <2>1. \A q : q \in Spots(e, st) <=>
                  \E i \in DOMAIN st : \E k \in DOMAIN st[i] : q = <<i, k>> /\ st[i][k] = e
    BY Spot
  <2>2. DOMAIN st = 1..(n + Len(t))
    BY <1>1
  <2> HIDE DEF st, n
  <2> QED
    BY <2>1, <2>2
<1> HIDE DEF st, n, A, B
<1>5. \A q : q \in D <=> \E i \in 1..Len(t) : \E k \in DOMAIN t[i] : q = <<i + n, k>> /\ t[i][k] = e
  <2> TAKE q
  <2>1. ASSUME q \in D PROVE \E i \in 1..Len(t) : \E k \in DOMAIN t[i] : q = <<i + n, k>> /\ t[i][k] = e
    <3>1. PICK p \in B : q = <<p[1] + n, p[2]>>
      BY <2>1
    <3>2. PICK i \in 1..Len(t) : \E k \in DOMAIN t[i] : p = <<i, k>> /\ t[i][k] = e
      BY <1>3
    <3> QED
      BY <3>1, <3>2
  <2>2. ASSUME NEW i \in 1..Len(t), NEW k \in DOMAIN t[i], q = <<i + n, k>>, t[i][k] = e PROVE q \in D
    <3> DEFINE p == <<i, k>>
    <3>1. p \in B /\ p[1] = i /\ p[2] = k
      BY <1>3, <2>2
    <3> HIDE DEF p
    <3>2. q = <<p[1] + n, p[2]>>
      BY <2>2, <3>1
    <3> QED
      BY <3>1, <3>2
  <2> QED
    BY <2>1, <2>2
<1>6. Spots(e, st) = A \cup D
  <2>1. ASSUME NEW q \in Spots(e, st) PROVE q \in A \cup D
    <3>1. PICK i \in 1..(n + Len(t)) : \E k \in DOMAIN st[i] : q = <<i, k>> /\ st[i][k] = e
      BY <1>4
    <3>2. CASE i <= n
      <4>1. i \in 1..n /\ st[i] = s[i]
        BY <1>1, <3>2
      <4> QED
        BY <1>3, <3>1, <4>1
    <3>3. CASE ~(i <= n)
      <4>1. i - n \in 1..Len(t) /\ st[i] = t[i - n] /\ (i - n) + n = i
        BY <1>1, <3>3
      <4> QED
        BY <1>5, <3>1, <4>1
    <3> QED
      BY <3>2, <3>3
  <2>2. ASSUME NEW q \in A PROVE q \in Spots(e, st)
    <3>1. PICK i \in 1..n : \E k \in DOMAIN s[i] : q = <<i, k>> /\ s[i][k] = e
      BY <1>3
    <3>2. i \in 1..(n + Len(t)) /\ st[i] = s[i]
      BY <1>1
    <3> QED
      BY <1>4, <3>1, <3>2
  <2>3. ASSUME NEW q \in D PROVE q \in Spots(e, st)
    <3>1. PICK i \in 1..Len(t) : \E k \in DOMAIN t[i] : q = <<i + n, k>> /\ t[i][k] = e
      BY <1>5
    <3>2. i + n \in 1..(n + Len(t)) /\ ~(i + n <= n) /\ (i + n) - n = i
      BY <1>1
    <3>3. st[i + n] = t[i]
      BY <1>1, <3>2
    <3> QED
      BY <1>4, <3>1, <3>2, <3>3
  <2> QED
    BY <2>1, <2>2, <2>3
<1>7. A \cap D = {}
  <2> SUFFICES ASSUME NEW q \in A, q \in D PROVE FALSE
    OBVIOUS
  <2>1. PICK i \in 1..n : q[1] = i
    BY <1>3
  <2> HIDE DEF D
  <2>2. PICK j \in 1..Len(t) : q[1] = j + n
    <3>1. PICK j \in 1..Len(t) : \E k \in DOMAIN t[j] : q = <<j + n, k>> /\ t[j][k] = e
      BY <1>5
    <3>2. q[1] = j + n
      BY <3>1
    <3> QED
      BY <3>2
  <2> QED
    BY <1>1, <2>1, <2>2
<1>8. Paired(B, D)
  <2> DEFINE f == [q \in B |-> <<q[1] + n, q[2]>>]
             g == [q \in D |-> <<q[1] - n, q[2]>>]
  <2>1. ASSUME NEW q \in B PROVE <<q[1] + n, q[2]>> \in D /\ <<(q[1] + n) - n, q[2]>> = q
    <3>1. PICK i \in 1..Len(t) : \E k \in DOMAIN t[i] : q = <<i, k>>
      BY <1>3
    <3>2. (i + n) - n = i
      BY <1>1
    <3>3. q[1] = i /\ q = <<i, q[2]>>
      BY <3>1
    <3>4. <<q[1] + n, q[2]>> \in D
      OBVIOUS
    <3> QED
      BY <3>2, <3>3, <3>4
  <2>2. ASSUME NEW q \in D PROVE <<q[1] - n, q[2]>> \in B /\ <<(q[1] - n) + n, q[2]>> = q
    <3>1. PICK i \in 1..Len(t) : \E k \in DOMAIN t[i] : q = <<i + n, k>> /\ t[i][k] = e
      BY <1>5
    <3>2. (i + n) - n = i
      BY <1>1
    <3>3. PICK k \in DOMAIN t[i] : q = <<i + n, k>> /\ t[i][k] = e
      BY <3>1
    <3>4. <<i, k>> \in B
      BY <1>3, <3>3
    <3> QED
      BY <3>2, <3>3, <3>4
  <2> HIDE DEF D
  <2>3. f \in [B -> D] /\ g \in [D -> B]
    BY <2>1, <2>2
  <2>4. ASSUME NEW x \in B PROVE g[f[x]] = x
    <3>1. f[x] = <<x[1] + n, x[2]>> /\ f[x] \in D
      BY <2>1
    <3>2. g[f[x]] = <<f[x][1] - n, f[x][2]>>
      BY <3>1
    <3>3. f[x][1] = x[1] + n /\ f[x][2] = x[2]
      BY <3>1
    <3> HIDE DEF f, g
    <3> QED
      BY <2>1, <3>2, <3>3
  <2>5. ASSUME NEW y \in D PROVE f[g[y]] = y
    <3>1. g[y] = <<y[1] - n, y[2]>> /\ g[y] \in B
      BY <2>2
    <3>2. f[g[y]] = <<g[y][1] + n, g[y][2]>>
      BY <3>1
    <3>3. g[y][1] = y[1] - n /\ g[y][2] = y[2]
      BY <3>1
    <3> HIDE DEF f, g
    <3> QED
      BY <2>2, <3>2, <3>3
  <2> HIDE DEF f, g
  <2> QED
    BY <2>3, <2>4, <2>5 DEF Paired
<1> HIDE DEF D
<1>9. IsFiniteSet(D) /\ Cardinality(D) = Cardinality(B)
  BY <1>2, <1>8, SameSize
<1>10. Cardinality(A \cup D) = Cardinality(A) + Cardinality(D)
  BY <1>2, <1>7, <1>9, TwoParts
<1> QED
  BY <1>6, <1>9, <1>10 DEF In, st, A, B
-----------------------------------------------------------------------------
(***************************************************************************)
(* How many copies of an event there can be.  The log holds one copy at    *)
(* most, and none of an event that is still on its way to it, so a restart *)
(* adds no more than one to what Parquet and memory have.                  *)
(***************************************************************************)
Logs(segs) == [i \in DOMAIN segs |-> segs[i].evs]
InLog(e, segs) == In(e, Logs(segs))
Underway(e) == Times(e, hand) + In(e, chan)
Logged(e) ==
    InLog(e, kept) + InLog(e, old) + InLog(e, doomed) + InLog(e, sealed) + Times(e, active.evs)

CopiesAt(e) ==
    /\ e \notin SentEvents => Copies(e) = 0 /\ Logged(e) = 0
    /\ Logged(e) + Underway(e) <= 1
    /\ Copies(e) + InLog(e, old) <= 1 + crashes
    /\ crashes = 0 /\ faults = 0 /\ e \in SentEvents => Copies(e) = 1

ReplayedWhenRunning == Running => old = <<>>
CountInv == ReplayedWhenRunning /\ \A e \in Event : CopiesAt(e)
RowInv == IInv /\ HandInUse /\ CountInv

(* Each event is one object: no two places of the input hold the same.     *)
EventsAreDistinct ==
    /\ EachEventOnce
    /\ \A i \in DOMAIN Input : \A e \in Event : Times(e, Input[i]) <= 1

LEMMA SameInterval == \A m, n \in Nat : 1..m = 1..n => m = n
<1> SUFFICES ASSUME NEW m \in Nat, NEW n \in Nat, 1..m = 1..n, m # n PROVE FALSE
  OBVIOUS
<1>1. CASE m < n
  <2>1. n \in 1..n /\ n \notin 1..m
    BY <1>1
  <2> QED
    BY <2>1
<1>2. CASE n < m
  <2>1. m \in 1..m /\ m \notin 1..n
    BY <1>2
  <2> QED
    BY <2>1
<1> QED
  BY <1>1, <1>2

LEMMA LogsTyped ==
  ASSUME NEW s \in Seq(Segment)
  PROVE  Logs(s) \in Seq(Seq(Event)) /\ Len(Logs(s)) = Len(s)
<1>1. Len(s) \in Nat /\ DOMAIN s = 1..Len(s) /\ \A i \in 1..Len(s) : s[i] \in Segment
  BY LenProperties, ElementOfSeq
<1>2. \A i \in 1..Len(s) : s[i].evs \in Seq(Event)
  BY <1>1 DEF Segment
<1>3. Logs(s) \in [1..Len(s) -> Seq(Event)]
  BY <1>1, <1>2 DEF Logs
<1>4. Logs(s) \in Seq(Seq(Event))
  BY <1>1, <1>3
<1>5. DOMAIN Logs(s) = 1..Len(Logs(s)) /\ Len(Logs(s)) \in Nat
  BY <1>4, LenProperties
<1>6. DOMAIN Logs(s) = 1..Len(s)
  BY <1>3
<1>7. 1..Len(Logs(s)) = 1..Len(s)
  BY <1>5, <1>6
<1>8. Len(Logs(s)) = Len(s)
  BY <1>1, <1>5, <1>7, SameInterval
<1> QED
  BY <1>4, <1>8

LEMMA LogsConcat ==
  ASSUME NEW s \in Seq(Segment), NEW t \in Seq(Segment)
  PROVE  Logs(s \o t) = Logs(s) \o Logs(t)
<1>1. /\ s \o t \in Seq(Segment) /\ Len(s \o t) = Len(s) + Len(t)
      /\ \A i \in 1..Len(s) + Len(t) : (s \o t)[i] = IF i <= Len(s) THEN s[i] ELSE t[i - Len(s)]
      /\ Len(s) \in Nat /\ Len(t) \in Nat /\ DOMAIN s = 1..Len(s) /\ DOMAIN t = 1..Len(t)
      /\ DOMAIN (s \o t) = 1..(Len(s) + Len(t))
  BY ConcatProperties, LenProperties
<1>2. /\ Logs(s) \in Seq(Seq(Event)) /\ Len(Logs(s)) = Len(s)
      /\ Logs(t) \in Seq(Seq(Event)) /\ Len(Logs(t)) = Len(t)
      /\ Logs(s \o t) \in Seq(Seq(Event)) /\ Len(Logs(s \o t)) = Len(s) + Len(t)
  BY <1>1, LogsTyped
<1>3. /\ Logs(s) \o Logs(t) \in Seq(Seq(Event)) /\ Len(Logs(s) \o Logs(t)) = Len(s) + Len(t)
      /\ \A i \in 1..Len(s) + Len(t) :
            (Logs(s) \o Logs(t))[i] = IF i <= Len(s) THEN Logs(s)[i] ELSE Logs(t)[i - Len(s)]
  <2> DEFINE p == Logs(s)
             q == Logs(t)
  <2>1. p \in Seq(Seq(Event)) /\ q \in Seq(Seq(Event)) /\ Len(p) = Len(s) /\ Len(q) = Len(t)
    BY <1>2
  <2> HIDE DEF p, q
  <2>2. /\ p \o q \in Seq(Seq(Event)) /\ Len(p \o q) = Len(p) + Len(q)
        /\ \A i \in 1..Len(p) + Len(q) :
              (p \o q)[i] = IF i <= Len(p) THEN p[i] ELSE q[i - Len(p)]
    BY <2>1, ConcatProperties
  <2>3. /\ p \o q \in Seq(Seq(Event)) /\ Len(p \o q) = Len(s) + Len(t)
        /\ \A i \in 1..Len(s) + Len(t) :
              (p \o q)[i] = IF i <= Len(s) THEN p[i] ELSE q[i - Len(s)]
    BY <2>1, <2>2
  <2> QED
    BY <2>3 DEF p, q
<1>4. ASSUME NEW i \in 1..Len(s) + Len(t) PROVE Logs(s \o t)[i] = (Logs(s) \o Logs(t))[i]
  <2>1. Logs(s \o t)[i] = (s \o t)[i].evs
    BY <1>1 DEF Logs
  <2>2. CASE i <= Len(s)
    <3>1. i \in 1..Len(s)
      BY <1>1, <2>2
    <3>2. Logs(s)[i] = s[i].evs
      BY <1>1, <3>1 DEF Logs
    <3> QED
      BY <1>1, <1>3, <2>1, <2>2, <3>2
  <2>3. CASE ~(i <= Len(s))
    <3>1. i - Len(s) \in 1..Len(t)
      BY <1>1, <2>3
    <3>2. Logs(t)[i - Len(s)] = t[i - Len(s)].evs
      BY <1>1, <3>1 DEF Logs
    <3> QED
      BY <1>1, <1>3, <2>1, <2>3, <3>2
  <2> QED
    BY <2>2, <2>3
<1> QED
  BY <1>2, <1>3, <1>4, SeqEqual

LEMMA InLogType ==
  ASSUME NEW s \in Seq(Segment), NEW e
  PROVE  InLog(e, s) \in Nat
  BY LogsTyped, InType DEF InLog

LEMMA InLogNone == \A e : InLog(e, <<>>) = 0
<1> TAKE e
<1>1. Logs(<<>>) = <<>>
  BY DEF Logs
<1> QED
  BY <1>1, InNone DEF InLog

LEMMA InLogOne ==
  ASSUME NEW seg \in Segment, NEW e
  PROVE  InLog(e, <<seg>>) = Times(e, seg.evs)
<1>1. Logs(<<seg>>) = <<seg.evs>>
  BY DEF Logs
<1>2. seg.evs \in Seq(Event)
  BY DEF Segment
<1> QED
  BY <1>1, <1>2, InOne DEF InLog

LEMMA InLogConcat ==
  ASSUME NEW s \in Seq(Segment), NEW t \in Seq(Segment), NEW e
  PROVE  s \o t \in Seq(Segment) /\ InLog(e, s \o t) = InLog(e, s) + InLog(e, t)
<1>1. Logs(s) \in Seq(Seq(Event)) /\ Logs(t) \in Seq(Seq(Event))
  BY LogsTyped
<1>2. In(e, Logs(s) \o Logs(t)) = In(e, Logs(s)) + In(e, Logs(t))
  BY <1>1, InConcat
<1> QED
  BY <1>2, LogsConcat, ConcatProperties DEF InLog

LEMMA InLogAppend ==
  ASSUME NEW s \in Seq(Segment), NEW seg \in Segment, NEW e
  PROVE  InLog(e, Append(s, seg)) = InLog(e, s) + Times(e, seg.evs)
<1>1. <<seg>> \in Seq(Segment)
  OBVIOUS
<1>2. Append(s, seg) = s \o <<seg>>
  BY AppendIsConcat
<1>3. InLog(e, s \o <<seg>>) = InLog(e, s) + InLog(e, <<seg>>)
  BY <1>1, InLogConcat
<1> QED
  BY <1>2, <1>3, InLogOne

LEMMA InLogHead ==
  ASSUME NEW s \in Seq(Segment), s # <<>>, NEW e
  PROVE  /\ Head(s) \in Segment /\ Tail(s) \in Seq(Segment)
         /\ InLog(e, s) = Times(e, Head(s).evs) + InLog(e, Tail(s))
<1>1. /\ Head(s) \in Segment /\ Tail(s) \in Seq(Segment)
      /\ <<Head(s)>> \in Seq(Segment)
  BY HeadTailProperties
<1>2. s = <<Head(s)>> \o Tail(s)
  OBVIOUS
<1>3. InLog(e, <<Head(s)>> \o Tail(s)) = InLog(e, <<Head(s)>>) + InLog(e, Tail(s))
  BY <1>1, InLogConcat
<1> QED
  BY <1>1, <1>2, <1>3, InLogOne

LEMMA InAppend ==
  ASSUME NEW s \in Seq(Seq(Event)), NEW b \in Seq(Event), NEW e
  PROVE  In(e, Append(s, b)) = In(e, s) + Times(e, b)
<1>1. <<b>> \in Seq(Seq(Event))
  OBVIOUS
<1>2. Append(s, b) = s \o <<b>>
  BY AppendIsConcat
<1>3. In(e, s \o <<b>>) = In(e, s) + In(e, <<b>>)
  BY <1>1, InConcat
<1> QED
  BY <1>2, <1>3, InOne

LEMMA InHead ==
  ASSUME NEW s \in Seq(Seq(Event)), s # <<>>, NEW e
  PROVE  In(e, s) = Times(e, Head(s)) + In(e, Tail(s))
<1>1. /\ Head(s) \in Seq(Event) /\ Tail(s) \in Seq(Seq(Event))
      /\ <<Head(s)>> \in Seq(Seq(Event))
  BY HeadTailProperties
<1>2. s = <<Head(s)>> \o Tail(s)
  OBVIOUS
<1>3. In(e, <<Head(s)>> \o Tail(s)) = In(e, <<Head(s)>>) + In(e, Tail(s))
  BY <1>1, InConcat
<1> QED
  BY <1>1, <1>2, <1>3, InOne

LEMMA CopiesIs ==
  ASSUME NEW e
  PROVE  Copies(e) = rows[e] + draining[e] + Times(e, buffer) + Times(e, hand) + In(e, chan)
  BY DEF Copies, In, Spots, Queued

LEMMA SumOfFive ==
  \A a, b, c, d, f \in Nat :
     /\ a + b + c + d + f \in Nat /\ d + f \in Nat
     /\ d + f <= a + b + c + d + f /\ b <= a + b + c + d + f
  OBVIOUS

LEMMA CountTypes ==
  ASSUME TypeOK, NEW e \in Event
  PROVE  /\ rows[e] \in Nat /\ draining[e] \in Nat /\ Times(e, buffer) \in Nat
         /\ Times(e, hand) \in Nat /\ In(e, chan) \in Nat
         /\ InLog(e, kept) \in Nat /\ InLog(e, old) \in Nat /\ InLog(e, doomed) \in Nat
         /\ InLog(e, sealed) \in Nat /\ Times(e, active.evs) \in Nat
         /\ crashes \in Nat /\ faults \in Nat
         /\ Copies(e) \in Nat /\ Underway(e) \in Nat /\ Logged(e) \in Nat
         /\ Underway(e) <= Copies(e) /\ InLog(e, old) <= Logged(e)
<1>1. /\ rows[e] \in Nat /\ draining[e] \in Nat /\ crashes \in Nat /\ faults \in Nat
      /\ buffer \in Seq(Event) /\ hand \in Seq(Event) /\ chan \in Seq(Seq(Event))
      /\ active.evs \in Seq(Event)
      /\ kept \in Seq(Segment) /\ old \in Seq(Segment) /\ doomed \in Seq(Segment)
      /\ sealed \in Seq(Segment)
  BY DEF TypeOK, Segment
<1>2. /\ Times(e, buffer) \in Nat /\ Times(e, hand) \in Nat /\ Times(e, active.evs) \in Nat
      /\ In(e, chan) \in Nat
  BY <1>1, TimesType, InType
<1>3. /\ InLog(e, kept) \in Nat /\ InLog(e, old) \in Nat /\ InLog(e, doomed) \in Nat
      /\ InLog(e, sealed) \in Nat
  BY <1>1, InLogType
<1>4. /\ Underway(e) = Times(e, hand) + In(e, chan)
      /\ Copies(e) = rows[e] + draining[e] + Times(e, buffer) + Times(e, hand) + In(e, chan)
      /\ Logged(e) = InLog(e, kept) + InLog(e, old) + InLog(e, doomed) + InLog(e, sealed)
                       + Times(e, active.evs)
  BY CopiesIs DEF Underway, Logged
<1>5. Copies(e) \in Nat /\ Underway(e) \in Nat /\ Underway(e) <= Copies(e)
  <2> DEFINE a == rows[e]
             b == draining[e]
             c == Times(e, buffer)
             d == Times(e, hand)
             f == In(e, chan)
  <2>1. a \in Nat /\ b \in Nat /\ c \in Nat /\ d \in Nat /\ f \in Nat
    BY <1>1, <1>2
  <2>2. Copies(e) = a + b + c + d + f /\ Underway(e) = d + f
    BY <1>4
  <2> HIDE DEF a, b, c, d, f
  <2> QED
    BY <2>1, <2>2, SumOfFive
<1>6. Logged(e) \in Nat /\ InLog(e, old) <= Logged(e)
  BY <1>2, <1>3, <1>4, SumOfFive
<1> QED
  BY <1>1, <1>2, <1>3, <1>5, <1>6

(* A step that sends nothing and makes no copy keeps the counts in bounds. *)
LEMMA Moved ==
  ASSUME TypeOK, TypeOK', NEW e \in Event, CopiesAt(e), SentEvents' = SentEvents,
         crashes' = crashes, faults <= faults',
         Logged(e)' + Underway(e)' <= Logged(e) + Underway(e),
         Copies(e)' + InLog(e, old)' <= Copies(e) + InLog(e, old),
         crashes = 0 /\ faults' = 0 => Copies(e)' = Copies(e)
  PROVE  CopiesAt(e)'
<1>1. /\ Copies(e) \in Nat /\ Underway(e) \in Nat /\ Logged(e) \in Nat /\ InLog(e, old) \in Nat
      /\ Underway(e) <= Copies(e) /\ InLog(e, old) <= Logged(e) /\ crashes \in Nat /\ faults \in Nat
  BY CountTypes
<1>2. /\ Copies(e)' \in Nat /\ Underway(e)' \in Nat /\ Logged(e)' \in Nat /\ InLog(e, old)' \in Nat
      /\ faults' \in Nat
  <2>1. TypeOK' => (/\ Copies(e) \in Nat /\ Underway(e) \in Nat /\ Logged(e) \in Nat
                    /\ InLog(e, old) \in Nat /\ faults \in Nat)'
    BY CountTypes, PTL
  <2> QED
    BY <2>1
<1>3. e \notin SentEvents => Copies(e)' = 0 /\ Logged(e)' = 0
  <2> SUFFICES ASSUME e \notin SentEvents PROVE Copies(e)' = 0 /\ Logged(e)' = 0
    OBVIOUS
  <2>1. Copies(e) = 0 /\ Logged(e) = 0
    BY DEF CopiesAt
  <2> QED
    BY <1>1, <1>2, <2>1
<1>4. Logged(e)' + Underway(e)' <= 1
  BY <1>1, <1>2 DEF CopiesAt
<1>5. Copies(e)' + InLog(e, old)' <= 1 + crashes'
  BY <1>1, <1>2 DEF CopiesAt
<1>6. crashes' = 0 /\ faults' = 0 /\ e \in SentEvents' => Copies(e)' = 1
  BY <1>1, <1>2 DEF CopiesAt
<1> QED
  BY <1>3, <1>4, <1>5, <1>6 DEF CopiesAt

(* Steps that leave memory and Parquet alone, and the log no larger.       *)
LEMMA LogShrinks ==
  ASSUME TypeOK, TypeOK', NEW e \in Event, CopiesAt(e),
         UNCHANGED <<sent, memory, rows, old, crashes>>, faults <= faults',
         Logged(e)' <= Logged(e)
  PROVE  CopiesAt(e)'
<1>1. SentEvents' = SentEvents /\ Underway(e)' = Underway(e) /\ InLog(e, old)' = InLog(e, old)
  BY DEF SentEvents, Underway, memory
<1>2. Copies(e)' = Copies(e)
  BY DEF Copies, Queued, memory
<1>3. Copies(e) \in Nat /\ Underway(e) \in Nat /\ Logged(e) \in Nat /\ InLog(e, old) \in Nat
  BY CountTypes
<1>4. Logged(e)' \in Nat
  <2>1. TypeOK' => (Logged(e) \in Nat)'
    BY CountTypes, PTL
  <2> QED
    BY <2>1
<1>5. /\ Logged(e)' + Underway(e)' <= Logged(e) + Underway(e)
      /\ Copies(e)' + InLog(e, old)' <= Copies(e) + InLog(e, old)
  BY <1>1, <1>2, <1>3, <1>4
<1> QED
  BY <1>1, <1>2, <1>5, Moved

(* What is made of the events of a batch: nothing else knows of them yet.  *)
LEMMA IngestCounts ==
  ASSUME RowInv, EventsAreDistinct, IngestEvents, TypeOK', NEW e \in Event
  PROVE  CopiesAt(e)'
<1> DEFINE b == Input[sent + 1]
           more == Times(e, b)
<1>a. Len(Input) \in Nat /\ DOMAIN Input = 1..Len(Input)
  BY InputAssumption, LenProperties
<1>b. TypeOK /\ CopiesAt(e) /\ chan \in Seq(Seq(Event)) /\ sent \in 0..Len(Input)
  BY DEF RowInv, IInv, TypeOK, CountInv
<1>1. /\ TypeOK /\ CopiesAt(e) /\ chan \in Seq(Seq(Event)) /\ sent \in Nat /\ sent < Len(Input)
      /\ Len(Input) \in Nat
  BY <1>a, <1>b DEF IngestEvents
<1>2. sent + 1 \in DOMAIN Input /\ b \in Seq(Event)
  BY <1>1, InputAssumption
<1>3. /\ chan' = Append(chan, b) /\ sent' = sent + 1
      /\ UNCHANGED <<hand, buffer, draining, disk, rows, crashes, faults>>
  BY DEF IngestEvents
<1>4. In(e, chan') = In(e, chan) + more
  BY <1>1, <1>2, <1>3, InAppend
<1>5. SentEvents' = SentEvents \cup Range(b)
  <2>1. 1..(sent + 1) = (1..sent) \cup {sent + 1}
    BY <1>1
  <2> QED
    BY <1>3, <2>1 DEF SentEvents
<1>6. Range(b) \cap SentEvents = {}
  <2> SUFFICES ASSUME NEW i \in 1..sent PROVE Range(Input[i]) \cap Range(b) = {}
    BY DEF SentEvents
  <2>1. i \in DOMAIN Input /\ i # sent + 1
    BY <1>1, InputAssumption
  <2> QED
    BY <1>2, <2>1 DEF EventsAreDistinct, EachEventOnce
<1>7. more \in Nat /\ more <= 1 /\ (more > 0 <=> e \in Range(b))
  <2>1. more \in Nat /\ IsFiniteSet({i \in DOMAIN b : b[i] = e})
    BY <1>2, TimesType
  <2>2. more <= 1
    BY <1>2 DEF EventsAreDistinct
  <2>3. more = 0 <=> {i \in DOMAIN b : b[i] = e} = {}
    BY <2>1, FS_EmptySet DEF Times
  <2>4. e \in Range(b) <=> {i \in DOMAIN b : b[i] = e} # {}
    BY DEF Range
  <2> HIDE DEF more, b
  <2> QED
    BY <2>1, <2>2, <2>3, <2>4
<1> HIDE DEF more, b
<1>8. /\ Copies(e)' = Copies(e) + more /\ Underway(e)' = Underway(e) + more
      /\ Logged(e)' = Logged(e) /\ InLog(e, old)' = InLog(e, old)
  <2>1. Logged(e)' = Logged(e) /\ InLog(e, old)' = InLog(e, old)
    BY <1>3 DEF Logged, disk
  <2>2. Copies(e)' = rows[e] + draining[e] + Times(e, buffer) + Times(e, hand) + (In(e, chan) + more)
    <3>1. Copies(e)' = rows'[e] + draining'[e] + Times(e, buffer') + Times(e, hand') + In(e, chan')
      BY CopiesIs DEF Copies, In, Spots, Queued
    <3> QED
      BY <1>3, <1>4, <3>1
  <2>3. Underway(e)' = Times(e, hand) + (In(e, chan) + more)
    BY <1>3, <1>4 DEF Underway
  <2>4. /\ Copies(e) = rows[e] + draining[e] + Times(e, buffer) + Times(e, hand) + In(e, chan)
        /\ Underway(e) = Times(e, hand) + In(e, chan)
    BY CopiesIs DEF Underway
  <2>5. /\ rows[e] \in Nat /\ draining[e] \in Nat /\ Times(e, buffer) \in Nat
        /\ Times(e, hand) \in Nat /\ In(e, chan) \in Nat
    BY <1>1, CountTypes
  <2> QED
    BY <1>7, <2>1, <2>2, <2>3, <2>4, <2>5
<1>9. /\ Copies(e) \in Nat /\ Underway(e) \in Nat /\ Logged(e) \in Nat /\ InLog(e, old) \in Nat
      /\ Underway(e) <= Copies(e) /\ InLog(e, old) <= Logged(e) /\ crashes \in Nat
  BY <1>1, CountTypes
<1>10. CASE e \in Range(b)
  <2>1. more = 1 /\ Copies(e) = 0 /\ Logged(e) = 0 /\ e \in SentEvents'
    BY <1>1, <1>5, <1>6, <1>7, <1>10 DEF CopiesAt
  <2>2. Underway(e) = 0 /\ InLog(e, old) = 0
    BY <1>9, <2>1
  <2>3. Copies(e)' = 1 /\ Underway(e)' = 1 /\ Logged(e)' = 0 /\ InLog(e, old)' = 0 /\ crashes' = crashes
    BY <1>3, <1>8, <2>1, <2>2
  <2>4. Logged(e)' + Underway(e)' <= 1 /\ Copies(e)' + InLog(e, old)' <= 1 + crashes'
    BY <1>9, <2>3
  <2> QED
    BY <2>1, <2>3, <2>4 DEF CopiesAt
<1>11. CASE e \notin Range(b)
  <2>1. more = 0 /\ (e \in SentEvents' <=> e \in SentEvents)
    BY <1>5, <1>7, <1>11
  <2>2. /\ Copies(e)' = Copies(e) /\ Underway(e)' = Underway(e) /\ Logged(e)' = Logged(e)
        /\ InLog(e, old)' = InLog(e, old) /\ crashes' = crashes /\ faults' = faults
    BY <1>3, <1>8, <1>9, <2>1
  <2> QED
    BY <1>1, <2>1, <2>2 DEF CopiesAt
<1> QED
  BY <1>10, <1>11

LEMMA ReceiveCounts ==
  ASSUME RowInv, Receive, TypeOK', NEW e \in Event PROVE CopiesAt(e)'
<1>1. /\ TypeOK /\ CopiesAt(e) /\ chan \in Seq(Seq(Event)) /\ chan # <<>> /\ hand = <<>>
      /\ hand' = Head(chan) /\ chan' = Tail(chan)
      /\ UNCHANGED <<sent, buffer, draining, disk, rows, crashes, faults>>
  BY DEF Receive, RowInv, IInv, TypeOK, HandInUse, CountInv
<1>2. In(e, chan) = Times(e, hand') + In(e, chan') /\ Times(e, hand) = 0
  BY <1>1, InHead, TimesNone
<1>3. /\ rows[e] \in Nat /\ draining[e] \in Nat /\ Times(e, buffer) \in Nat /\ In(e, chan) \in Nat
      /\ Logged(e) \in Nat /\ Copies(e) \in Nat /\ InLog(e, old) \in Nat /\ Underway(e) \in Nat /\ faults \in Nat
  BY <1>1, CountTypes
<1>4. Times(e, hand') \in Nat /\ In(e, chan') \in Nat
  BY TimesType, InType DEF TypeOK
<1>5. Underway(e)' = Underway(e)
  <2>1. Underway(e)' = Times(e, hand') + In(e, chan')
    BY DEF Underway
  <2> QED
    BY <1>2, <1>3, <1>4, <2>1 DEF Underway
<1>6. Copies(e)' = Copies(e)
  <2>1. Copies(e)' = rows[e] + draining[e] + Times(e, buffer) + Times(e, hand') + In(e, chan')
    BY <1>1 DEF Copies, In, Spots, Queued
  <2>2. Copies(e) = rows[e] + draining[e] + Times(e, buffer) + Times(e, hand) + In(e, chan)
    BY CopiesIs
  <2> QED
    BY <1>2, <1>3, <1>4, <2>1, <2>2
<1>7. Logged(e)' = Logged(e) /\ InLog(e, old)' = InLog(e, old) /\ SentEvents' = SentEvents
  BY <1>1 DEF Logged, disk, SentEvents
<1>8. /\ Logged(e)' + Underway(e)' <= Logged(e) + Underway(e)
      /\ Copies(e)' + InLog(e, old)' <= Copies(e) + InLog(e, old) /\ faults <= faults'
  BY <1>1, <1>3, <1>5, <1>6, <1>7
<1> QED
  BY <1>1, <1>6, <1>7, <1>8, Moved

(* The two sums, a step later.                                             *)
LEMMA SumsThen ==
  ASSUME NEW e
  PROVE  /\ Copies(e)' = rows'[e] + draining'[e] + Times(e, buffer') + Times(e, hand') + In(e, chan')
         /\ Underway(e)' = Times(e, hand') + In(e, chan')
         /\ Logged(e)' = InLog(e, kept') + InLog(e, old') + InLog(e, doomed') + InLog(e, sealed')
                           + Times(e, active'.evs)
  BY DEF Copies, In, Spots, Queued, Underway, Logged

LEMMA TypesThen ==
  ASSUME TypeOK', NEW e \in Event
  PROVE  /\ rows'[e] \in Nat /\ draining'[e] \in Nat /\ Times(e, buffer') \in Nat
         /\ Times(e, hand') \in Nat /\ In(e, chan') \in Nat
         /\ InLog(e, kept') \in Nat /\ InLog(e, old') \in Nat /\ InLog(e, doomed') \in Nat
         /\ InLog(e, sealed') \in Nat /\ Times(e, active'.evs) \in Nat
<1>1. /\ rows'[e] \in Nat /\ draining'[e] \in Nat
      /\ buffer' \in Seq(Event) /\ hand' \in Seq(Event) /\ chan' \in Seq(Seq(Event))
      /\ active'.evs \in Seq(Event)
      /\ kept' \in Seq(Segment) /\ old' \in Seq(Segment) /\ doomed' \in Seq(Segment)
      /\ sealed' \in Seq(Segment)
  BY DEF TypeOK, Segment
<1> QED
  BY <1>1, TimesType, InType, InLogType

LEMMA DrainCounts ==
  ASSUME RowInv, pc # "write", NEW caller \in {"idle", "fit"}, DrainBuffer(caller),
         TypeOK', NEW e \in Event
  PROVE  CopiesAt(e)'
<1> DEFINE n == Smaller(FlushRows, Len(buffer))
<1>1. TypeOK /\ CopiesAt(e) /\ draining = NoneDrained /\ buffer \in Seq(Event)
  BY DEF RowInv, IInv, TypeOK, CountInv, Phase, DrainedOnlyInFlush
<1>2. n \in 0..Len(buffer)
  BY <1>1, ConstantTypes DEF Smaller
<1>3. /\ buffer' = SubSeq(buffer, n + 1, Len(buffer))
      /\ draining'[e] = Cardinality({i \in 1..n : buffer[i] = e})
      /\ UNCHANGED <<sent, chan, hand, disk, rows, crashes, faults>>
  BY DEF DrainBuffer, Popped
<1> HIDE DEF n
<1>4. Times(e, buffer) = draining'[e] + Times(e, buffer') /\ draining[e] = 0
  BY <1>1, <1>2, <1>3, TimesSplit DEF NoneDrained
<1>5. Copies(e)' = Copies(e)
  <2>1. Copies(e)' = rows[e] + draining'[e] + Times(e, buffer') + Times(e, hand) + In(e, chan)
    BY <1>3, SumsThen
  <2>2. Copies(e) = rows[e] + 0 + (draining'[e] + Times(e, buffer')) + Times(e, hand) + In(e, chan)
    BY <1>4, CopiesIs
  <2>3. /\ rows[e] \in Nat /\ draining'[e] \in Nat /\ Times(e, buffer') \in Nat
        /\ Times(e, hand) \in Nat /\ In(e, chan) \in Nat
    BY <1>1, CountTypes, TypesThen
  <2> QED
    BY <2>1, <2>2, <2>3
<1>6. /\ Underway(e)' = Underway(e) /\ Logged(e)' = Logged(e) /\ InLog(e, old)' = InLog(e, old)
      /\ SentEvents' = SentEvents
  BY <1>3 DEF Underway, Logged, disk, SentEvents
<1>7. /\ Copies(e) \in Nat /\ Underway(e) \in Nat /\ Logged(e) \in Nat /\ InLog(e, old) \in Nat
      /\ faults \in Nat
  BY <1>1, CountTypes
<1>8. /\ Logged(e)' + Underway(e)' <= Logged(e) + Underway(e)
      /\ Copies(e)' + InLog(e, old)' <= Copies(e) + InLog(e, old) /\ faults <= faults'
  BY <1>3, <1>5, <1>6, <1>7
<1> QED
  BY <1>1, <1>3, <1>5, <1>6, <1>8, Moved

(* The batch enters the buffer, and the log at most once.                  *)
LEMMA StoreLogs ==
  ASSUME TypeOK, StoreBatch, NEW e \in Event
  PROVE  InLog(e, sealed') + Times(e, active'.evs)
           <= InLog(e, sealed) + Times(e, active.evs) + Times(e, hand)
<1> DEFINE grown == WithRecord(active, hand)
           a == Times(e, active.evs)
           h == Times(e, hand)
           g == Times(e, grown.evs)
           l == InLog(e, sealed)
<1>1. /\ active \in Segment /\ active.evs \in Seq(Event) /\ hand \in Seq(Event)
      /\ active.torn \in BOOLEAN /\ sealed \in Seq(Segment) /\ grown \in Segment
  BY SegmentTypes DEF TypeOK, Segment
<1>2. a \in Nat /\ h \in Nat /\ l \in Nat
  BY <1>1, TimesType, InLogType
<1>3. g \in Nat /\ g <= a + h
  <2>1. grown.evs = IF active.torn THEN active.evs ELSE active.evs \o hand
    BY <1>1 DEF WithRecord, Segment
  <2>2. Times(e, active.evs \o hand) = a + h
    BY <1>1, TimesConcat
  <2> HIDE DEF grown
  <2>3. g = a \/ g = a + h
    BY <2>1, <2>2
  <2> HIDE DEF a, h, g
  <2> QED
    BY <1>2, <2>3
<1>4. Torn(active).evs = active.evs
  BY <1>1 DEF Torn, Segment
<1> HIDE DEF grown
<1>5. \/ sealed' = Append(sealed, grown) /\ active' = EmptySegment
      \/ sealed' = sealed /\ (active' = grown \/ active' = active \/ active' = Torn(active))
  BY DEF StoreBatch, AppendOk, AppendFails, grown
<1>6. CASE sealed' = Append(sealed, grown) /\ active' = EmptySegment
  <2>1. InLog(e, sealed') = l + g
    BY <1>1, <1>6, InLogAppend
  <2>2. Times(e, active'.evs) = 0
    BY <1>6, TimesNone DEF EmptySegment
  <2> HIDE DEF a, h, g, l
  <2>3. (l + g) + 0 <= l + a + h
    BY <1>2, <1>3
  <2> QED
    BY <2>1, <2>2, <2>3 DEF a, h, l
<1>7. CASE sealed' = sealed /\ (active' = grown \/ active' = active \/ active' = Torn(active))
  <2>1. InLog(e, sealed') = l /\ (Times(e, active'.evs) = g \/ Times(e, active'.evs) = a)
    BY <1>4, <1>7
  <2> HIDE DEF a, h, g, l
  <2>2. l + g <= l + a + h /\ l + a <= l + a + h
    BY <1>2, <1>3
  <2> QED
    BY <2>1, <2>2 DEF a, h, l
<1> QED
  BY <1>5, <1>6, <1>7

LEMMA StoreCounts ==
  ASSUME RowInv, StoreBatch, TypeOK', NEW e \in Event PROVE CopiesAt(e)'
<1>1. TypeOK /\ CopiesAt(e) /\ buffer \in Seq(Event) /\ hand \in Seq(Event)
  BY DEF RowInv, IInv, TypeOK, CountInv
<1>2. /\ buffer' = buffer \o hand /\ hand' = <<>>
      /\ UNCHANGED <<sent, chan, draining, old, kept, doomed, rows, crashes>>
      /\ faults' = faults \/ faults' = faults + 1
  BY DEF StoreBatch, AppendOk, AppendFails, NoFault, Fault
<1>3. Times(e, buffer') = Times(e, buffer) + Times(e, hand) /\ Times(e, hand') = 0
  BY <1>1, <1>2, TimesConcat, TimesNone
<1>4. /\ Copies(e) \in Nat /\ Underway(e) \in Nat /\ Logged(e) \in Nat /\ InLog(e, old) \in Nat
      /\ faults \in Nat
  BY <1>1, CountTypes
<1>5. /\ rows[e] \in Nat /\ draining[e] \in Nat /\ Times(e, buffer) \in Nat
      /\ Times(e, hand) \in Nat /\ In(e, chan) \in Nat
      /\ InLog(e, kept) \in Nat /\ InLog(e, old) \in Nat /\ InLog(e, doomed) \in Nat
      /\ InLog(e, sealed) \in Nat /\ Times(e, active.evs) \in Nat
      /\ InLog(e, sealed') \in Nat /\ Times(e, active'.evs) \in Nat
  BY <1>1, CountTypes, TypesThen
<1>6. Copies(e)' = Copies(e)
  <2>1. Copies(e)' = rows[e] + draining[e] + (Times(e, buffer) + Times(e, hand)) + 0 + In(e, chan)
    BY <1>2, <1>3, SumsThen
  <2>2. Copies(e) = rows[e] + draining[e] + Times(e, buffer) + Times(e, hand) + In(e, chan)
    BY CopiesIs
  <2> QED
    BY <1>5, <2>1, <2>2
<1>7. Logged(e)' + Underway(e)' <= Logged(e) + Underway(e)
  <2> DEFINE k == InLog(e, kept)
             o == InLog(e, old)
             d == InLog(e, doomed)
             s == InLog(e, sealed)
             a == Times(e, active.evs)
             ss == InLog(e, sealed')
             aa == Times(e, active'.evs)
             h == Times(e, hand)
             c == In(e, chan)
  <2>1. Logged(e)' = k + o + d + ss + aa /\ Underway(e)' = 0 + c
    BY <1>2, <1>3, SumsThen
  <2>2. Logged(e) = k + o + d + s + a /\ Underway(e) = h + c
    BY DEF Logged, Underway
  <2>3. ss + aa <= s + a + h
    BY <1>1, StoreLogs
  <2>4. /\ k \in Nat /\ o \in Nat /\ d \in Nat /\ s \in Nat /\ a \in Nat /\ ss \in Nat
        /\ aa \in Nat /\ h \in Nat /\ c \in Nat
    BY <1>5
  <2> HIDE DEF k, o, d, s, a, ss, aa, h, c
  <2> QED
    BY <2>1, <2>2, <2>3, <2>4
<1>8. SentEvents' = SentEvents /\ InLog(e, old)' = InLog(e, old)
  BY <1>2 DEF SentEvents
<1>9. Copies(e)' + InLog(e, old)' <= Copies(e) + InLog(e, old) /\ faults <= faults'
  BY <1>2, <1>4, <1>6, <1>8
<1> QED
  BY <1>1, <1>2, <1>6, <1>7, <1>8, <1>9, Moved

(* A partition is written, or its events are lost with the fault.          *)
LEMMA WriteCounts ==
  ASSUME RowInv, NEW p \in Partition, WritePartition(p), TypeOK', NEW e \in Event
  PROVE  CopiesAt(e)'
<1> DEFINE mine == {x \in Event : PartitionOf[x] = p /\ draining[x] > 0}
<1>1. TypeOK /\ CopiesAt(e)
  BY DEF RowInv, IInv, CountInv
<1>2. /\ UNCHANGED <<sent, chan, hand, buffer, disk, crashes>>
      /\ draining' = [x \in Event |-> IF x \in mine THEN 0 ELSE draining[x]]
      /\ \/ /\ faults' = faults
            /\ rows' = [x \in Event |-> IF x \in mine THEN rows[x] + draining[x] ELSE rows[x]]
         \/ faults' = faults + 1 /\ rows' = rows
  BY DEF WritePartition, NoFault, Fault
<1> HIDE DEF mine
<1>3. /\ draining'[e] = IF e \in mine THEN 0 ELSE draining[e]
      /\ \/ faults' = faults /\ rows'[e] = IF e \in mine THEN rows[e] + draining[e] ELSE rows[e]
         \/ faults' = faults + 1 /\ rows'[e] = rows[e]
  BY <1>2
<1>4. /\ Copies(e) \in Nat /\ Underway(e) \in Nat /\ Logged(e) \in Nat /\ InLog(e, old) \in Nat
      /\ faults \in Nat
  BY <1>1, CountTypes
<1>5. Copies(e)' <= Copies(e) /\ Copies(e)' \in Nat /\ (faults' = 0 => Copies(e)' = Copies(e))
  <2> DEFINE r == rows[e]
             d == draining[e]
             b == Times(e, buffer)
             h == Times(e, hand)
             c == In(e, chan)
             rr == rows'[e]
             dd == draining'[e]
  <2>1. r \in Nat /\ d \in Nat /\ b \in Nat /\ h \in Nat /\ c \in Nat /\ rr \in Nat /\ dd \in Nat
    BY <1>1, CountTypes, TypesThen
  <2>2. Copies(e)' = rr + dd + b + h + c
    BY <1>2, SumsThen
  <2>3. Copies(e) = r + d + b + h + c
    BY CopiesIs
  <2>4. \/ faults' = faults /\ rr = r + d /\ dd = 0
        \/ rr = r /\ dd = d
        \/ faults' = faults + 1 /\ rr = r /\ dd = 0
    BY <1>3
  <2> HIDE DEF r, d, b, h, c, rr, dd
  <2> QED
    BY <1>4, <2>1, <2>2, <2>3, <2>4
<1>6. /\ Underway(e)' = Underway(e) /\ Logged(e)' = Logged(e) /\ InLog(e, old)' = InLog(e, old)
      /\ SentEvents' = SentEvents
  BY <1>2 DEF Underway, Logged, disk, SentEvents
<1>7. /\ Logged(e)' + Underway(e)' <= Logged(e) + Underway(e)
      /\ Copies(e)' + InLog(e, old)' <= Copies(e) + InLog(e, old)
  BY <1>4, <1>5, <1>6
<1>8. faults <= faults'
  BY <1>2, <1>4
<1> QED
  BY <1>1, <1>2, <1>5, <1>6, <1>7, <1>8, Moved

LEMMA Unfolded ==
  ASSUME RowInv, NEW e \in Event
  PROVE  TypeOK /\ CopiesAt(e) /\ Phase /\ FirstLife /\ crashes \in Nat /\ faults \in Nat
<1>1. TypeOK /\ CopiesAt(e) /\ Phase /\ FirstLife
  BY DEF RowInv, IInv, CountInv
<1>2. crashes \in Nat /\ faults \in Nat
  BY <1>1, CountTypes
<1> QED
  BY <1>1, <1>2

(* The end of a flush and the reclaim make no copy and read none.          *)
LEMMA ReclaimCounts ==
  ASSUME RowInv, FinishFlush \/ DeleteSealed \/ RotateActive \/ DropActive \/ ReclaimFails,
         TypeOK', NEW e \in Event
  PROVE  CopiesAt(e)'
<1> DEFINE k == InLog(e, kept)
           o == InLog(e, old)
           d == InLog(e, doomed)
           s == InLog(e, sealed)
           a == Times(e, active.evs)
           kk == InLog(e, kept')
           dd == InLog(e, doomed')
           ss == InLog(e, sealed')
           aa == Times(e, active'.evs)
<1>1. /\ TypeOK /\ CopiesAt(e) /\ kept \in Seq(Segment) /\ doomed \in Seq(Segment)
      /\ sealed \in Seq(Segment) /\ active \in Segment /\ faults \in Nat
  BY Unfolded DEF TypeOK
<1>2. /\ UNCHANGED <<sent, memory, rows, old, crashes>>
      /\ faults' = faults \/ faults' = faults + 1
  BY DEF FinishFlush, DeleteSealed, RotateActive, DropActive, ReclaimFails, memory, Fault
<1>3. /\ k \in Nat /\ o \in Nat /\ d \in Nat /\ s \in Nat /\ a \in Nat
      /\ kk \in Nat /\ dd \in Nat /\ ss \in Nat /\ aa \in Nat
  BY <1>1, CountTypes, TypesThen
<1>4. InLog(e, <<>>) = 0
  BY InLogNone
<1> DEFINE Shrinks == kk + o + dd + ss + aa <= k + o + d + s + a
<1>5. ASSUME FinishFlush PROVE Shrinks
  <2>1. doomed = <<>>
    BY <1>5 DEF FinishFlush, RowInv, IInv, Phase, DoomedOnlyInReclaim, Reclaiming
  <2>2. /\ kept' = kept /\ active' = active
        /\ (doomed' = sealed /\ sealed' = <<>>) \/ (doomed' = doomed /\ sealed' = sealed)
    BY <1>5 DEF FinishFlush
  <2>3. kk = k /\ aa = a /\ d = 0 /\ ((dd = s /\ ss = 0) \/ (dd = d /\ ss = s))
    BY <1>4, <2>1, <2>2
  <2> HIDE DEF k, o, d, s, a, kk, dd, ss, aa
  <2> QED
    BY <1>3, <2>3
<1>6. ASSUME DeleteSealed PROVE Shrinks
  <2>1. doomed' = Tail(doomed) /\ doomed # <<>> /\ UNCHANGED <<kept, sealed, active>>
    BY <1>6 DEF DeleteSealed
  <2>2. d = Times(e, Head(doomed).evs) + InLog(e, Tail(doomed)) /\ Head(doomed) \in Segment
    BY <1>1, <2>1, InLogHead
  <2>3. Times(e, Head(doomed).evs) \in Nat
    BY <2>2, TimesType DEF Segment
  <2>4. kk = k /\ ss = s /\ aa = a /\ dd <= d
    BY <1>3, <2>1, <2>2, <2>3
  <2> HIDE DEF k, o, d, s, a, kk, dd, ss, aa
  <2> QED
    BY <1>3, <2>4
<1>7. ASSUME RotateActive PROVE Shrinks
  <2>1. /\ doomed = <<>> /\ doomed' = <<active>> /\ active' = EmptySegment
        /\ UNCHANGED <<kept, sealed>>
    BY <1>7 DEF RotateActive
  <2>2. kk = k /\ ss = s /\ d = 0 /\ dd = a
    BY <1>1, <1>4, <2>1, InLogOne
  <2>3. aa = 0
    BY <2>1, TimesNone DEF EmptySegment
  <2> HIDE DEF k, o, d, s, a, kk, dd, ss, aa
  <2> QED
    BY <1>3, <2>2, <2>3
<1>8. ASSUME DropActive PROVE Shrinks
  <2>1. doomed' = <<>> /\ UNCHANGED <<kept, sealed, active>>
    BY <1>8 DEF DropActive
  <2>2. kk = k /\ ss = s /\ aa = a /\ dd = 0
    BY <1>4, <2>1
  <2> HIDE DEF k, o, d, s, a, kk, dd, ss, aa
  <2> QED
    BY <1>3, <2>2
<1>9. ASSUME ReclaimFails PROVE Shrinks
  <2>1. kept' = kept \o doomed /\ doomed' = <<>> /\ UNCHANGED <<sealed, active>>
    BY <1>9 DEF ReclaimFails
  <2>2. kk = k + d /\ ss = s /\ aa = a /\ dd = 0
    BY <1>1, <1>4, <2>1, InLogConcat
  <2> HIDE DEF k, o, d, s, a, kk, dd, ss, aa
  <2> QED
    BY <1>3, <2>2
<1>10. Logged(e)' <= Logged(e)
  <2>1. Shrinks
    BY <1>5, <1>6, <1>7, <1>8, <1>9
  <2>2. Logged(e)' = kk + o + dd + ss + aa /\ Logged(e) = k + o + d + s + a
    BY <1>2, SumsThen DEF Logged
  <2> QED
    BY <2>1, <2>2
<1>11. faults <= faults'
  BY <1>1, <1>2
<1> QED
  BY <1>1, <1>2, <1>10, <1>11, LogShrinks

(* A crash keeps the log and the rows, and a replay brings back one copy   *)
(* at most.                                                                *)
LEMMA CrashCounts ==
  ASSUME RowInv, Crash, TypeOK', NEW e \in Event PROVE CopiesAt(e)'
<1>1. /\ TypeOK /\ CopiesAt(e) /\ crashes \in Nat
      /\ kept \in Seq(Segment) /\ old \in Seq(Segment) /\ doomed \in Seq(Segment)
      /\ sealed \in Seq(Segment) /\ active \in Segment
  BY Unfolded DEF TypeOK
<1>2. /\ chan' = <<>> /\ hand' = <<>> /\ buffer' = <<>> /\ draining' = NoneDrained
      /\ old' = kept \o old \o doomed \o sealed \o <<active>>
      /\ kept' = <<>> /\ sealed' = <<>> /\ doomed' = <<>> /\ active' = EmptySegment
      /\ crashes' = crashes + 1 /\ UNCHANGED <<sent, rows, faults>>
  BY DEF Crash
<1>3. InLog(e, old') = Logged(e)
  <2> DEFINE a == kept \o old
             b == a \o doomed
             c == b \o sealed
  <2>2. a \in Seq(Segment) /\ InLog(e, a) = InLog(e, kept) + InLog(e, old)
    BY <1>1, InLogConcat
  <2> HIDE DEF a
  <2>3. b \in Seq(Segment) /\ InLog(e, b) = InLog(e, a) + InLog(e, doomed)
    BY <1>1, <2>2, InLogConcat
  <2> HIDE DEF b
  <2>4. c \in Seq(Segment) /\ InLog(e, c) = InLog(e, b) + InLog(e, sealed)
    BY <1>1, <2>3, InLogConcat
  <2>5. old' = c \o <<active>>
    BY <1>2 DEF a, b
  <2> HIDE DEF c
  <2>6. old' = Append(c, active)
    BY <1>1, <2>4, <2>5, AppendIsConcat
  <2>7. InLog(e, Append(c, active)) = InLog(e, c) + Times(e, active.evs)
    BY <1>1, <2>4, InLogAppend
  <2> QED
    BY <2>2, <2>3, <2>4, <2>6, <2>7 DEF Logged
<1>4. /\ Times(e, buffer') = 0 /\ Times(e, hand') = 0 /\ In(e, chan') = 0 /\ draining'[e] = 0
      /\ InLog(e, kept') = 0 /\ InLog(e, sealed') = 0 /\ InLog(e, doomed') = 0
      /\ Times(e, active'.evs) = 0
  BY <1>2, TimesNone, InNone, InLogNone DEF NoneDrained, EmptySegment
<1>5. /\ rows[e] \in Nat /\ Logged(e) \in Nat /\ Copies(e) \in Nat /\ rows[e] <= Copies(e)
      /\ Underway(e) \in Nat /\ InLog(e, old) \in Nat
  <2>1. /\ rows[e] \in Nat /\ draining[e] \in Nat /\ Times(e, buffer) \in Nat
        /\ Times(e, hand) \in Nat /\ In(e, chan) \in Nat
    BY <1>1, CountTypes
  <2>2. rows[e] <= Copies(e)
    BY <2>1, CopiesIs
  <2> QED
    BY <1>1, <2>1, <2>2, CountTypes
<1>6. Copies(e)' = rows[e] /\ Underway(e)' = 0 /\ Logged(e)' = Logged(e)
  <2>1. /\ Copies(e)' = rows[e] + 0 + 0 + 0 + 0 /\ Underway(e)' = 0 + 0
        /\ Logged(e)' = 0 + Logged(e) + 0 + 0 + 0
    BY <1>2, <1>3, <1>4, SumsThen
  <2> QED
    BY <1>5, <2>1
<1>7. InLog(e, old)' = Logged(e) /\ SentEvents' = SentEvents
  BY <1>2, <1>3 DEF SentEvents
<1>8. /\ e \notin SentEvents => Copies(e) = 0 /\ Logged(e) = 0
      /\ Logged(e) + Underway(e) <= 1 /\ Copies(e) + InLog(e, old) <= 1 + crashes
  BY <1>1 DEF CopiesAt
<1>9. e \notin SentEvents' => Copies(e)' = 0 /\ Logged(e)' = 0
  BY <1>5, <1>6, <1>7, <1>8
<1>10. Logged(e)' + Underway(e)' <= 1 /\ Copies(e)' + InLog(e, old)' <= 1 + crashes'
  BY <1>1, <1>2, <1>5, <1>6, <1>7, <1>8
<1>11. crashes' # 0
  BY <1>1, <1>2
<1> QED
  BY <1>9, <1>10, <1>11 DEF CopiesAt

LEMMA ReplayCounts ==
  ASSUME RowInv, ReplaySegment \/ ReplayFails, TypeOK', NEW e \in Event PROVE CopiesAt(e)'
<1> DEFINE evs == Head(old).evs
           m == Times(e, evs)
<1>1. /\ TypeOK /\ CopiesAt(e) /\ crashes # 0 /\ old # <<>> /\ old \in Seq(Segment)
      /\ buffer \in Seq(Event) /\ kept \in Seq(Segment) /\ faults \in Nat
  <2>1. TypeOK /\ CopiesAt(e) /\ FirstLife /\ faults \in Nat
    BY Unfolded
  <2> QED
    BY <2>1 DEF TypeOK, FirstLife, ReplaySegment, ReplayFails
<1>2. /\ old' = Tail(old)
      /\ UNCHANGED <<sent, chan, hand, draining, sealed, doomed, active, rows, crashes>>
      /\ faults' = faults \/ faults' = faults + 1
  BY DEF ReplaySegment, ReplayFails, Fault
<1>3. /\ Head(old) \in Segment /\ evs \in Seq(Event)
      /\ InLog(e, old) = m + InLog(e, old')
  BY <1>1, <1>2, InLogHead DEF Segment
<1>4. m \in Nat
  BY <1>3, TimesType
<1> HIDE DEF evs, m
<1>5. \E n \in 0..m : Times(e, buffer') = Times(e, buffer) + n
  <2>1. CASE ReplaySegment
    <3>1. buffer' = buffer \o evs
      BY <2>1 DEF ReplaySegment, evs
    <3>2. Times(e, buffer') = Times(e, buffer) + m
      BY <1>1, <1>3, <3>1, TimesConcat DEF m
    <3> QED
      BY <1>4, <3>2
  <2>2. CASE ReplayFails
    <3>1. PICK k \in 0..Len(evs) : buffer' = buffer \o SubSeq(evs, 1, k)
      BY <2>2 DEF ReplayFails, evs
    <3> DEFINE pushed == SubSeq(evs, 1, k)
               rest == SubSeq(evs, k + 1, Len(evs))
    <3>2. /\ pushed \in Seq(Event) /\ rest \in Seq(Event)
          /\ m = Times(e, pushed) + Times(e, rest)
      BY <1>3, TimesSplit DEF m
    <3>3. buffer' = buffer \o pushed
      BY <3>1
    <3> HIDE DEF pushed, rest
    <3>4. Times(e, pushed) \in Nat /\ Times(e, rest) \in Nat
      BY <3>2, TimesType
    <3>5. Times(e, buffer') = Times(e, buffer) + Times(e, pushed)
      BY <1>1, <3>2, <3>3, TimesConcat
    <3>6. Times(e, pushed) \in 0..m
      BY <3>2, <3>4
    <3> QED
      BY <3>5, <3>6
  <2> QED
    BY <2>1, <2>2
<1>6. InLog(e, kept') = InLog(e, kept) \/ InLog(e, kept') = InLog(e, kept) + m
  BY <1>1, <1>3, InLogAppend DEF ReplaySegment, ReplayFails, evs, m
<1>7. /\ rows[e] \in Nat /\ draining[e] \in Nat /\ Times(e, buffer) \in Nat
      /\ Times(e, hand) \in Nat /\ In(e, chan) \in Nat
      /\ InLog(e, kept) \in Nat /\ InLog(e, old) \in Nat /\ InLog(e, doomed) \in Nat
      /\ InLog(e, sealed) \in Nat /\ Times(e, active.evs) \in Nat
      /\ InLog(e, old') \in Nat /\ InLog(e, kept') \in Nat
  BY <1>1, CountTypes, TypesThen
<1>8. Copies(e)' + InLog(e, old)' <= Copies(e) + InLog(e, old)
  <2> DEFINE r == rows[e]
             d == draining[e]
             b == Times(e, buffer)
             h == Times(e, hand)
             c == In(e, chan)
             o == InLog(e, old')
  <2>1. PICK n \in 0..m : Times(e, buffer') = b + n
    BY <1>5
  <2>2. Copies(e)' = r + d + (b + n) + h + c
    BY <1>2, <2>1, SumsThen
  <2>3. Copies(e) = r + d + b + h + c
    BY CopiesIs
  <2>4. InLog(e, old)' = o /\ InLog(e, old) = m + o
    BY <1>3
  <2>5. r \in Nat /\ d \in Nat /\ b \in Nat /\ h \in Nat /\ c \in Nat /\ o \in Nat
    BY <1>7
  <2> HIDE DEF r, d, b, h, c, o
  <2> QED
    BY <1>4, <2>2, <2>3, <2>4, <2>5
<1>9. Logged(e)' + Underway(e)' <= Logged(e) + Underway(e)
  <2> DEFINE k == InLog(e, kept)
             o == InLog(e, old')
             d == InLog(e, doomed)
             s == InLog(e, sealed)
             a == Times(e, active.evs)
             kk == InLog(e, kept')
  <2>1. Logged(e)' = kk + o + d + s + a /\ Underway(e)' = Underway(e)
    BY <1>2, SumsThen DEF Underway
  <2>2. Logged(e) = k + (m + o) + d + s + a
    BY <1>3 DEF Logged
  <2>3. Underway(e) \in Nat
    BY <1>1, CountTypes
  <2>4. k \in Nat /\ o \in Nat /\ d \in Nat /\ s \in Nat /\ a \in Nat /\ (kk = k \/ kk = k + m)
    BY <1>6, <1>7
  <2> HIDE DEF k, o, d, s, a, kk
  <2> QED
    BY <1>4, <2>1, <2>2, <2>3, <2>4
<1>10. SentEvents' = SentEvents /\ faults <= faults'
  BY <1>1, <1>2 DEF SentEvents
<1> QED
  BY <1>1, <1>2, <1>8, <1>9, <1>10, Moved

LEMMA ReplayedStep == TypeOK /\ ReplayedWhenRunning /\ [Next]_vars => ReplayedWhenRunning'
<1> SUFFICES ASSUME TypeOK, ReplayedWhenRunning, [Next]_vars PROVE ReplayedWhenRunning'
  OBVIOUS
<1> USE DEF ReplayedWhenRunning, Running
<1>1. CASE IngestEvents \/ Receive
  BY <1>1 DEF IngestEvents, Receive, disk
<1>2. CASE FlushToFit \/ FlushAboveThreshold \/ Tick
  BY <1>2 DEF FlushToFit, FlushAboveThreshold, Tick, DrainBuffer, vars, disk
<1>3. CASE StoreBatch
  BY <1>3 DEF StoreBatch
<1>4. CASE \E p \in Partition : WritePartition(p)
  BY <1>4 DEF WritePartition, disk
<1>5. CASE FinishFlush \/ DeleteSealed \/ RotateActive \/ DropActive \/ ReclaimFails
  BY <1>5 DEF FinishFlush, DeleteSealed, RotateActive, DropActive, ReclaimFails
<1>6. CASE Crash \/ Open \/ ReplaySegment \/ ReplayFails
  BY <1>6 DEF Crash, Open, ReplaySegment, ReplayFails
<1>7. CASE StartWriter
  BY <1>7 DEF StartWriter, disk
<1>8. CASE UNCHANGED vars
  BY <1>8 DEF vars
<1> QED
  BY <1>1, <1>2, <1>3, <1>4, <1>5, <1>6, <1>7, <1>8 DEF Next, Flush, Replay

LEMMA CountStep == EventsAreDistinct /\ RowInv /\ [Next]_vars => RowInv'
<1> SUFFICES ASSUME EventsAreDistinct, RowInv, [Next]_vars PROVE RowInv'
  OBVIOUS
<1>1. IInv' /\ HandInUse' /\ TypeOK'
  BY StepIInv, HandStep DEF RowInv, IInv
<1>2. ReplayedWhenRunning'
  BY ReplayedStep DEF RowInv, IInv, CountInv
<1>3. ASSUME NEW e \in Event PROVE CopiesAt(e)'
  <2>1. CASE IngestEvents
    BY <1>1, <2>1, IngestCounts
  <2>2. CASE Receive
    BY <1>1, <2>2, ReceiveCounts
  <2>3. CASE UNCHANGED vars
    <3>1. TypeOK /\ CopiesAt(e) /\ faults \in Nat /\ Logged(e) \in Nat
      BY Unfolded, CountTypes
    <3>2. UNCHANGED <<sent, memory, rows, old, crashes>> /\ faults <= faults' /\ Logged(e)' = Logged(e)
      BY <2>3, <3>1 DEF vars, memory, Logged
    <3> QED
      BY <1>1, <3>1, <3>2, LogShrinks
  <2>4. CASE FlushToFit \/ FlushAboveThreshold \/ Tick
    BY <1>1, <2>3, <2>4, DrainCounts DEF FlushToFit, FlushAboveThreshold, Tick
  <2>5. CASE StoreBatch
    BY <1>1, <2>5, StoreCounts
  <2>6. CASE \E p \in Partition : WritePartition(p)
    BY <1>1, <2>6, WriteCounts
  <2>7. CASE FinishFlush \/ DeleteSealed \/ RotateActive \/ DropActive \/ ReclaimFails
    BY <1>1, <2>7, ReclaimCounts
  <2>8. CASE Crash
    BY <1>1, <2>8, CrashCounts
  <2>9. CASE Open \/ StartWriter
    <3>1. TypeOK /\ CopiesAt(e) /\ faults \in Nat /\ Logged(e) \in Nat
      BY Unfolded, CountTypes
    <3>2. UNCHANGED <<sent, memory, rows, old, crashes>> /\ faults <= faults' /\ Logged(e)' = Logged(e)
      BY <2>9, <3>1 DEF Open, StartWriter, memory, disk, Logged
    <3> QED
      BY <1>1, <3>1, <3>2, LogShrinks
  <2>10. CASE ReplaySegment \/ ReplayFails
    BY <1>1, <2>10, ReplayCounts
  <2> QED
    BY <2>1, <2>2, <2>3, <2>4, <2>5, <2>6, <2>7, <2>8, <2>9, <2>10 DEF Next, Flush, Replay
<1> QED
  BY <1>1, <1>2, <1>3 DEF RowInv, CountInv

LEMMA InitCounts == Init => RowInv
<1> SUFFICES ASSUME Init PROVE RowInv
  OBVIOUS
<1>1. IInv /\ HandInUse /\ ReplayedWhenRunning
  BY InitIInv DEF Init, HandInUse, ReplayedWhenRunning
<1>2. SentEvents = {}
  BY DEF Init, SentEvents
<1>3. ASSUME NEW e \in Event PROVE CopiesAt(e)
  <2>1. /\ Times(e, <<>>) = 0 /\ In(e, <<>>) = 0 /\ InLog(e, <<>>) = 0
    BY TimesNone, InNone, InLogNone
  <2>2. /\ Times(e, buffer) = 0 /\ Times(e, hand) = 0 /\ In(e, chan) = 0 /\ draining[e] = 0
        /\ rows[e] = 0 /\ InLog(e, kept) = 0 /\ InLog(e, old) = 0 /\ InLog(e, sealed) = 0
        /\ InLog(e, doomed) = 0 /\ Times(e, active.evs) = 0 /\ crashes = 0
    BY <2>1 DEF Init, NoneDrained, EmptySegment
  <2>3. Copies(e) = 0
    BY <2>2, CopiesIs
  <2> QED
    BY <1>2, <2>2, <2>3 DEF CopiesAt, Logged, Underway
<1> QED
  BY <1>1, <1>3 DEF RowInv, CountInv

LEMMA Counted == EventsAreDistinct => (Spec => []RowInv)
<1> SUFFICES ASSUME EventsAreDistinct PROVE Spec => []RowInv
  OBVIOUS
<1>1. RowInv /\ [Next]_vars => RowInv'
  BY CountStep
<1> QED
  BY <1>1, InitCounts, PTL DEF Spec

(* When each event is sent once, whatever crashes and whichever I/O fails, *)
(* Parquet holds at most one row of an event for each incarnation of the   *)
(* server: a replay never finds an event in two segments, nor in the log   *)
(* while the batch that brings it is still on its way.                     *)
THEOREM RowsPerIncarnation == EventsAreDistinct => (Spec => []OneRowPerIncarnation)
<1> SUFFICES ASSUME EventsAreDistinct PROVE Spec => []OneRowPerIncarnation
  OBVIOUS
<1>1. RowInv => OneRowPerIncarnation
  <2> SUFFICES ASSUME RowInv, NEW e \in Event PROVE rows[e] <= 1 + crashes
    BY DEF OneRowPerIncarnation
  <2>1. TypeOK /\ CopiesAt(e)
    BY Unfolded
  <2>2. /\ rows[e] \in Nat /\ draining[e] \in Nat /\ Times(e, buffer) \in Nat
        /\ Times(e, hand) \in Nat /\ In(e, chan) \in Nat /\ InLog(e, old) \in Nat
        /\ crashes \in Nat /\ Copies(e) \in Nat
    BY <2>1, CountTypes
  <2>3. rows[e] <= Copies(e)
    BY <2>2, CopiesIs
  <2>4. Copies(e) + InLog(e, old) <= 1 + crashes
    BY <2>1 DEF CopiesAt
  <2> QED
    BY <2>2, <2>3, <2>4
<1> QED
  BY <1>1, Counted, PTL

(* Until something fails every event sent is in exactly one place between *)
(* the channel and Parquet: the flush loops, the oversized batch and the   *)
(* partial drains neither lose nor duplicate one.                          *)
THEOREM OneCopyEach == EventsAreDistinct => (Spec => []ExactlyOneCopy)
<1> SUFFICES ASSUME EventsAreDistinct PROVE Spec => []ExactlyOneCopy
  OBVIOUS
<1>1. RowInv => ExactlyOneCopy
  <2> SUFFICES ASSUME RowInv, crashes = 0, faults = 0, NEW e \in SentEvents PROVE Copies(e) = 1
    BY DEF ExactlyOneCopy
  <2>1. e \in Event
    <3>1. PICK i \in 1..sent : e \in Range(Input[i])
      BY DEF SentEvents
    <3>2. i \in 1..Len(Input)
      <4>1. Len(Input) \in Nat /\ sent \in 0..Len(Input)
        BY InputAssumption, LenProperties DEF RowInv, IInv, TypeOK
      <4> QED
        BY <4>1
    <3>3. Input[i] \in Seq(Event)
      BY <3>2, InputAssumption, ElementOfSeq
    <3> QED
      BY <3>1, <3>3, RangeEquality, ElementOfSeq
  <2> QED
    BY <2>1, Unfolded DEF CopiesAt
<1> QED
  BY <1>1, Counted, PTL
=============================================================================
