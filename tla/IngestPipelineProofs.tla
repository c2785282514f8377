----------------------- MODULE IngestPipelineProofs -----------------------
(* What the ingest pipeline guarantees for every traffic, every capacity   *)
(* of its queues and every batch size.                                     *)
EXTENDS IngestPipeline, SequenceTheorems, TLAPS

-----------------------------------------------------------------------------
(* Type correctness.                                                       *)

LEMMA TypeInit == Init => TypeOK
<1>1. <<>> \in Seq(Nat) /\ <<>> \in Seq(Seq(Nat)) /\ Len(<<>>) = 0
  OBVIOUS
<1>2. 0 \in 0..MaxOffered /\ 0 <= IngestCap
  BY CapsAssumption, BoundsAssumption
<1> QED
  BY <1>1, <1>2 DEF Init, TypeOK

LEMMA TypeStep == TypeOK /\ [Next]_vars => TypeOK'
<1> SUFFICES ASSUME TypeOK, [Next]_vars PROVE TypeOK'
  OBVIOUS
<1> USE CapsAssumption, BoundsAssumption DEF TypeOK
<1>1. CASE HandleIngest
  <2>1. offered + 1 \in Nat /\ offered' \in 0..MaxOffered
    BY <1>1 DEF HandleIngest
  <2>2. CASE Accept
    <3>1. chan' \in Seq(Nat) /\ Len(chan') = Len(chan) + 1 /\ accepted' \in Seq(Nat)
      BY <2>1, <2>2, AppendProperties DEF Accept
    <3> QED
      BY <1>1, <2>1, <2>2, <3>1 DEF HandleIngest, Accept, HasRoom
  <2>3. CASE TurnAway \/ Filtered
    BY <1>1, <2>1, <2>3 DEF HandleIngest, TurnAway, Filtered
  <2> QED
    BY <1>1, <2>2, <2>3 DEF HandleIngest
<1>2. CASE DropSenders
  BY <1>2 DEF DropSenders
<1>3. CASE Recv
  <2>1. Head(chan) \in Nat /\ chan' \in Seq(Nat) /\ Len(chan') = Len(chan) - 1
    BY <1>3, HeadTailProperties DEF Recv
  <2>2. Append(buf, Head(chan)) \in Seq(Nat) /\ <<>> \in Seq(Nat)
    BY <2>1, AppendProperties
  <2>3. CASE BatchFull(Append(buf, Head(chan)))
    <3>1. buf' = <<>> /\ batch' = Append(buf, Head(chan)) /\ phase' = "send"
      BY <1>3, <2>3 DEF Recv, TakeBatch
    <3> QED
      BY <1>3, <2>1, <2>2, <3>1 DEF Recv
  <2>4. CASE ~BatchFull(Append(buf, Head(chan)))
    <3>1. buf' = Append(buf, Head(chan)) /\ UNCHANGED <<batch, phase>>
      BY <1>3, <2>4 DEF Recv
    <3> QED
      BY <1>3, <2>1, <2>2, <3>1 DEF Recv
  <2> QED
    BY <2>3, <2>4
<1>4. CASE Tick
  BY <1>4 DEF Tick, TakeBatch
<1>5. CASE Leave
  BY <1>5 DEF Leave, TakeBatch
<1>6. CASE FlushDone
  <2>1. CASE Sent
    <3>1. store' \in Seq(Seq(Nat)) /\ handed' \in Seq(Nat)
      BY <2>1, AppendProperties, ConcatProperties DEF Sent
    <3> QED
      BY <1>6, <2>1, <3>1 DEF FlushDone, Sent
  <2>2. CASE Refused
    <3>1. lost' \in Seq(Nat)
      BY <2>2, ConcatProperties DEF Refused
    <3> QED
      BY <1>6, <2>2, <3>1 DEF FlushDone, Refused
  <2> QED
    BY <1>6, <2>1, <2>2 DEF FlushDone
<1>7. CASE WriterReceives
  <2>1. store' \in Seq(Seq(Nat)) /\ Head(store) \in Seq(Nat)
    BY <1>7, HeadTailProperties DEF WriterReceives
  <2>2. received' \in Seq(Nat)
    BY <1>7, <2>1, ConcatProperties DEF WriterReceives
  <2> QED
    BY <1>7, <2>1, <2>2 DEF WriterReceives
<1>8. CASE WriterDies
  <2>1. <<>> \in Seq(Seq(Nat))
    OBVIOUS
  <2> QED
    BY <1>8, <2>1 DEF WriterDies
<1>9. CASE UNCHANGED vars
  BY <1>9 DEF vars
<1> QED
  BY <1>1, <1>2, <1>3, <1>4, <1>5, <1>6, <1>7, <1>8, <1>9 DEF Next, Batcher

(* The queues, the batcher and the history keep their types whatever the    *)
(* traffic, the capacities and the batch size.                              *)
THEOREM PipelineTyped == Spec => []TypeOK
  BY TypeInit, TypeStep, PTL DEF Spec

-----------------------------------------------------------------------------
(* No event is lost, repeated or overtaken.                                *)

(* batch holds events only while a flush is awaited, and then buf has none. *)
OneHolder == IF phase \in {"send", "final"} THEN buf = <<>> ELSE batch = <<>>

(* A batch is refused only by a store whose writer is gone. *)
LossNeedsDeadWriter == storeOpen => lost = <<>>

InOrderInv == TypeOK /\ OneHolder /\ LossNeedsDeadWriter /\ InOrderOnce

LEMMA Regroup ==
  ASSUME NEW a \in Seq(Nat), NEW b \in Seq(Nat), NEW c \in Seq(Nat)
  PROVE  /\ a \o b \in Seq(Nat) /\ (a \o b) \o c = a \o (b \o c)
         /\ a \o <<>> = a /\ <<>> \o a = a
<1>1. a \o b \in Seq(Nat)
  BY ConcatProperties
<1>2. (a \o b) \o c = a \o (b \o c)
  BY ConcatAssociative
<1>3. a \o <<>> = a /\ <<>> \o a = a
  BY ConcatEmptySeq
<1> QED
  BY ONLY <1>1, <1>2, <1>3

LEMMA Shift ==
  ASSUME NEW a \in Seq(Nat), NEW b \in Seq(Nat), NEW c \in Seq(Nat)
  PROVE  (a \o b) \o c = a \o (b \o c)
  BY ConcatAssociative

LEMMA Joined ==
  ASSUME NEW a \in Seq(Nat), NEW b \in Seq(Nat)
  PROVE  a \o b \in Seq(Nat) /\ Len(a \o b) = Len(a) + Len(b)
  BY ConcatProperties

LEMMA HeadFirst ==
  ASSUME NEW s \in Seq(Nat), s # <<>>
  PROVE  Head(s) \in Nat /\ Tail(s) \in Seq(Nat) /\ s = <<Head(s)>> \o Tail(s)
<1>1. Head(s) \in Nat /\ Tail(s) \in Seq(Nat)
  BY HeadTailProperties
<1> QED
  BY <1>1

LEMMA InOrderStep == InOrderInv /\ [Next]_vars => InOrderInv'
<1> SUFFICES ASSUME InOrderInv, [Next]_vars PROVE InOrderInv'
  OBVIOUS
<1>1. TypeOK' /\ TypeOK
  BY TypeStep DEF InOrderInv
<1>2. /\ chan \in Seq(Nat) /\ buf \in Seq(Nat) /\ batch \in Seq(Nat)
      /\ handed \in Seq(Nat) /\ lost \in Seq(Nat) /\ accepted \in Seq(Nat)
      /\ <<>> \in Seq(Nat)
  BY <1>1 DEF TypeOK
<1>3. accepted = handed \o lost \o batch \o buf \o chan
  BY DEF InOrderInv, InOrderOnce
<1> DEFINE Done == handed \o lost \o batch
<1>4. Done \in Seq(Nat) /\ Done \o buf \in Seq(Nat) /\ handed \o lost \in Seq(Nat)
  BY <1>2, Regroup
<1>5. CASE HandleIngest
  <2>1. CASE Accept
    <3>1. offered + 1 \in Nat
      BY <1>1 DEF TypeOK
    <3>2. <<offered + 1>> \in Seq(Nat)
      BY <3>1
    <3>3. chan' = chan \o <<offered + 1>> /\ accepted' = accepted \o <<offered + 1>>
      BY <1>2, <2>1, <3>1, AppendIsConcat DEF Accept
    <3> DEFINE Before == Done \o buf
    <3>4. accepted' = Before \o chan'
      <4>1. Before \in Seq(Nat) /\ accepted = Before \o chan
        BY <1>3, <1>4
      <4> DEFINE last == <<offered + 1>>
      <4> HIDE DEF Before, last
      <4>2. last \in Seq(Nat) /\ chan' = chan \o last /\ accepted' = accepted \o last
        BY <3>2, <3>3 DEF last
      <4>3. (Before \o chan) \o last = Before \o (chan \o last)
        <5>1. Before \in Seq(Nat) /\ chan \in Seq(Nat) /\ last \in Seq(Nat)
          BY <1>2, <4>1, <4>2
        <5> QED
          BY ONLY <5>1, Shift
      <4> QED
        BY <4>1, <4>2, <4>3
    <3> QED
      BY <1>1, <1>5, <3>4 DEF InOrderInv, InOrderOnce, OneHolder, LossNeedsDeadWriter, HandleIngest
  <2>2. CASE TurnAway \/ Filtered
    BY <1>1, <1>5, <2>2
    DEF InOrderInv, InOrderOnce, OneHolder, LossNeedsDeadWriter, HandleIngest, TurnAway, Filtered
  <2> QED
    BY <1>5, <2>1, <2>2 DEF HandleIngest
<1>6. CASE DropSenders \/ WriterReceives \/ WriterDies \/ UNCHANGED vars
  <2>1. UNCHANGED <<chan, phase, buf, batch, accepted, handed, lost>> /\ (storeOpen' => storeOpen)
    BY <1>6 DEF DropSenders, WriterReceives, WriterDies, vars
  <2> QED
    BY <1>1, <2>1 DEF InOrderInv, InOrderOnce, OneHolder, LossNeedsDeadWriter
<1>7. CASE Recv
  <2> DEFINE e == Head(chan)
             rest == Tail(chan)
  <2>1. e \in Nat /\ rest \in Seq(Nat) /\ chan = <<e>> \o rest /\ batch = <<>>
    BY <1>2, <1>7, HeadFirst DEF Recv, InOrderInv, OneHolder
  <2>2. <<e>> \in Seq(Nat)
    BY <2>1
  <2>3. Append(buf, e) = buf \o <<e>> /\ Append(buf, e) \in Seq(Nat)
    BY <1>2, <2>1, AppendIsConcat, AppendProperties
  <2> HIDE DEF e, rest
  <2>4. accepted = (Done \o Append(buf, e)) \o rest
    <3> DEFINE one == <<e>>
    <3>1. accepted = (Done \o buf) \o (one \o rest) /\ one \in Seq(Nat) /\ Append(buf, e) = buf \o one
      BY <1>3, <2>1, <2>2, <2>3
    <3>2. Done \in Seq(Nat) /\ Done \o buf \in Seq(Nat)
      BY <1>4
    <3> HIDE DEF Done, one
    <3>3. Done \in Seq(Nat) /\ Done \o buf \in Seq(Nat) /\ one \in Seq(Nat) /\ rest \in Seq(Nat) /\ buf \in Seq(Nat)
      BY <1>2, <2>1, <3>1, <3>2
    <3>4. (Done \o buf) \o (one \o rest) = ((Done \o buf) \o one) \o rest
      BY ONLY <3>3, Shift
    <3>5. (Done \o buf) \o one = Done \o (buf \o one)
      BY ONLY <3>3, Shift
    <3> QED
      BY <3>1, <3>4, <3>5
  <2>5. CASE BatchFull(Append(buf, e))
    <3>1. /\ batch' = Append(buf, e) /\ buf' = <<>> /\ chan' = rest /\ phase' = "send"
          /\ UNCHANGED <<handed, lost, accepted, storeOpen>>
      BY <1>7, <2>5 DEF Recv, TakeBatch, e, rest
    <3>2. Done = handed \o lost
      BY <1>4, <2>1, Regroup
    <3>3. accepted' = (((handed' \o lost') \o batch') \o buf') \o chan'
      BY <1>4, <2>3, <2>4, <3>1, <3>2, Regroup
    <3> QED
      BY <1>1, <3>1, <3>3 DEF InOrderInv, InOrderOnce, OneHolder, LossNeedsDeadWriter
  <2>6. CASE ~BatchFull(Append(buf, e))
    <3>1. /\ buf' = Append(buf, e) /\ chan' = rest
          /\ UNCHANGED <<batch, phase, handed, lost, accepted, storeOpen>>
      BY <1>7, <2>6 DEF Recv, e, rest
    <3>2. accepted' = (((handed' \o lost') \o batch') \o buf') \o chan'
      BY <2>4, <3>1
    <3>3. phase = "select"
      BY <1>7 DEF Recv
    <3> QED
      BY <1>1, <2>1, <3>1, <3>2, <3>3 DEF InOrderInv, InOrderOnce, OneHolder, LossNeedsDeadWriter
  <2> QED
    BY <2>5, <2>6
<1>8. CASE Tick \/ Leave
  <2>1. batch = <<>> /\ Done = handed \o lost /\ UNCHANGED <<chan, handed, lost, accepted, storeOpen>>
    BY <1>4, <1>8, Regroup DEF Tick, Leave, InOrderInv, OneHolder
  <2>2. CASE batch' = buf /\ buf' = <<>> /\ phase' \in {"send", "final"}
    <3>1. (Done \o buf) \o <<>> = Done \o buf
      BY ONLY <1>4, ConcatEmptySeq
    <3>2. (handed' \o lost') \o batch' = Done \o buf
      BY ONLY <2>1, <2>2
    <3>3. ((handed' \o lost') \o batch') \o buf' = Done \o buf
      BY ONLY <2>2, <3>1, <3>2
    <3>4. accepted' = (((handed' \o lost') \o batch') \o buf') \o chan'
      BY ONLY <1>3, <2>1, <3>3
    <3> QED
      BY <1>1, <2>1, <2>2, <3>4 DEF InOrderInv, InOrderOnce, OneHolder, LossNeedsDeadWriter
  <2>3. CASE phase' = "ended" /\ UNCHANGED <<buf, batch>>
    BY <1>1, <1>3, <2>1, <2>3 DEF InOrderInv, InOrderOnce, OneHolder, LossNeedsDeadWriter
  <2> QED
    BY <1>8, <2>2, <2>3 DEF Tick, Leave, TakeBatch
<1>9. CASE FlushDone
  <2>1. batch' = <<>> /\ phase' \in {"select", "ended"}
        /\ UNCHANGED <<buf, chan, accepted, storeOpen>>
    BY <1>9 DEF FlushDone
  <2>2. handed' \in Seq(Nat) /\ lost' \in Seq(Nat)
    BY <1>1 DEF TypeOK
  <2>3. handed' \o lost' = Done
    <3>1. CASE Sent
      <4>1. lost = <<>> /\ lost' = <<>> /\ handed' = handed \o batch
        BY <3>1 DEF Sent, InOrderInv, LossNeedsDeadWriter
      <4> QED
        BY <1>2, <2>2, <4>1, Regroup
    <3>2. CASE Refused
      <4>1. handed' = handed /\ lost' = lost \o batch
        BY <3>2 DEF Refused
      <4>2. (handed \o lost) \o batch = handed \o (lost \o batch)
        <5>1. handed \in Seq(Nat) /\ lost \in Seq(Nat) /\ batch \in Seq(Nat)
          BY <1>2
        <5> QED
          BY ONLY <5>1, Shift
      <4> QED
        BY <4>1, <4>2
    <3> QED
      BY <1>9, <3>1, <3>2 DEF FlushDone
  <2>4. (handed' \o lost') \o batch' = Done
    BY <1>4, <2>1, <2>3, Regroup
  <2>5. accepted' = (((handed' \o lost') \o batch') \o buf') \o chan'
    BY <1>3, <2>1, <2>4
  <2>6. storeOpen' => lost' = <<>>
    BY <1>9, <2>1 DEF FlushDone, Sent, Refused, InOrderInv, LossNeedsDeadWriter
  <2> QED
    BY <1>1, <2>1, <2>5, <2>6 DEF InOrderInv, InOrderOnce, OneHolder, LossNeedsDeadWriter
<1> QED
  BY <1>5, <1>6, <1>7, <1>8, <1>9 DEF Next, Batcher

LEMMA InOrderInit == Init => InOrderInv
<1> SUFFICES ASSUME Init PROVE InOrderInv
  OBVIOUS
<1>1. <<>> \in Seq(Nat)
  OBVIOUS
<1> QED
  BY <1>1, TypeInit, Regroup DEF Init, InOrderInv, InOrderOnce, OneHolder, LossNeedsDeadWriter

LEMMA InOrderAlways == Spec => []InOrderInv
  BY InOrderInit, InOrderStep, PTL DEF Spec

(* For any queues and batches: each event a beacon was answered 204 for is  *)
(* at one place of the pipeline, in the order of the answers.               *)
THEOREM AcceptedInOrderOnce == Spec => []InOrderOnce
<1>1. InOrderInv => InOrderOnce
  BY DEF InOrderInv
<1> QED
  BY <1>1, InOrderAlways, PTL

-----------------------------------------------------------------------------
(* Memory is bounded.                                                      *)

BacklogInv == TypeOK /\ OneHolder /\ (phase = "select" => Len(buf) < BatchSize) /\ BacklogBound

LEMMA BacklogStep == InOrderInv /\ BacklogInv /\ [Next]_vars => BacklogInv'
<1> SUFFICES ASSUME InOrderInv, BacklogInv, [Next]_vars PROVE BacklogInv'
  OBVIOUS
<1>1. TypeOK /\ TypeOK' /\ OneHolder'
  BY InOrderStep DEF InOrderInv
<1>2. Len(chan') <= IngestCap
  BY <1>1 DEF TypeOK
<1>3. /\ Len(buf) \in Nat /\ Len(batch) \in Nat /\ Len(store) \in Nat /\ BatchSize \in Nat /\ BatchSize > 0
      /\ Len(<<>>) = 0
  <2>1. buf \in Seq(Nat) /\ batch \in Seq(Nat) /\ store \in Seq(Seq(Nat))
    BY <1>1 DEF TypeOK
  <2>2. BatchSize \in Nat /\ BatchSize > 0
    BY CapsAssumption
  <2> QED
    BY ONLY <2>1, <2>2
<1>4. /\ phase' = "select" => Len(buf') < BatchSize
      /\ Len(buf') + Len(batch') <= BatchSize
  <2>1. CASE Recv
    <3>1. Head(chan) \in Nat
      BY <1>1, <2>1, HeadTailProperties DEF Recv, TypeOK
    <3>2. Len(Append(buf, Head(chan))) = Len(buf) + 1
      BY <1>1, <3>1, AppendProperties DEF TypeOK
    <3>3. batch = <<>> /\ Len(buf) < BatchSize
      BY <2>1 DEF Recv, BacklogInv, OneHolder
    <3> QED
      BY <1>3, <2>1, <3>2, <3>3 DEF Recv, TakeBatch, BatchFull
  <2>2. CASE Tick \/ Leave
    BY <1>3, <2>2 DEF Tick, Leave, TakeBatch, BacklogInv, BacklogBound, OneHolder
  <2>3. CASE FlushDone
    BY <1>3, <2>3 DEF FlushDone, BacklogInv, BacklogBound, OneHolder
  <2>4. CASE UNCHANGED <<buf, batch, phase>>
    BY <2>4 DEF BacklogInv, BacklogBound
  <2> QED
    BY <2>1, <2>2, <2>3, <2>4
    DEF Next, Batcher, HandleIngest, DropSenders, WriterReceives, WriterDies, vars
<1>5. Len(store') <= StoreCap /\ \A i \in DOMAIN store' : Len(store'[i]) <= BatchSize
  <2>1. store \in Seq(Seq(Nat)) /\ batch \in Seq(Nat) /\ StoreCap \in Nat
    BY <1>1, CapsAssumption DEF TypeOK
  <2>2. CASE FlushDone /\ Sent
    <3>1. /\ Len(store') = Len(store) + 1
          /\ \A i \in 1 .. Len(store) : store'[i] = store[i]
          /\ store'[Len(store) + 1] = batch /\ store' \in Seq(Seq(Nat))
      BY <2>1, <2>2, AppendProperties DEF Sent
    <3>2. DOMAIN store' = 1 .. Len(store) + 1 /\ DOMAIN store = 1 .. Len(store)
      BY <2>1, <3>1, LenProperties
    <3>3. Len(batch) <= BatchSize
      BY <1>3 DEF BacklogInv, BacklogBound
    <3>4. ASSUME NEW i \in DOMAIN store' PROVE Len(store'[i]) <= BatchSize
      <4>1. CASE i \in 1 .. Len(store)
        BY <3>1, <3>2, <4>1 DEF BacklogInv, BacklogBound
      <4>2. CASE i = Len(store) + 1
        BY <3>1, <3>3, <4>2
      <4> QED
        BY <1>3, <3>2, <4>1, <4>2
    <3> QED
      <4>1. Len(store) < StoreCap
        BY <2>2 DEF Sent
      <4>2. Len(store') <= StoreCap
        BY <1>3, <2>1, <3>1, <4>1
      <4> QED
        BY <3>4, <4>2
  <2>3. CASE WriterReceives
    <3>1. store # <<>> /\ store' = Tail(store)
      BY <2>3 DEF WriterReceives
    <3>2. /\ Len(store') = Len(store) - 1 /\ store' \in Seq(Seq(Nat)) 
          /\ \A i \in 1 .. Len(store') : store'[i] = store[i + 1]
      BY <2>1, <3>1, HeadTailProperties
    <3>3. DOMAIN store' = 1 .. Len(store) - 1 /\ DOMAIN store = 1 .. Len(store)
      BY <2>1, <3>2, LenProperties
    <3>4. ASSUME NEW i \in DOMAIN store' PROVE Len(store'[i]) <= BatchSize
      <4>1. i + 1 \in DOMAIN store /\ i \in 1 .. Len(store')
        BY <1>3, <3>2, <3>3
      <4> QED
        BY <3>2, <4>1 DEF BacklogInv, BacklogBound
    <3> QED
      BY <1>3, <2>1, <3>2, <3>4 DEF BacklogInv, BacklogBound
  <2>4. CASE WriterDies
    BY <1>3, <2>1, <2>4 DEF WriterDies
  <2>5. CASE UNCHANGED store
    BY <2>5 DEF BacklogInv, BacklogBound
  <2> QED
    BY <2>2, <2>3, <2>4, <2>5
    DEF Next, Batcher, HandleIngest, DropSenders, Recv, Tick, Leave, FlushDone, Refused, vars
<1> QED
  BY <1>1, <1>2, <1>4, <1>5 DEF BacklogInv, BacklogBound

LEMMA BacklogInit == Init => BacklogInv
<1> SUFFICES ASSUME Init PROVE BacklogInv
  OBVIOUS
<1>1. DOMAIN <<>> = {} /\ Len(<<>>) = 0
  OBVIOUS
<1> QED
  BY <1>1, TypeInit, CapsAssumption DEF Init, BacklogInv, OneHolder, BacklogBound

(* Whatever the traffic and however slow or dead the store, no queue of the *)
(* pipeline passes its capacity and no batch its size.                      *)
THEOREM BacklogIsBounded == Spec => []BacklogBound
<1>1. BacklogInv => BacklogBound
  BY DEF BacklogInv
<1> QED
  BY <1>1, BacklogInit, BacklogStep, InOrderAlways, PTL DEF Spec

-----------------------------------------------------------------------------
(* What the writer receives.                                               *)

(* Pieces of a sequence that grows, and pieces side by side.               *)
LEMMA PieceStays ==
  ASSUME NEW s \in Seq(Nat), NEW t \in Seq(Nat), NEW a \in Nat, NEW b \in Nat,
         a >= 1, b <= Len(s)
  PROVE  SubSeq(s \o t, a, b) = SubSeq(s, a, b)
<1>1. /\ s \o t \in Seq(Nat) /\ Len(s) \in Nat /\ Len(s \o t) = Len(s) + Len(t)
      /\ Len(t) \in Nat /\ \A i \in 1..Len(s) : (s \o t)[i] = s[i]
  BY ConcatProperties, LenProperties
<1>2. \A i \in a..b : (s \o t)[i] = s[i] /\ s[i] \in Nat
  BY <1>1, ElementOfSeq
<1>3. /\ SubSeq(s, a, b) \in Seq(Nat) /\ SubSeq(s \o t, a, b) \in Seq(Nat)
      /\ Len(SubSeq(s, a, b)) = Len(SubSeq(s \o t, a, b))
      /\ \A i \in 1..Len(SubSeq(s, a, b)) : SubSeq(s, a, b)[i] = SubSeq(s \o t, a, b)[i]
  BY <1>1, <1>2, SubSeqProperties
<1> QED
  BY <1>3, SeqEqual

LEMMA LastPiece ==
  ASSUME NEW s \in Seq(Nat), NEW t \in Seq(Nat)
  PROVE  SubSeq(s \o t, Len(s) + 1, Len(s) + Len(t)) = t
<1>1. /\ s \o t \in Seq(Nat) /\ Len(s) \in Nat /\ Len(t) \in Nat
      /\ \A i \in 1..Len(t) : (s \o t)[Len(s) + i] = t[i] /\ t[i] \in Nat
  BY ConcatProperties, LenProperties, ElementOfSeq
<1> DEFINE piece == SubSeq(s \o t, Len(s) + 1, Len(s) + Len(t))
<1>2. \A i \in Len(s) + 1 .. Len(s) + Len(t) : (s \o t)[i] \in Nat
  <2>1. Len(s \o t) = Len(s) + Len(t)
    BY ConcatProperties
  <2> QED
    BY <1>1, <2>1, ElementOfSeq
<1>3. /\ piece \in Seq(Nat) /\ Len(piece) = Len(t)
      /\ \A i \in 1..Len(t) : piece[i] = (s \o t)[Len(s) + 1 + i - 1]
  BY <1>1, <1>2, SubSeqProperties
<1>4. \A i \in 1..Len(t) : piece[i] = t[i]
  BY <1>1, <1>3
<1> HIDE DEF piece
<1>5. piece = t
  BY <1>3, <1>4, SeqEqual
<1> QED
  BY <1>5 DEF piece

LEMMA PiecesJoin ==
  ASSUME NEW s \in Seq(Nat), NEW m \in Nat, NEW n \in Nat, m <= n, n <= Len(s)
  PROVE  SubSeq(s, 1, m) \o SubSeq(s, m + 1, n) = SubSeq(s, 1, n)
<1> DEFINE a == SubSeq(s, 1, m)
           b == SubSeq(s, m + 1, n)
           c == SubSeq(s, 1, n)
<1>1. \A i \in 1..n : s[i] \in Nat
  BY ElementOfSeq
<1>2. /\ a \in Seq(Nat) /\ Len(a) = m /\ \A i \in 1..m : a[i] = s[i]
      /\ b \in Seq(Nat) /\ Len(b) = n - m /\ \A i \in 1..(n - m) : b[i] = s[m + i]
      /\ c \in Seq(Nat) /\ Len(c) = n /\ \A i \in 1..n : c[i] = s[i]
  BY <1>1, SubSeqProperties
<1> DEFINE ab == a \o b
<1> HIDE DEF a, b, c
<1>3. /\ ab \in Seq(Nat) /\ Len(ab) = m + (n - m)
      /\ \A i \in 1..m + (n - m) : ab[i] = IF i <= m THEN a[i] ELSE b[i - m]
  <2>1. a \in Seq(Nat) /\ b \in Seq(Nat) /\ Len(a) = m /\ Len(b) = n - m
    BY <1>2
  <2>2. /\ a \o b \in Seq(Nat) /\ Len(a \o b) = Len(a) + Len(b)
        /\ \A i \in 1..Len(a) + Len(b) : (a \o b)[i] = IF i <= Len(a) THEN a[i] ELSE b[i - Len(a)]
    BY ONLY <2>1, ConcatProperties
  <2> QED
    BY ONLY <2>1, <2>2
<1> HIDE DEF ab
<1>4. m + (n - m) = n
  OBVIOUS
<1>5. ASSUME NEW i \in 1..n PROVE ab[i] = c[i]
  <2>1. ab[i] = IF i <= m THEN a[i] ELSE b[i - m]
    BY <1>3, <1>4
  <2>2. c[i] = s[i]
    BY <1>2
  <2>3. CASE i <= m
    <3>1. i \in 1..m
      BY <2>3
    <3>2. a[i] = s[i]
      BY <1>2, <3>1
    <3> QED
      BY <2>1, <2>2, <2>3, <3>2
  <2>4. CASE i > m
    <3>1. i - m \in 1..(n - m) /\ m + (i - m) = i /\ ~(i <= m)
      BY <2>4
    <3>2. b[i - m] = s[i]
      BY <1>2, <3>1
    <3> QED
      BY <2>1, <2>2, <3>1, <3>2
  <2>5. i <= m \/ i > m
    OBVIOUS
  <2> QED
    BY <2>3, <2>4, <2>5
<1>6. ab = c
  BY <1>2, <1>3, <1>4, <1>5, SeqEqual
<1> QED
  BY <1>6 DEF a, b, c, ab

(* x and then f, as a sequence of its own. *)
Both(x, f) == x \o f

LEMMA OneMore ==
  ASSUME NEW h \in Seq(Nat), NEW x \in Seq(Nat), NEW f \in Seq(Nat)
  PROVE  /\ Both(x, f) \in Seq(Nat) /\ Len(Both(x, f)) = Len(x) + Len(f)
         /\ (h \o x) \o f = h \o Both(x, f)
<1>1. x \o f \in Seq(Nat) /\ Len(x \o f) = Len(x) + Len(f)
  BY Joined
<1>2. (h \o x) \o f = h \o (x \o f)
  BY Shift
<1> QED
  BY <1>1, <1>2, Zenon DEF Both

(* The batches of a queue q are what follows the first m events of h, cut  *)
(* at increasing places, each cut at most one batch after the one before.  *)
Cuts(cut, q, h, m) ==
    /\ cut \in [0..Len(q) -> Nat] /\ cut[0] = m /\ cut[Len(q)] = Len(h)
    /\ \A i \in 1..Len(q) : /\ cut[i] = cut[i - 1] + Len(q[i]) /\ cut[i] <= Len(h)
                            /\ q[i] = SubSeq(h, cut[i - 1] + 1, cut[i])
    /\ \A i \in 0..Len(q) : Len(h) - cut[i] <= (Len(q) - i) * BatchSize

LEMMA CutsAppend ==
  ASSUME NEW cut, NEW q \in Seq(Seq(Nat)), NEW h \in Seq(Nat), NEW m \in Nat,
         Cuts(cut, q, h, m), NEW b \in Seq(Nat), Len(b) <= BatchSize
  PROVE  \E c : Cuts(c, Append(q, b), h \o b, m)
<1> DEFINE n == Len(q)
           c == [i \in 0..n + 1 |-> IF i = n + 1 THEN Len(h) + Len(b) ELSE cut[i]]
           q2 == Append(q, b)
           h2 == h \o b
<1>1. /\ n \in Nat /\ Len(h) \in Nat /\ Len(b) \in Nat /\ BatchSize \in Nat
      /\ Len(q2) = n + 1 /\ q2[n + 1] = b /\ \A i \in 1..n : q2[i] = q[i]
      /\ h2 \in Seq(Nat) /\ Len(h2) = Len(h) + Len(b)
  BY AppendProperties, ConcatProperties, LenProperties, CapsAssumption
<1>2. /\ cut \in [0..n -> Nat] /\ cut[0] = m /\ cut[n] = Len(h)
      /\ \A i \in 1..n : /\ cut[i] = cut[i - 1] + Len(q[i]) /\ cut[i] <= Len(h)
                         /\ q[i] = SubSeq(h, cut[i - 1] + 1, cut[i])
      /\ \A i \in 0..n : Len(h) - cut[i] <= (n - i) * BatchSize
  BY DEF Cuts
<1> HIDE DEF q2, n
<1>3. /\ c \in [0..n + 1 -> Nat] /\ c[0] = m /\ c[n + 1] = Len(h2)
      /\ \A i \in 0..n : c[i] = cut[i] /\ c[i] \in Nat
  BY <1>1, <1>2
<1> HIDE DEF c, h2
<1>4. ASSUME NEW i \in 1..n + 1
      PROVE  /\ c[i] = c[i - 1] + Len(q2[i]) /\ c[i] <= Len(h2)
             /\ q2[i] = SubSeq(h2, c[i - 1] + 1, c[i])
  <2>1. CASE i \in 1..n
    <3>1. c[i] = cut[i] /\ c[i - 1] = cut[i - 1] /\ q2[i] = q[i]
      BY <1>1, <1>3, <2>1
    <3>2. cut[i] <= Len(h) /\ cut[i] = cut[i - 1] + Len(q[i]) /\ q[i] = SubSeq(h, cut[i - 1] + 1, cut[i])
      BY <1>2, <2>1
    <3>3. cut[i] \in Nat /\ cut[i - 1] + 1 \in Nat /\ cut[i - 1] + 1 >= 1
      <4>1. i \in 0..n /\ i - 1 \in 0..n
        BY <1>1, <2>1
      <4>2. cut[i] \in Nat /\ cut[i - 1] \in Nat
        BY <1>2, <4>1
      <4> QED
        BY <4>2
    <3>4. SubSeq(h2, cut[i - 1] + 1, cut[i]) = SubSeq(h, cut[i - 1] + 1, cut[i])
      BY <3>2, <3>3, PieceStays DEF h2
    <3>5. q2[i] = SubSeq(h2, c[i - 1] + 1, c[i])
      BY <3>1, <3>2, <3>4
    <3>6. c[i] <= Len(h2)
      <4>1. c[i] \in Int /\ c[i] <= Len(h)
        <5>1. i \in 0..n
          BY <1>1, <2>1
        <5> QED
          BY <1>2, <1>3, <2>1, <5>1
      <4>2. Len(h) \in Int /\ Len(b) \in Nat /\ Len(h2) = Len(h) + Len(b)
        BY <1>1
      <4> QED
        BY ONLY <4>1, <4>2
    <3> QED
      BY <3>1, <3>2, <3>5, <3>6
  <2>2. CASE i = n + 1
    <3>1. c[i] = Len(h) + Len(b) /\ c[i - 1] = Len(h) /\ q2[i] = b
      BY <1>1, <1>2, <1>3, <2>2
    <3>2. SubSeq(h2, Len(h) + 1, Len(h) + Len(b)) = b
      BY LastPiece DEF h2
    <3> QED
      BY <1>1, <3>1, <3>2
  <2> QED
    BY <1>1, <2>1, <2>2
<1>5. ASSUME NEW i \in 0..n + 1
      PROVE  Len(h2) - c[i] <= ((n + 1) - i) * BatchSize
  <2>1. CASE i \in 0..n
    <3>1. Len(h) - cut[i] <= (n - i) * BatchSize /\ c[i] = cut[i] /\ cut[i] \in Nat
      BY <1>2, <1>3, <2>1
    <3>2. ((n + 1) - i) * BatchSize = (n - i) * BatchSize + BatchSize
      BY <1>1
    <3> DEFINE room == (n - i) * BatchSize
    <3>3. room \in Int
      BY <1>1
    <3>4. Len(h) - cut[i] <= room /\ ((n + 1) - i) * BatchSize = room + BatchSize
      BY <3>1, <3>2
    <3> HIDE DEF room
    <3>5. Len(h2) - c[i] <= room + BatchSize
      BY <1>1, <3>1, <3>3, <3>4
    <3> QED
      BY <3>4, <3>5
  <2>2. CASE i = n + 1
    <3>1. ((n + 1) - i) * BatchSize = 0 /\ Len(h2) - c[i] = 0
      BY <1>1, <1>3, <2>2
    <3> QED
      BY <3>1
  <2> QED
    BY <1>1, <2>1, <2>2
<1>6. Cuts(c, q2, h2, m)
  BY <1>1, <1>3, <1>4, <1>5 DEF Cuts
<1> QED
  BY <1>6 DEF q2, h2

LEMMA CutsTail ==
  ASSUME NEW cut, NEW q \in Seq(Seq(Nat)), NEW h \in Seq(Nat), NEW m \in Nat,
         Cuts(cut, q, h, m), q # <<>>
  PROVE  /\ \E c : Cuts(c, Tail(q), h, m + Len(Head(q)))
         /\ Head(q) = SubSeq(h, m + 1, m + Len(Head(q)))
         /\ m + Len(Head(q)) <= Len(h)
<1> DEFINE n == Len(q)
           q2 == Tail(q)
           c == [i \in 0..n - 1 |-> cut[i + 1]]
<1>1. /\ n \in Nat /\ n >= 1 /\ Len(q2) = n - 1 /\ Head(q) = q[1] /\ Len(h) \in Nat
      /\ BatchSize \in Nat /\ \A i \in 1..n - 1 : q2[i] = q[i + 1]
      /\ Head(q) \in Seq(Nat)
  BY HeadTailProperties, LenProperties, EmptySeq, CapsAssumption
<1>2. /\ cut \in [0..n -> Nat] /\ cut[0] = m /\ cut[n] = Len(h)
      /\ \A i \in 1..n : /\ cut[i] = cut[i - 1] + Len(q[i]) /\ cut[i] <= Len(h)
                         /\ q[i] = SubSeq(h, cut[i - 1] + 1, cut[i])
      /\ \A i \in 0..n : Len(h) - cut[i] <= (n - i) * BatchSize
  BY DEF Cuts
<1> HIDE DEF q2, n
<1>3. /\ cut[1] = m + Len(q[1]) /\ cut[1] <= Len(h)
      /\ q[1] = SubSeq(h, m + 1, cut[1])
  <2>1. 1 \in 1..n /\ 1 - 1 = 0
    BY <1>1
  <2> QED
    BY <1>2, <2>1
<1>4. /\ c \in [0..n - 1 -> Nat] /\ c[0] = cut[1] /\ c[n - 1] = Len(h)
      /\ \A i \in 0..n - 1 : c[i] = cut[i + 1]
  <2>1. \A i \in 0..n - 1 : cut[i + 1] \in Nat
    <3> TAKE i \in 0..n - 1
    <3>1. i + 1 \in 0..n
      BY <1>1
    <3> QED
      BY <1>2, <3>1
  <2>2. 0 \in 0..n - 1 /\ n - 1 \in 0..n - 1 /\ (n - 1) + 1 = n /\ 0 + 1 = 1
    BY <1>1
  <2> QED
    BY <1>2, <2>1, <2>2
<1> HIDE DEF c
<1>5. ASSUME NEW i \in 1..n - 1
      PROVE  /\ c[i] = c[i - 1] + Len(q2[i]) /\ c[i] <= Len(h)
             /\ q2[i] = SubSeq(h, c[i - 1] + 1, c[i])
  <2>1. i + 1 \in 1..n /\ i \in 0..n - 1 /\ i - 1 \in 0..n - 1 /\ (i + 1) - 1 = i /\ (i - 1) + 1 = i
    BY <1>1
  <2>2. c[i] = cut[i + 1] /\ c[i - 1] = cut[i] /\ q2[i] = q[i + 1]
    BY <1>1, <1>4, <2>1
  <2> QED
    BY <1>2, <2>1, <2>2
<1>6. ASSUME NEW i \in 0..n - 1
      PROVE  Len(h) - c[i] <= ((n - 1) - i) * BatchSize
  <2>1. i + 1 \in 0..n /\ n - (i + 1) = (n - 1) - i /\ c[i] = cut[i + 1]
    BY <1>1, <1>4
  <2> QED
    BY <1>2, <2>1
<1>7. Cuts(c, q2, h, m + Len(q[1]))
  BY <1>1, <1>3, <1>4, <1>5, <1>6 DEF Cuts
<1> QED
  BY <1>1, <1>3, <1>7 DEF q2

WriterInv ==
    /\ Len(received) <= Len(handed)
    /\ received = SubSeq(handed, 1, Len(received))
    /\ storeOpen => \E cut : Cuts(cut, store, handed, Len(received))

LEMMA WriterStep == BacklogInv /\ WriterInv /\ [Next]_vars => WriterInv'
<1> SUFFICES ASSUME BacklogInv, WriterInv, [Next]_vars PROVE WriterInv'
  OBVIOUS
<1>1. /\ received \in Seq(Nat) /\ handed \in Seq(Nat) /\ batch \in Seq(Nat)
      /\ store \in Seq(Seq(Nat)) /\ buf \in Seq(Nat)
      /\ Len(received) \in Nat /\ Len(handed) \in Nat /\ Len(batch) \in Nat /\ Len(buf) \in Nat
      /\ Len(batch) <= BatchSize
  <2>1. TypeOK /\ Len(buf) + Len(batch) <= BatchSize
    BY DEF BacklogInv, BacklogBound
  <2> QED
    BY <2>1, CapsAssumption DEF TypeOK
<1>2. ASSUME UNCHANGED <<received, handed>>, storeOpen' => storeOpen /\ store' = store
      PROVE  WriterInv'
  BY <1>2 DEF WriterInv
<1>3. CASE FlushDone /\ Sent
  <2>1. /\ storeOpen /\ store' = Append(store, batch) /\ handed' = handed \o batch
        /\ UNCHANGED <<received, storeOpen>>
    BY <1>3 DEF FlushDone, Sent
  <2>2. /\ Len(handed') = Len(handed) + Len(batch)
        /\ SubSeq(handed', 1, Len(received)) = SubSeq(handed, 1, Len(received))
    BY <1>1, <2>1, ConcatProperties, PieceStays DEF WriterInv
  <2>3. \E cut : Cuts(cut, store', handed', Len(received))
    BY <1>1, <2>1, CutsAppend DEF WriterInv
  <2> QED
    BY <1>1, <2>1, <2>2, <2>3 DEF WriterInv
<1>4. CASE WriterReceives
  <2>1. /\ storeOpen /\ store # <<>> /\ store' = Tail(store) /\ received' = received \o Head(store)
        /\ UNCHANGED <<handed, storeOpen>>
    BY <1>4 DEF WriterReceives
  <2> DEFINE m == Len(received)
             k == m + Len(Head(store))
  <2>2. /\ \E c : Cuts(c, Tail(store), handed, k)
        /\ Head(store) = SubSeq(handed, m + 1, k) /\ k <= Len(handed)
    BY <1>1, <2>1, CutsTail DEF WriterInv
  <2>3. Head(store) \in Seq(Nat) /\ Len(Head(store)) \in Nat
    BY <1>1, <2>1, HeadTailProperties, LenProperties
  <2>4. Len(received') = k /\ k \in Nat /\ m <= k
    BY <1>1, <2>1, <2>3, ConcatProperties
  <2>5. received' = SubSeq(handed, 1, k)
    <3>1. SubSeq(handed, 1, m) \o SubSeq(handed, m + 1, k) = SubSeq(handed, 1, k)
      BY <1>1, <2>2, <2>4, PiecesJoin
    <3> QED
      BY <2>1, <2>2, <3>1 DEF WriterInv
  <2> QED
    BY <2>1, <2>2, <2>4, <2>5 DEF WriterInv
<1>5. CASE HandleIngest \/ DropSenders \/ Recv \/ Tick \/ Leave \/ UNCHANGED vars
  BY <1>2, <1>5 DEF HandleIngest, DropSenders, Recv, Tick, Leave, vars
<1>6. CASE (FlushDone /\ Refused) \/ WriterDies
  BY <1>2, <1>6 DEF FlushDone, Refused, WriterDies
<1> QED
  BY <1>3, <1>4, <1>5, <1>6 DEF Next, Batcher, FlushDone

(* For any queues, batches and traffic: the writer receives the events      *)
(* answered 204 in the order of their answers, without a gap and without a  *)
(* repetition, and while it lives no more of them are outside its reach     *)
(* than the two queues and one batch hold.                                  *)
THEOREM WriterHasNoGap == Spec => []NoGapAtTheWriter
<1>1. Init => WriterInv
  <2> SUFFICES ASSUME Init PROVE WriterInv
    OBVIOUS
  <2>1. received = <<>> /\ handed = <<>> /\ store = <<>>
    BY DEF Init
  <2>2. Cuts([i \in 0..0 |-> 0], <<>>, <<>>, 0)
    BY CapsAssumption DEF Cuts
  <2>3. SubSeq(<<>>, 1, 0) = <<>> /\ Len(<<>>) = 0
    OBVIOUS
  <2> QED
    BY <2>1, <2>2, <2>3 DEF WriterInv
<1>2. InOrderInv /\ BacklogInv /\ WriterInv => NoGapAtTheWriter
  <2> SUFFICES ASSUME InOrderInv, BacklogInv, WriterInv PROVE NoGapAtTheWriter
    OBVIOUS
  <2>1. /\ TypeOK /\ accepted = handed \o lost \o batch \o buf \o chan
        /\ received \in Seq(Nat) /\ handed \in Seq(Nat) /\ lost \in Seq(Nat)
        /\ batch \in Seq(Nat) /\ buf \in Seq(Nat) /\ chan \in Seq(Nat)
    BY DEF InOrderInv, InOrderOnce, TypeOK
  <2>2. PICK rest \in Seq(Nat) :
        /\ accepted = handed \o rest
        /\ Len(rest) = Len(lost) + Len(batch) + Len(buf) + Len(chan)
        /\ Len(accepted) = Len(handed) + Len(rest)
    <3> DEFINE x == Both(lost, batch)
               y == Both(x, buf)
               z == Both(y, chan)
    <3>1. handed \in Seq(Nat)
      BY <2>1
    <3>2. lost \in Seq(Nat) /\ batch \in Seq(Nat)
      BY <2>1
    <3>3. buf \in Seq(Nat)
      BY <2>1
    <3>4. chan \in Seq(Nat)
      BY <2>1
    <3>5. /\ x \in Seq(Nat) /\ Len(x) = Len(lost) + Len(batch)
          /\ (handed \o lost) \o batch = handed \o x
      BY ONLY <3>1, <3>2, OneMore
    <3> HIDE DEF x
    <3>6. x \in Seq(Nat)
      BY <3>5
    <3>7. /\ y \in Seq(Nat) /\ Len(y) = Len(x) + Len(buf)
          /\ (handed \o x) \o buf = handed \o y
      BY ONLY <3>1, <3>3, <3>6, OneMore
    <3> HIDE DEF y
    <3>8. y \in Seq(Nat)
      BY <3>7
    <3>9. /\ z \in Seq(Nat) /\ Len(z) = Len(y) + Len(chan)
          /\ (handed \o y) \o chan = handed \o z
      BY ONLY <3>1, <3>4, <3>8, OneMore
    <3> HIDE DEF z
    <3>10. Len(handed \o z) = Len(handed) + Len(z)
      BY ONLY <3>1, <3>9, Joined
    <3>11. accepted = handed \o z
      BY ONLY <2>1, <3>5, <3>7, <3>9
    <3>12. Len(z) = Len(lost) + Len(batch) + Len(buf) + Len(chan)
      BY ONLY <3>5, <3>7, <3>9
    <3> QED
      BY ONLY <3>9, <3>10, <3>11, <3>12
  <2>3. /\ Len(received) \in Nat /\ Len(handed) \in Nat /\ Len(rest) \in Nat
        /\ Len(received) <= Len(handed) /\ received = SubSeq(handed, 1, Len(received))
    BY <2>1, <2>2, LenProperties DEF WriterInv
  <2>4. IsPrefix(received, accepted)
    <3>1. SubSeq(accepted, 1, Len(received)) = received
      BY <2>1, <2>2, <2>3, PieceStays
    <3>2. SubSeq(received, 1, Len(received)) = received
      BY <2>1
    <3> QED
      BY <2>2, <2>3, <3>1, <3>2 DEF IsPrefix
  <2>5. ASSUME storeOpen
        PROVE  Len(accepted) - Len(received) <= IngestCap + (StoreCap + 1) * BatchSize
    <3>1. PICK cut : Cuts(cut, store, handed, Len(received))
      BY <2>5 DEF WriterInv
    <3>2. /\ Len(store) \in Nat /\ Len(store) <= StoreCap
          /\ Len(chan) <= IngestCap /\ Len(buf) + Len(batch) <= BatchSize
      BY <2>1, LenProperties DEF BacklogInv, BacklogBound, TypeOK
    <3>3. Len(handed) - Len(received) <= Len(store) * BatchSize
      <4>1. /\ cut[0] = Len(received)
            /\ Len(handed) - cut[0] <= (Len(store) - 0) * BatchSize
        <5>1. 0 \in 0..Len(store)
          BY <3>2
        <5> QED
          BY <3>1, <5>1 DEF Cuts
      <4>2. Len(store) - 0 = Len(store)
        BY <3>2
      <4> QED
        BY <4>1, <4>2
    <3>4. Len(store) * BatchSize <= StoreCap * BatchSize
      <4>1. StoreCap - Len(store) \in Nat /\ BatchSize \in Nat /\ StoreCap \in Nat
        BY <3>2, CapsAssumption
      <4>2. \A x, y, z \in Nat : (x - y) \in Nat => y * z <= x * z
        OBVIOUS
      <4> QED
        BY <3>2, <4>1, <4>2
    <3>5. (StoreCap + 1) * BatchSize = StoreCap * BatchSize + BatchSize
      BY CapsAssumption
    <3>6. lost = <<>> /\ Len(lost) = 0
      BY <2>5 DEF InOrderInv, LossNeedsDeadWriter
    <3>7. /\ Len(batch) \in Nat /\ Len(buf) \in Nat /\ Len(chan) \in Nat
          /\ StoreCap * BatchSize \in Nat /\ Len(store) * BatchSize \in Nat
          /\ IngestCap \in Nat /\ BatchSize \in Nat
      BY <2>1, <3>2, CapsAssumption, LenProperties
    <3> DEFINE full == StoreCap * BatchSize
               queued == Len(store) * BatchSize
    <3>8. /\ full \in Nat /\ queued \in Nat /\ queued <= full
          /\ Len(handed) - Len(received) <= queued
          /\ (StoreCap + 1) * BatchSize = full + BatchSize
      BY <3>3, <3>4, <3>5, <3>7
    <3> HIDE DEF full, queued
    <3>9. Len(accepted) - Len(received) <= IngestCap + (full + BatchSize)
      BY <2>2, <2>3, <3>2, <3>6, <3>7, <3>8
    <3> QED
      BY <3>8, <3>9
  <2> QED
    BY <2>4, <2>5 DEF NoGapAtTheWriter
<1> QED
  BY <1>1, <1>2, BacklogInit, BacklogStep, InOrderAlways, WriterStep, PTL DEF Spec
=============================================================================
