----------------------------- MODULE EventStore -----------------------------
(***************************************************************************)
(* The embedded event store: the channel filled by ingest_events, the     *)
(* writer task (ParquetWriter::run) with its in-memory buffer, the        *)
(* write-ahead log on disk, the Parquet partitions, and restart with      *)
(* replay (EmbeddedBackend::open).                                        *)
(*                                                                         *)
(* The writer task is the only thread that touches the buffer and the WAL *)
(* once the server runs, so the model is one program counter, pc, plus    *)
(* the producer that fills the channel and the crashes that may fall      *)
(* between any two steps.  A crash is a process crash: it loses memory    *)
(* and keeps every byte handed to the OS, so Wal::fsync, which matters to *)
(* a power loss only, changes nothing here.                               *)
(***************************************************************************)
EXTENDS Integers, Sequences, FiniteSets, Functions

CONSTANTS
    Event,        \* the events clients send
    Partition,    \* the (site, date) pairs that name Parquet directories
    PartitionOf,  \* the partition of each event
    Input,        \* the batches the batcher hands over, in order
    FlushRows,    \* parquet_flush_rows
    ChanCap,      \* capacity of the channel (256)
    SegMax,       \* records a WAL segment takes before it is rotated
    MaxCrashes,   \* bound: process crashes
    MaxFaults     \* bound: failing I/O operations

ASSUME PartitionAssumption == PartitionOf \in [Event -> Partition]
ASSUME InputAssumption     == Input \in Seq(Seq(Event))
ASSUME FlushRowsAssumption == FlushRows \in Nat \ {0}
ASSUME SegMaxAssumption    == SegMax \in Nat \ {0}
ASSUME BoundsAssumption    == /\ ChanCap \in Nat \ {0}
                              /\ MaxCrashes \in Nat
                              /\ MaxFaults \in Nat

VARIABLES
    pc,        \* what the process does: see PC
    ret,       \* where flush_buffer returns to
    sent,      \* how many batches of Input ingest_events has accepted
    chan,      \* the mpsc channel of batches
    hand,      \* the batch the writer has received and not yet stored
    buffer,    \* EventBuffer: events waiting for Parquet, FIFO
    draining,  \* drained events not yet written: how many copies of each
    old,       \* WAL segments of earlier incarnations, still to be replayed
    kept,      \* WAL segments on disk that the process no longer tracks
    sealed,    \* WAL segments rotated away and tracked by Wal::sealed
    doomed,    \* WAL segments reclaim_sealed has taken and not yet deleted
    active,    \* the WAL segment being appended to
    rows,      \* Parquet: how many rows of each event
    appended,  \* history: events whose Wal::append returned Ok
    atRisk,    \* history: events that went through a gap in durability
    crashes,   \* history: crashes so far
    faults     \* history: I/O failures so far

disk == <<old, kept, sealed, doomed, active>>
memory == <<chan, hand, buffer, draining>>
vars == <<pc, ret, sent, chan, hand, buffer, draining, old, kept, sealed,
          doomed, active, rows, appended, atRisk, crashes, faults>>

PC == {"down", "replay", "idle", "fit", "above", "write", "reclaim", "dropActive"}

Smaller(m, n) == IF m <= n THEN m ELSE n

Capacity == 4 * FlushRows
Threshold == (Capacity * 9) \div 10
NoneDrained == [e \in Event |-> 0]

(***************************************************************************)
(* A segment is what a replay of its file can read: the events up to the  *)
(* first damaged record, whether there is one, and the size the rotation  *)
(* check goes by.  Records behind a damaged one are never read again.     *)
(***************************************************************************)
Segment == [evs : Seq(Event), torn : BOOLEAN, size : Nat]
EmptySegment == [evs |-> <<>>, torn |-> FALSE, size |-> 0]
WithRecord(seg, evs) ==
    [seg EXCEPT !.evs = IF seg.torn THEN @ ELSE @ \o evs, !.size = @ + 1]
Torn(seg) == [seg EXCEPT !.torn = TRUE]

EventsOf(segs) == UNION {Range(segs[i].evs) : i \in DOMAIN segs}
Tracked == EventsOf(sealed) \cup EventsOf(doomed) \cup Range(active.evs)
OnDisk == EventsOf(old) \cup EventsOf(kept) \cup Tracked
Visible == {e \in Event : rows[e] > 0}
InMemory == Range(buffer) \cup {e \in Event : draining[e] > 0}

Fault == faults < MaxFaults /\ faults' = faults + 1
NoFault == faults' = faults
Running == pc \notin {"down", "replay"}
-----------------------------------------------------------------------------
(* The first start, on an empty data directory.                           *)
Init ==
    /\ pc = "idle" /\ ret = "idle"
    /\ sent = 0
    /\ chan = <<>> /\ hand = <<>> /\ buffer = <<>> /\ draining = NoneDrained
    /\ old = <<>> /\ kept = <<>> /\ sealed = <<>> /\ doomed = <<>>
    /\ active = EmptySegment
    /\ rows = [e \in Event |-> 0]
    /\ appended = {} /\ atRisk = {}
    /\ crashes = 0 /\ faults = 0

ChannelHasRoom == Len(chan) < ChanCap

(* ingest_events: the caller's send completes as soon as there is room in  *)
(* the channel.                                                            *)
IngestEvents ==
    /\ Running
    /\ sent < Len(Input)
    /\ ChannelHasRoom
    /\ sent' = sent + 1
    /\ chan' = Append(chan, Input[sent + 1])
    /\ UNCHANGED <<pc, ret, hand, buffer, draining, disk, rows, appended,
                   atRisk, crashes, faults>>

(* The recv branch of the select! loop. *)
Receive ==
    /\ pc = "idle"
    /\ chan # <<>>
    /\ hand' = Head(chan)
    /\ chan' = Tail(chan)
    /\ pc' = "fit"
    /\ UNCHANGED <<ret, sent, buffer, draining, disk, rows, appended, atRisk,
                   crashes, faults>>

(* The hard cap does not hold back a batch that could never fit. *)
Fits == Len(hand) > Capacity \/ Len(buffer) + Len(hand) <= Capacity

(* What is left of the buffer once n events are popped. *)
Popped_BugTwice(n) == SubSeq(buffer, n, Len(buffer))
Popped_BugSkip(n) == SubSeq(buffer, n + 2, Len(buffer))
Popped(n) == SubSeq(buffer, n + 1, Len(buffer))

(* flush_buffer, up to its first await: drain at most FlushRows events.    *)
DrainBuffer(caller) ==
    LET n == Smaller(FlushRows, Len(buffer)) IN
    /\ draining' = [e \in Event |-> Cardinality({i \in 1..n : buffer[i] = e})]
    /\ buffer' = Popped(n)
    /\ ret' = caller
    /\ pc' = "write"
    /\ UNCHANGED <<sent, chan, hand, disk, rows, appended, atRisk, crashes,
                   faults>>

FlushToFit == pc = "fit" /\ ~Fits /\ DrainBuffer("fit")
FlushAboveThreshold == pc = "above" /\ DrainBuffer("idle")

TickDue_Bug == Len(buffer) >= FlushRows + 1
TickDue == buffer # <<>>

(* The interval branch of the select! loop. *)
Tick ==
    /\ pc = "idle"
    /\ IF TickDue THEN DrainBuffer("idle") ELSE UNCHANGED vars

AppendOk_Bug ==
    LET grown == WithRecord(active, hand) IN
    /\ NoFault
    /\ IF grown.size >= SegMax
         THEN sealed' = Append(sealed, active) /\ active' = EmptySegment
         ELSE sealed' = sealed /\ active' = grown
    /\ appended' = appended \cup Range(hand)
    /\ atRisk' = IF active.torn THEN atRisk \cup Range(hand) ELSE atRisk

(* Wal::append: the record, then a rotation once the segment is full.      *)
AppendOk ==
    LET grown == WithRecord(active, hand) IN
    /\ NoFault
    /\ IF grown.size >= SegMax
         THEN sealed' = Append(sealed, grown) /\ active' = EmptySegment
         ELSE sealed' = sealed /\ active' = grown
    /\ appended' = appended \cup Range(hand)
    /\ atRisk' = IF active.torn THEN atRisk \cup Range(hand) ELSE atRisk

(* A failing append is only logged.  It leaves nothing in the file, or a   *)
(* damaged record, or the whole record when it is the rotation that fails. *)
AppendFails ==
    /\ Fault
    /\ \/ active' = active
       \/ active' = Torn(active)
       \/ /\ active.size + 1 >= SegMax
          /\ active' = WithRecord(active, hand)
    /\ UNCHANGED <<sealed, appended, atRisk>>

(* is_above_threshold, asked once after every push. *)
AboveThreshold_Bug(len) == len > Capacity
AboveThreshold(len) == len >= Threshold

(* Append to the WAL, then push the batch to the buffer whatever came of   *)
(* it.  Nothing but a crash can fall between the two, and a crash there    *)
(* leaves what a crash after the push leaves.                              *)
StoreBatch ==
    /\ pc = "fit"
    /\ Fits
    /\ AppendOk \/ AppendFails
    /\ buffer' = buffer \o hand
    /\ hand' = <<>>
    /\ pc' = IF AboveThreshold(Len(buffer')) THEN "above" ELSE "idle"
    /\ UNCHANGED <<ret, sent, chan, draining, old, kept, doomed, rows, crashes>>

(* write_partition for one of the partitions drained, in the order of a    *)
(* HashMap.  When it fails the error is logged and the events are gone.    *)
WritePartition(p) ==
    LET mine == {e \in Event : PartitionOf[e] = p /\ draining[e] > 0} IN
    /\ pc = "write"
    /\ mine # {}
    /\ draining' = [e \in Event |-> IF e \in mine THEN 0 ELSE draining[e]]
    /\ \/ /\ NoFault
          /\ rows' = [e \in Event |->
                        IF e \in mine THEN rows[e] + draining[e] ELSE rows[e]]
          /\ atRisk' = atRisk
       \/ /\ Fault
          /\ rows' = rows
          /\ atRisk' = atRisk \cup mine
    /\ UNCHANGED <<pc, ret, sent, chan, hand, buffer, disk, appended, crashes>>

(* Reclaim only when what was logged has left the buffer. *)
ReclaimDue_BugEarly == TRUE
ReclaimDue_BugSealedOnly == buffer = <<>> /\ sealed # <<>>
ReclaimDue == buffer = <<>>

(* The end of flush_buffer: when a reclaim is due, reclaim_sealed takes    *)
(* the list of sealed segments.                                            *)
FinishFlush ==
    /\ pc = "write"
    /\ draining = NoneDrained
    /\ IF ReclaimDue
         THEN pc' = "reclaim" /\ doomed' = sealed /\ sealed' = <<>>
         ELSE pc' = ret /\ UNCHANGED <<doomed, sealed>>
    /\ UNCHANGED <<ret, sent, memory, old, kept, active, rows, appended,
                   atRisk, crashes, faults>>

(* reclaim_sealed deletes the sealed segments one file at a time, *)
DeleteSealed ==
    /\ pc = "reclaim"
    /\ doomed # <<>>
    /\ doomed' = Tail(doomed)
    /\ UNCHANGED <<pc, ret, sent, memory, old, kept, sealed, active, rows,
                   appended, atRisk, crashes, faults>>

(* then opens a fresh active segment, *)
RotateActive ==
    /\ pc = "reclaim"
    /\ doomed = <<>>
    /\ doomed' = <<active>>
    /\ active' = EmptySegment
    /\ pc' = "dropActive"
    /\ UNCHANGED <<ret, sent, memory, old, kept, sealed, rows, appended,
                   atRisk, crashes, faults>>

(* and deletes the one it replaces. *)
DropActive ==
    /\ pc = "dropActive"
    /\ doomed' = <<>>
    /\ pc' = ret
    /\ UNCHANGED <<ret, sent, memory, old, kept, sealed, active, rows,
                   appended, atRisk, crashes, faults>>

(* Any of the three may fail: the segments taken stay on disk, forgotten.  *)
ReclaimFails ==
    /\ pc \in {"reclaim", "dropActive"}
    /\ Fault
    /\ kept' = kept \o doomed
    /\ doomed' = <<>>
    /\ pc' = ret
    /\ UNCHANGED <<ret, sent, memory, old, sealed, active, rows, appended,
                   atRisk, crashes>>
-----------------------------------------------------------------------------
(* The process dies, or is stopped: nothing is flushed on shutdown.        *)
Crash ==
    /\ pc # "down"
    /\ crashes < MaxCrashes
    /\ crashes' = crashes + 1
    /\ pc' = "down" /\ ret' = "idle"
    /\ chan' = <<>> /\ hand' = <<>> /\ buffer' = <<>>
    /\ draining' = NoneDrained
    /\ old' = kept \o old \o doomed \o sealed \o <<active>>
    /\ kept' = <<>> /\ sealed' = <<>> /\ doomed' = <<>>
    /\ active' = EmptySegment
    /\ UNCHANGED <<sent, rows, appended, atRisk, faults>>

(* open: Wal::open has created the new active segment, replay comes next.  *)
Open ==
    /\ pc = "down"
    /\ pc' = "replay"
    /\ UNCHANGED <<ret, sent, memory, disk, rows, appended, atRisk, crashes,
                   faults>>

(* replay_all, one segment: push its events and delete the file.  From     *)
(* here on the events are in memory only.                                  *)
ReplaySegment ==
    /\ pc = "replay"
    /\ old # <<>>
    /\ buffer' = buffer \o Head(old).evs
    /\ old' = Tail(old)
    /\ atRisk' = atRisk \cup Range(Head(old).evs)
    /\ UNCHANGED <<pc, ret, sent, chan, hand, draining, kept, sealed, doomed,
                   active, rows, appended, crashes, faults>>

(* A record that cannot be decoded: what came before it has been pushed,   *)
(* and the file stays.                                                     *)
ReplayFails ==
    /\ pc = "replay"
    /\ old # <<>>
    /\ Fault
    /\ \E k \in 0..Len(Head(old).evs) :
          buffer' = buffer \o SubSeq(Head(old).evs, 1, k)
    /\ old' = Tail(old)
    /\ kept' = Append(kept, Head(old))
    /\ UNCHANGED <<pc, ret, sent, chan, hand, draining, sealed, doomed, active,
                   rows, appended, atRisk, crashes>>

(* open spawns the writer and returns. *)
StartWriter ==
    /\ pc = "replay"
    /\ old = <<>>
    /\ pc' = "idle"
    /\ UNCHANGED <<ret, sent, memory, disk, rows, appended, atRisk, crashes,
                   faults>>
-----------------------------------------------------------------------------
(* flush_buffer past its drain *)
Flush ==
    \/ \E p \in Partition : WritePartition(p)
    \/ FinishFlush \/ DeleteSealed \/ RotateActive \/ DropActive \/ ReclaimFails

Replay == ReplaySegment \/ ReplayFails \/ StartWriter

Next ==
    \/ IngestEvents
    \/ Receive \/ FlushToFit \/ StoreBatch \/ FlushAboveThreshold \/ Tick
    \/ Flush
    \/ Crash \/ Open \/ Replay

Spec == Init /\ [][Next]_vars

(***************************************************************************)
(* The runtime keeps polling the writer task, select! picks among its      *)
(* ready branches at random, so neither starves, and a supervisor restarts *)
(* a crashed server.  Clients need not send anything.                      *)
(***************************************************************************)
Fairness ==
    /\ WF_vars(Receive) /\ WF_vars(FlushToFit) /\ WF_vars(StoreBatch)
    /\ WF_vars(FlushAboveThreshold) /\ SF_vars(Tick)
    /\ WF_vars(Flush)
    /\ WF_vars(Open) /\ WF_vars(Replay)

FairSpec == Spec /\ Fairness
-----------------------------------------------------------------------------
TypeOK ==
    /\ pc \in PC /\ ret \in {"idle", "fit"}
    /\ sent \in 0..Len(Input)
    /\ chan \in Seq(Seq(Event)) /\ Len(chan) <= ChanCap
    /\ hand \in Seq(Event) /\ buffer \in Seq(Event)
    /\ draining \in [Event -> Nat] /\ rows \in [Event -> Nat]
    /\ old \in Seq(Segment) /\ kept \in Seq(Segment)
    /\ sealed \in Seq(Segment) /\ doomed \in Seq(Segment)
    /\ active \in Segment
    /\ appended \in SUBSET Event /\ atRisk \in SUBSET Event
    /\ crashes \in 0..MaxCrashes /\ faults \in 0..MaxFaults

(* Where the WAL's promise can break, for any number of crashes and I/O    *)
(* failures.  An event whose append succeeded is in a WAL file a replay    *)
(* can read, or in Parquet, unless it went through one of three gaps: its  *)
(* segment was deleted by a replay, its partition failed to be written, or *)
(* it was appended behind a damaged record.  So reclaim_sealed never       *)
(* deletes the only copy of an event, at any crash point inside it.        *)
NoOtherGap == appended \subseteq OnDisk \cup Visible \cup atRisk

(* With working I/O and at most one crash, an event whose append succeeded *)
(* is never lost: it is on disk, in Parquet, or back in memory on its way  *)
(* there.  One restart is what the tests of the store exercise.            *)
SurvivesOneCrash ==
    crashes <= 1 /\ faults = 0 =>
        appended \subseteq OnDisk \cup Visible \cup InMemory

(* The copies of an event anywhere between ingest_events and Parquet.      *)
Times(e, s) == Cardinality({i \in DOMAIN s : s[i] = e})
Queued == UNION {{i} \X DOMAIN chan[i] : i \in DOMAIN chan}
Copies(e) ==
    rows[e] + draining[e] + Times(e, buffer) + Times(e, hand)
      + Cardinality({q \in Queued : chan[q[1]][q[2]] = e})
SentEvents == UNION {Range(Input[i]) : i \in 1..sent}

(* Without crashes and faults the flush loops, the oversized batch and the *)
(* partial drains neither lose nor duplicate an event: every event sent is *)
(* in exactly one place.  (Input sends each event once.)                   *)
ExactlyOneCopy ==
    crashes = 0 /\ faults = 0 => \A e \in SentEvents : Copies(e) = 1

(* A crash may duplicate rows, a bounded number of times: no event counts  *)
(* more than once per incarnation of the server, whichever steps fail.     *)
OneRowPerIncarnation == \A e \in Event : rows[e] <= 1 + crashes

(* The buffer stays within its capacity, and between two batches at or     *)
(* below the threshold: the one flush that follows a push, of FlushRows    *)
(* events, is enough, so a small batch finds room without a wait for       *)
(* Parquet.  Two things may leave more: a batch that can never fit, and a  *)
(* replay, until the first batch of the new incarnation is in the log.     *)
NoOversizedBatch == \A i \in 1..sent : Len(Input[i]) <= Capacity
ReplayedBacklog == crashes > 0 /\ sealed = <<>> /\ active = EmptySegment
BufferStaysLow ==
    NoOversizedBatch /\ ~ReplayedBacklog =>
        /\ Len(buffer) <= Capacity
        /\ pc # "above" => Len(buffer) <= Threshold

(* The store as a DurableLog.  An event in a batch that waits in the       *)
(* channel or in the writer's hand is queued; one that the log or the      *)
(* buffer holds is durable.                                                *)
Waiting == Range(hand) \cup UNION {Range(chan[i]) : i \in DOMAIN chan}
Stored == OnDisk \cup InMemory \cup Visible
Present == Stored \cup Waiting
StatusOf(e) ==
    CASE e \in Visible -> "visible"
      [] e \in Stored \ Visible -> "durable"
      [] e \in Present \ Stored -> "queued"
      [] e \in SentEvents \ Present -> "lost"
      [] OTHER -> "new"
Log == INSTANCE DurableLog WITH status <- [e \in Event |-> StatusOf(e)]

(* With working I/O and at most one crash the store implements DurableLog, *)
(* its liveness included: every event handed over becomes a row, unless    *)
(* the crash finds it in the channel or in the writer's hand.              *)
ImplementsDurableLog == Log!FairSpec

(* When traffic stops the log empties: the interval flushes reach an empty *)
(* buffer and the segments, those of earlier incarnations too, go.         *)
LogEventuallyEmpty == <>[](OnDisk = {})
=============================================================================
