--------------------------- MODULE IngestPipeline ---------------------------
(***************************************************************************)
(* From an HTTP beacon to the store: the handlers, which never wait, the  *)
(* bounded ingest channel, the batcher task (run_batcher) and the store's *)
(* bounded channel of batches behind ingest_events.  A slow store fills   *)
(* its channel, which blocks the batcher, which fills the ingest channel, *)
(* which turns beacons away with 429.                                      *)
(*                                                                         *)
(* What happens to a batch behind the store's channel is EventStore.      *)
(***************************************************************************)
EXTENDS Integers, SequencesExt

CONSTANTS
    IngestCap,   \* limits.ingest_channel_size
    BatchSize,   \* limits.ingest_batch_size
    StoreCap,    \* capacity of the store's channel
    MaxOffered,  \* bound: requests handled
    MayDie       \* whether the store's writer task may panic

ASSUME CapsAssumption   == /\ IngestCap \in Nat \ {0}
                           /\ BatchSize \in Nat \ {0}
                           /\ StoreCap \in Nat \ {0}
ASSUME BoundsAssumption == MaxOffered \in Nat /\ MayDie \in BOOLEAN

VARIABLES
    offered,   \* requests handled so far: an event is its request's number
    closed,    \* every ingest sender has been dropped
    chan,      \* the ingest channel
    phase,     \* the batcher: "select", "send", "final" or "ended"
    buf,       \* the batcher's buffer
    batch,     \* the batch whose ingest_events is awaited
    store,     \* the store's channel
    storeOpen, \* whether the writer task still holds its receiver
    accepted,  \* history: events answered with 204, in order
    handed,    \* history: events of the batches ingest_events took
    lost,      \* history: events of the batches ingest_events refused
    received   \* history: events of the batches the writer received

vars == <<offered, closed, chan, phase, buf, batch, store, storeOpen,
          accepted, handed, lost, received>>

Init ==
    /\ offered = 0 /\ closed = FALSE
    /\ chan = <<>>
    /\ phase = "select" /\ buf = <<>> /\ batch = <<>>
    /\ store = <<>> /\ storeOpen = TRUE
    /\ accepted = <<>> /\ handed = <<>> /\ lost = <<>> /\ received = <<>>
-----------------------------------------------------------------------------
HasRoom == Len(chan) < IngestCap

(* handle_ingest_inner and handle_server_ingest for a valid key: the event *)
(* is built and offered to the channel without waiting.                    *)
Accept ==
    /\ HasRoom
    /\ chan' = Append(chan, offered + 1)
    /\ accepted' = Append(accepted, offered + 1)

TurnAway == ~HasRoom /\ UNCHANGED <<chan, accepted>>

(* A bot's beacon is answered 204 and dropped, an empty name 400. *)
Filtered == UNCHANGED <<chan, accepted>>

HandleIngest ==
    /\ ~closed
    /\ offered < MaxOffered
    /\ offered' = offered + 1
    /\ Accept \/ TurnAway \/ Filtered
    /\ UNCHANGED <<closed, phase, buf, batch, store, storeOpen, handed, lost,
                   received>>

(* The last sender is dropped.  launch.rs::serve has no graceful shutdown:   *)
(* only the tests and an embedding of the crate do this.                     *)
DropSenders ==
    /\ ~closed
    /\ closed' = TRUE
    /\ UNCHANGED <<offered, chan, phase, buf, batch, store, storeOpen,
                   accepted, handed, lost, received>>
-----------------------------------------------------------------------------
(* flush: the buffer becomes the batch in flight. *)
TakeBatch_Bug(events, next) ==
    /\ batch' = events
    /\ buf' = events
    /\ phase' = next
TakeBatch(events, next) ==
    /\ batch' = events
    /\ buf' = <<>>
    /\ phase' = next

BatchFull_Bug(events) == Len(events) > BatchSize
BatchFull(events) == Len(events) >= BatchSize

(* The recv branch with an event. *)
Recv ==
    /\ phase = "select"
    /\ chan # <<>>
    /\ chan' = Tail(chan)
    /\ LET grown == Append(buf, Head(chan)) IN
         IF BatchFull(grown)
           THEN TakeBatch(grown, "send")
           ELSE buf' = grown /\ UNCHANGED <<batch, phase>>
    /\ UNCHANGED <<offered, closed, store, storeOpen, accepted, handed, lost,
                   received>>

(* The interval branch. *)
Tick_Bug ==
    /\ phase = "select"
    /\ Len(buf) > 1
    /\ TakeBatch(buf, "send")
    /\ UNCHANGED <<offered, closed, chan, store, storeOpen, accepted, handed,
                   lost, received>>
Tick ==
    /\ phase = "select"
    /\ buf # <<>>
    /\ TakeBatch(buf, "send")
    /\ UNCHANGED <<offered, closed, chan, store, storeOpen, accepted, handed,
                   lost, received>>

(* The recv branch with None: leave the loop, then the final flush. *)
Leave_Bug ==
    /\ phase = "select"
    /\ closed /\ chan = <<>>
    /\ phase' = "ended" /\ UNCHANGED <<buf, batch>>
    /\ UNCHANGED <<offered, closed, chan, store, storeOpen, accepted, handed,
                   lost, received>>
Leave ==
    /\ phase = "select"
    /\ closed /\ chan = <<>>
    /\ IF buf = <<>>
         THEN phase' = "ended" /\ UNCHANGED <<buf, batch>>
         ELSE TakeBatch(buf, "final")
    /\ UNCHANGED <<offered, closed, chan, store, storeOpen, accepted, handed,
                   lost, received>>

(* ingest_events completes: once there is room in the store's channel, or  *)
(* with an error, which is logged and takes the batch with it, when the    *)
(* writer is gone.                                                         *)
Sent ==
    /\ storeOpen
    /\ Len(store) < StoreCap
    /\ store' = Append(store, batch)
    /\ handed' = handed \o batch
    /\ lost' = lost

Refused_Bug ==
    /\ ~storeOpen \/ Len(store) = StoreCap
    /\ lost' = lost \o batch
    /\ UNCHANGED <<store, handed>>
Refused ==
    /\ ~storeOpen
    /\ lost' = lost \o batch
    /\ UNCHANGED <<store, handed>>

FlushDone ==
    /\ phase \in {"send", "final"}
    /\ Sent \/ Refused
    /\ batch' = <<>>
    /\ phase' = IF phase = "send" THEN "select" ELSE "ended"
    /\ UNCHANGED <<offered, closed, chan, buf, storeOpen, accepted, received>>
-----------------------------------------------------------------------------
(* The writer receives a batch. *)
WriterReceives ==
    /\ storeOpen
    /\ store # <<>>
    /\ received' = received \o Head(store)
    /\ store' = Tail(store)
    /\ UNCHANGED <<offered, closed, chan, phase, buf, batch, storeOpen,
                   accepted, handed, lost>>

(* The writer task panics: nobody watches its handle, the server goes on. *)
WriterDies ==
    /\ MayDie
    /\ storeOpen
    /\ storeOpen' = FALSE
    /\ store' = <<>>
    /\ UNCHANGED <<offered, closed, chan, phase, buf, batch, accepted, handed,
                   lost, received>>

Batcher == Recv \/ Tick \/ Leave \/ FlushDone
Next == HandleIngest \/ DropSenders \/ Batcher \/ WriterReceives \/ WriterDies

Spec == Init /\ [][Next]_vars

(* The runtime polls both tasks; select! starves no ready branch. *)
FairSpec ==
    /\ Spec
    /\ WF_vars(Recv) /\ WF_vars(Tick) /\ WF_vars(Leave) /\ WF_vars(FlushDone)
    /\ WF_vars(WriterReceives)
-----------------------------------------------------------------------------
TypeOK ==
    /\ offered \in 0..MaxOffered /\ closed \in BOOLEAN
    /\ chan \in Seq(Nat) /\ Len(chan) <= IngestCap
    /\ buf \in Seq(Nat) /\ batch \in Seq(Nat)
    /\ phase \in {"select", "send", "final", "ended"}
    /\ store \in Seq(Seq(Nat)) /\ storeOpen \in BOOLEAN
    /\ accepted \in Seq(Nat) /\ handed \in Seq(Nat) /\ lost \in Seq(Nat)
    /\ received \in Seq(Nat)

(* Every event answered with 204 is at exactly one place of the pipeline,  *)
(* in the order of its answer: no flush drops, repeats or reorders.        *)
InOrderOnce == accepted = handed \o lost \o batch \o buf \o chan

(* What the writer has received is always the answered events up to one of *)
(* them: no gap, no repetition.  While it lives, the events behind that    *)
(* one, answered 204 and out of the log's reach, are at most the queues    *)
(* and one batch: with the batch in the writer's hand, what a crash of the *)
(* process costs.  A writer that died keeps its prefix.                    *)
NoGapAtTheWriter ==
    /\ IsPrefix(received, accepted)
    /\ storeOpen =>
          Len(accepted) - Len(received) <= IngestCap + (StoreCap + 1) * BatchSize

(* However slow the store, what waits in memory is bounded, at every place *)
(* of it: beacons are turned away before any of them grows.                *)
BacklogBound ==
    /\ Len(chan) <= IngestCap /\ Len(buf) + Len(batch) <= BatchSize
    /\ Len(store) <= StoreCap /\ \A i \in DOMAIN store : Len(store[i]) <= BatchSize

(* An accepted event reaches the store without help from later traffic:    *)
(* the interval flushes a batch that never fills.                          *)
EventuallyHanded ==
    \A n \in 1..MaxOffered :
        Len(accepted) >= n ~> Len(handed) + Len(lost) >= n

(* batch.rs: once the senders are gone the task drains the channel, does a *)
(* final flush and returns.                                                *)
ShutdownDrains ==
    closed ~> (phase = "ended" /\ accepted = handed \o lost)
=============================================================================
