----------------------------- MODULE DurableLog -----------------------------
(***************************************************************************)
(* What the event store promises while its I/O works and the server       *)
(* crashes at most once, with no word of buffers, segments or files.  An  *)
(* event is accepted, then made durable, then published to queries.  A    *)
(* crash takes the events that were accepted and not yet durable, all of  *)
(* them and only them.                                                    *)
(***************************************************************************)
CONSTANT Event
VARIABLE status

Status == {"new", "queued", "durable", "visible", "lost"}
In(s) == {e \in Event : status[e] = s}
Move(S, s) == status' = [e \in Event |-> IF e \in S THEN s ELSE status[e]]

Init == status = [e \in Event |-> "new"]

Accept  == \E S \in SUBSET In("new") : Move(S, "queued")
Persist == \E S \in SUBSET In("queued") : Move(S, "durable")
Publish == \E S \in SUBSET In("durable") : Move(S, "visible")
Crash   == Move(In("queued"), "lost")

Next == Accept \/ Persist \/ Publish \/ Crash

(* Each accepted event is persisted unless a crash takes it first, and     *)
(* each durable event is published.                                        *)
PersistOne(e) == Persist /\ status[e] = "queued" /\ status'[e] = "durable"
PublishOne(e) == Publish /\ status[e] = "durable" /\ status'[e] = "visible"

Spec == Init /\ [][Next]_status
FairSpec == Spec /\ \A e \in Event : WF_status(PersistOne(e)) /\ WF_status(PublishOne(e))
=============================================================================
