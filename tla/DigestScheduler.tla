--------------------------- MODULE DigestScheduler ---------------------------
(***************************************************************************)
(* The digest task (api/src/digest/mod.rs) against the wall clock, the     *)
(* dashboard (api/src/routes/digest.rs) and the channels of the sites.     *)
(*                                                                         *)
(* The ticker is monotonic and asks for one tick an hour, the first at     *)
(* once; ticks missed during a slow dispatch are made up for afterwards.   *)
(* What is due is read off the wall clock when a tick is taken.  The       *)
(* calendar is a cycle of days, with weeks and months of whole days.       *)
(***************************************************************************)
EXTENDS Integers, Sequences

CONSTANTS
    Subscriber,              \* pairs <<user, site>> that may subscribe
    HoursPerDay, DueHour,    \* 24 and 8 in the code
    DaysPerWeek, DaysPerMonth,
    Days,                    \* length of the modelled cycle
    BounceDisableThreshold,  \* 3 in the code
    MaxSlow,                 \* hours the dispatch of one tick may take, or fewer
    MaxMishaps,              \* bound: errors, panics, stops, stalls, clock steps
    MaxEdits                 \* bound: edits of subscriptions

ASSUME DigestBounds ==
    /\ HoursPerDay \in Nat \ {0} /\ DueHour \in 0 .. HoursPerDay - 1
    /\ DaysPerWeek \in Nat \ {0} /\ DaysPerMonth \in Nat \ {0} /\ Days \in Nat \ {0}
    /\ Days % DaysPerWeek = 0 /\ Days % DaysPerMonth = 0
    /\ BounceDisableThreshold \in Nat \ {0}
    /\ MaxSlow \in 1 .. HoursPerDay - 1
    /\ MaxMishaps \in Nat /\ MaxEdits \in Nat

Site == {s[2] : s \in Subscriber}
Cadence == {"weekly", "monthly"}
DigestFrequency == Cadence \cup {"both"}
Day == 0 .. Days - 1
Hour == 0 .. HoursPerDay - 1
Channels == {{}, {"bad"}, {"good", "bad"}}

VARIABLES
    subs,      \* digest_subscriptions; ids grow with created_at
    channels,  \* alert_channels of each site: those that accept, those that fail
    day, hour, \* the wall clock
    behind,    \* hours the clock has been set back and not caught up
    ticks,     \* ticks of the interval that are due and not taken
    pc,        \* where the task is; "down" without a server, "dead" after a panic
    due,       \* the cadences of the tick being served
    queue,     \* the subscriptions of the cadence still to be served
    targets,   \* the channels read for the one in hand
    slow,      \* hours the present tick has taken
    sent,      \* digests of the latest due hour, by site and cadence
    mishaps, edits

table == <<subs, channels, edits>>
clock == <<day, hour, behind, sent>>
task == <<ticks, pc, due, queue, targets, slow>>
digestVars == <<table, clock, task, mishaps>>

SubRow == [id : 1 .. MaxEdits, who : Subscriber, frequency : DigestFrequency,
           enabled : BOOLEAN, bounces : 0 .. BounceDisableThreshold]

DigestTypeOK ==
    /\ subs \subseteq SubRow
    /\ \A row, other \in subs : row.id = other.id \/ row.who = other.who => row = other
    /\ channels \in [Site -> Channels]
    /\ day \in Day /\ hour \in Hour /\ behind \in 0 .. MaxMishaps /\ ticks \in Nat
    /\ pc \in {"wait", "list", "channels", "send", "bounce", "down", "dead"}
    /\ due \in Seq(Cadence) /\ (pc \in {"wait", "down", "dead"} <=> due = <<>>)
    /\ queue \subseteq SubRow /\ (pc \in {"channels", "send", "bounce"} <=> queue # {})
    /\ targets \in Channels /\ slow \in 0 .. MaxSlow
    /\ sent \in [Site \X Cadence -> Nat]
    /\ mishaps \in 0 .. MaxMishaps /\ edits \in 0 .. MaxEdits

Wants(row, c) == row.frequency \in {c, "both"}

(* core/domain/digest.rs: the hour of the day, and the first day of the    *)
(* week or the month.                                                      *)
DueAt(d, h, c) ==
    h = DueHour /\ d % (IF c = "weekly" THEN DaysPerWeek ELSE DaysPerMonth) = 0
DueCadences ==
    LET weekly == IF DueAt(day, hour, "weekly") THEN <<"weekly">> ELSE <<>>
    IN  IF DueAt(day, hour, "monthly") THEN Append(weekly, "monthly") ELSE weekly

(* One delivery per site: the oldest enabled subscription that wants c.    *)
OldestOfSite(rows) ==
    {row \in rows : \A other \in rows : other.who[2] = row.who[2] => row.id <= other.id}
SiteSubs_BugEach(c) == {row \in subs : row.enabled /\ Wants(row, c)}
SiteSubs_BugEarly(c) == {row \in OldestOfSite({r \in subs : r.enabled}) : Wants(row, c)}
SiteSubs(c) == OldestOfSite({row \in subs : row.enabled /\ Wants(row, c)})

(* The list is served in the order of created_at. *)
Oldest(rows) == CHOOSE row \in rows : \A other \in rows : row.id <= other.id
InHand == Oldest(queue)

Mishap == mishaps < MaxMishaps /\ mishaps' = mishaps + 1

Row(who, f, e, id) ==
    [id |-> id, who |-> who, frequency |-> f, enabled |-> e, bounces |-> 0]

DigestInit ==
    /\ subs = {} /\ channels = [s \in Site |-> {"good", "bad"}] /\ edits = 0
    /\ day \in Day /\ hour \in Hour /\ behind = 0 /\ sent = [k \in Site \X Cadence |-> 0]
    /\ pc = "wait" /\ ticks = 1 /\ due = <<>> /\ queue = {} /\ targets = {} /\ slow = 0
    /\ mishaps = 0
-----------------------------------------------------------------------------
(* run_digest_scheduler *)

(* One cadence after the other; the last one ends the tick. *)
NextCadence ==
    /\ due' = Tail(due) /\ queue' = {}
    /\ pc' = IF Tail(due) = <<>> THEN "wait" ELSE "list"

NextSite ==
    IF queue = {InHand} THEN NextCadence
    ELSE pc' = "channels" /\ queue' = queue \ {InHand} /\ UNCHANGED due

Tick ==
    /\ pc = "wait" /\ ticks > 0
    /\ ticks' = ticks - 1 /\ slow' = 0
    /\ due' = DueCadences
    /\ pc' = IF due' = <<>> THEN "wait" ELSE "list"
    /\ UNCHANGED <<table, clock, queue, targets, mishaps>>

ListSubscriptions ==
    /\ pc = "list"
    /\ \/ /\ UNCHANGED mishaps
          /\ IF SiteSubs(Head(due)) = {} THEN NextCadence
             ELSE pc' = "channels" /\ queue' = SiteSubs(Head(due)) /\ UNCHANGED due
       \/ Mishap /\ NextCadence
    /\ UNCHANGED <<table, clock, ticks, targets, slow>>

(* list_alert_channels and build_digest_message; an error, or a site that  *)
(* cannot be read, skips the site.                                         *)
ListChannels ==
    /\ pc = "channels"
    /\ \/ /\ targets' = channels[InHand.who[2]] /\ pc' = "send"
          /\ UNCHANGED <<due, queue, mishaps>>
       \/ Mishap /\ NextSite /\ UNCHANGED targets
    /\ UNCHANGED <<table, clock, ticks, slow>>

(* ChannelNotifier::send tries every channel; one that accepts is enough.  *)
Send_Bug ==
    /\ pc = "send"
    /\ IF "good" \in targets \/ targets = {}
       THEN /\ sent' = [sent EXCEPT ![<<InHand.who[2], Head(due)>>] = @ + 1]
            /\ NextSite
       ELSE pc' = "bounce" /\ UNCHANGED <<due, queue, sent>>
    /\ UNCHANGED <<table, day, hour, behind, ticks, targets, slow, mishaps>>
Send ==
    /\ pc = "send"
    /\ IF "good" \in targets
       THEN /\ sent' = [sent EXCEPT ![<<InHand.who[2], Head(due)>>] = @ + 1]
            /\ NextSite
       ELSE pc' = "bounce" /\ UNCHANGED <<due, queue, sent>>
    /\ UNCHANGED <<table, day, hour, behind, ticks, targets, slow, mishaps>>

(* sinks.rs cuts a long body for Slack at a byte that may fall inside a    *)
(* character: the task panics, and nothing watches it.                     *)
SendPanics ==
    /\ pc = "send" /\ targets # {} /\ Mishap
    /\ pc' = "dead" /\ due' = <<>> /\ queue' = {}
    /\ UNCHANGED <<table, clock, ticks, targets, slow>>

(* record_digest_bounce: an update by id, whose errors are ignored. *)
Bounced(row) ==
    [row EXCEPT !.bounces = IF @ < BounceDisableThreshold THEN @ + 1 ELSE @,
                !.enabled = @ /\ row.bounces + 1 < BounceDisableThreshold]
RecordBounce ==
    /\ pc = "bounce" /\ NextSite
    /\ \/ /\ subs' = {IF row.id = InHand.id THEN Bounced(row) ELSE row : row \in subs}
          /\ UNCHANGED mishaps
       \/ Mishap /\ UNCHANGED subs
    /\ UNCHANGED <<channels, edits, clock, ticks, targets, slow>>

Task == Tick \/ ListSubscriptions \/ ListChannels \/ Send \/ RecordBounce
-----------------------------------------------------------------------------
HourAfter ==
    IF hour + 1 < HoursPerDay THEN <<day, hour + 1>> ELSE <<(day + 1) % Days, 0>>
HourBefore ==
    IF hour > 0 THEN <<day, hour - 1>> ELSE <<(day + Days - 1) % Days, HoursPerDay - 1>>

(* A step of the wall clock.  The count of a cadence starts again when it  *)
(* comes due for the first time.                                           *)
ClockTo(time, again) ==
    /\ day' = time[1] /\ hour' = time[2]
    /\ sent' = [k \in Site \X Cadence |->
                  IF DueAt(time[1], time[2], k[2]) /\ ~again THEN 0 ELSE sent[k]]

(* A ready task runs within the hour unless the process stalls, and a tick *)
(* is served in at most MaxSlow hours.                                     *)
HourPasses ==
    /\ \/ pc \in {"down", "dead"} /\ UNCHANGED <<ticks, slow, mishaps>>
       \/ /\ pc = "wait" /\ ticks' = ticks + 1 /\ UNCHANGED slow
          /\ IF ticks = 0 THEN UNCHANGED mishaps ELSE Mishap
       \/ /\ pc \notin {"down", "dead", "wait"} /\ slow < MaxSlow /\ slow' = slow + 1
          /\ ticks' = ticks + 1 /\ UNCHANGED mishaps
    /\ ClockTo(HourAfter, behind > 0)
    /\ behind' = IF behind > 0 THEN behind - 1 ELSE 0
    /\ UNCHANGED <<table, pc, due, queue, targets>>

ClockStepsBack ==
    /\ Mishap /\ behind' = behind + 1
    /\ ClockTo(HourBefore, TRUE)
    /\ UNCHANGED <<table, task>>

ClockStepsForward ==
    /\ Mishap /\ behind' = IF behind > 0 THEN behind - 1 ELSE 0
    /\ ClockTo(HourAfter, behind > 0)
    /\ UNCHANGED <<table, task>>

Stop ==
    /\ pc # "down" /\ Mishap
    /\ pc' = "down" /\ ticks' = 0 /\ due' = <<>> /\ queue' = {} /\ targets' = {} /\ slow' = 0
    /\ UNCHANGED <<table, clock>>

(* tokio::time::interval ticks at once when it is created. *)
Start ==
    /\ pc = "down" /\ pc' = "wait" /\ ticks' = 1
    /\ UNCHANGED <<table, clock, due, queue, targets, slow, mishaps>>
-----------------------------------------------------------------------------
(* The dashboard: put_subscription keeps the row's id, and clears its      *)
(* bounces; a new row has a new id.                                        *)
PutSubscription_Bug(who, f, e) ==
    /\ edits < MaxEdits /\ edits' = edits + 1
    /\ subs' = subs \cup {Row(who, f, e, edits + 1)}
    /\ UNCHANGED <<channels, clock, task, mishaps>>
PutSubscription(who, f, e) ==
    /\ edits < MaxEdits /\ edits' = edits + 1
    /\ subs' = IF \E row \in subs : row.who = who
               THEN {IF row.who = who THEN Row(who, f, e, row.id) ELSE row : row \in subs}
               ELSE subs \cup {Row(who, f, e, edits + 1)}
    /\ UNCHANGED <<channels, clock, task, mishaps>>

DeleteSubscription(who) ==
    /\ edits < MaxEdits /\ edits' = edits + 1
    /\ \E row \in subs : row.who = who
    /\ subs' = {row \in subs : row.who # who}
    /\ UNCHANGED <<channels, clock, task, mishaps>>

(* Channels are added and removed, and start or stop to accept. *)
ChannelsChange(s) ==
    /\ \E C \in Channels \ {channels[s]} : channels' = [channels EXCEPT ![s] = C]
    /\ UNCHANGED <<subs, edits, clock, task, mishaps>>

Dashboard ==
    \/ \E who \in Subscriber :
          \/ \E f \in DigestFrequency, e \in BOOLEAN : PutSubscription(who, f, e)
          \/ DeleteSubscription(who)
    \/ \E s \in Site : ChannelsChange(s)

DigestNext ==
    \/ Task \/ SendPanics \/ HourPasses \/ ClockStepsBack \/ ClockStepsForward
    \/ Stop \/ Start \/ Dashboard

(* The runtime polls the task, time passes, and a supervisor restarts the  *)
(* server.                                                                 *)
DigestSpec ==
    /\ DigestInit /\ [][DigestNext]_digestVars
    /\ WF_digestVars(Task) /\ WF_digestVars(HourPasses) /\ WF_digestVars(Start)
-----------------------------------------------------------------------------
(* digest/mod.rs:261 "One message is sent per site": however many users    *)
(* opted in and however long a dispatch takes, a site gets one digest of a *)
(* cadence per due hour (mod.rs:331, mod.rs:332, digest.rs:63).  A         *)
(* restart, a stall or a step of the clock can add one, and one for each of*)
(* the ticks a slow dispatch has missed, if their hour becomes a due one.  *)
OneDigestPerDueHour ==
    \A k \in Site \X Cadence : sent[k] <= 1 + mishaps * (1 + MaxSlow)

Subscribed(s, c) ==
    \E row \in subs : row.who[2] = s /\ row.enabled /\ Wants(row, c)

(* mod.rs:278-293, 295-318: a site with an enabled subscription to a       *)
(* cadence and a channel that accepts gets its digests for as long as the  *)
(* task is alive, whatever other users of the site have subscribed to and  *)
(* whatever fails at other sites.                                          *)
DigestsKeepComing ==
    \A s \in Site, c \in Cadence :
        <>[](Subscribed(s, c) /\ "good" \in channels[s] /\ pc # "dead")
            => []<>(sent[s, c] > 0)

(* mod.rs:28, meta.rs record_digest_bounce: a site no channel of which     *)
(* accepts is given up, one subscription after the other.                  *)
DeadSitesAreGivenUp ==
    \A s \in Site :
        <>[]("good" \notin channels[s] /\ pc # "dead")
            => <>[](\A c \in Cadence : ~Subscribed(s, c))
=============================================================================
