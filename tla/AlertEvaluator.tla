--------------------------- MODULE AlertEvaluator ---------------------------
(***************************************************************************)
(* run_analytics_alert_evaluator: once a minute it lists the enabled      *)
(* alerts and takes them one by one: measure, look for a recent fire,     *)
(* record a fire, and send to every channel of the site.  Each of these   *)
(* is an await, between any two of which the dashboard may change alerts  *)
(* and channels, time passes, and the server may restart.                 *)
(*                                                                         *)
(* Time is counted in units much longer than the evaluator's period.  All  *)
(* times are ages, relative to the wall clock now.                         *)
(***************************************************************************)
EXTENDS Integers, FiniteSets

CONSTANTS
    Alerts,     \* how many alerts are ever created; they are numbered by age
    Channel,    \* the notification channels of their site
    Cooldown,   \* COOLDOWN
    MaxLag,     \* the longest one pass over the alerts takes
    MaxMishaps  \* bound: database errors, clock steps and restarts

ASSUME BoundsAssumption ==
    /\ Alerts \in Nat \ {0} /\ Cooldown \in Nat \ {0}
    /\ MaxLag \in Nat /\ MaxMishaps \in Nat

Alert == 1..Alerts

VARIABLES
    status,    \* analytics_alerts: no row yet, enabled, disabled, deleted
    fired,     \* analytics_alert_fires: how long ago the last fired_at is
    channels,  \* alert_channels
    hot,       \* the alerts whose metric is past its threshold
    at,        \* the await the evaluator is at
    queue,     \* the alerts listed and not yet processed
    targets,   \* the channels listed and not yet sent to
    lag,       \* how long ago `now` of this pass is
    quiet,     \* history: time since an alert was last announced
    late,      \* history: announcements of an alert since it was disabled
    clean,     \* history: the clock and the fires have worked so far
    mishaps    \* history: mishaps so far

evaluator == <<at, queue, targets, lag>>
rows == <<status, fired, channels>>
history == <<quiet, late, clean, mishaps>>
vars == <<rows, hot, evaluator, history>>

Oldest == Cooldown + MaxLag + MaxMishaps   \* older fires are all alike,
Never == Oldest + 1                        \* and older than any is none
Smaller(m, n) == IF m <= n THEN m ELSE n

Mishap == mishaps < MaxMishaps /\ mishaps' = mishaps + 1
NoMishap == mishaps' = mishaps

Init ==
    /\ status \in [Alert -> {"none", "enabled"}]
    /\ fired = [a \in Alert |-> Never]
    /\ channels \in SUBSET Channel
    /\ hot \in SUBSET Alert
    /\ at = "wait" /\ queue = {} /\ targets = {} /\ lag = 0
    /\ quiet = [a \in Alert |-> Cooldown]
    /\ late = [a \in Alert |-> 0]
    /\ clean = TRUE /\ mishaps = 0
-----------------------------------------------------------------------------
(* list_enabled_analytics_alerts, then now = Utc::now().  A failing list   *)
(* waits for the next tick.                                                *)
Listed_Bug == {a \in Alert : status[a] \in {"enabled", "disabled"}}
Listed == {a \in Alert : status[a] = "enabled"}

Tick ==
    /\ at = "wait"
    /\ Listed # {}
    /\ queue' = Listed
    /\ at' = "measure" /\ lag' = 0
    /\ UNCHANGED <<rows, hot, targets, history>>

(* The alert being processed: the list is in the order of creation. *)
Current == CHOOSE a \in queue : \A b \in queue : a <= b

Finished ==
    /\ queue' = queue \ {Current}
    /\ at' = IF queue' = {} THEN "wait" ELSE "measure"
    /\ lag' = IF queue' = {} THEN 0 ELSE lag

(* evaluate_alert: the two queries and decide; a query that fails counts   *)
(* as no signal.                                                           *)
Evaluate ==
    /\ at = "measure"
    /\ \/ Current \in hot /\ at' = "cooldown" /\ UNCHANGED <<queue, lag>> /\ NoMishap
       \/ Current \notin hot /\ Finished /\ NoMishap
       \/ Finished /\ Mishap
    /\ UNCHANGED <<rows, hot, targets, quiet, late, clean>>

(* in_cooldown: a fire that seems to lie in the future does not count. *)
InCooldown_Bug(a) == fired[a] - lag \in 0..(Cooldown - 2)
InCooldown_BugForever(a) == fired[a] # Never
InCooldown(a) == fired[a] - lag \in 0..(Cooldown - 1)

(* A lookup that fails counts as no cooldown. *)
CheckCooldown ==
    /\ at = "cooldown"
    /\ \/ /\ NoMishap /\ clean' = clean
          /\ IF InCooldown(Current)
               THEN Finished
               ELSE at' = "record" /\ UNCHANGED <<queue, lag>>
       \/ /\ Mishap /\ clean' = FALSE
          /\ at' = "record" /\ UNCHANGED <<queue, lag>>
    /\ UNCHANGED <<rows, hot, targets, quiet, late>>

(* record_analytics_alert_fire, dated `now` of the pass.  The foreign key  *)
(* refuses it for an alert that is gone; any error is only logged.         *)
Recorded(a) == Smaller(fired[a], lag)

Record ==
    /\ at = "record"
    /\ at' = "channels"
    /\ \/ /\ NoMishap /\ clean' = clean
          /\ fired' = IF status[Current] = "gone"
                        THEN fired
                        ELSE [fired EXCEPT ![Current] = Recorded(Current)]
       \/ Mishap /\ clean' = FALSE /\ fired' = fired
    /\ UNCHANGED <<status, channels, hot, queue, targets, lag, quiet, late>>

(* list_alert_channels.  If it fails nobody is told.  From here on the     *)
(* alert counts as announced.                                              *)
ListChannels ==
    /\ at = "channels"
    /\ \/ /\ NoMishap
          /\ channels # {}
          /\ targets' = channels
          /\ at' = "dispatch" /\ UNCHANGED <<queue, lag>>
          /\ quiet' = [quiet EXCEPT ![Current] = 0]
          /\ late' = [late EXCEPT ![Current] =
                        IF status[Current] = "enabled" THEN 0 ELSE Smaller(@ + 1, 2)]
       \/ /\ (channels = {} /\ NoMishap) \/ Mishap
          /\ Finished
          /\ UNCHANGED <<targets, quiet, late>>
    /\ UNCHANGED <<rows, hot, clean>>

(* sink.dispatch: delivered, refused or timed out, the next one follows. *)
Dispatch(c) ==
    /\ at = "dispatch"
    /\ c \in targets
    /\ targets' = targets \ {c}
    /\ IF targets' = {} THEN Finished ELSE UNCHANGED <<at, queue, lag>>
    /\ UNCHANGED <<rows, hot, history>>

Evaluator ==
    \/ Tick \/ Evaluate \/ CheckCooldown \/ Record \/ ListChannels
    \/ \E c \in Channel : Dispatch(c)
-----------------------------------------------------------------------------
(* create_site's defaults and POST analytics-alerts.  The handler looks    *)
(* for a channel one await before it inserts, so that there is one now is  *)
(* not certain.                                                            *)
CreateAlert(a) ==
    /\ status[a] = "none"
    /\ status' = [status EXCEPT ![a] = "enabled"]
    /\ UNCHANGED <<fired, channels, hot, evaluator, history>>

(* PATCH analytics-alerts *)
SetEnabled(a, enabled) ==
    /\ status[a] \in {"enabled", "disabled"}
    /\ status' = [status EXCEPT ![a] = IF enabled THEN "enabled" ELSE "disabled"]
    /\ late' = [late EXCEPT ![a] = IF enabled THEN 0 ELSE @]
    /\ UNCHANGED <<fired, channels, hot, evaluator, quiet, clean, mishaps>>

(* DELETE analytics-alerts: the foreign key of analytics_alert_fires       *)
(* refuses it once the alert has fired.                                    *)
DeleteAlert(a) ==
    /\ status[a] \in {"enabled", "disabled"}
    /\ fired[a] = Never
    /\ status' = [status EXCEPT ![a] = "gone"]
    /\ UNCHANGED <<fired, channels, hot, evaluator, history>>

(* POST and DELETE alert-channels *)
ToggleChannel(c) ==
    /\ channels' = IF c \in channels THEN channels \ {c} ELSE channels \cup {c}
    /\ UNCHANGED <<status, fired, hot, evaluator, history>>

Dashboard ==
    \/ \E a \in Alert : \/ CreateAlert(a) \/ DeleteAlert(a)
                        \/ \E enabled \in BOOLEAN : SetEnabled(a, enabled)
    \/ \E c \in Channel : ToggleChannel(c)
-----------------------------------------------------------------------------
(* Traffic moves a metric past its threshold, or back. *)
MetricMoves(a) ==
    /\ hot' = IF a \in hot THEN hot \ {a} ELSE hot \cup {a}
    /\ UNCHANGED <<rows, evaluator, history>>

Aged(age, by) == IF age = Never THEN Never ELSE Smaller(age + by, Oldest)

TimePasses ==
    /\ at # "wait" => lag < MaxLag
    /\ lag' = IF at = "wait" THEN 0 ELSE lag + 1
    /\ fired' = [a \in Alert |-> Aged(fired[a], 1)]
    /\ quiet' = [a \in Alert |-> Smaller(quiet[a] + 1, Cooldown)]
    /\ UNCHANGED <<status, channels, hot, at, queue, targets, late, clean, mishaps>>

(* The wall clock is set back by a unit. *)
ClockStepsBack ==
    /\ Mishap /\ clean' = FALSE
    /\ lag' = IF at = "wait" THEN 0 ELSE lag - 1
    /\ fired' = [a \in Alert |-> Aged(fired[a], -1)]
    /\ UNCHANGED <<status, channels, hot, at, queue, targets, quiet, late>>

Restart ==
    /\ Mishap
    /\ at' = "wait" /\ queue' = {} /\ targets' = {} /\ lag' = 0
    /\ UNCHANGED <<rows, hot, quiet, late, clean>>

Next ==
    \/ Evaluator \/ Dashboard
    \/ \E a \in Alert : MetricMoves(a)
    \/ TimePasses \/ ClockStepsBack \/ Restart

Spec == Init /\ [][Next]_vars

(* The runtime polls the evaluator, every request it sends has a timeout,  *)
(* and time passes.                                                        *)
FairSpec == Spec /\ WF_vars(Evaluator) /\ WF_vars(TimePasses)
-----------------------------------------------------------------------------
Age == (-MaxMishaps)..Oldest
TypeOK ==
    /\ status \in [Alert -> {"none", "enabled", "disabled", "gone"}]
    /\ fired \in [Alert -> Age \cup {Never}]
    /\ channels \subseteq Channel /\ hot \subseteq Alert
    /\ at \in {"wait", "measure", "cooldown", "record", "channels", "dispatch"}
    /\ queue \subseteq Alert /\ (queue = {} <=> at = "wait")
    /\ targets \subseteq Channel /\ (targets = {} <=> at # "dispatch")
    /\ lag \in (-MaxMishaps)..MaxLag
    /\ quiet \in [Alert -> 0..Cooldown] /\ late \in [Alert -> 0..2]
    /\ clean \in BOOLEAN /\ mishaps \in 0..MaxMishaps

(* While the clock and the record of fires work, an alert is not announced *)
(* again before the cooldown has passed, restarts and slow passes          *)
(* included.  Fires are dated by the start of their pass, so the gap may   *)
(* be short by as much as a pass takes.                                    *)
CooldownHolds ==
    [][at = "channels" /\ at' = "dispatch" /\ clean =>
          quiet[Current] >= Cooldown - MaxLag]_vars

(* An alert that has been disabled or deleted is announced at most once    *)
(* more: by the pass that had already listed it.                           *)
OneLateAnnouncement == \A a \in Alert : late[a] <= 1

(* An alert that stays enabled and past its threshold, with a channel to   *)
(* tell, is announced again and again: no cooldown, error or restart       *)
(* silences it for good.                                                   *)
AnnouncedAgain ==
    \A a \in Alert :
        <>[](status[a] = "enabled" /\ a \in hot /\ channels # {})
            => []<>(quiet[a] = 0)
=============================================================================
