------------------------ MODULE AlertEvaluatorProofs ------------------------
(***************************************************************************)
(* Proofs about AlertEvaluator, for any number of alerts and channels, any *)
(* cooldown, any length of a pass and any number of mishaps.               *)
(***************************************************************************)
EXTENDS AlertEvaluator, WellFoundedInduction, TLAPS

(* No age is further in the future than the clock has been set back. *)
Ages ==
    /\ lag >= -mishaps
    /\ \A a \in Alert : fired[a] >= -mishaps

(* While the clock has worked, no fire is dated after the present pass. *)
CleanAges ==
    clean => lag >= 0 /\ \A a \in Alert : fired[a] >= lag

(* An alert about to be announced has a fire dated by this pass, unless    *)
(* its row is gone.                                                        *)
Fresh ==
    at = "channels" /\ clean /\ status[Current] # "gone" => fired[Current] <= lag

(* Nobody can announce a once more without a cooldown check, except an     *)
(* alert that is gone and through with this pass.                          *)
Checked(a) ==
    status[a] = "gone" => a \in queue /\ (at = "dispatch" => a # Current)

(* The last fire is no older than the last announcement, but for a pass. *)
Gap ==
    clean => \A a \in Alert :
        Checked(a) => quiet[a] = Cooldown \/ fired[a] <= quiet[a] + MaxLag

(* Past the cooldown check, the alert has been quiet for long enough. *)
Rested ==
    clean /\ at \in {"record", "channels"} => quiet[Current] >= Cooldown - MaxLag

(* Only the alert now being sent may have been announced while disabled    *)
(* and still be in the list of the pass.                                   *)
Lateness ==
    \A a \in Alert :
        /\ status[a] \in {"none", "enabled"} => late[a] = 0
        /\ a \in queue => status[a] # "none"
        /\ a \in queue /\ late[a] > 0 => at = "dispatch" /\ a = Current

IInv ==
    /\ TypeOK /\ Ages /\ CleanAges /\ Fresh /\ Gap /\ Rested
    /\ Lateness /\ OneLateAnnouncement
-----------------------------------------------------------------------------
LEMMA Least ==
    ASSUME NEW T \in SUBSET Nat, T # {}
    PROVE  \E x \in T : \A y \in T : x <= y
<1>1. PICK x \in T : \A y \in T : ~(<<y, x>> \in OpToRel(<, Nat))
  BY NatLessThanWellFounded, WFMin
<1>2. \A y \in T : ~(y < x)
  BY <1>1 DEF OpToRel
<1> QED
  BY <1>2

(* The alert in hand is one of those listed. *)
LEMMA CurrentListed == TypeOK /\ at # "wait" => Current \in queue /\ Current \in Alert
<1> SUFFICES ASSUME TypeOK, at # "wait" PROVE Current \in queue /\ Current \in Alert
  OBVIOUS
<1>1. queue \in SUBSET Nat /\ queue # {} /\ queue \subseteq Alert
  BY BoundsAssumption DEF TypeOK, Alert
<1> QED
  BY <1>1, Least DEF Current

LEMMA InitIInv == Init => IInv
<1> SUFFICES ASSUME Init PROVE IInv
  OBVIOUS
<1> USE BoundsAssumption DEF Init, Alert
<1>1. TypeOK
  BY DEF TypeOK, Age, Never, Oldest
<1>2. Ages /\ CleanAges
  BY DEF Ages, CleanAges, Never, Oldest
<1>3. Fresh /\ Gap /\ Rested
  BY DEF Fresh, Gap, Rested
<1>4. Lateness /\ OneLateAnnouncement
  BY DEF Lateness, OneLateAnnouncement
<1> QED
  BY <1>1, <1>2, <1>3, <1>4 DEF IInv
-----------------------------------------------------------------------------
(* Finished moves to the next alert of the pass, or ends the pass. *)
LEMMA FinishedTypes ==
    ASSUME TypeOK, Finished
    PROVE  /\ queue' \subseteq Alert /\ at' \in {"wait", "measure"}
           /\ queue' = {} <=> at' = "wait"
           /\ lag' \in (-MaxMishaps)..MaxLag
  BY BoundsAssumption DEF TypeOK, Finished

(* The types survive every step, given how far ages can lie in the future. *)
LEMMA TypeKept == TypeOK /\ Ages /\ [Next]_vars => TypeOK'
<1> SUFFICES ASSUME TypeOK, Ages, [Next]_vars PROVE TypeOK'
  OBVIOUS
<1> USE BoundsAssumption DEF Mishap, NoMishap, rows, evaluator, history
<1>1. CASE Tick
  BY <1>1 DEF Tick, Listed, TypeOK
<1>2. CASE Evaluate
  BY <1>2, FinishedTypes DEF Evaluate, TypeOK
<1>3. CASE CheckCooldown
  <2>1. clean' \in BOOLEAN
    BY <1>3 DEF CheckCooldown, TypeOK
  <2>2. at' \in {"record", "measure", "wait"} /\ queue' \subseteq Alert
        /\ (queue' = {} <=> at' = "wait") /\ lag' \in (-MaxMishaps)..MaxLag
    <3>1. (at' = "record" /\ UNCHANGED <<queue, lag>>) \/ Finished
      BY <1>3 DEF CheckCooldown
    <3> QED
      BY <1>3, <3>1, FinishedTypes DEF CheckCooldown, TypeOK
  <2>3. mishaps' \in 0..MaxMishaps
    BY <1>3 DEF CheckCooldown, TypeOK
  <2> QED
    BY <1>3, <2>1, <2>2, <2>3 DEF CheckCooldown, TypeOK
<1>4. CASE Record
  <2>1. Current \in Alert
    BY <1>4, CurrentListed DEF Record
  <2>2. Recorded(Current) \in Age \cup {Never}
    BY <2>1 DEF Recorded, Smaller, TypeOK, Age, Oldest
  <2>3. fired' \in [Alert -> Age \cup {Never}]
    BY <1>4, <2>1, <2>2 DEF Record, TypeOK
  <2>4. clean' \in BOOLEAN
    BY <1>4 DEF Record, TypeOK
  <2>5. mishaps' \in 0..MaxMishaps
    BY <1>4 DEF Record, TypeOK
  <2> QED
    BY <1>4, <2>3, <2>4, <2>5 DEF Record, TypeOK
<1>5. CASE ListChannels
  <2>1. Current \in Alert
    BY <1>5, CurrentListed DEF ListChannels
  <2>2. quiet' \in [Alert -> 0..Cooldown] /\ late' \in [Alert -> 0..2]
    BY <1>5, <2>1 DEF ListChannels, TypeOK, Smaller
  <2> QED
    BY <1>5, <2>2, FinishedTypes DEF ListChannels, TypeOK
<1>6. ASSUME NEW c \in Channel, Dispatch(c) PROVE TypeOK'
  BY <1>6, FinishedTypes DEF Dispatch, TypeOK
<1>7. CASE Dashboard
  BY <1>7 DEF Dashboard, CreateAlert, DeleteAlert, SetEnabled, ToggleChannel, TypeOK
<1>8. ASSUME NEW a \in Alert, MetricMoves(a) PROVE TypeOK'
  BY <1>8 DEF MetricMoves, TypeOK
<1>9. CASE TimePasses
  <2>1. fired' \in [Alert -> Age \cup {Never}]
    BY <1>9 DEF TimePasses, TypeOK, Aged, Smaller, Age, Oldest, Never
  <2>2. quiet' \in [Alert -> 0..Cooldown] /\ lag' \in (-MaxMishaps)..MaxLag
    BY <1>9 DEF TimePasses, TypeOK, Smaller
  <2> QED
    BY <1>9, <2>1, <2>2 DEF TimePasses, TypeOK
<1>10. CASE ClockStepsBack
  <2>1. fired' \in [Alert -> Age \cup {Never}]
    BY <1>10 DEF ClockStepsBack, TypeOK, Ages, Aged, Smaller, Age, Oldest, Never
  <2>2. lag' \in (-MaxMishaps)..MaxLag
    BY <1>10 DEF ClockStepsBack, TypeOK, Ages
  <2>3. clean' \in BOOLEAN
    BY <1>10 DEF ClockStepsBack
  <2> QED
    BY <1>10, <2>1, <2>2, <2>3 DEF ClockStepsBack, TypeOK
<1>11. CASE Restart
  BY <1>11 DEF Restart, TypeOK
<1>12. CASE UNCHANGED vars
  BY <1>12 DEF vars, TypeOK
<1> QED
  BY <1>1, <1>2, <1>3, <1>4, <1>5, <1>6, <1>7, <1>8, <1>9, <1>10, <1>11, <1>12
  DEF Next, Evaluator
-----------------------------------------------------------------------------
(* Steps that record no fire and do not move the clock. *)
Timeless ==
    /\ fired' = fired
    /\ lag' = lag \/ lag' = 0
    /\ mishaps' = mishaps \/ mishaps' = mishaps + 1
    /\ clean' => clean

LEMMA MostTimeless ==
    ASSUME [Next]_vars, ~Record, ~TimePasses, ~ClockStepsBack
    PROVE  Timeless
<1> USE DEF Timeless, Mishap, NoMishap, rows, evaluator, history, Finished
<1>1. CASE Tick
  BY <1>1 DEF Tick
<1>2. CASE Evaluate
  BY <1>2 DEF Evaluate
<1>3. CASE CheckCooldown
  <2>1. clean' => clean
    BY <1>3 DEF CheckCooldown
  <2> QED
    BY <1>3, <2>1 DEF CheckCooldown
<1>4. CASE ListChannels
  BY <1>4 DEF ListChannels
<1>5. ASSUME NEW c \in Channel, Dispatch(c) PROVE Timeless
  BY <1>5 DEF Dispatch
<1>6. CASE Dashboard
  BY <1>6 DEF Dashboard, CreateAlert, DeleteAlert, SetEnabled, ToggleChannel
<1>7. ASSUME NEW a \in Alert, MetricMoves(a) PROVE Timeless
  BY <1>7 DEF MetricMoves
<1>8. CASE Restart
  BY <1>8 DEF Restart
<1>9. CASE UNCHANGED vars
  BY <1>9 DEF vars
<1> QED
  BY <1>1, <1>2, <1>3, <1>4, <1>5, <1>6, <1>7, <1>8, <1>9 DEF Next, Evaluator

(* Ages lie in the future only as far as the clock was set back, and, while *)
(* it was not, no fire is younger than the pass that recorded it.          *)
LEMMA AgesKept == TypeOK /\ Ages /\ CleanAges /\ [Next]_vars => Ages' /\ CleanAges'
<1> SUFFICES ASSUME TypeOK, Ages, CleanAges, [Next]_vars PROVE Ages' /\ CleanAges'
  OBVIOUS
<1> USE BoundsAssumption DEF Mishap, NoMishap, rows, evaluator, history
<1>0. /\ mishaps \in Nat /\ lag \in Int /\ lag <= MaxLag
      /\ \A a \in Alert : fired[a] \in Int
  BY DEF TypeOK, Age, Never, Oldest
<1>1. CASE Timeless
  <2>1. Ages'
    BY <1>0, <1>1 DEF Timeless, Ages
  <2>2. CleanAges'
    BY <1>0, <1>1 DEF Timeless, CleanAges
  <2> QED
    BY <2>1, <2>2
<1>2. CASE Record
  <2>1. \A a \in Alert : fired'[a] = fired[a] \/ fired'[a] = Smaller(fired[a], lag)
    BY <1>2 DEF Record, Recorded, TypeOK
  <2>2. lag' = lag /\ (clean' => clean) /\ mishaps' >= mishaps /\ mishaps' \in Nat
    BY <1>0, <1>2 DEF Record
  <2>3. Ages'
    BY <1>0, <2>1, <2>2 DEF Ages, Smaller
  <2>4. CleanAges'
    BY <1>0, <2>1, <2>2 DEF CleanAges, Smaller
  <2> QED
    BY <2>3, <2>4
<1>3. CASE TimePasses
  <2>1. \A a \in Alert : fired'[a] = Aged(fired[a], 1)
    BY <1>3 DEF TimePasses
  <2>2. /\ lag' = 0 \/ (lag' = lag + 1 /\ lag < MaxLag)
        /\ clean' = clean /\ mishaps' = mishaps
    BY <1>3 DEF TimePasses
  <2>3. Ages'
    BY <1>0, <2>1, <2>2 DEF Ages, Aged, Smaller, Oldest, Never
  <2>4. CleanAges'
    BY <1>0, <2>1, <2>2 DEF CleanAges, Aged, Smaller, Oldest, Never
  <2> QED
    BY <2>3, <2>4
<1>4. CASE ClockStepsBack
  <2>1. \A a \in Alert : fired'[a] = Aged(fired[a], -1)
    BY <1>4 DEF ClockStepsBack
  <2>2. /\ lag' = 0 \/ lag' = lag - 1
        /\ ~clean' /\ mishaps' = mishaps + 1
    BY <1>4 DEF ClockStepsBack
  <2>3. Ages'
    BY <1>0, <2>1, <2>2 DEF Ages, Aged, Smaller, Oldest, Never
  <2> QED
    BY <2>2, <2>3 DEF CleanAges
<1> QED
  BY <1>1, <1>2, <1>3, <1>4, MostTimeless
-----------------------------------------------------------------------------
LEMMA SameCurrent == queue' = queue => Current' = Current
  BY DEF Current

(* Steps that announce nothing and change no row: the list of the pass     *)
(* stays, or loses the alert in hand.                                      *)
Passes ==
    /\ UNCHANGED <<status, late, quiet>>
    /\ \/ queue' = queue /\ (at' = at \/ at # "dispatch")
       \/ queue' = queue \ {Current} /\ at' # "dispatch"
       \/ queue' = {}

LEMMA MostPass ==
    ASSUME [Next]_vars, ~Tick, ~ListChannels, ~TimePasses,
           \A a \in Alert : ~CreateAlert(a) /\ ~DeleteAlert(a),
           \A a \in Alert, enabled \in BOOLEAN : ~SetEnabled(a, enabled)
    PROVE  Passes
<1> USE DEF Passes, rows, evaluator, history, Finished
<1>1. CASE Evaluate
  BY <1>1 DEF Evaluate
<1>2. CASE CheckCooldown
  BY <1>2 DEF CheckCooldown
<1>3. CASE Record
  BY <1>3 DEF Record
<1>4. ASSUME NEW c \in Channel, Dispatch(c) PROVE Passes
  BY <1>4 DEF Dispatch
<1>5. ASSUME NEW c \in Channel, ToggleChannel(c) PROVE Passes
  BY <1>5 DEF ToggleChannel
<1>6. ASSUME NEW a \in Alert, MetricMoves(a) PROVE Passes
  BY <1>6 DEF MetricMoves
<1>7. CASE ClockStepsBack
  BY <1>7 DEF ClockStepsBack
<1>8. CASE Restart
  BY <1>8 DEF Restart
<1>9. CASE UNCHANGED vars
  BY <1>9 DEF vars
<1> QED
  BY <1>1, <1>2, <1>3, <1>4, <1>5, <1>6, <1>7, <1>8, <1>9 DEF Next, Evaluator, Dashboard

(* A pass lists enabled alerts only, takes each once, and drops it when it *)
(* has been sent.                                                          *)
LEMMA LatenessKept ==
    TypeOK /\ Lateness /\ OneLateAnnouncement /\ [Next]_vars
        => Lateness' /\ OneLateAnnouncement'
<1> SUFFICES ASSUME TypeOK, Lateness, OneLateAnnouncement, [Next]_vars
             PROVE  Lateness' /\ OneLateAnnouncement'
  OBVIOUS
<1> USE DEF OneLateAnnouncement, rows, evaluator, history
<1>0. /\ queue \subseteq Alert /\ (queue = {} <=> at = "wait")
      /\ status \in [Alert -> {"none", "enabled", "disabled", "gone"}]
      /\ late \in [Alert -> 0..2]
  BY DEF TypeOK
<1>1. CASE Tick
  BY <1>0, <1>1 DEF Tick, Listed, Lateness
<1>2. CASE ListChannels
  <2>1. Current \in queue /\ Current \in Alert /\ at = "channels"
    BY <1>2, CurrentListed DEF ListChannels
  <2>2. late[Current] = 0 /\ status[Current] # "none"
    BY <1>0, <2>1 DEF Lateness
  <2>3. CASE at' = "dispatch"
    <3>1. /\ queue' = queue /\ status' = status
          /\ late' = [late EXCEPT ![Current] =
                         IF status[Current] = "enabled" THEN 0 ELSE Smaller(@ + 1, 2)]
      BY <1>2, <2>3 DEF ListChannels, Finished
    <3>2. \A a \in Alert : late'[a] = late[a] \/ (a = Current /\ late'[a] \in {0, 1})
      BY <1>0, <2>1, <2>2, <3>1 DEF Smaller
    <3>3. status[Current] = "enabled" => late'[Current] = 0
      BY <1>0, <2>1, <3>1
    <3>4. Lateness'
      BY <1>0, <2>1, <2>2, <2>3, <3>1, <3>2, <3>3, SameCurrent DEF Lateness
    <3> QED
      BY <3>2, <3>4
  <2>4. CASE at' # "dispatch"
    <3>1. UNCHANGED <<status, late>> /\ queue' = queue \ {Current}
      BY <1>2, <2>4 DEF ListChannels, Finished
    <3> QED
      BY <1>0, <2>1, <3>1 DEF Lateness
  <2> QED
    BY <2>3, <2>4
<1>3. ASSUME NEW a \in Alert, CreateAlert(a) \/ DeleteAlert(a)
      PROVE  Lateness' /\ OneLateAnnouncement'
  <2>1. UNCHANGED <<late, queue, at>>
    BY <1>3 DEF CreateAlert, DeleteAlert
  <2> QED
    BY <1>0, <1>3, <2>1, SameCurrent DEF CreateAlert, DeleteAlert, Lateness
<1>4. ASSUME NEW a \in Alert, NEW enabled \in BOOLEAN, SetEnabled(a, enabled)
      PROVE  Lateness' /\ OneLateAnnouncement'
  <2>1. UNCHANGED <<queue, at>>
    BY <1>4 DEF SetEnabled
  <2> QED
    BY <1>0, <1>4, <2>1, SameCurrent DEF SetEnabled, Lateness
<1>5. CASE TimePasses
  <2>1. UNCHANGED <<status, late, queue, at>>
    BY <1>5 DEF TimePasses
  <2> QED
    BY <2>1, SameCurrent DEF Lateness
<1>6. CASE Passes
  BY <1>0, <1>6, SameCurrent DEF Passes, Lateness
<1> QED
  BY <1>1, <1>2, <1>3, <1>4, <1>5, <1>6, MostPass
-----------------------------------------------------------------------------
(* What the ages and counters are, for the arithmetic below. *)
LEMMA Numbers ==
    ASSUME TypeOK
    PROVE  /\ Cooldown \in Nat /\ MaxLag \in Nat /\ MaxMishaps \in Nat
           /\ lag \in Int /\ lag <= MaxLag
           /\ \A a \in Alert : /\ fired[a] \in Int /\ fired[a] <= Never
                               /\ quiet[a] \in 0..Cooldown
           /\ Never = Cooldown + MaxLag + MaxMishaps + 1
  BY BoundsAssumption DEF TypeOK, Age, Never, Oldest

(* What edits of alerts leave alone; a row that is gone stays gone. *)
Edits ==
    /\ UNCHANGED <<fired, queue, at, lag, quiet, clean>>
    /\ \A a \in Alert : status[a] = "gone" => status'[a] = "gone"

LEMMA DashboardEdits ==
    ASSUME TypeOK, NEW a \in Alert, NEW enabled \in BOOLEAN,
           CreateAlert(a) \/ DeleteAlert(a) \/ SetEnabled(a, enabled)
    PROVE  Edits
<1>1. UNCHANGED <<fired, queue, at, lag, quiet, clean>>
  BY DEF CreateAlert, DeleteAlert, SetEnabled, evaluator, history
<1>2. \A b \in Alert : status[b] = "gone" => status'[b] = "gone"
  BY DEF CreateAlert, DeleteAlert, SetEnabled, TypeOK
<1> QED
  BY <1>1, <1>2 DEF Edits

(* An alert that goes on to be recorded was found outside its cooldown, so *)
(* its last fire, and with it its last announcement, is long ago.          *)
LEMMA CheckRests ==
    ASSUME TypeOK, CleanAges, Gap, CheckCooldown, clean', at' = "record"
    PROVE  quiet[Current] >= Cooldown - MaxLag /\ UNCHANGED <<queue, quiet>>
<1> USE DEF Mishap, NoMishap, Finished, rows, evaluator, history
<1>1. Current \in queue /\ Current \in Alert /\ at = "cooldown"
  BY CurrentListed DEF CheckCooldown
<1>2. clean /\ ~InCooldown(Current) /\ UNCHANGED <<queue, quiet>>
  BY DEF CheckCooldown
<1>3. lag >= 0 /\ fired[Current] >= lag
  BY <1>1, <1>2 DEF CleanAges
<1>4. fired[Current] - lag >= Cooldown
  BY <1>1, <1>2, <1>3, Numbers DEF InCooldown
<1>5. quiet[Current] = Cooldown \/ fired[Current] <= quiet[Current] + MaxLag
  BY <1>1, <1>2 DEF Gap, Checked
<1> QED
  BY <1>1, <1>2, <1>3, <1>4, <1>5, Numbers

LEMMA RestedKept == IInv /\ [Next]_vars => Rested'
<1> SUFFICES ASSUME IInv, [Next]_vars, clean', at' \in {"record", "channels"}
             PROVE  quiet'[Current'] >= Cooldown - MaxLag
  BY DEF Rested
<1> USE DEF Finished, Mishap, NoMishap, rows, evaluator, history
<1>0. TypeOK /\ CleanAges /\ Gap /\ Rested
  BY DEF IInv
<1>1. CASE CheckCooldown
  <2>1. at' = "record"
    BY <1>1 DEF CheckCooldown
  <2> QED
    BY <1>0, <1>1, <2>1, CheckRests, SameCurrent
<1>2. CASE TimePasses
  <2>1. UNCHANGED <<queue, at, clean>> /\ Current \in Alert
    BY <1>0, <1>2, CurrentListed DEF TimePasses
  <2>2. quiet[Current] >= Cooldown - MaxLag
    BY <1>0, <2>1 DEF Rested
  <2>3. quiet'[Current] = Smaller(quiet[Current] + 1, Cooldown)
    BY <1>2, <2>1 DEF TimePasses
  <2> QED
    BY <1>0, <2>1, <2>2, <2>3, SameCurrent, Numbers DEF Smaller
<1>3. ASSUME UNCHANGED <<queue, quiet>>, clean, at \in {"record", "channels"}
      PROVE  quiet'[Current'] >= Cooldown - MaxLag
  BY <1>0, <1>3, SameCurrent DEF Rested
<1>4. CASE Record
  <2>1. clean
    BY <1>4 DEF Record
  <2> QED
    BY <1>3, <1>4, <2>1 DEF Record
<1>5. ASSUME NEW a \in Alert, NEW enabled \in BOOLEAN,
             CreateAlert(a) \/ DeleteAlert(a) \/ SetEnabled(a, enabled)
      PROVE  quiet'[Current'] >= Cooldown - MaxLag
  BY <1>0, <1>3, <1>5, DashboardEdits DEF Edits
<1>6. CASE Tick \/ Evaluate \/ ListChannels \/ (\E c \in Channel : Dispatch(c)) \/ Restart
           \/ ClockStepsBack
  <2>1. CASE Tick
    BY <2>1 DEF Tick
  <2>2. CASE Evaluate
    BY <2>2 DEF Evaluate
  <2>3. CASE ListChannels
    BY <2>3 DEF ListChannels
  <2>4. ASSUME NEW c \in Channel, Dispatch(c) PROVE FALSE
    BY <2>4 DEF Dispatch
  <2>5. CASE Restart
    BY <2>5 DEF Restart
  <2>6. CASE ClockStepsBack
    BY <2>6 DEF ClockStepsBack
  <2> QED
    BY <1>6, <2>1, <2>2, <2>3, <2>4, <2>5, <2>6
<1>7. CASE UNCHANGED vars \/ (\E a \in Alert : MetricMoves(a))
           \/ (\E c \in Channel : ToggleChannel(c))
  BY <1>3, <1>7 DEF vars, MetricMoves, ToggleChannel
<1> QED
  BY <1>1, <1>2, <1>4, <1>5, <1>6, <1>7 DEF Next, Evaluator, Dashboard

LEMMA FreshKept == IInv /\ [Next]_vars => Fresh'
<1> SUFFICES ASSUME IInv, [Next]_vars, clean', at' = "channels", status'[Current'] # "gone"
             PROVE  fired'[Current'] <= lag'
  BY DEF Fresh
<1> USE DEF Finished, Mishap, NoMishap, rows, evaluator, history
<1>0. TypeOK /\ Fresh
  BY DEF IInv
<1>1. CASE Record
  <2>1. UNCHANGED <<queue, status, lag>> /\ Current \in Alert
    BY <1>0, <1>1, CurrentListed DEF Record
  <2>2. fired' = [fired EXCEPT ![Current] = Recorded(Current)]
    BY <1>1, <2>1, SameCurrent DEF Record
  <2>3. fired'[Current] = Smaller(fired[Current], lag)
    BY <1>0, <2>1, <2>2 DEF Recorded, TypeOK
  <2> QED
    BY <1>0, <2>1, <2>3, SameCurrent, Numbers DEF Smaller
<1>2. CASE TimePasses
  <2>1. UNCHANGED <<queue, status, at, clean>> /\ Current \in Alert /\ lag' = lag + 1
    BY <1>0, <1>2, CurrentListed DEF TimePasses
  <2>2. fired[Current] <= lag
    BY <1>0, <2>1, SameCurrent DEF Fresh
  <2>3. fired'[Current] = Aged(fired[Current], 1)
    BY <1>2, <2>1 DEF TimePasses
  <2>4. fired[Current] \in Int /\ fired[Current] # Never
    BY <1>0, <2>1, <2>2, Numbers
  <2>5. fired'[Current] <= fired[Current] + 1
    BY <2>3, <2>4, BoundsAssumption DEF Aged, Smaller, Oldest
  <2>6. lag \in Int
    BY <1>0, Numbers
  <2>7. fired'[Current] \in Int
    BY <2>3, <2>4, BoundsAssumption DEF Aged, Smaller, Oldest
  <2>8. fired'[Current] <= lag'
    BY <2>1, <2>2, <2>4, <2>5, <2>6, <2>7
  <2> QED
    BY <2>1, <2>8, SameCurrent
<1>3. ASSUME UNCHANGED <<queue, fired, lag>>, clean, at = "channels", status[Current] # "gone"
      PROVE  fired'[Current'] <= lag'
  BY <1>0, <1>3, SameCurrent DEF Fresh
<1>4. ASSUME NEW a \in Alert, NEW enabled \in BOOLEAN,
             CreateAlert(a) \/ DeleteAlert(a) \/ SetEnabled(a, enabled)
      PROVE  fired'[Current'] <= lag'
  <2>1. Edits
    BY <1>0, <1>4, DashboardEdits
  <2>2. UNCHANGED <<fired, queue, at, lag, clean>> /\ Current \in Alert
    BY <1>0, <2>1, CurrentListed DEF Edits
  <2>3. status[Current] # "gone"
    BY <2>1, <2>2, SameCurrent DEF Edits
  <2> QED
    BY <1>3, <2>2, <2>3
<1>5. CASE UNCHANGED vars \/ (\E a \in Alert : MetricMoves(a))
           \/ (\E c \in Channel : ToggleChannel(c))
  <2>1. UNCHANGED <<queue, fired, lag, clean, at, status>>
    BY <1>5 DEF vars, MetricMoves, ToggleChannel
  <2> QED
    BY <1>3, <2>1, SameCurrent
<1>6. CASE Tick \/ Evaluate \/ CheckCooldown \/ ListChannels
           \/ (\E c \in Channel : Dispatch(c)) \/ Restart \/ ClockStepsBack
  <2>1. CASE Tick
    BY <2>1 DEF Tick
  <2>2. CASE Evaluate
    BY <2>2 DEF Evaluate
  <2>3. CASE CheckCooldown
    BY <2>3 DEF CheckCooldown
  <2>4. CASE ListChannels
    BY <2>4 DEF ListChannels
  <2>5. ASSUME NEW c \in Channel, Dispatch(c) PROVE FALSE
    BY <2>5 DEF Dispatch
  <2>6. CASE Restart
    BY <2>6 DEF Restart
  <2>7. CASE ClockStepsBack
    BY <2>7 DEF ClockStepsBack
  <2> QED
    BY <1>6, <2>1, <2>2, <2>3, <2>4, <2>5, <2>6, <2>7
<1> QED
  BY <1>1, <1>2, <1>4, <1>5, <1>6 DEF Next, Evaluator, Dashboard

(* A fire is only recorded younger, and time adds the same to both ages. *)
LEMMA GapKept == IInv /\ [Next]_vars => Gap'
<1> SUFFICES ASSUME IInv, [Next]_vars, clean', NEW a \in Alert, Checked(a)'
             PROVE  quiet'[a] = Cooldown \/ fired'[a] <= quiet'[a] + MaxLag
  BY DEF Gap
<1> USE DEF rows, evaluator, history
<1> DEFINE Apart == quiet[a] = Cooldown \/ fired[a] <= quiet[a] + MaxLag
<1>0. TypeOK /\ Gap /\ Fresh /\ (clean /\ Checked(a) => Apart)
  BY DEF IInv, Gap
<1>1. ASSUME UNCHANGED quiet, fired'[a] = fired[a], clean, Checked(a)
      PROVE  quiet'[a] = Cooldown \/ fired'[a] <= quiet'[a] + MaxLag
  BY <1>0, <1>1
<1>2. CASE Tick
  <2>1. Checked(a)
    BY <1>2 DEF Tick, Listed, Checked
  <2> QED
    BY <1>1, <1>2, <2>1 DEF Tick
<1>3. CASE ListChannels
  <2>1. Current \in queue /\ Current \in Alert /\ at = "channels" /\ clean
    BY <1>0, <1>3, CurrentListed DEF ListChannels
  <2>2. UNCHANGED <<status, fired, lag>> \/ at' # "dispatch"
    BY <1>3 DEF ListChannels, Finished
  <2>3. CASE at' = "dispatch"
    <3>1. /\ UNCHANGED <<status, fired, queue>>
          /\ quiet' = [quiet EXCEPT ![Current] = 0]
      BY <1>3, <2>3 DEF ListChannels, Finished
    <3>2. CASE a = Current
      <4>1. status[Current] # "gone"
        BY <2>3, <3>1, <3>2, SameCurrent DEF Checked
      <4>2. fired[Current] <= lag
        BY <1>0, <2>1, <4>1 DEF Fresh
      <4>3. quiet'[a] = 0
        BY <1>0, <3>1, <3>2 DEF TypeOK
      <4> QED
        BY <1>0, <3>1, <3>2, <4>2, <4>3, Numbers
    <3>3. CASE a # Current
      <4>1. Checked(a) /\ quiet'[a] = quiet[a]
        BY <1>0, <2>1, <3>1, <3>3 DEF Checked, TypeOK
      <4> QED
        BY <1>0, <2>1, <3>1, <4>1
    <3> QED
      BY <3>2, <3>3
  <2>4. CASE at' # "dispatch"
    <3>1. UNCHANGED <<status, fired, quiet>> /\ queue' = queue \ {Current}
      BY <1>3, <2>4 DEF ListChannels, Finished
    <3>2. Checked(a)
      BY <2>1, <3>1 DEF Checked
    <3> QED
      BY <1>1, <2>1, <3>1, <3>2
  <2> QED
    BY <2>3, <2>4
<1>4. CASE TimePasses
  <2>1. UNCHANGED <<status, queue, at, clean>>
    BY <1>4 DEF TimePasses
  <2>2. Checked(a)
    BY <2>1, SameCurrent DEF Checked
  <2>3. quiet'[a] = Smaller(quiet[a] + 1, Cooldown) /\ fired'[a] = Aged(fired[a], 1)
    BY <1>4 DEF TimePasses
  <2>4. Apart
    BY <1>0, <2>1, <2>2
  <2>5. CASE quiet[a] = Cooldown
    BY <1>0, <2>3, <2>5, Numbers DEF Smaller
  <2>6. CASE quiet[a] # Cooldown
    <3>1. quiet'[a] = quiet[a] + 1
      BY <1>0, <2>3, <2>6, Numbers DEF Smaller
    <3>2. fired[a] # Never
      BY <1>0, <2>4, <2>6, Numbers
    <3>3. fired'[a] <= fired[a] + 1 /\ fired'[a] \in Int
      BY <1>0, <2>3, <3>2, Numbers, BoundsAssumption DEF Aged, Smaller, Oldest
    <3> QED
      BY <1>0, <2>4, <2>6, <3>1, <3>3, Numbers
  <2> QED
    BY <2>5, <2>6
<1>5. ASSUME NEW b \in Alert, NEW enabled \in BOOLEAN,
             CreateAlert(b) \/ DeleteAlert(b) \/ SetEnabled(b, enabled)
      PROVE  quiet'[a] = Cooldown \/ fired'[a] <= quiet'[a] + MaxLag
  <2>1. Edits
    BY <1>0, <1>5, DashboardEdits
  <2>2. Checked(a)
    BY <2>1, SameCurrent DEF Edits, Checked
  <2> QED
    BY <1>1, <2>1, <2>2 DEF Edits
<1>6. CASE Passes /\ (Timeless \/ Record)
  <2>1. clean /\ quiet' = quiet
    BY <1>6 DEF Passes, Timeless, Record
  <2>2. Checked(a)
    BY <1>6, SameCurrent DEF Passes, Checked
  <2>3. fired'[a] = fired[a] \/ fired'[a] = Smaller(fired[a], lag)
    BY <1>0, <1>6 DEF Timeless, Record, Recorded, TypeOK
  <2>4. fired'[a] <= fired[a] /\ fired'[a] \in Int
    BY <1>0, <2>3, Numbers DEF Smaller
  <2> QED
    BY <1>0, <2>1, <2>2, <2>4, Numbers
<1>7. CASE ClockStepsBack
  BY <1>7 DEF ClockStepsBack
<1> QED
  BY <1>2, <1>3, <1>4, <1>5, <1>6, <1>7, MostPass, MostTimeless
-----------------------------------------------------------------------------
LEMMA StepIInv == IInv /\ [Next]_vars => IInv'
  BY TypeKept, AgesKept, LatenessKept, RestedKept, FreshKept, GapKept DEF IInv

LEMMA Invariance == Spec => []IInv
  BY InitIInv, StepIInv, PTL DEF Spec

(* The evaluator keeps its types for any number of alerts and channels, any *)
(* cooldown and any number of mishaps.                                     *)
THEOREM TypeCorrect == Spec => []TypeOK
<1>1. IInv => TypeOK
  BY DEF IInv
<1> QED
  BY Invariance, <1>1, PTL

(* analytics.rs:217 works on a list that may be out of date: an alert that *)
(* has been disabled or deleted is announced at most once more.            *)
THEOREM OneLateAnnouncementHolds == Spec => []OneLateAnnouncement
<1>1. IInv => OneLateAnnouncement
  BY DEF IInv
<1> QED
  BY Invariance, <1>1, PTL

(* analytics.rs:26 "Don't re-fire the same alert within this window": while *)
(* the clock and the record of fires work, two announcements of an alert   *)
(* are a cooldown apart, less the length of a pass, whatever the dashboard *)
(* does and wherever the server restarts.                                  *)
THEOREM CooldownHoldsAlways == Spec => CooldownHolds
<1>1. IInv => [at = "channels" /\ at' = "dispatch" /\ clean =>
                  quiet[Current] >= Cooldown - MaxLag]_vars
  BY DEF IInv, Rested
<1> QED
  BY Invariance, <1>1, PTL DEF CooldownHolds
=============================================================================
