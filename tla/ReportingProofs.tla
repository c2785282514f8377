--------------------------- MODULE ReportingProofs ---------------------------
(***************************************************************************)
(* Proofs about what is reported to people: about DigestScheduler, for any *)
(* subscribers, any length of day, week and month, any dispatch shorter    *)
(* than a day and any number of mishaps, and about QueryReports, for any   *)
(* events, filters, ranges, lists and limits.                              *)
(***************************************************************************)
EXTENDS DigestScheduler, QueryReports, FiniteSetTheorems, SequenceTheorems, WellFoundedInduction, TLAPS

(* Every set of naturals that is not empty has a least one. *)
LEMMA Least ==
  ASSUME NEW N \in SUBSET Nat, N # {}
  PROVE  \E n \in N : \A m \in N : n <= m
<1>1. PICK n \in N : \A m \in N : ~(<<m, n>> \in OpToRel(<, Nat))
  BY NatLessThanWellFounded, WFMin
<1>2. \A m \in N : ~(m < n)
  BY <1>1 DEF OpToRel
<1> QED
  BY <1>2

(* The cadences of a tick, and those among them still to be served. *)
DueLists == {<<>>, <<"weekly">>, <<"monthly">>, <<"weekly", "monthly">>}
Elems(l) == {l[i] : i \in DOMAIN l}

LEMMA ListsUnfold ==
  ASSUME NEW l \in DueLists
  PROVE  /\ l \in Seq(Cadence) /\ Elems(l) \subseteq Cadence
         /\ l # <<>> => /\ Tail(l) \in DueLists /\ Head(l) \in Cadence
                        /\ Elems(l) = Elems(Tail(l)) \cup {Head(l)}
                        /\ Head(l) \notin Elems(Tail(l))
<1>1. Elems(<<>>) = {} /\ <<>> \in Seq(Cadence)
  BY DEF Elems
<1>2. CASE l = <<>>
  BY <1>1, <1>2
<1>3. ASSUME NEW c \in Cadence
      PROVE  /\ <<c>> \in Seq(Cadence) /\ Elems(<<c>>) = {c}
             /\ Tail(<<c>>) = <<>> /\ Head(<<c>>) = c
  BY DEF Elems
<1>4. CASE l = <<"weekly">> \/ l = <<"monthly">>
  <2>1. PICK c \in Cadence : l = <<c>>
    BY <1>4 DEF Cadence
  <2> QED
    BY <1>1, <1>3, <2>1 DEF DueLists
<1>5. CASE l = <<"weekly", "monthly">>
  <2>1. /\ l \in Seq(Cadence) /\ Elems(l) = {"weekly", "monthly"}
        /\ Tail(l) = <<"monthly">> /\ Head(l) = "weekly"
    BY <1>5 DEF Elems, Cadence
  <2>2. Elems(<<"monthly">>) = {"monthly"}
    BY <1>3 DEF Cadence
  <2> QED
    BY <2>1, <2>2 DEF DueLists, Cadence
<1> QED
  BY <1>2, <1>4, <1>5 DEF DueLists

LEMMA Pushed ==
  ASSUME NEW s \in Seq(Cadence), NEW c \in Cadence
  PROVE  /\ Append(s, c) \in Seq(Cadence) /\ Len(Append(s, c)) = Len(s) + 1
         /\ \A i \in 1 .. Len(s) : Append(s, c)[i] = s[i]
         /\ Append(s, c)[Len(s) + 1] = c
  BY AppendProperties

LEMMA DueUnfold ==
  /\ DueCadences \in DueLists
  /\ \A c \in Cadence : c \in Elems(DueCadences) <=> DueAt(day, hour, c)
<1> DEFINE w == DueAt(day, hour, "weekly")
           m == DueAt(day, hour, "monthly")
           list == DueCadences
<1>1. /\ Elems(<<>>) = {} /\ Elems(<<"weekly">>) = {"weekly"} /\ Elems(<<"monthly">>) = {"monthly"}
      /\ Elems(<<"weekly", "monthly">>) = {"weekly", "monthly"}
  BY DEF Elems
<1>2. list = IF w THEN IF m THEN <<"weekly", "monthly">> ELSE <<"weekly">>
                  ELSE IF m THEN <<"monthly">> ELSE <<>>
  <2>1. Append(<<"weekly">>, "monthly") = <<"weekly", "monthly">>
    <3> DEFINE s == <<"weekly">>
               t == <<"weekly", "monthly">>
               u == Append(s, "monthly")
    <3>1. /\ s \in Seq(Cadence) /\ Len(s) = 1 /\ s[1] = "weekly" /\ "monthly" \in Cadence
          /\ t \in Seq(Cadence) /\ Len(t) = 2 /\ t[1] = "weekly" /\ t[2] = "monthly"
      BY DEF Cadence
    <3> HIDE DEF s, t
    <3>2. /\ u \in Seq(Cadence) /\ Len(u) = Len(s) + 1
          /\ \A i \in 1 .. Len(s) : u[i] = s[i]
          /\ u[Len(s) + 1] = "monthly"
      BY <3>1, Pushed
    <3> HIDE DEF u
    <3>3. Len(u) = 2 /\ u[1] = "weekly" /\ u[2] = "monthly"
      BY <3>1, <3>2
    <3>4. \A i \in 1 .. Len(t) : u[i] = t[i]
      BY <3>1, <3>3
    <3>5. u = t
      BY <3>1, <3>2, <3>3, <3>4, SeqEqual
    <3> QED
      BY <3>5 DEF s, t, u
  <2>2. Append(<<>>, "monthly") = <<"monthly">>
    OBVIOUS
  <2> DEFINE first == IF w THEN <<"weekly">> ELSE <<>>
  <2>3. list = IF m THEN Append(first, "monthly") ELSE first
    BY DEF DueCadences
  <2>4. first = IF w THEN <<"weekly">> ELSE <<>>
    OBVIOUS
  <2> HIDE DEF w, m, list, first
  <2> QED
    BY <2>1, <2>2, <2>3, <2>4
<1>3. list \in DueLists
  <2> HIDE DEF w, m, list
  <2> QED
    BY <1>2 DEF DueLists
<1>4. ("weekly" \in Elems(list) <=> w) /\ ("monthly" \in Elems(list) <=> m)
  <2> HIDE DEF w, m, list
  <2>1. CASE w
    BY <1>1, <1>2, <2>1
  <2>2. CASE ~w
    BY <1>1, <1>2, <2>2
  <2> QED
    BY <2>1, <2>2
<1> QED
  BY <1>3, <1>4 DEF Cadence

-----------------------------------------------------------------------------
(* Type correctness, in three parts: the table, the clock and the task.    *)
Distinct(list) == \A row, other \in list : row.id = other.id \/ row.who = other.who => row = other
OnePerSite == \A row, other \in queue : row.who[2] = other.who[2] => row = other

TableFine ==
    /\ subs \subseteq SubRow /\ Distinct(subs) /\ \A row \in subs : row.id <= edits
    /\ channels \in [Site -> Channels] /\ edits \in 0 .. MaxEdits
ClockFine ==
    /\ day \in Day /\ hour \in Hour /\ behind \in 0 .. mishaps
    /\ sent \in [Site \X Cadence -> Nat] /\ mishaps \in 0 .. MaxMishaps
Working == {"channels", "send", "bounce"}
Resting == {"wait", "down", "dead"}
TaskFine ==
    /\ pc \in Working \cup Resting \cup {"list"} /\ due \in DueLists
    /\ (pc \in Resting <=> due = <<>>)
    /\ queue \subseteq SubRow /\ (pc \in Working <=> queue # {}) /\ OnePerSite
RestFine ==
    /\ ticks \in Nat /\ targets \in Channels /\ slow \in 0 .. MaxSlow
    /\ pc = "down" => ticks = 0
Fine == TableFine /\ ClockFine /\ TaskFine /\ RestFine

LEMMA FineIsTyped == Fine => DigestTypeOK
<1> SUFFICES ASSUME Fine PROVE DigestTypeOK
  OBVIOUS
<1>1. behind \in 0 .. MaxMishaps
  BY DigestBounds DEF Fine, ClockFine
<1>2. due \in Seq(Cadence)
  BY ListsUnfold DEF Fine, TaskFine
<1> QED
  BY <1>1, <1>2 DEF Fine, TableFine, ClockFine, TaskFine, RestFine, DigestTypeOK, Distinct,
                    Working, Resting

LEMMA RowTyped ==
  /\ \A who \in Subscriber, f \in DigestFrequency, e \in BOOLEAN, id \in 1 .. MaxEdits :
        /\ Row(who, f, e, id) \in SubRow
        /\ Row(who, f, e, id).id = id /\ Row(who, f, e, id).who = who
  /\ \A row \in SubRow : /\ Bounced(row) \in SubRow
                         /\ Bounced(row).id = row.id /\ Bounced(row).who = row.who
  /\ \A row \in SubRow : row.id \in Nat /\ row.who \in Subscriber /\ row.who[2] \in Site
<1>1. ASSUME NEW who \in Subscriber, NEW f \in DigestFrequency, NEW e \in BOOLEAN,
             NEW id \in 1 .. MaxEdits
      PROVE  /\ Row(who, f, e, id) \in SubRow
             /\ Row(who, f, e, id).id = id /\ Row(who, f, e, id).who = who
  BY DigestBounds DEF Row, SubRow
<1>2. ASSUME NEW row \in SubRow
      PROVE  /\ Bounced(row) \in SubRow
             /\ Bounced(row).id = row.id /\ Bounced(row).who = row.who
  <2> DEFINE n == IF row.bounces < BounceDisableThreshold THEN row.bounces + 1 ELSE row.bounces
             e == row.enabled /\ row.bounces + 1 < BounceDisableThreshold
  <2>1. n \in 0 .. BounceDisableThreshold /\ e \in BOOLEAN
    BY DigestBounds DEF SubRow
  <2>2. Bounced(row) = [row EXCEPT !.bounces = n, !.enabled = e]
    BY DEF Bounced
  <2> HIDE DEF n, e
  <2>3. [row EXCEPT !.bounces = n, !.enabled = e] \in SubRow
    BY <2>1 DEF SubRow
  <2>4. /\ [row EXCEPT !.bounces = n, !.enabled = e].id = row.id
        /\ [row EXCEPT !.bounces = n, !.enabled = e].who = row.who
    BY DEF SubRow
  <2> QED
    BY <2>2, <2>3, <2>4
<1>3. ASSUME NEW row \in SubRow PROVE row.id \in Nat /\ row.who \in Subscriber /\ row.who[2] \in Site
  BY DigestBounds DEF SubRow, Site
<1> QED
  BY <1>1, <1>2, <1>3

LEMMA SubsChange ==
  ASSUME TableFine, edits' = edits \/ (edits < MaxEdits /\ edits' = edits + 1),
         UNCHANGED channels,
         NEW f \in [subs -> SubRow], \A row \in subs : f[row].id = row.id /\ f[row].who = row.who,
         subs' = {f[row] : row \in subs}
  PROVE  TableFine'
<1>1. edits \in Nat /\ MaxEdits \in Nat /\ edits' \in 0 .. MaxEdits /\ edits <= edits'
  BY DigestBounds DEF TableFine
<1>2. Distinct(subs)'
  BY DEF Distinct, TableFine
<1>3. ASSUME NEW row \in subs' PROVE row.id <= edits'
  <2>1. PICK r \in subs : row = f[r]
    OBVIOUS
  <2>2. r.id <= edits /\ r.id \in Nat /\ row.id = r.id
    BY <2>1, RowTyped DEF TableFine
  <2> QED
    BY <1>1, <2>2
<1> QED
  BY <1>1, <1>2, <1>3 DEF TableFine

LEMMA TableStep ==
  ASSUME Fine, [DigestNext]_digestVars PROVE TableFine'
<1>1. TableFine /\ edits \in 0 .. MaxEdits /\ MaxEdits \in Nat
  BY DigestBounds DEF Fine, TableFine
<1>2. CASE UNCHANGED table
  BY <1>1, <1>2 DEF table, TableFine, Distinct
<1>3. CASE RecordBounce /\ ~UNCHANGED table
  <2> DEFINE f == [row \in subs |-> IF row.id = InHand.id THEN Bounced(row) ELSE row]
  <2>1. /\ subs' = {IF row.id = InHand.id THEN Bounced(row) ELSE row : row \in subs}
        /\ UNCHANGED <<channels, edits>>
    BY <1>3 DEF RecordBounce, table
  <2>2. f \in [subs -> SubRow] /\ \A row \in subs : f[row].id = row.id /\ f[row].who = row.who
    BY <1>1, RowTyped DEF TableFine
  <2>3. subs' = {f[row] : row \in subs}
    BY <2>1
  <2> HIDE DEF f
  <2> QED
    BY <1>1, <2>1, <2>2, <2>3, SubsChange
<1>4. ASSUME NEW who \in Subscriber, NEW g \in DigestFrequency, NEW e \in BOOLEAN,
             PutSubscription(who, g, e)
      PROVE  TableFine'
  <2>1. UNCHANGED channels /\ edits < MaxEdits /\ edits' = edits + 1
    BY <1>4 DEF PutSubscription
  <2>2. CASE \E row \in subs : row.who = who
    <3> DEFINE f == [row \in subs |-> IF row.who = who THEN Row(who, g, e, row.id) ELSE row]
    <3>1. subs' = {IF row.who = who THEN Row(who, g, e, row.id) ELSE row : row \in subs}
      BY <1>4, <2>2 DEF PutSubscription
    <3>2. \A row \in subs : row \in SubRow /\ row.id \in 1 .. MaxEdits
      BY <1>1 DEF TableFine, SubRow
    <3>3. f \in [subs -> SubRow] /\ \A row \in subs : f[row].id = row.id /\ f[row].who = row.who
      BY <3>2, RowTyped
    <3>4. subs' = {f[row] : row \in subs}
      BY <3>1
    <3> HIDE DEF f
    <3> QED
      BY <1>1, <2>1, <3>3, <3>4, SubsChange
  <2>3. CASE ~\E row \in subs : row.who = who
    <3> DEFINE new == Row(who, g, e, edits + 1)
    <3>1. subs' = subs \cup {new}
      BY <1>4, <2>3 DEF PutSubscription
    <3>2. new \in SubRow /\ new.id = edits + 1 /\ new.who = who
      <4>1. edits + 1 \in 1 .. MaxEdits
        BY <1>1, <2>1
      <4> QED
        BY <4>1, RowTyped
    <3> HIDE DEF new
    <3>3. \A row \in subs : row \in SubRow /\ row.id \in Nat /\ row.id <= edits /\ row.who # who
      BY <1>1, <2>3, RowTyped DEF TableFine
    <3>4. Distinct(subs)'
      <4>1. \A row \in subs : row.id # new.id /\ row.who # new.who
        BY <1>1, <3>2, <3>3
      <4> QED
        BY <1>1, <3>1, <4>1 DEF Distinct, TableFine
    <3>5. \A row \in subs' : row.id <= edits'
      BY <1>1, <2>1, <3>1, <3>2, <3>3
    <3>6. subs' \subseteq SubRow /\ edits' \in 0 .. MaxEdits
      BY <1>1, <2>1, <3>1, <3>2, <3>3
    <3> QED
      BY <1>1, <2>1, <3>4, <3>5, <3>6 DEF TableFine
  <2> QED
    BY <2>2, <2>3
<1>5. ASSUME NEW who \in Subscriber, DeleteSubscription(who)
      PROVE  TableFine'
  <2>1. UNCHANGED channels /\ edits < MaxEdits /\ edits' = edits + 1 /\ subs' \subseteq subs
    BY <1>5 DEF DeleteSubscription
  <2>2. \A row \in subs : row.id \in Nat /\ row.id <= edits
    BY <1>1, RowTyped DEF TableFine
  <2>3. (\A row \in subs' : row.id <= edits') /\ edits' \in 0 .. MaxEdits
    BY <1>1, <2>1, <2>2
  <2> QED
    BY <1>1, <2>1, <2>3 DEF TableFine, Distinct
<1>6. ASSUME NEW s \in Site, ChannelsChange(s)
      PROVE  TableFine'
  BY <1>1, <1>6 DEF ChannelsChange, TableFine, Distinct
<1>7. [DigestNext]_digestVars =>
         \/ UNCHANGED table \/ RecordBounce \/ Dashboard
  BY DEF DigestNext, Task, Tick, ListSubscriptions, ListChannels, Send, SendPanics, HourPasses,
         ClockStepsBack, ClockStepsForward, Stop, Start, digestVars
<1> QED
  BY <1>2, <1>3, <1>4, <1>5, <1>6, <1>7 DEF Dashboard

LEMMA Mod == \A a \in Int : \A n \in Nat \ {0} : a % n \in 0 .. n - 1
  OBVIOUS

LEMMA TimesTyped ==
  ASSUME ClockFine
  PROVE  /\ HourAfter[1] \in Day /\ HourAfter[2] \in Hour
         /\ HourBefore[1] \in Day /\ HourBefore[2] \in Hour
         /\ HourAfter[2] = IF hour + 1 < HoursPerDay THEN hour + 1 ELSE 0
<1>1. /\ Days \in Nat \ {0} /\ HoursPerDay \in Nat \ {0} /\ day \in 0 .. Days - 1
      /\ hour \in 0 .. HoursPerDay - 1
  BY DigestBounds DEF ClockFine, Day, Hour
<1>2. (day + 1) % Days \in 0 .. Days - 1 /\ (day + Days - 1) % Days \in 0 .. Days - 1
  <2>1. day + 1 \in Int /\ day + Days - 1 \in Int
    BY <1>1
  <2> QED
    BY <1>1, <2>1, Mod
<1>3. /\ HourAfter[1] \in 0 .. Days - 1 /\ HourAfter[2] \in 0 .. HoursPerDay - 1
      /\ HourAfter[2] = IF hour + 1 < HoursPerDay THEN hour + 1 ELSE 0
  <2> DEFINE d == (day + 1) % Days
  <2>1. HourAfter = IF hour + 1 < HoursPerDay THEN <<day, hour + 1>> ELSE <<d, 0>>
    BY DEF HourAfter
  <2>2. d \in 0 .. Days - 1
    BY <1>2
  <2> HIDE DEF d
  <2> QED
    BY <1>1, <2>1, <2>2
<1>4. HourBefore[1] \in 0 .. Days - 1 /\ HourBefore[2] \in 0 .. HoursPerDay - 1
  <2> DEFINE d == (day + Days - 1) % Days
  <2>1. HourBefore = IF hour > 0 THEN <<day, hour - 1>> ELSE <<d, HoursPerDay - 1>>
    BY DEF HourBefore
  <2>2. d \in 0 .. Days - 1
    BY <1>2
  <2> HIDE DEF d
  <2> QED
    BY <1>1, <2>1, <2>2
<1> QED
  BY <1>3, <1>4 DEF Day, Hour

(* The subscription in hand is one of those listed.                        *)
LEMMA InHandListed ==
  ASSUME TaskFine, queue # {}
  PROVE  InHand \in queue /\ InHand \in SubRow /\ InHand.who[2] \in Site
<1> DEFINE ids == {row.id : row \in queue}
<1>1. ids \in SUBSET Nat /\ ids # {}
  BY RowTyped DEF TaskFine
<1>2. PICK n \in ids : \A m \in ids : n <= m
  BY <1>1, Least
<1>3. PICK row \in queue : row.id = n
  BY <1>2
<1>4. \A other \in queue : row.id <= other.id
  BY <1>2, <1>3
<1>5. InHand \in queue
  BY <1>4 DEF InHand, Oldest
<1> QED
  BY <1>5, RowTyped DEF TaskFine

LEMMA NextSiteIs ==
  ASSUME TaskFine, due # <<>>, NextCadence \/ (queue # {} /\ NextSite)
  PROVE  /\ TaskFine'
         /\ \/ NextCadence
            \/ pc' = "channels" /\ due' = due /\ queue' = queue \ {InHand}
<1>1. /\ due \in DueLists /\ queue \subseteq SubRow /\ OnePerSite
      /\ Tail(due) \in DueLists
  BY ListsUnfold DEF TaskFine
<1>2. CASE NextCadence
  <2>1. due' = Tail(due) /\ queue' = {} /\ pc' = IF Tail(due) = <<>> THEN "wait" ELSE "list"
    BY <1>2 DEF NextCadence
  <2>2. OnePerSite'
    BY <2>1 DEF OnePerSite
  <2> QED
    BY <1>1, <1>2, <2>1, <2>2 DEF TaskFine, Working, Resting
<1>3. CASE ~NextCadence
  <2>1. /\ InHand \in queue /\ queue # {InHand}
        /\ pc' = "channels" /\ due' = due /\ queue' = queue \ {InHand}
    BY <1>3, InHandListed DEF NextSite
  <2>2. OnePerSite' /\ queue' \subseteq SubRow /\ queue' # {}
    BY <1>1, <2>1 DEF OnePerSite
  <2> QED
    BY <1>1, <2>1, <2>2 DEF TaskFine, Working, Resting
<1> QED
  BY <1>2, <1>3

LEMMA ListedOnce ==
  ASSUME TableFine, NEW c
  PROVE  /\ SiteSubs(c) \subseteq subs
         /\ \A row, other \in SiteSubs(c) : row.who[2] = other.who[2] => row = other
<1>1. SiteSubs(c) \subseteq subs
  BY DEF SiteSubs, OldestOfSite
<1>2. ASSUME NEW row \in SiteSubs(c), NEW other \in SiteSubs(c), row.who[2] = other.who[2]
      PROVE  row = other
  <2>1. row.id <= other.id /\ other.id <= row.id
    BY <1>2 DEF SiteSubs, OldestOfSite
  <2>2. row \in subs /\ other \in subs /\ row.id \in Nat /\ other.id \in Nat
    BY <1>1, RowTyped DEF TableFine
  <2>3. row.id = other.id
    BY <2>1, <2>2
  <2> QED
    BY <2>2, <2>3 DEF TableFine, Distinct
<1> QED
  BY <1>1, <1>2

LEMMA TaskStep ==
  ASSUME Fine, [DigestNext]_digestVars PROVE TaskFine'
<1>1. TaskFine /\ TableFine
  BY DEF Fine
<1>2. CASE UNCHANGED <<pc, due, queue>>
  BY <1>1, <1>2 DEF TaskFine, OnePerSite
<1>3. CASE Tick
  <2>1. due' = DueCadences /\ queue' = queue /\ pc = "wait" /\ pc' = IF due' = <<>> THEN "wait" ELSE "list"
    BY <1>3 DEF Tick
  <2> QED
    BY <1>1, <2>1, DueUnfold DEF TaskFine, OnePerSite, Working, Resting
<1>4. CASE ListSubscriptions
  <2>1. pc = "list" /\ due # <<>>
    BY <1>1, <1>4 DEF ListSubscriptions, TaskFine, Resting
  <2>2. CASE NextCadence
    BY <1>1, <2>1, <2>2, NextSiteIs
  <2>3. CASE pc' = "channels" /\ queue' = SiteSubs(Head(due)) /\ UNCHANGED due /\ queue' # {}
    <3>1. queue' \subseteq subs /\ OnePerSite'
      BY <1>1, <2>3, ListedOnce DEF OnePerSite
    <3> QED
      BY <1>1, <2>1, <2>3, <3>1 DEF TaskFine, TableFine, Working, Resting
  <2> QED
    BY <1>4, <2>2, <2>3 DEF ListSubscriptions
<1>5. CASE ListChannels
  <2>1. pc = "channels" /\ due # <<>> /\ queue # {}
    BY <1>1, <1>5 DEF ListChannels, TaskFine, Resting, Working
  <2>2. CASE NextSite
    BY <1>1, <2>1, <2>2, NextSiteIs
  <2>3. CASE pc' = "send" /\ UNCHANGED <<due, queue>>
    BY <1>1, <2>1, <2>3 DEF TaskFine, OnePerSite, Working, Resting
  <2> QED
    BY <1>5, <2>2, <2>3 DEF ListChannels
<1>6. CASE Send
  <2>1. pc = "send" /\ due # <<>> /\ queue # {}
    BY <1>1, <1>6 DEF Send, TaskFine, Resting, Working
  <2>2. CASE NextSite
    BY <1>1, <2>1, <2>2, NextSiteIs
  <2>3. CASE pc' = "bounce" /\ UNCHANGED <<due, queue>>
    BY <1>1, <2>1, <2>3 DEF TaskFine, OnePerSite, Working, Resting
  <2> QED
    BY <1>6, <2>2, <2>3 DEF Send
<1>7. CASE RecordBounce
  <2>1. pc = "bounce" /\ due # <<>> /\ queue # {} /\ NextSite
    BY <1>1, <1>7 DEF RecordBounce, TaskFine, Resting, Working
  <2> QED
    BY <1>1, <2>1, NextSiteIs
<1>8. CASE SendPanics \/ Stop
  <2>1. pc' \in {"dead", "down"} /\ due' = <<>> /\ queue' = {}
    BY <1>8 DEF SendPanics, Stop
  <2> QED
    BY <2>1 DEF TaskFine, OnePerSite, Working, Resting, DueLists
<1>9. CASE Start
  <2>1. pc = "down" /\ pc' = "wait" /\ UNCHANGED <<due, queue>>
    BY <1>9 DEF Start
  <2> QED
    BY <1>1, <2>1 DEF TaskFine, OnePerSite, Working, Resting
<1>10. CASE HourPasses \/ ClockStepsBack \/ ClockStepsForward \/ Dashboard \/ UNCHANGED digestVars
  BY <1>2, <1>10 DEF HourPasses, ClockStepsBack, ClockStepsForward, Dashboard, PutSubscription,
     DeleteSubscription, ChannelsChange, task, digestVars
<1> QED
  BY <1>3, <1>4, <1>5, <1>6, <1>7, <1>8, <1>9, <1>10 DEF DigestNext, Task

LEMMA RestStep ==
  ASSUME Fine, [DigestNext]_digestVars PROVE RestFine'
<1>1. RestFine /\ TaskFine /\ channels \in [Site -> Channels] /\ MaxSlow \in Nat
  BY DigestBounds DEF Fine, TableFine
<1> USE <1>1 DEF RestFine
<1>2. CASE UNCHANGED <<pc, ticks, targets, slow>> \/ UNCHANGED task
  BY <1>2 DEF task
<1>3. CASE Tick
  <2>1. ticks > 0 /\ ticks' = ticks - 1 /\ slow' = 0 /\ targets' = targets /\ pc' # "down"
    BY <1>3 DEF Tick
  <2> QED
    BY <2>1
<1>4. CASE ListSubscriptions \/ Send \/ RecordBounce
  BY <1>4 DEF ListSubscriptions, Send, RecordBounce, NextSite, NextCadence
<1>5. CASE ListChannels
  <2>1. queue # {}
    BY <1>5 DEF ListChannels, TaskFine, Working
  <2>2. InHand.who[2] \in Site
    BY <2>1, InHandListed
  <2> QED
    BY <1>5, <2>2 DEF ListChannels, NextSite, NextCadence
<1>6. CASE SendPanics \/ Stop \/ Start
  BY <1>6 DEF SendPanics, Stop, Start, Channels
<1>7. CASE HourPasses
  <2>1. \/ UNCHANGED <<ticks, slow>>
        \/ pc = "wait" /\ ticks' = ticks + 1 /\ UNCHANGED slow
        \/ pc \notin {"down", "dead", "wait"} /\ slow < MaxSlow /\ slow' = slow + 1 /\ ticks' = ticks + 1
    BY <1>7 DEF HourPasses
  <2>2. UNCHANGED <<pc, targets>>
    BY <1>7 DEF HourPasses
  <2> QED
    BY <2>1, <2>2
<1>8. CASE ClockStepsBack \/ ClockStepsForward \/ Dashboard \/ UNCHANGED digestVars
  BY <1>2, <1>8 DEF ClockStepsBack, ClockStepsForward, Dashboard, PutSubscription,
     DeleteSubscription, ChannelsChange, task, digestVars
<1> QED
  BY <1>3, <1>4, <1>5, <1>6, <1>7, <1>8 DEF DigestNext, Task

LEMMA ClockStep ==
  ASSUME Fine, [DigestNext]_digestVars PROVE ClockFine'
<1>1. ClockFine /\ TaskFine /\ MaxMishaps \in Nat
  BY DigestBounds DEF Fine
<1>2. UNCHANGED mishaps \/ Mishap
  BY DEF DigestNext, Task, Tick, ListSubscriptions, ListChannels, Send, RecordBounce, SendPanics,
     HourPasses, ClockStepsBack, ClockStepsForward, Stop, Start, Dashboard, PutSubscription,
     DeleteSubscription, ChannelsChange, digestVars
<1>3. mishaps \in Nat /\ mishaps' \in 0 .. MaxMishaps /\ mishaps <= mishaps' /\ (Mishap => mishaps' = mishaps + 1)
  BY <1>1, <1>2 DEF ClockFine, Mishap
<1>4. CASE UNCHANGED clock
  BY <1>1, <1>3, <1>4 DEF ClockFine, clock
<1>5. CASE Send /\ ~UNCHANGED clock
  <2>1. queue # {} /\ due # <<>> /\ due \in DueLists
    BY <1>1, <1>5 DEF Send, TaskFine, Working, Resting
  <2>2. InHand.who[2] \in Site /\ Head(due) \in Cadence
    BY <1>1, <2>1, InHandListed, ListsUnfold
  <2> DEFINE k == <<InHand.who[2], Head(due)>>
  <2>3. sent' = [sent EXCEPT ![k] = @ + 1] /\ UNCHANGED <<day, hour, behind, mishaps>>
    BY <1>5 DEF Send, clock
  <2>4. k \in Site \X Cadence
    BY <2>2
  <2> HIDE DEF k
  <2>5. sent' \in [Site \X Cadence -> Nat]
    BY <1>1, <2>3, <2>4 DEF ClockFine
  <2> QED
    BY <1>1, <2>3, <2>5 DEF ClockFine
<1>6. ASSUME NEW time, NEW again, ClockTo(time, again), time[1] \in Day, time[2] \in Hour,
             behind' \in 0 .. mishaps'
      PROVE  ClockFine'
  <2>1. sent' \in [Site \X Cadence -> Nat]
    BY <1>1, <1>6 DEF ClockTo, ClockFine
  <2> QED
    BY <1>3, <1>6, <2>1 DEF ClockTo, ClockFine
<1>7. CASE HourPasses \/ ClockStepsForward
  <2>1. ClockTo(HourAfter, behind > 0) /\ behind' = IF behind > 0 THEN behind - 1 ELSE 0
    BY <1>7 DEF HourPasses, ClockStepsForward
  <2>2. behind' \in 0 .. mishaps'
    BY <1>1, <1>3, <2>1 DEF ClockFine
  <2> QED
    BY <1>1, <1>6, <2>1, <2>2, TimesTyped
<1>8. CASE ClockStepsBack
  <2>1. ClockTo(HourBefore, TRUE) /\ behind' = behind + 1 /\ Mishap
    BY <1>8 DEF ClockStepsBack
  <2>2. behind' \in 0 .. mishaps'
    BY <1>1, <1>3, <2>1 DEF ClockFine
  <2> QED
    BY <1>1, <1>6, <2>1, <2>2, TimesTyped
<1>9. [DigestNext]_digestVars =>
        \/ UNCHANGED clock \/ Send \/ HourPasses \/ ClockStepsForward \/ ClockStepsBack
  BY DEF DigestNext, Task, Tick, ListSubscriptions, ListChannels, RecordBounce, SendPanics,
     Stop, Start, Dashboard, PutSubscription, DeleteSubscription, ChannelsChange, digestVars
<1> QED
  BY <1>4, <1>5, <1>7, <1>8, <1>9

LEMMA FineInit == DigestInit => Fine
<1> SUFFICES ASSUME DigestInit PROVE Fine
  OBVIOUS
<1>1. TableFine /\ ClockFine /\ TaskFine
  BY DigestBounds DEF DigestInit, TableFine, Distinct, Channels, ClockFine, TaskFine, DueLists,
     OnePerSite, Working, Resting
<1>2. RestFine
  BY DigestBounds DEF DigestInit, RestFine, Channels
<1> QED
  BY <1>1, <1>2 DEF Fine

LEMMA FineStep == Fine /\ [DigestNext]_digestVars => Fine'
  BY TableStep, ClockStep, TaskStep, RestStep DEF Fine

(* The table, the clock, the task and its list keep their types.           *)
THEOREM DigestTyped == DigestSpec => []DigestTypeOK
  BY FineInit, FineStep, FineIsTyped, PTL DEF DigestSpec

-----------------------------------------------------------------------------
(***************************************************************************)
(* How many digests of a cadence a site can get in one due hour: those it  *)
(* has had, the one being served, and one for each tick not yet taken, if  *)
(* the hour is a due one, now or once the clock has been put there.  What  *)
(* mishaps allow pays for the ticks of a slow dispatch, which are harmless *)
(* as long as the clock is where the dispatch has brought it (InPhase),    *)
(* and for the hours that a clock set back goes through again.             *)
(***************************************************************************)
Key == Site \X Cadence
Serving(k) ==
    /\ k[2] \in Elems(due)
    /\ k[2] = Head(due) => pc = "list" \/ \E row \in queue : row.who[2] = k[1]
Owed(k) == sent[k] + (IF Serving(k) THEN 1 ELSE 0) + behind
Load(k) == Owed(k) + ticks
Allowed == 1 + mishaps * (1 + MaxSlow)
InPhase == hour = DueHour + slow \/ hour = DueHour + slow - HoursPerDay

WaitBound(k) ==
    /\ Load(k) <= Allowed + MaxSlow
    /\ hour = DueHour => Load(k) <= Allowed + 1
    /\ DueAt(day, hour, k[2]) => Load(k) <= Allowed
ServeBound(k) ==
    /\ InPhase => Load(k) <= Allowed + slow
    /\ ~InPhase => Load(k) + MaxSlow <= Allowed + slow
Bound(k) ==
    /\ Owed(k) <= Allowed
    /\ pc \in {"down", "dead"} => Owed(k) + 1 <= Allowed
    /\ pc = "wait" => WaitBound(k)
    /\ due # <<>> => ServeBound(k)
DigestInv == Fine /\ \A k \in Key : Bound(k)

LEMMA AllowedIs ==
  ASSUME ClockFine
  PROVE  /\ Allowed \in Nat /\ Allowed >= 1 /\ MaxSlow \in Nat /\ MaxSlow >= 1
         /\ UNCHANGED mishaps => Allowed' = Allowed
         /\ Mishap => Allowed' = Allowed + 1 + MaxSlow
<1>1. mishaps \in Nat /\ MaxSlow \in Nat /\ MaxSlow >= 1
  BY DigestBounds DEF ClockFine
<1>2. mishaps * (1 + MaxSlow) \in Nat
  BY <1>1
<1>3. (mishaps + 1) * (1 + MaxSlow) = mishaps * (1 + MaxSlow) + (1 + MaxSlow)
  BY <1>1
<1> QED
  BY <1>1, <1>2, <1>3 DEF Allowed, Mishap

CountsFine ==
    \A k \in Key :
       /\ sent[k] \in Nat /\ behind \in Nat /\ ticks \in Nat /\ slow \in Nat /\ slow <= MaxSlow
       /\ Owed(k) \in Nat /\ Load(k) \in Nat /\ sent[k] <= Owed(k)
       /\ Load(k) = Owed(k) + ticks

LEMMA CountsTyped == Fine => CountsFine
<1> SUFFICES ASSUME Fine, NEW k \in Key
             PROVE  /\ sent[k] \in Nat /\ behind \in Nat /\ ticks \in Nat /\ slow \in Nat /\ slow <= MaxSlow
                    /\ Owed(k) \in Nat /\ Load(k) \in Nat /\ sent[k] <= Owed(k)
                    /\ Load(k) = Owed(k) + ticks
  BY DEF CountsFine
<1>1. sent[k] \in Nat /\ behind \in Nat /\ ticks \in Nat /\ slow \in Nat /\ slow <= MaxSlow
  BY DigestBounds DEF Fine, ClockFine, RestFine, Key
<1> DEFINE s == sent[k]
           v == IF Serving(k) THEN 1 ELSE 0
<1>2. s \in Nat /\ v \in Nat /\ Owed(k) = s + v + behind
  BY <1>1 DEF Owed
<1> HIDE DEF s, v
<1>3. Owed(k) \in Nat /\ s <= Owed(k)
  BY <1>1, <1>2
<1> QED
  BY <1>1, <1>3 DEF Load, s

LEMMA CountsTypedNext == Fine' => CountsFine'
  BY CountsTyped, PTL

LEMMA Idle == \A k \in Key : due = <<>> => ~Serving(k)
  BY DEF Serving, Elems

(* A step of the task that takes no tick: what it sends it was serving.    *)
LEMMA ServeSteps ==
  ASSUME Fine, Fine', NEW k \in Key, Bound(k), due # <<>>,
         UNCHANGED <<day, hour, behind, ticks, slow>>,
         UNCHANGED mishaps \/ Mishap, pc' \notin {"down", "dead"},
         Owed(k)' <= Owed(k)
  PROVE  Bound(k)'
<1> DEFINE o == Owed(k)
           l == Load(k)
           B == Allowed
           oo == Owed(k)'
           ll == Load(k)'
           BB == Allowed'
<1>1. /\ o \in Nat /\ l \in Nat /\ B \in Nat /\ l = o + ticks /\ ticks \in Nat /\ slow \in Nat
      /\ MaxSlow \in Nat /\ slow <= MaxSlow /\ MaxSlow >= 1 /\ (BB = B \/ BB = B + 1 + MaxSlow)
  BY CountsTyped, AllowedIs DEF Fine, CountsFine
<1>2. oo \in Nat /\ ll = oo + ticks
  BY CountsTypedNext DEF CountsFine
<1>3. o <= B /\ oo <= o /\ (InPhase => l <= B + slow) /\ (~InPhase => l + MaxSlow <= B + slow)
  BY DEF Bound, ServeBound
<1>4. InPhase' = InPhase /\ (hour = DueHour /\ InPhase => slow = 0)
  <2>1. DueHour \in Nat /\ DueHour < HoursPerDay /\ MaxSlow < HoursPerDay /\ HoursPerDay \in Nat
    BY DigestBounds
  <2> QED
    BY <1>1, <2>1 DEF InPhase
<1> HIDE DEF o, l, B, oo, ll, BB
<1>5. oo <= BB
  BY <1>1, <1>2, <1>3
<1>6. /\ InPhase => ll <= BB + slow
      /\ ~InPhase => ll + MaxSlow <= BB + slow
  BY <1>1, <1>2, <1>3
<1>7. ll <= BB + MaxSlow /\ (hour = DueHour => ll <= BB)
  BY <1>1, <1>4, <1>6, <1>2
<1>8. ServeBound(k)'
  BY <1>4, <1>6 DEF ServeBound, ll, BB
<1>9. WaitBound(k)'
  <2>1. ll <= BB + MaxSlow /\ (hour = DueHour => ll <= BB + 1) /\ (DueAt(day, hour, k[2]) => ll <= BB)
    BY <1>1, <1>2, <1>7 DEF DueAt
  <2> QED
    BY <2>1 DEF WaitBound, ll, BB
<1> QED
  BY <1>5, <1>8, <1>9 DEF Bound, oo, BB

LEMMA NextServes ==
  ASSUME Fine, NEW k \in Key, due # <<>>,
         NextCadence \/ (queue # {} /\ NextSite), Serving(k)'
  PROVE  Serving(k) /\ ~(k[2] = Head(due) /\ queue # {} /\ k[1] = InHand.who[2])
<1>1. /\ TaskFine /\ due \in DueLists /\ Elems(due) = Elems(Tail(due)) \cup {Head(due)}
      /\ Head(due) \notin Elems(Tail(due))
  BY ListsUnfold DEF Fine, TaskFine
<1>2. CASE NextCadence
  <2>1. due' = Tail(due)
    BY <1>2 DEF NextCadence
  <2>2. k[2] \in Elems(Tail(due))
    BY <2>1 DEF Serving
  <2> QED
    BY <1>1, <2>2 DEF Serving
<1>3. CASE pc' = "channels" /\ due' = due /\ queue' = queue \ {InHand} /\ queue # {}
  <2>1. InHand \in queue /\ OnePerSite
    BY <1>1, <1>3, InHandListed DEF TaskFine
  <2>2. k[2] \in Elems(due) /\ (k[2] = Head(due) => \E row \in queue \ {InHand} : row.who[2] = k[1])
    BY <1>3 DEF Serving
  <2> QED
    BY <2>1, <2>2 DEF Serving, OnePerSite
<1>4. NextCadence \/ queue # {}
  OBVIOUS
<1> QED
  BY <1>1, <1>2, <1>3, <1>4, NextSiteIs

LEMMA TaskBounds ==
  ASSUME Fine, Fine', NEW k \in Key, Bound(k),
         ListSubscriptions \/ ListChannels \/ Send \/ RecordBounce
  PROVE  Bound(k)'
<1>1. /\ due # <<>> /\ UNCHANGED <<day, hour, behind, ticks, slow>>
      /\ UNCHANGED mishaps \/ Mishap
      /\ (pc # "list" => queue # {}) /\ TaskFine /\ TableFine
  BY DEF ListSubscriptions, ListChannels, Send, RecordBounce, clock, Fine, TaskFine, Resting, Working
<1>2. pc' \notin {"down", "dead"}
  BY DEF ListSubscriptions, ListChannels, Send, RecordBounce, NextSite, NextCadence
<1>3. sent[k] \in Nat /\ behind \in Nat
  BY CountsTyped DEF CountsFine
<1>4. ASSUME sent'[k] = sent[k], Serving(k)' => Serving(k) PROVE Owed(k)' <= Owed(k)
  <2> DEFINE s == sent[k]
             v == IF Serving(k) THEN 1 ELSE 0
             vv == IF Serving(k)' THEN 1 ELSE 0
  <2>1. v \in Nat /\ vv \in Nat /\ vv <= v /\ Owed(k) = s + v + behind /\ Owed(k)' = s + vv + behind
    BY <1>1, <1>4 DEF Owed
  <2>2. s \in Nat
    BY <1>3
  <2> HIDE DEF s, v, vv
  <2> QED
    BY <1>3, <2>1, <2>2
<1>5. CASE ListSubscriptions
  <2>1. pc = "list" /\ sent' = sent
    BY <1>5 DEF ListSubscriptions, clock
  <2>2. ASSUME NextCadence PROVE Owed(k)' <= Owed(k)
    BY <1>1, <1>4, <2>1, <2>2, NextServes
  <2>3. ASSUME ~NextCadence PROVE Owed(k)' <= Owed(k)
    <3>1. due' = due
      BY <1>5, <2>3 DEF ListSubscriptions
    <3>2. Serving(k)' => Serving(k)
      BY <2>1, <3>1 DEF Serving
    <3> QED
      BY <1>4, <2>1, <3>2
  <2> QED
    BY <1>1, <1>2, <2>2, <2>3, ServeSteps
<1>6. CASE ListChannels \/ RecordBounce \/ (Send /\ "good" \notin targets)
  <2>1. queue # {} /\ sent' = sent /\ pc # "list"
    BY <1>1, <1>6 DEF ListChannels, RecordBounce, Send, clock
  <2>2. ASSUME NextSite PROVE Owed(k)' <= Owed(k)
    BY <1>1, <1>4, <2>1, <2>2, NextServes
  <2>3. ASSUME ~NextSite PROVE Owed(k)' <= Owed(k)
    <3>1. UNCHANGED <<due, queue>> /\ pc' # "list"
      BY <1>6, <2>3 DEF ListChannels, RecordBounce, Send
    <3>2. Serving(k)' => Serving(k)
      BY <3>1 DEF Serving
    <3> QED
      BY <1>4, <2>1, <3>2
  <2> QED
    BY <1>1, <1>2, <2>2, <2>3, ServeSteps
<1>7. CASE Send /\ "good" \in targets
  <2> DEFINE h == <<InHand.who[2], Head(due)>>
  <2>1. queue # {} /\ NextSite /\ sent' = [sent EXCEPT ![h] = @ + 1] /\ pc # "list"
    BY <1>1, <1>7 DEF Send
  <2>2. InHand \in queue /\ h \in Key /\ Head(due) \in Elems(due) /\ sent \in [Key -> Nat]
    BY <1>1, <2>1, InHandListed, ListsUnfold DEF Key, TaskFine, Fine, ClockFine
  <2>3. ASSUME k # h PROVE Owed(k)' <= Owed(k)
    <3>1. sent'[k] = sent[k]
      BY <2>1, <2>2, <2>3
    <3> QED
      BY <1>1, <1>2, <1>4, <2>1, <3>1, <2>3, NextServes
  <2>4. ASSUME k = h PROVE Owed(k)' <= Owed(k)
    <3>1. k[1] = InHand.who[2] /\ k[2] = Head(due)
      BY <2>4
    <3>2. Serving(k) /\ ~Serving(k)'
      BY <1>1, <2>1, <2>2, <3>1, NextServes DEF Serving
    <3>3. sent'[k] = sent[k] + 1
      BY <2>1, <2>2, <2>4
    <3>4. Owed(k) = sent[k] + 1 + behind /\ Owed(k)' = sent'[k] + 0 + behind
      BY <1>1, <3>2 DEF Owed
    <3> QED
      BY <1>3, <3>3, <3>4
  <2> QED
    BY <1>1, <1>2, <2>3, <2>4, ServeSteps
<1> QED
  BY <1>5, <1>6, <1>7

LEMMA TickBounds ==
  ASSUME Fine, Fine', NEW k \in Key, Bound(k), Tick
  PROVE  Bound(k)'
<1> DEFINE o == Owed(k)
           l == Load(k)
           B == Allowed
           oo == Owed(k)'
           ll == Load(k)'
<1>1. /\ o \in Nat /\ B \in Nat /\ l = o + ticks /\ ticks \in Nat /\ ticks >= 1
      /\ MaxSlow \in Nat /\ Allowed' = B /\ oo \in Nat /\ ll = oo + (ticks - 1)
  <2>1. ticks' = ticks - 1 /\ ticks > 0 /\ UNCHANGED mishaps
    BY DEF Tick
  <2> QED
    BY <2>1, CountsTyped, CountsTypedNext, AllowedIs DEF Fine, CountsFine
<1>2. pc = "wait" /\ due = <<>> /\ slow' = 0 /\ due' = DueCadences /\ sent' = sent
      /\ pc' = (IF due' = <<>> THEN "wait" ELSE "list") /\ UNCHANGED <<day, hour, behind>>
  BY DEF Tick, Fine, TaskFine, Resting, clock
<1>3. o = sent[k] + 0 + behind
  BY <1>2, Idle DEF Owed
<1>4. /\ o <= B /\ l <= B + MaxSlow /\ (hour = DueHour => l <= B + 1)
      /\ (DueAt(day, hour, k[2]) => l <= B)
  BY <1>2 DEF Bound, WaitBound
<1>5. oo = sent[k] + (IF Serving(k)' THEN 1 ELSE 0) + behind
  BY <1>2 DEF Owed
<1>6. Serving(k)' => DueAt(day, hour, k[2])
  BY <1>2, DueUnfold DEF Serving, Key
<1>7. due' # <<>> => hour = DueHour
  <2>1. ASSUME due' # <<>> PROVE Head(due') \in Cadence /\ Head(due') \in Elems(due')
    BY <1>2, <2>1, DueUnfold, ListsUnfold
  <2> QED
    BY <1>2, <2>1, DueUnfold DEF DueAt
<1>8. sent[k] \in Nat /\ behind \in Nat
  BY CountsTyped DEF CountsFine
<1>9. oo <= o + 1 /\ (~DueAt(day, hour, k[2]) => oo = o)
  <2>1. CASE Serving(k)'
    BY <1>3, <1>5, <1>6, <1>8, <2>1
  <2>2. CASE ~Serving(k)'
    BY <1>3, <1>5, <1>8, <2>2
  <2> QED
    BY <2>1, <2>2
<1> HIDE DEF o, l, B, oo, ll
<1>10. oo <= B /\ ll <= B + MaxSlow /\ (hour = DueHour => ll <= B) /\ (DueAt(day, hour, k[2]) => ll <= B)
  <2>1. CASE DueAt(day, hour, k[2])
    BY <1>1, <1>4, <1>9, <2>1
  <2>2. CASE ~DueAt(day, hour, k[2])
    BY <1>1, <1>4, <1>9, <2>2
  <2> QED
    BY <2>1, <2>2
<1>11. WaitBound(k)'
  <2>1. Load(k)' = ll /\ Allowed' = B /\ hour' = hour /\ DueAt(day, hour, k[2])' = DueAt(day, hour, k[2])
    BY <1>1, <1>2 DEF ll, DueAt
  <2>2. hour' = DueHour => ll <= B + 1
    BY <1>1, <1>10, <2>1
  <2> QED
    BY <1>10, <2>1, <2>2 DEF WaitBound
<1>12. due' # <<>> => ServeBound(k)'
  <2> HAVE due' # <<>>
  <2>1. InPhase'
    BY <1>2, <1>7, DigestBounds DEF InPhase
  <2>2. ll <= B + slow'
    BY <1>1, <1>2, <1>7, <1>10
  <2> QED
    BY <1>1, <2>1, <2>2 DEF ServeBound, ll
<1> QED
  BY <1>1, <1>2, <1>10, <1>11, <1>12 DEF Bound, oo

(* What the task was serving is gone; the mishap pays for the tick of the  *)
(* next start.                                                             *)
LEMMA LossBounds ==
  ASSUME Fine, Fine', NEW k \in Key, Bound(k), SendPanics \/ Stop
  PROVE  Bound(k)'
<1> DEFINE o == Owed(k)
           B == Allowed
           oo == Owed(k)'
<1>1. Mishap /\ due' = <<>> /\ pc' \in {"down", "dead"} /\ UNCHANGED clock
  BY DEF SendPanics, Stop
<1>2. /\ o \in Nat /\ B \in Nat /\ oo \in Nat /\ MaxSlow \in Nat /\ MaxSlow >= 1
      /\ Allowed' = B + 1 + MaxSlow /\ sent[k] \in Nat /\ behind \in Nat
  BY <1>1, CountsTyped, CountsTypedNext, AllowedIs DEF Fine, CountsFine
<1>3. oo = sent[k] + 0 + behind
  <2>1. ~Serving(k)'
    BY <1>1 DEF Serving, Elems
  <2> QED
    BY <1>1, <2>1 DEF Owed, clock
<1>4. oo <= o
  <2>1. CASE Serving(k)
    BY <1>2, <1>3, <2>1 DEF Owed
  <2>2. CASE ~Serving(k)
    BY <1>2, <1>3, <2>2 DEF Owed
  <2> QED
    BY <2>1, <2>2
<1>5. o <= B
  BY DEF Bound
<1> HIDE DEF o, B, oo
<1>6. oo <= Allowed' /\ oo + 1 <= Allowed'
  BY <1>2, <1>4, <1>5
<1> QED
  BY <1>1, <1>6 DEF Bound, oo

LEMMA StartBounds ==
  ASSUME Fine, Fine', NEW k \in Key, Bound(k), Start
  PROVE  Bound(k)'
<1> DEFINE o == Owed(k)
           B == Allowed
           ll == Load(k)'
<1>1. pc = "down" /\ pc' = "wait" /\ ticks' = 1 /\ UNCHANGED <<clock, due, queue, slow, mishaps>>
  BY DEF Start
<1>2. due = <<>> /\ Owed(k)' = o
  <2>1. due = <<>>
    BY <1>1 DEF Fine, TaskFine, Resting
  <2>2. ~Serving(k) /\ ~Serving(k)'
    BY <1>1, <2>1, Idle DEF Serving, Elems
  <2> QED
    BY <1>1, <2>1, <2>2 DEF Owed, clock
<1>3. o \in Nat /\ B \in Nat /\ MaxSlow \in Nat /\ Allowed' = B /\ ll = o + 1 /\ o + 1 <= B
  BY <1>1, <1>2, CountsTyped, CountsTypedNext, AllowedIs DEF Fine, CountsFine, Bound
<1> HIDE DEF o, B, ll
<1>4. o <= B /\ ll <= B + MaxSlow /\ ll <= B + 1 /\ ll <= B
  BY <1>3
<1> QED
  BY <1>1, <1>2, <1>3, <1>4 DEF Bound, WaitBound, ll

(* A mishap pays for an hour that is lived through again, or waited away.  *)
LEMMA MishapBounds ==
  ASSUME Fine, Fine', NEW k \in Key, Bound(k), Mishap, UNCHANGED <<pc, due, slow>>,
         Owed(k)' <= Owed(k) + 1, Load(k)' <= Load(k) + 1
  PROVE  Bound(k)'
<1> DEFINE o == Owed(k)
           l == Load(k)
           B == Allowed
           oo == Owed(k)'
           ll == Load(k)'
           BB == Allowed'
<1>1. /\ o \in Nat /\ l \in Nat /\ B \in Nat /\ oo \in Nat /\ ll \in Nat /\ slow \in Nat
      /\ MaxSlow \in Nat /\ MaxSlow >= 1 /\ BB = B + 1 + MaxSlow /\ oo <= o + 1 /\ ll <= l + 1
  BY CountsTyped, CountsTypedNext, AllowedIs DEF Fine, CountsFine
<1>2. /\ o <= B /\ (pc \in {"down", "dead"} => o + 1 <= B)
      /\ (pc = "wait" => l <= B + MaxSlow)
      /\ (due # <<>> => l <= B + slow \/ l + MaxSlow <= B + slow)
  BY DEF Bound, WaitBound, ServeBound
<1> HIDE DEF o, l, B, oo, ll, BB
<1>3. /\ oo <= BB /\ (pc \in {"down", "dead"} => oo + 1 <= BB)
      /\ (pc = "wait" => ll <= BB /\ ll <= BB + 1 /\ ll <= BB + MaxSlow)
      /\ (due # <<>> => ll <= BB + slow /\ ll + MaxSlow <= BB + slow)
  BY <1>1, <1>2
<1> QED
  BY <1>3 DEF Bound, WaitBound, ServeBound, oo, ll, BB

LEMMA OwedAfter ==
  ASSUME Fine, NEW k \in Key, NEW time, ClockTo(time, behind > 0),
         behind' = (IF behind > 0 THEN behind - 1 ELSE 0), UNCHANGED <<pc, due, queue>>
  PROVE  /\ Owed(k)' <= Owed(k)
         /\ behind > 0 => Owed(k)' + 1 <= Owed(k)
         /\ DueAt(day, hour, k[2])' /\ behind = 0 /\ due = <<>> => Owed(k)' = 0
<1> DEFINE v == IF Serving(k) THEN 1 ELSE 0
           s == sent[k]
           ss == sent'[k]
<1>1. v \in Nat /\ s \in Nat /\ behind \in Nat
  BY CountsTyped DEF CountsFine
<1>2. Owed(k) = s + v + behind /\ Owed(k)' = ss + v + behind'
  <2>1. Serving(k)' = Serving(k)
    BY DEF Serving
  <2> QED
    BY <2>1 DEF Owed
<1>3. ss = IF DueAt(day', hour', k[2]) /\ ~(behind > 0) THEN 0 ELSE s
  BY DEF ClockTo, Key
<1>4. due = <<>> => v = 0
  BY Idle
<1>5. DueAt(day, hour, k[2])' = DueAt(day', hour', k[2])
  BY DEF DueAt
<1> HIDE DEF v, s, ss
<1> QED
  BY <1>1, <1>2, <1>3, <1>4, <1>5

LEMMA InPhaseStays ==
  ASSUME Fine, hour' = HourAfter[2], slow' = slow + 1, slow < MaxSlow, InPhase
  PROVE  InPhase'
<1>1. /\ hour \in Nat /\ slow \in Nat /\ hour < HoursPerDay /\ HoursPerDay \in Nat
      /\ DueHour \in Nat /\ DueHour < HoursPerDay /\ MaxSlow \in Nat /\ MaxSlow < HoursPerDay
  BY DigestBounds DEF Fine, ClockFine, RestFine, Hour
<1>2. hour' = IF hour + 1 < HoursPerDay THEN hour + 1 ELSE 0
  BY DEF HourAfter
<1> QED
  BY <1>1, <1>2 DEF InPhase

LEMMA HourBounds ==
  ASSUME Fine, Fine', NEW k \in Key, Bound(k), HourPasses
  PROVE  Bound(k)'
<1> DEFINE o == Owed(k)
           l == Load(k)
           B == Allowed
           oo == Owed(k)'
           ll == Load(k)'
<1>1. /\ ClockTo(HourAfter, behind > 0) /\ behind' = (IF behind > 0 THEN behind - 1 ELSE 0)
      /\ UNCHANGED <<pc, due, queue>>
  BY DEF HourPasses
<1>2. /\ o \in Nat /\ l = o + ticks /\ B \in Nat /\ oo \in Nat /\ ll = oo + ticks' /\ ticks \in Nat
      /\ slow \in Nat /\ behind \in Nat /\ MaxSlow \in Nat /\ MaxSlow >= 1 /\ B >= 1
      /\ (UNCHANGED mishaps => Allowed' = B)
  BY CountsTyped, CountsTypedNext, AllowedIs DEF Fine, CountsFine
<1>3. /\ oo <= o /\ (behind > 0 => oo + 1 <= o)
      /\ (DueAt(day, hour, k[2])' /\ behind = 0 /\ due = <<>> => oo = 0)
  BY <1>1, OwedAfter
<1>4. o <= B
  BY DEF Bound
<1>5. CASE pc \in {"down", "dead"} /\ UNCHANGED <<ticks, slow, mishaps>>
  <2>1. o + 1 <= B /\ due' = <<>> /\ pc' \in {"down", "dead"} /\ Allowed' = B
    BY <1>1, <1>2, <1>5 DEF Bound, Fine, TaskFine, Resting
  <2> HIDE DEF o, B, oo
  <2>2. oo <= B /\ oo + 1 <= B
    BY <1>2, <1>3, <2>1
  <2> QED
    BY <2>1, <2>2 DEF Bound, oo
<1>6. CASE pc = "wait" /\ ticks = 0 /\ ticks' = 1 /\ UNCHANGED <<slow, mishaps>>
  <2>1. due = <<>> /\ due' = <<>> /\ pc' = "wait" /\ Allowed' = B
    BY <1>1, <1>2, <1>6 DEF Fine, TaskFine, Resting
  <2> HIDE DEF o, l, B, oo, ll
  <2>2. oo <= B /\ ll <= B + 1 /\ ll <= B + MaxSlow
    BY <1>2, <1>3, <1>4, <1>6
  <2>3. DueAt(day, hour, k[2])' => ll <= B
    BY <1>2, <1>3, <1>4, <1>6, <2>1
  <2> QED
    BY <2>1, <2>2, <2>3 DEF Bound, WaitBound, oo, ll
<1>7. CASE pc = "wait" /\ ticks' = ticks + 1 /\ UNCHANGED slow /\ Mishap
  <2>1. ll <= l + 1 /\ oo <= o + 1
    <3> HIDE DEF o, l, oo, ll
    <3> QED
      BY <1>2, <1>3, <1>7
  <2> QED
    BY <1>1, <1>7, <2>1, MishapBounds
<1>8. CASE /\ pc \notin {"down", "dead", "wait"} /\ slow < MaxSlow /\ slow' = slow + 1
           /\ ticks' = ticks + 1 /\ UNCHANGED mishaps
  <2>1. due # <<>> /\ due' = due /\ pc' = pc /\ Allowed' = B
    BY <1>1, <1>2, <1>8 DEF Fine, TaskFine, Resting
  <2>2. (InPhase => l <= B + slow) /\ (~InPhase => l + MaxSlow <= B + slow)
    BY <2>1 DEF Bound, ServeBound
  <2>3. InPhase => InPhase'
    BY <1>1, <1>8, InPhaseStays DEF ClockTo
  <2> HIDE DEF o, l, B, oo, ll
  <2>4. oo <= B /\ (InPhase => ll <= B + slow') /\ (~InPhase => ll + MaxSlow <= B + slow')
    BY <1>2, <1>3, <1>4, <1>8, <2>2
  <2>5. (InPhase' => ll <= B + slow') /\ (~InPhase' => ll + MaxSlow <= B + slow')
    BY <1>2, <1>8, <2>3, <2>4
  <2>6. ServeBound(k)'
    BY <2>1, <2>5 DEF ServeBound, ll
  <2> QED
    BY <1>8, <2>1, <2>4, <2>6 DEF Bound, oo
<1>9. \/ pc \in {"down", "dead"} /\ UNCHANGED <<ticks, slow, mishaps>>
      \/ pc = "wait" /\ ticks = 0 /\ ticks' = 1 /\ UNCHANGED <<slow, mishaps>>
      \/ pc = "wait" /\ ticks' = ticks + 1 /\ UNCHANGED slow /\ Mishap
      \/ /\ pc \notin {"down", "dead", "wait"} /\ slow < MaxSlow /\ slow' = slow + 1
         /\ ticks' = ticks + 1 /\ UNCHANGED mishaps
  BY DEF HourPasses
<1> QED
  BY <1>5, <1>6, <1>7, <1>8, <1>9

LEMMA ClockBounds ==
  ASSUME Fine, Fine', NEW k \in Key, Bound(k), ClockStepsBack \/ ClockStepsForward
  PROVE  Bound(k)'
<1>1. Mishap /\ UNCHANGED <<ticks, pc, due, queue, slow>>
  BY DEF ClockStepsBack, ClockStepsForward, task
<1>2. /\ Owed(k) \in Nat /\ Owed(k)' \in Nat /\ ticks \in Nat /\ sent[k] \in Nat /\ behind \in Nat
      /\ Load(k) = Owed(k) + ticks /\ Load(k)' = Owed(k)' + ticks
  BY <1>1, CountsTyped, CountsTypedNext DEF CountsFine
<1>3. Owed(k)' <= Owed(k) + 1
  <2>1. CASE ClockStepsForward
    <3>1. Owed(k)' <= Owed(k)
      BY <1>1, <2>1, OwedAfter DEF ClockStepsForward
    <3> QED
      BY <1>2, <3>1
  <2>2. CASE ClockStepsBack
    <3> DEFINE v == IF Serving(k) THEN 1 ELSE 0
    <3>1. sent'[k] = sent[k] /\ behind' = behind + 1
      BY <2>2 DEF ClockStepsBack, ClockTo, Key
    <3>2. Serving(k)' = Serving(k)
      BY <1>1 DEF Serving
    <3>3. v \in Nat /\ Owed(k) = sent[k] + v + behind /\ Owed(k)' = sent[k] + v + (behind + 1)
      BY <3>1, <3>2 DEF Owed
    <3> HIDE DEF v
    <3> QED
      BY <1>2, <3>3
  <2> QED
    BY <2>1, <2>2
<1>4. Load(k)' <= Load(k) + 1
  BY <1>2, <1>3
<1> QED
  BY <1>1, <1>3, <1>4, MishapBounds

LEMMA BoundStep ==
  ASSUME Fine, Fine', [DigestNext]_digestVars, NEW k \in Key, Bound(k)
  PROVE  Bound(k)'
<1>1. CASE Dashboard \/ UNCHANGED digestVars
  <2>1. UNCHANGED <<clock, task, mishaps>>
    BY <1>1 DEF Dashboard, PutSubscription, DeleteSubscription, ChannelsChange, digestVars
  <2> QED
    BY <2>1 DEF Bound, WaitBound, ServeBound, Owed, Load, Serving, Allowed, InPhase, DueAt, clock, task
<1> QED
  BY <1>1, TaskBounds, TickBounds, LossBounds, StartBounds, HourBounds, ClockBounds
     DEF DigestNext, Task

LEMMA BoundInit == DigestInit => \A k \in Key : Bound(k)
<1> SUFFICES ASSUME DigestInit, NEW k \in Key PROVE Bound(k)
  OBVIOUS
<1>1. Fine /\ pc = "wait" /\ due = <<>> /\ ticks = 1 /\ behind = 0 /\ sent[k] = 0
  BY FineInit DEF DigestInit, Key
<1>2. Owed(k) = 0 /\ Load(k) = 1
  BY <1>1, Idle DEF Owed, Load
<1>3. Allowed \in Nat /\ Allowed >= 1 /\ MaxSlow \in Nat /\ MaxSlow >= 1
  BY <1>1, AllowedIs DEF Fine
<1>4. 0 <= Allowed /\ 1 <= Allowed /\ 1 <= Allowed + 1 /\ 1 <= Allowed + MaxSlow
  BY <1>3
<1> QED
  BY <1>1, <1>2, <1>4 DEF Bound, WaitBound

LEMMA DigestInvInit == DigestInit => DigestInv
  BY FineInit, BoundInit DEF DigestInv

LEMMA DigestInvStep == DigestInv /\ [DigestNext]_digestVars => DigestInv'
<1> SUFFICES ASSUME DigestInv, [DigestNext]_digestVars PROVE DigestInv'
  OBVIOUS
<1>1. Fine /\ Fine'
  BY FineStep DEF DigestInv
<1>2. \A k \in Key : Bound(k)'
  BY <1>1, BoundStep DEF DigestInv
<1> QED
  BY <1>1, <1>2 DEF DigestInv

LEMMA BoundIsEnough == DigestInv => OneDigestPerDueHour
<1> SUFFICES ASSUME DigestInv, NEW k \in Key PROVE sent[k] <= 1 + mishaps * (1 + MaxSlow)
  BY DEF OneDigestPerDueHour, Key
<1>1. Owed(k) \in Nat /\ sent[k] \in Nat /\ sent[k] <= Owed(k) /\ Owed(k) <= Allowed
  BY CountsTyped DEF DigestInv, Bound, CountsFine
<1>2. Allowed \in Nat
  BY AllowedIs DEF DigestInv, Fine
<1>3. sent[k] <= Allowed
  BY <1>1, <1>2
<1> QED
  BY <1>3 DEF Allowed

(* A site gets one digest of a cadence per due hour, and no more than the  *)
(* mishaps of the run explain.                                             *)
THEOREM OnePerDueHour == DigestSpec => []OneDigestPerDueHour
  BY DigestInvInit, DigestInvStep, BoundIsEnough, PTL DEF DigestSpec
-----------------------------------------------------------------------------
(* Counting: images, one-to-one images, and the sum over the parts of a    *)
(* finite set.                                                             *)
LEMMA CountPart ==
  ASSUME NEW V, IsFiniteSet(V), NEW W, W \subseteq V
  PROVE  IsFiniteSet(W) /\ Cardinality(W) \in Nat /\ Cardinality(V) \in Nat
         /\ Cardinality(W) <= Cardinality(V)
         /\ (Cardinality(W) = Cardinality(V) => W = V)
  BY FS_Subset, FS_CardinalityType

LEMMA CountOnto ==
  ASSUME NEW V, IsFiniteSet(V), NEW T, NEW f \in [V -> T], \A t \in T : \E v \in V : f[v] = t
  PROVE  IsFiniteSet(T) /\ Cardinality(T) \in Nat /\ Cardinality(V) \in Nat
         /\ Cardinality(T) <= Cardinality(V)
<1>1. f \in Surjection(V, T)
  BY DEF Surjection
<1> QED
  BY <1>1, FS_Surjection, FS_CardinalityType

LEMMA CountInto ==
  ASSUME NEW V, NEW T, IsFiniteSet(T), NEW f \in [V -> T],
         \A v, w \in V : f[v] = f[w] => v = w
  PROVE  IsFiniteSet(V) /\ Cardinality(V) \in Nat /\ Cardinality(T) \in Nat
         /\ Cardinality(V) <= Cardinality(T)
         /\ ((\A t \in T : \E v \in V : f[v] = t) => Cardinality(V) = Cardinality(T))
<1>1. f \in Injection(V, T)
  BY DEF Injection, IsInjective
<1>2. (\A t \in T : \E v \in V : f[v] = t) => f \in Surjection(V, T)
  BY DEF Surjection
<1> QED
  BY <1>1, <1>2, FS_Injection, FS_CardinalityType

LEMMA Partition ==
  ASSUME NEW V, IsFiniteSet(V), NEW f, NEW key \in [V -> DOMAIN f],
         \A d \in DOMAIN f : f[d] = Cardinality({v \in V : key[v] = d})
  PROVE  Total(f) = Cardinality(V) /\ Total(f) \in Nat
<1> DEFINE D == DOMAIN f
           Fibre(d) == {v \in V : key[v] = d}
           P == UNION {{x} \X (1 .. f[x]) : x \in D}
           num == [d \in D |-> CHOOSE b : b \in Bijection(1 .. f[d], Fibre(d))]
           g == [p \in P |-> num[p[1]][p[2]]]
<1>1. ASSUME NEW d \in D
      PROVE  /\ num[d] \in [1 .. f[d] -> Fibre(d)]
             /\ \A i, j \in 1 .. f[d] : num[d][i] = num[d][j] => i = j
             /\ \A v \in Fibre(d) : \E i \in 1 .. f[d] : num[d][i] = v
  <2>1. IsFiniteSet(Fibre(d))
    BY CountPart
  <2>2. f[d] = Cardinality(Fibre(d))
    OBVIOUS
  <2> HIDE DEF Fibre
  <2>3. \E b : b \in Bijection(1 .. f[d], Fibre(d))
    BY <2>1, <2>2, FS_CardinalityType DEF ExistsBijection
  <2>4. num[d] = CHOOSE b : b \in Bijection(1 .. f[d], Fibre(d))
    OBVIOUS
  <2>5. num[d] \in Bijection(1 .. f[d], Fibre(d))
    BY <2>3, <2>4
  <2> HIDE DEF num
  <2> QED
    BY <2>5 DEF Bijection, Injection, Surjection, IsInjective
<1>2. ASSUME NEW p \in P
      PROVE  p[1] \in D /\ p[2] \in 1 .. f[p[1]] /\ p = <<p[1], p[2]>>
  OBVIOUS
<1>3. ASSUME NEW d \in D, NEW i \in 1 .. f[d] PROVE <<d, i>> \in P
  OBVIOUS
<1> HIDE DEF D, P, num
<1>4. ASSUME NEW p \in P PROVE g[p] \in V /\ key[g[p]] = p[1] /\ g[p] = num[p[1]][p[2]]
  <2>1. g[p] = num[p[1]][p[2]]
    OBVIOUS
  <2>2. ASSUME NEW d \in D, NEW i \in 1 .. f[d] PROVE num[d][i] \in Fibre(d)
    <3> HIDE DEF Fibre
    <3>1. num[d] \in [1 .. f[d] -> Fibre(d)]
      BY <1>1
    <3> QED
      BY <3>1
  <2>3. num[p[1]][p[2]] \in Fibre(p[1])
    BY <1>2, <2>2
  <2> QED
    BY <2>1, <2>3
<1>5. g \in [P -> V]
  BY <1>4
<1>6. ASSUME NEW p \in P, NEW q \in P, g[p] = g[q] PROVE p = q
  <2>1. p[1] = q[1]
    BY <1>4, <1>6
  <2>2. p[2] = q[2]
    BY <1>1, <1>2, <1>4, <1>6, <2>1
  <2> QED
    BY <1>2, <2>1, <2>2
<1>7. ASSUME NEW v \in V PROVE \E p \in P : g[p] = v
  <2>1. key[v] \in D /\ v \in Fibre(key[v])
    BY DEF D
  <2>2. PICK i \in 1 .. f[key[v]] : num[key[v]][i] = v
    BY <1>1, <2>1
  <2>3. <<key[v], i>> \in P
    BY <1>3, <2>1, <2>2
  <2> QED
    BY <1>4, <2>2, <2>3
<1> HIDE DEF g
<1>8. Cardinality(P) = Cardinality(V) /\ Cardinality(P) \in Nat
  BY <1>5, <1>6, <1>7, CountInto
<1> QED
  BY <1>8 DEF Total, P, D

(* What is below x is nothing for some x, in a strict order on a finite    *)
(* set.                                                                    *)
LEMMA Minimal ==
  ASSUME NEW W, IsFiniteSet(W), W # {}, NEW B \in [W -> SUBSET W],
         \A x \in W : x \notin B[x],
         \A x \in W : \A y \in B[x] : B[y] \subseteq B[x]
  PROVE  \E r \in W : B[r] = {}
<1> DEFINE N == {Cardinality(B[x]) : x \in W}
<1>1. \A x \in W : Cardinality(B[x]) \in Nat /\ IsFiniteSet(B[x])
  BY CountPart
<1>2. PICK n \in N : \A m \in N : n <= m
  <2>1. N \in SUBSET Nat /\ N # {}
    BY <1>1
  <2> HIDE DEF N
  <2> QED
    BY <2>1, Least
<1>3. PICK r \in W : n = Cardinality(B[r])
  BY <1>2
<1>4. ASSUME NEW q \in B[r] PROVE FALSE
  <2>1. q \in W /\ B[q] \subseteq B[r] /\ B[q] # B[r]
    BY <1>4
  <2>2. Cardinality(B[r]) <= Cardinality(B[q])
    BY <1>2, <1>3, <2>1
  <2>3. Cardinality(B[q]) <= Cardinality(B[r]) /\ Cardinality(B[q]) # Cardinality(B[r])
    BY <1>1, <2>1, CountPart
  <2> QED
    BY <1>1, <2>1, <2>2, <2>3
<1> QED
  BY <1>4

LEMMA LesserOf == \A m, n \in Nat : Min({m, n}) = IF m <= n THEN m ELSE n
<1> TAKE m, n \in Nat
<1> DEFINE l == IF m <= n THEN m ELSE n
<1>1. l \in {m, n} /\ \A y \in {m, n} : l <= y
  OBVIOUS
<1>2. \A x \in {m, n} : (\A y \in {m, n} : x <= y) => x = l
  OBVIOUS
<1> QED
  BY <1>1, <1>2 DEF Min
-----------------------------------------------------------------------------
(* The rows: as many as the bound allows, and alike when they are copies.  *)
EventRow == [id : 1 .. MaxEvents, copy : Nat, ts : Time, session : {b.session : b \in Beacon},
        kind : {"pageview", "custom"}, dim : [Column -> Value \cup {Null}]]
AreRows(V) ==
    /\ IsFiniteSet(V) /\ Cardinality(V) <= MaxRows
    /\ V \subseteq EventRow /\ \A r \in V : r.dim["name"] # Null
    /\ \A q, r \in V : q.id = r.id =>
          q.ts = r.ts /\ q.session = r.session /\ q.kind = r.kind /\ q.dim = r.dim
RowsFine == AreRows(rows)

LEMMA PartFine ==
  ASSUME NEW V, AreRows(V), NEW W, W \subseteq V
  PROVE  AreRows(W)
<1>1. IsFiniteSet(V) /\ Cardinality(V) <= MaxRows /\ MaxRows \in Nat
  BY ReportsAssumption DEF AreRows
<1>2. IsFiniteSet(W) /\ Cardinality(W) <= MaxRows
  BY <1>1, CountPart
<1> QED
  BY <1>2 DEF AreRows

LEMMA CopyTyped ==
  ASSUME NEW r \in EventRow
  PROVE  LET c == [r EXCEPT !.copy = @ + 1]
         IN  /\ c \in EventRow /\ c.id = r.id /\ c.ts = r.ts /\ c.session = r.session
             /\ c.kind = r.kind /\ c.dim = r.dim /\ c.copy = r.copy + 1
  BY DEF EventRow

LEMMA RowsFineInit == ReportInit => RowsFine
  BY FS_EmptySet, ReportsAssumption DEF ReportInit, RowsFine, AreRows

LEMMA RowsFineStep == RowsFine /\ [ReportNext]_reportVars => RowsFine'
<1> SUFFICES ASSUME RowsFine, [ReportNext]_reportVars PROVE RowsFine'
  OBVIOUS
<1>1. /\ IsFiniteSet(rows) /\ Cardinality(rows) \in Nat /\ Cardinality(rows) <= MaxRows
      /\ MaxRows \in Nat /\ MaxEvents \in Nat
  BY FS_CardinalityType, ReportsAssumption DEF RowsFine, AreRows
<1>2. ASSUME NEW x \in EventRow, x.dim["name"] # Null, rows' = rows \cup {x}, Cardinality(rows) < MaxRows,
             \A r \in rows : x.id = r.id =>
                x.ts = r.ts /\ x.session = r.session /\ x.kind = r.kind /\ x.dim = r.dim
      PROVE  RowsFine'
  <2>1. IsFiniteSet(rows') /\ Cardinality(rows') <= MaxRows
    <3> DEFINE c == Cardinality(rows)
               d == Cardinality(rows')
    <3>1. IsFiniteSet(rows') /\ (d = c \/ d = c + 1)
      BY <1>1, <1>2, FS_AddElement
    <3>2. c \in Nat /\ c < MaxRows
      BY <1>1, <1>2
    <3> HIDE DEF c, d
    <3>3. d <= MaxRows
      BY <1>1, <3>1, <3>2
    <3> QED
      BY <3>1, <3>3 DEF d
  <2>2. rows' \subseteq EventRow /\ \A r \in rows' : r.dim["name"] # Null
    BY <1>2 DEF RowsFine, AreRows
  <2>3. \A q, r \in rows' : q.id = r.id =>
          q.ts = r.ts /\ q.session = r.session /\ q.kind = r.kind /\ q.dim = r.dim
    BY <1>2 DEF RowsFine, AreRows
  <2> QED
    BY <2>1, <2>2, <2>3 DEF RowsFine, AreRows
<1>3. ASSUME NEW b \in Beacon, NEW t \in Time, Flush(b, t) PROVE RowsFine'
  <2> DEFINE N == (1 .. MaxEvents) \ Ids
             x == [id |-> Min(N), copy |-> 1, ts |-> t,
                   session |-> b.session, kind |-> b.kind, dim |-> b.dim]
  <2>1. Ids \subseteq 1 .. MaxEvents
    BY DEF RowsFine, AreRows, EventRow, Ids
  <2>2. N # {} /\ N \in SUBSET Nat
    <3>1. Cardinality(1 .. MaxEvents) = MaxEvents
      BY <1>1, FS_Interval
    <3>2. Cardinality(Ids) < MaxEvents
      BY <1>3 DEF Flush
    <3>3. Ids # 1 .. MaxEvents
      BY <1>1, <3>1, <3>2
    <3>4. N # {}
      BY <2>1, <3>3
    <3> QED
      BY <3>4
  <2>3. Min(N) \in N
    <3> HIDE DEF N
    <3>1. \E n \in N : \A m \in N : n <= m
      BY <2>2, Least
    <3> QED
      BY <3>1 DEF Min
  <2> HIDE DEF N
  <2>4. Min(N) \in 1 .. MaxEvents /\ Min(N) \notin Ids
    BY <2>3 DEF N
  <2>5. x \in EventRow /\ x.dim["name"] # Null /\ x.id = Min(N)
    BY <2>4, ReportsAssumption DEF EventRow
  <2>6. rows' = rows \cup {x} /\ Cardinality(rows) < MaxRows
    BY <1>3 DEF Flush, N
  <2> HIDE DEF x
  <2>7. \A r \in rows : x.id # r.id
    BY <2>4, <2>5 DEF Ids
  <2> QED
    BY <1>2, <2>5, <2>6, <2>7
<1>4. ASSUME NEW r \in rows, Replay(r) PROVE RowsFine'
  <2> DEFINE c == [r EXCEPT !.copy = @ + 1]
  <2>1. /\ c \in EventRow /\ c.id = r.id /\ c.ts = r.ts /\ c.session = r.session
        /\ c.kind = r.kind /\ c.dim = r.dim
    BY CopyTyped DEF RowsFine, AreRows
  <2>2. rows' = rows \cup {c} /\ Cardinality(rows) < MaxRows
    BY <1>4 DEF Replay
  <2> HIDE DEF c
  <2>3. c.dim["name"] # Null
    BY <2>1 DEF RowsFine, AreRows
  <2>4. \A q \in rows : c.id = q.id =>
          c.ts = q.ts /\ c.session = q.session /\ c.kind = q.kind /\ c.dim = q.dim
    BY <2>1 DEF RowsFine, AreRows
  <2> QED
    BY <1>2, <2>1, <2>2, <2>3, <2>4
<1>5. ASSUME NEW since, Prune(since) PROVE RowsFine'
  <2>1. rows' \subseteq rows
    BY <1>5 DEF Prune
  <2>2. IsFiniteSet(rows') /\ Cardinality(rows') <= MaxRows
    BY <1>1, <2>1, CountPart
  <2> QED
    BY <2>1, <2>2 DEF RowsFine, AreRows
<1>6. CASE UNCHANGED rows
  BY <1>6 DEF RowsFine, AreRows
<1> QED
  BY <1>3, <1>4, <1>5, <1>6 DEF ReportNext, reportVars, StartReport, FinishReport, StartList,
     FinishList, Answer

-----------------------------------------------------------------------------
(* Visits: every session has a first row and a last one, and counting      *)
(* either of them counts the sessions.                                     *)
EntryOf(V) == [s \in Sessions(V) |-> CHOOSE r \in Of(V, s) : \A q \in Of(V, s) : ~Before(q, r)]
ExitOf(V) == [s \in Sessions(V) |-> CHOOSE r \in Of(V, s) : \A q \in Of(V, s) : ~Before(r, q)]

LEMMA RowNumbers ==
  ASSUME NEW r \in EventRow
  PROVE  r.ts \in Nat /\ r.id \in Nat
<1>1. r.ts \in Time /\ r.id \in 1 .. MaxEvents
  BY DEF EventRow
<1>2. Time \subseteq Nat /\ MaxEvents \in Nat
  BY ReportsAssumption
<1>3. \A x \in 1 .. MaxEvents : x \in Nat
  BY <1>2
<1> DEFINE t == r.ts
           i == r.id
<1>4. t \in Time /\ i \in 1 .. MaxEvents
  BY <1>1
<1> HIDE DEF t, i
<1>5. t \in Nat /\ i \in Nat
  BY <1>2, <1>3, <1>4
<1> QED
  BY <1>5 DEF t, i

LEMMA Orders ==
  ASSUME NEW V, AreRows(V), NEW x \in V, NEW y \in V, NEW z \in V
  PROVE  /\ ~Before(x, x)
         /\ Before(x, y) /\ Before(y, z) => Before(x, z)
         /\ ~Before(x, y) /\ ~Before(y, x) => x.id = y.id
<1>1. /\ x.ts \in Nat /\ y.ts \in Nat /\ z.ts \in Nat
      /\ x.id \in Nat /\ y.id \in Nat /\ z.id \in Nat
  BY RowNumbers DEF AreRows
<1>2. ~Before(x, x)
  BY <1>1 DEF Before
<1>3. ASSUME Before(x, y), Before(y, z) PROVE Before(x, z)
  <2>1. x.ts < y.ts \/ (x.ts = y.ts /\ x.id < y.id)
    BY <1>3 DEF Before
  <2>2. y.ts < z.ts \/ (y.ts = z.ts /\ y.id < z.id)
    BY <1>3 DEF Before
  <2> QED
    BY <1>1, <2>1, <2>2 DEF Before
<1>4. ~Before(x, y) /\ ~Before(y, x) => x.id = y.id
  BY <1>1 DEF Before
<1> QED
  BY <1>2, <1>3, <1>4

LEMMA Ends ==
  ASSUME NEW W, AreRows(W), W # {}
  PROVE  /\ \E r \in W : \A q \in W : ~Before(q, r)
         /\ \E r \in W : \A q \in W : ~Before(r, q)
<1>1. IsFiniteSet(W)
  BY DEF AreRows
<1> DEFINE B == [r \in W |-> {q \in W : Before(q, r)}]
           A == [r \in W |-> {q \in W : Before(r, q)}]
<1>2. \A x, y, z \in W : ~Before(x, x) /\ (Before(x, y) /\ Before(y, z) => Before(x, z))
  BY Orders
<1>3. /\ B \in [W -> SUBSET W] /\ \A x, y \in W : y \in B[x] <=> Before(y, x)
      /\ A \in [W -> SUBSET W] /\ \A x, y \in W : y \in A[x] <=> Before(x, y)
  OBVIOUS
<1> HIDE DEF A, B
<1>4. ASSUME NEW x \in W
      PROVE  /\ x \notin B[x] /\ \A y \in B[x] : B[y] \subseteq B[x]
             /\ x \notin A[x] /\ \A y \in A[x] : A[y] \subseteq A[x]
  <2>1. B[x] \subseteq W /\ A[x] \subseteq W
    BY <1>3
  <2>2. ASSUME NEW y \in B[x], NEW z \in B[y] PROVE z \in B[x]
    <3>1. y \in W /\ z \in W /\ Before(y, x) /\ Before(z, y)
      BY <1>3, <2>1
    <3> QED
      BY <1>2, <1>3, <3>1
  <2>3. ASSUME NEW y \in A[x], NEW z \in A[y] PROVE z \in A[x]
    <3>1. y \in W /\ z \in W /\ Before(x, y) /\ Before(y, z)
      BY <1>3, <2>1
    <3> QED
      BY <1>2, <1>3, <3>1
  <2> QED
    BY <1>2, <1>3, <2>2, <2>3
<1>5. (\E r \in W : B[r] = {}) /\ (\E r \in W : A[r] = {})
  BY <1>1, <1>3, <1>4, Minimal
<1> QED
  BY <1>3, <1>5

LEMMA Ending ==
  ASSUME NEW V, AreRows(V), NEW s \in Sessions(V)
  PROVE  /\ Of(V, s) # {} /\ Of(V, s) \subseteq V
         /\ EntryOf(V)[s] \in Of(V, s) /\ \A q \in Of(V, s) : ~Before(q, EntryOf(V)[s])
         /\ ExitOf(V)[s] \in Of(V, s) /\ \A q \in Of(V, s) : ~Before(ExitOf(V)[s], q)
         /\ First(Of(V, s)) = {EntryOf(V)[s]} /\ Last(Of(V, s)) = {ExitOf(V)[s]}
         /\ EntryOf(V)[s].session = s /\ ExitOf(V)[s].session = s
<1>1. Of(V, s) # {} /\ Of(V, s) \subseteq V /\ \A r \in Of(V, s) : r.session = s
  BY DEF Sessions, Of
<1> DEFINE W == Of(V, s)
<1>2. /\ EntryOf(V)[s] = CHOOSE r \in W : \A q \in W : ~Before(q, r)
      /\ ExitOf(V)[s] = CHOOSE r \in W : \A q \in W : ~Before(r, q)
  BY DEF EntryOf, ExitOf
<1>3. First(W) = {EntryOf(V)[s]} /\ Last(W) = {ExitOf(V)[s]}
  BY <1>2 DEF First, Last
<1> HIDE DEF W
<1>4. /\ \E r \in W : \A q \in W : ~Before(q, r)
      /\ \E r \in W : \A q \in W : ~Before(r, q)
  <2>1. AreRows(W) /\ W # {}
    BY <1>1, PartFine DEF W
  <2> QED
    BY <2>1, Ends
<1>5. /\ EntryOf(V)[s] \in W /\ \A q \in W : ~Before(q, EntryOf(V)[s])
      /\ ExitOf(V)[s] \in W /\ \A q \in W : ~Before(ExitOf(V)[s], q)
  BY <1>2, <1>4
<1> QED
  BY <1>1, <1>3, <1>5 DEF W

LEMMA EndRows ==
  ASSUME NEW V, AreRows(V)
  PROVE  /\ EntryOf(V) \in [Sessions(V) -> V] /\ ExitOf(V) \in [Sessions(V) -> V]
         /\ Entries(V) = {EntryOf(V)[s] : s \in Sessions(V)}
         /\ Exits(V) = {ExitOf(V)[s] : s \in Sessions(V)}
<1>1. EntryOf(V) \in [Sessions(V) -> V]
  <2>1. \A s \in Sessions(V) : EntryOf(V)[s] \in V
    BY Ending
  <2>2. EntryOf(V) = [s \in Sessions(V) |-> EntryOf(V)[s]]
    BY DEF EntryOf
  <2> QED
    BY <2>1, <2>2
<1>2. ExitOf(V) \in [Sessions(V) -> V]
  <2>1. \A s \in Sessions(V) : ExitOf(V)[s] \in V
    BY Ending
  <2>2. ExitOf(V) = [s \in Sessions(V) |-> ExitOf(V)[s]]
    BY DEF ExitOf
  <2> QED
    BY <2>1, <2>2
<1>3. Entries(V) = {EntryOf(V)[s] : s \in Sessions(V)}
  <2>1. Entries(V) = UNION {First(Of(V, s)) : s \in Sessions(V)}
    BY DEF Entries, Visits
  <2>2. \A s \in Sessions(V) : First(Of(V, s)) = {EntryOf(V)[s]}
    BY Ending
  <2> QED
    BY <2>1, <2>2
<1>4. Exits(V) = {ExitOf(V)[s] : s \in Sessions(V)}
  <2>1. Exits(V) = UNION {Last(Of(V, s)) : s \in Sessions(V)}
    BY DEF Exits, Visits
  <2>2. \A s \in Sessions(V) : Last(Of(V, s)) = {ExitOf(V)[s]}
    BY Ending
  <2> QED
    BY <2>1, <2>2
<1> QED
  BY <1>1, <1>2, <1>3, <1>4

LEMMA SessionCount ==
  ASSUME NEW V, IsFiniteSet(V)
  PROVE  /\ IsFiniteSet(Sessions(V)) /\ Cardinality(Sessions(V)) \in Nat /\ Cardinality(V) \in Nat
         /\ Cardinality(Sessions(V)) <= Cardinality(V)
<1> DEFINE f == [r \in V |-> r.session]
<1>1. f \in [V -> Sessions(V)] /\ \A s \in Sessions(V) : \E r \in V : f[r] = s
  BY DEF Sessions
<1> HIDE DEF f
<1> QED
  BY <1>1, CountOnto

(* One row for each session: those with a property are as many as their    *)
(* sessions.                                                               *)
LEMMA PickCount ==
  ASSUME NEW V, IsFiniteSet(V), NEW p, \A s \in Sessions(V) : p[s].session = s,
         NEW T, T \subseteq Sessions(V),
         NEW E, \A s \in T : p[s] \in E, \A e \in E : \E s \in T : e = p[s]
  PROVE  Cardinality(E) = Cardinality(T)
<1> DEFINE f == [e \in E |-> e.session]
<1>1. \A s \in T : p[s] \in E /\ p[s].session = s
  OBVIOUS
<1>2. IsFiniteSet(T)
  BY SessionCount, CountPart
<1>3. f \in [E -> T] /\ (\A e \in E : f[e] = e.session)
  BY <1>1
<1> HIDE DEF f
<1>4. \A e, d \in E : f[e] = f[d] => e = d
  BY <1>1, <1>3
<1>5. \A s \in T : \E e \in E : f[e] = s
  BY <1>1, <1>3
<1> QED
  BY <1>2, <1>3, <1>4, <1>5, CountInto

LEMMA EntryCount ==
  ASSUME NEW V, AreRows(V), NEW u
  PROVE  EntryPage(V, u).sessions = Cardinality({s \in Sessions(V) : EntryOf(V)[s].dim["url"] = u})
<1> DEFINE T == {s \in Sessions(V) : EntryOf(V)[s].dim["url"] = u}
           p == EntryOf(V)
           E == {r \in Entries(V) : r.dim["url"] = u}
<1>1. \A s \in Sessions(V) : p[s].session = s
  BY Ending
<1>2. (\A s \in T : p[s] \in E) /\ (\A e \in E : \E s \in T : e = p[s])
  BY EndRows
<1>3. IsFiniteSet(V) /\ T \subseteq Sessions(V)
  BY DEF AreRows
<1> HIDE DEF p, T, E
<1>4. Cardinality(E) = Cardinality(T)
  BY <1>1, <1>2, <1>3, PickCount
<1> QED
  BY <1>4 DEF EntryPage, T, p, E

LEMMA ExitCount ==
  ASSUME NEW V, AreRows(V), NEW u
  PROVE  ExitPage(V, u).exits = Cardinality({s \in Sessions(V) : ExitOf(V)[s].dim["url"] = u})
<1> DEFINE T == {s \in Sessions(V) : ExitOf(V)[s].dim["url"] = u}
           p == ExitOf(V)
           E == {r \in Exits(V) : r.dim["url"] = u}
<1>1. \A s \in Sessions(V) : p[s].session = s
  BY Ending
<1>2. (\A s \in T : p[s] \in E) /\ (\A e \in E : \E s \in T : e = p[s])
  BY EndRows
<1>3. IsFiniteSet(V) /\ T \subseteq Sessions(V)
  BY DEF AreRows
<1> HIDE DEF p, T, E
<1>4. Cardinality(E) = Cardinality(T)
  BY <1>1, <1>2, <1>3, PickCount
<1> QED
  BY <1>4 DEF ExitPage, T, p, E

LEMMA VisitCount ==
  ASSUME NEW V, AreRows(V)
  PROVE  /\ IsFiniteSet(Visits(V))
         /\ \A W \in Visits(V) : W \subseteq V /\ W # {} /\ IsFiniteSet(W)
<1> DEFINE f == [s \in Sessions(V) |-> Of(V, s)]
<1>1. f \in [Sessions(V) -> Visits(V)] /\ \A W \in Visits(V) : \E s \in Sessions(V) : f[s] = W
  BY DEF Visits
<1>2. IsFiniteSet(Sessions(V)) /\ IsFiniteSet(V)
  BY SessionCount DEF AreRows
<1> HIDE DEF f
<1>3. IsFiniteSet(Visits(V))
  BY <1>1, <1>2, CountOnto
<1>4. \A W \in Visits(V) : \E s \in Sessions(V) : W = Of(V, s)
  BY DEF Visits
<1> QED
  BY <1>2, <1>3, <1>4, Ending, CountPart

(* Copies of rows change nothing that is asked of sessions. *)
LEMMA CopiesKeepVisits ==
  ASSUME NEW V, AreRows(V), NEW W, AreRows(W), V \subseteq W,
         \A c \in W : \E r \in V : c.id = r.id
  PROVE  /\ Sessions(W) = Sessions(V)
         /\ \A s \in Sessions(V) : /\ EntryOf(W)[s].dim = EntryOf(V)[s].dim
                                  /\ ExitOf(W)[s].dim = ExitOf(V)[s].dim
         /\ SummaryBounces(W) <= SummaryBounces(V)
<1>1. ASSUME NEW c \in W
      PROVE  \E r \in V : /\ c.id = r.id /\ c.ts = r.ts /\ c.session = r.session /\ c.dim = r.dim
  BY DEF AreRows
<1>2. Sessions(W) = Sessions(V)
  <2>1. ASSUME NEW c \in W PROVE \E r \in V : c.session = r.session
    BY <1>1
  <2> QED
    BY <2>1 DEF Sessions
<1>3. ASSUME NEW s \in Sessions(V)
      PROVE  EntryOf(W)[s].dim = EntryOf(V)[s].dim /\ ExitOf(W)[s].dim = ExitOf(V)[s].dim
  <2>1. Of(V, s) \subseteq Of(W, s) /\ Of(W, s) \subseteq W
    BY DEF Of
  <2>2. ASSUME NEW e \in Of(W, s), NEW d \in Of(V, s),
               \A r \in Of(V, s) : r.id = e.id /\ r.ts = e.ts => ~Before(r, d) /\ ~Before(d, r)
        PROVE  e.dim = d.dim
    <3>1. PICK r \in V : e.id = r.id /\ e.ts = r.ts /\ e.session = r.session /\ e.dim = r.dim
      BY <1>1, <2>1
    <3>2. r \in Of(V, s)
      BY <3>1 DEF Of
    <3>3. ~Before(e, d) /\ ~Before(d, e)
      BY <2>2, <3>1, <3>2 DEF Before
    <3>4. e.id = d.id
      BY <2>1, <3>3, Orders
    <3> QED
      BY <2>1, <3>4 DEF AreRows
  <2>3. /\ EntryOf(V)[s] \in Of(V, s) /\ \A q \in Of(V, s) : ~Before(q, EntryOf(V)[s])
        /\ ExitOf(V)[s] \in Of(V, s) /\ \A q \in Of(V, s) : ~Before(ExitOf(V)[s], q)
    BY Ending
  <2>4. /\ EntryOf(W)[s] \in Of(W, s) /\ \A q \in Of(W, s) : ~Before(q, EntryOf(W)[s])
        /\ ExitOf(W)[s] \in Of(W, s) /\ \A q \in Of(W, s) : ~Before(ExitOf(W)[s], q)
    BY <1>2, Ending
  <2>5. EntryOf(W)[s].dim = EntryOf(V)[s].dim
    <3> DEFINE e == EntryOf(W)[s]
               d == EntryOf(V)[s]
    <3> HIDE DEF e, d
    <3>1. ASSUME NEW r \in Of(V, s), r.id = e.id, r.ts = e.ts PROVE ~Before(r, d) /\ ~Before(d, r)
      BY <2>1, <2>3, <2>4, <3>1 DEF Before, e, d
    <3>2. e.dim = d.dim
      BY <2>2, <2>3, <2>4, <3>1 DEF e, d
    <3> QED
      BY <3>2 DEF e, d
  <2>6. ExitOf(W)[s].dim = ExitOf(V)[s].dim
    <3> DEFINE e == ExitOf(W)[s]
               d == ExitOf(V)[s]
    <3> HIDE DEF e, d
    <3>1. ASSUME NEW r \in Of(V, s), r.id = e.id, r.ts = e.ts PROVE ~Before(r, d) /\ ~Before(d, r)
      BY <2>1, <2>3, <2>4, <3>1 DEF Before, e, d
    <3>2. e.dim = d.dim
      BY <2>2, <2>3, <2>4, <3>1 DEF e, d
    <3> QED
      BY <3>2 DEF e, d
  <2> QED
    BY <2>5, <2>6
<1>4. {X \in Visits(W) : Cardinality(X) = 1} \subseteq {X \in Visits(V) : Cardinality(X) = 1}
  <2> SUFFICES ASSUME NEW s \in Sessions(W), Cardinality(Of(W, s)) = 1
               PROVE  Of(W, s) = Of(V, s)
    BY <1>2 DEF Visits
  <2>1. IsFiniteSet(Of(W, s)) /\ Of(V, s) # {} /\ Of(V, s) \subseteq Of(W, s)
    <3>1. Of(W, s) \subseteq W /\ Of(V, s) \subseteq Of(W, s)
      BY DEF Of
    <3>2. IsFiniteSet(W) /\ IsFiniteSet(Of(W, s))
      BY <3>1, CountPart DEF AreRows
    <3>3. s \in Sessions(V)
      BY <1>2
    <3> QED
      BY <3>1, <3>2, <3>3, Ending
  <2>2. PICK x : Of(W, s) = {x}
    BY <2>1, FS_Singleton
  <2> QED
    BY <2>1, <2>2
<1>5. SummaryBounces(W) <= SummaryBounces(V)
  <2> DEFINE S == {X \in Visits(V) : Cardinality(X) = 1}
             T == {X \in Visits(W) : Cardinality(X) = 1}
  <2>1. IsFiniteSet(S)
    BY VisitCount, CountPart
  <2>2. T \subseteq S
    BY <1>4
  <2> HIDE DEF S, T
  <2>3. Cardinality(T) <= Cardinality(S)
    BY <2>1, <2>2, CountPart
  <2> QED
    BY <2>3 DEF SummaryBounces, S, T
<1> QED
  BY <1>2, <1>3, <1>5

LEMMA ReplayCopies ==
  ASSUME RowsFine, RowsFine', NEW r \in rows, Replay(r)
  PROVE  /\ rows \subseteq rows'
         /\ \A c \in rows' : \E q \in rows :
               c.id = q.id /\ c.ts = q.ts /\ c.session = q.session /\ c.kind = q.kind /\ c.dim = q.dim
<1> DEFINE c == [r EXCEPT !.copy = @ + 1]
<1>1. /\ c.id = r.id /\ c.ts = r.ts /\ c.session = r.session
      /\ c.kind = r.kind /\ c.dim = r.dim
  BY CopyTyped DEF RowsFine, AreRows
<1>2. rows' = rows \cup {c}
  BY DEF Replay
<1> HIDE DEF c
<1> QED
  BY <1>1, <1>2

LEMMA ReplayIsQuiet ==
  ASSUME RowsFine, RowsFine', NEW r \in rows, Replay(r), NEW range, NEW names
  PROVE  /\ Sessions(Pageviews(range))' = Sessions(Pageviews(range))
         /\ \A url : /\ EntryPage(Pageviews(range), url).sessions' = EntryPage(Pageviews(range), url).sessions
                     /\ ExitPage(Pageviews(range), url).exits' = ExitPage(Pageviews(range), url).exits
         /\ SummaryBounces(Pageviews(range))' <= SummaryBounces(Pageviews(range))
         /\ query_funnel(range, names)' = query_funnel(range, names)
<1> DEFINE V == Pageviews(range)
           W == Pageviews(range)'
           E == Events(range, "pageview") \cup Events(range, "custom")
<1>1. V \subseteq rows /\ W \subseteq rows' /\ V \subseteq W /\ \A c \in W : \E q \in V : c.id = q.id
  BY ReplayCopies DEF Pageviews, Events
<1>2. AreRows(V) /\ AreRows(W)
  BY <1>1, PartFine DEF RowsFine
<1>3. Sessions(Pageviews(range))' = Sessions(W) /\ SummaryBounces(Pageviews(range))' = SummaryBounces(W)
  BY DEF Sessions, SummaryBounces, Visits, Of
<1>4. ASSUME NEW url
      PROVE  /\ EntryPage(Pageviews(range), url)' = EntryPage(W, url)
             /\ ExitPage(Pageviews(range), url)' = ExitPage(W, url)
  BY DEF EntryPage, ExitPage, Entries, Exits, EntryVisits, Visits, Sessions, Of, First, Last, Before
<1>5. query_funnel(range, names)' = query_funnel(range, names)
  <2>1. ASSUME NEW n
        PROVE  Sessions({q \in E : q.dim["name"] = n})' = Sessions({q \in E : q.dim["name"] = n})
    BY ReplayCopies DEF Sessions, Events
  <2> QED
    BY <2>1 DEF query_funnel
<1> HIDE DEF V, W
<1>6. /\ Sessions(W) = Sessions(V) /\ SummaryBounces(W) <= SummaryBounces(V)
      /\ \A s \in Sessions(V) : /\ EntryOf(W)[s].dim = EntryOf(V)[s].dim
                               /\ ExitOf(W)[s].dim = ExitOf(V)[s].dim
  BY <1>1, <1>2, CopiesKeepVisits
<1>7. ASSUME NEW url
      PROVE  /\ EntryPage(W, url).sessions = EntryPage(V, url).sessions
             /\ ExitPage(W, url).exits = ExitPage(V, url).exits
  <2>1. {s \in Sessions(W) : EntryOf(W)[s].dim["url"] = url} = {s \in Sessions(V) : EntryOf(V)[s].dim["url"] = url}
    BY <1>6
  <2>2. {s \in Sessions(W) : ExitOf(W)[s].dim["url"] = url} = {s \in Sessions(V) : ExitOf(V)[s].dim["url"] = url}
    BY <1>6
  <2>3. /\ EntryPage(W, url).sessions = Cardinality({s \in Sessions(W) : EntryOf(W)[s].dim["url"] = url})
        /\ ExitPage(W, url).exits = Cardinality({s \in Sessions(W) : ExitOf(W)[s].dim["url"] = url})
    BY <1>2, EntryCount, ExitCount
  <2>4. /\ EntryPage(V, url).sessions = Cardinality({s \in Sessions(V) : EntryOf(V)[s].dim["url"] = url})
        /\ ExitPage(V, url).exits = Cardinality({s \in Sessions(V) : ExitOf(V)[s].dim["url"] = url})
    BY <1>2, EntryCount, ExitCount
  <2> QED
    BY <2>1, <2>2, <2>3, <2>4
<1> QED
  BY <1>3, <1>4, <1>5, <1>6, <1>7 DEF V

THEOREM ReplayKeeps == ReportSpec => ReplayKeepsSessions
<1> DEFINE names == <<"pageview", "signup">>
<1>1. ReportInit => RowsFine
  BY RowsFineInit
<1>2. RowsFine /\ [ReportNext]_reportVars => RowsFine'
  BY RowsFineStep
<1>3. ASSUME RowsFine, RowsFine', NEW r \in rows, Replay(r), NEW range \in TimeRange
      PROVE  LET V == Pageviews(range)
                 Names == <<"pageview", "signup">>
             IN  /\ Sessions(V)' = Sessions(V)
                 /\ \A url \in Url :
                       /\ EntryPage(V, url).sessions' = EntryPage(V, url).sessions
                       /\ ExitPage(V, url).exits' = ExitPage(V, url).exits
                 /\ SummaryBounces(V)' <= SummaryBounces(V)
                 /\ query_funnel(range, Names)' = query_funnel(range, Names)
  BY <1>3, ReplayIsQuiet
<1>4. RowsFine /\ RowsFine' =>
        \A r \in rows : Replay(r) =>
          \A range \in TimeRange :
              LET V == Pageviews(range)
                  Names == <<"pageview", "signup">>
              IN  /\ Sessions(V)' = Sessions(V)
                  /\ \A url \in Url :
                        /\ EntryPage(V, url).sessions' = EntryPage(V, url).sessions
                        /\ ExitPage(V, url).exits' = ExitPage(V, url).exits
                  /\ SummaryBounces(V)' <= SummaryBounces(V)
                  /\ query_funnel(range, Names)' = query_funnel(range, Names)
  BY <1>3
<1> QED
  BY <1>1, <1>2, <1>4, PTL DEF ReportSpec, ReplayKeepsSessions

-----------------------------------------------------------------------------
(* What a step does to a request: rows change while none or half of one is *)
(* answered, and the history variables say in which direction.             *)
LEMMA StepKinds ==
  ASSUME [ReportNext]_reportVars
  PROVE  \/ /\ UNCHANGED report
            /\ HalfDone /\ ~grown' => ~grown /\ rows' \subseteq rows
            /\ HalfDone /\ ~pruned' => ~pruned /\ rows \subseteq rows'
            /\ report = NoReport \/ HalfDone \/ UNCHANGED <<rows, grown, pruned>>
         \/ \E range : StartReport(range)
         \/ FinishReport
         \/ \E ask \in ListRequest : \E range : StartList(ask, range)
         \/ FinishList
         \/ Answer
<1>1. ASSUME NEW b \in Beacon, NEW t \in Time, Flush(b, t)
      PROVE  /\ UNCHANGED report /\ (report = NoReport \/ HalfDone)
             /\ HalfDone => grown'
             /\ HalfDone /\ ~pruned' => ~pruned
             /\ rows \subseteq rows'
  BY <1>1 DEF Flush, RowsChange
<1>2. ASSUME NEW r \in rows, Replay(r)
      PROVE  /\ UNCHANGED report /\ (report = NoReport \/ HalfDone)
             /\ HalfDone => grown'
             /\ HalfDone /\ ~pruned' => ~pruned
             /\ rows \subseteq rows'
  BY <1>2 DEF Replay, RowsChange
<1>3. ASSUME NEW since, Prune(since)
      PROVE  /\ UNCHANGED report /\ (report = NoReport \/ HalfDone)
             /\ HalfDone /\ ~grown' => ~grown
             /\ HalfDone /\ ~pruned' => ~pruned /\ rows' = rows
             /\ rows' \subseteq rows
  BY <1>3 DEF Prune, RowsChange
<1>4. CASE UNCHANGED reportVars
  BY <1>4 DEF reportVars
<1> QED
  BY <1>1, <1>2, <1>3, <1>4 DEF ReportNext

LEMMA PageviewsMove ==
  ASSUME NEW range
  PROVE  /\ rows \subseteq rows' => Pageviews(range) \subseteq Pageviews(range)'
         /\ rows' \subseteq rows => Pageviews(range)' \subseteq Pageviews(range)
  BY DEF Pageviews, Events

LEMMA SessionsGrow ==
  ASSUME NEW V, NEW W, V \subseteq W, IsFiniteSet(W)
  PROVE  /\ Sessions(V) \subseteq Sessions(W) /\ Cardinality(Sessions(V)) <= Cardinality(Sessions(W))
         /\ Cardinality(V) <= Cardinality(W)
         /\ V # {} => Cardinality(Sessions(V)) > 0
<1>1. Sessions(V) \subseteq Sessions(W) /\ (V # {} => Sessions(V) # {})
  BY DEF Sessions
<1>2. IsFiniteSet(V) /\ IsFiniteSet(Sessions(W)) /\ IsFiniteSet(Sessions(V))
  BY CountPart, SessionCount
<1>3. Cardinality(Sessions(V)) \in Nat /\ (Sessions(V) # {} => Cardinality(Sessions(V)) # 0)
  BY <1>2, FS_CardinalityType, FS_EmptySet
<1> QED
  BY <1>1, <1>2, <1>3, CountPart

(* The buckets hold every session at least once, and none holds more.      *)
LEMMA BucketSums ==
  ASSUME NEW V, IsFiniteSet(V)
  PROVE  /\ Total(Buckets(V)) \in Nat /\ Cardinality(Sessions(V)) <= Total(Buckets(V))
         /\ \A d \in DOMAIN Buckets(V) :
               Buckets(V)[d] \in Nat /\ Buckets(V)[d] <= Cardinality(Sessions(V))
         /\ V = {} => DOMAIN Buckets(V) = {}
<1> DEFINE D == {DayOf(r.ts) : r \in V}
           On(d) == {r \in V : DayOf(r.ts) = d}
           P == {<<r.session, DayOf(r.ts)>> : r \in V}
           key == [p \in P |-> p[2]]
           B == Buckets(V)
<1>1. DOMAIN B = D /\ \A d \in D : B[d] = Cardinality(Sessions(On(d)))
  BY DEF Buckets
<1>2. IsFiniteSet(P)
  <2> DEFINE g == [r \in V |-> <<r.session, DayOf(r.ts)>>]
  <2>1. g \in [V -> P] /\ \A p \in P : \E r \in V : g[r] = p
    OBVIOUS
  <2> HIDE DEF g, P
  <2> QED
    BY <2>1, CountOnto
<1>3. \A p \in P : \E r \in V : p = <<r.session, DayOf(r.ts)>>
  OBVIOUS
<1>4. \A r \in V : <<r.session, DayOf(r.ts)>> \in P /\ DayOf(r.ts) \in D
  OBVIOUS
<1>5. ASSUME NEW d \in D PROVE B[d] = Cardinality({p \in P : key[p] = d})
  <2> DEFINE F == {p \in P : key[p] = d}
             S == Sessions(On(d))
             h == [s \in S |-> <<s, d>>]
  <2>1. \A s : s \in S <=> \E r \in V : DayOf(r.ts) = d /\ r.session = s
    BY DEF Sessions
  <2>2. \A p : p \in F <=> p \in P /\ p[2] = d
    OBVIOUS
  <2> HIDE DEF F, S
  <2>3. ASSUME NEW s \in S PROVE <<s, d>> \in F
    BY <1>4, <2>1, <2>2
  <2>4. ASSUME NEW p \in F PROVE \E s \in S : p = <<s, d>>
    BY <1>3, <2>1, <2>2
  <2>5. h \in [S -> F] /\ (\A s, t \in S : h[s] = h[t] => s = t) /\ \A p \in F : \E s \in S : h[s] = p
    BY <2>3, <2>4
  <2>6. IsFiniteSet(F)
    BY <1>2, <2>2, CountPart, F \subseteq P
  <2> HIDE DEF h
  <2>7. Cardinality(S) = Cardinality(F)
    BY <2>5, <2>6, CountInto
  <2> QED
    BY <1>1, <2>7 DEF S, F
<1>6. key \in [P -> D]
  <2> HIDE DEF P, D
  <2>1. \A p \in P : p[2] \in D
    BY <1>3, <1>4
  <2> QED
    BY <2>1
<1>7. IsFiniteSet(Sessions(V)) /\ Cardinality(Sessions(V)) <= Cardinality(P)
  <2> DEFINE g == [p \in P |-> p[1]]
             S == Sessions(V)
  <2>0. \A s : s \in S <=> \E r \in V : r.session = s
    BY DEF Sessions
  <2> HIDE DEF S
  <2>1. g \in [P -> S] /\ \A s \in S : \E p \in P : g[p] = s
    <3>1. \A p \in P : p[1] \in S
      BY <1>3, <2>0
    <3>2. \A s \in S : \E p \in P : p[1] = s
      BY <1>4, <2>0
    <3> HIDE DEF P
    <3> QED
      BY <3>1, <3>2
  <2> HIDE DEF g, P
  <2>2. IsFiniteSet(S) /\ Cardinality(S) <= Cardinality(P)
    BY <1>2, <2>1, CountOnto
  <2> QED
    BY <2>2 DEF S
<1>8. ASSUME NEW d \in D PROVE B[d] \in Nat /\ B[d] <= Cardinality(Sessions(V))
  <2>1. On(d) \subseteq V
    OBVIOUS
  <2> HIDE DEF On
  <2>2. Cardinality(Sessions(On(d))) <= Cardinality(Sessions(V)) /\ IsFiniteSet(On(d))
    BY <2>1, SessionsGrow, CountPart
  <2>3. Cardinality(Sessions(On(d))) \in Nat
    BY <2>2, SessionCount
  <2> QED
    BY <1>1, <2>2, <2>3
<1>9. V = {} => D = {}
  OBVIOUS
<1> HIDE DEF D, P, key, B
<1>10. Total(B) = Cardinality(P) /\ Total(B) \in Nat
  BY <1>1, <1>2, <1>5, <1>6, Partition
<1> QED
  BY <1>1, <1>7, <1>8, <1>9, <1>10 DEF B

(* What is known of a request between its two reads: as long as no days    *)
(* were pruned the table holds the rows that were counted, and as long as  *)
(* nothing was added it holds no others.                                   *)
SummaryFine ==
    report.at = "summary" =>
        LET S == Sessions(Pageviews(report.range))
        IN  /\ report = [at |-> "summary", range |-> report.range, pageviews |-> report.pageviews,
                         buckets |-> report.buckets, sessions |-> 0, bounces |-> 0]
            /\ report.pageviews \in Nat /\ Total(report.buckets) \in Nat
            /\ \A d \in DOMAIN report.buckets : report.buckets[d] \in Nat
            /\ report.pageviews = 0 => DOMAIN report.buckets = {}
            /\ ~pruned =>
                  /\ report.pageviews > 0 => Cardinality(S) > 0
                  /\ \A d \in DOMAIN report.buckets : report.buckets[d] <= Cardinality(S)
            /\ ~grown => Cardinality(S) <= Total(report.buckets) /\ Cardinality(S) <= report.pageviews
TrendsFine ==
    report.at = "trends" =>
        report = [at |-> "trends", ask |-> report.ask, range |-> report.range,
                  list |-> report.list, charts |-> {}]
TilesInv == SummaryFine /\ TrendsFine /\ TilesAgree

LEMMA TableFinite ==
  ASSUME RowsFine, NEW range
  PROVE  /\ IsFiniteSet(rows) /\ IsFiniteSet(Pageviews(range))
         /\ Cardinality(Sessions(Pageviews(range))) \in Nat
         /\ Cardinality(Sessions(Pageviews(range))) <= Cardinality(Pageviews(range))
<1>1. IsFiniteSet(rows) /\ Pageviews(range) \subseteq rows
  BY DEF RowsFine, AreRows, Pageviews, Events
<1> QED
  BY <1>1, CountPart, SessionCount

LEMMA SessionsMove ==
  ASSUME RowsFine, RowsFine', NEW range
  PROVE  /\ Cardinality(Sessions(Pageviews(range)))' \in Nat /\ Cardinality(Sessions(Pageviews(range))) \in Nat
         /\ rows \subseteq rows' =>
              Cardinality(Sessions(Pageviews(range))) <= Cardinality(Sessions(Pageviews(range)))'
         /\ rows' \subseteq rows =>
              Cardinality(Sessions(Pageviews(range)))' <= Cardinality(Sessions(Pageviews(range)))
<1> DEFINE V == Pageviews(range)
           W == Pageviews(range)'
<1>1. V \subseteq rows /\ W \subseteq rows' /\ IsFiniteSet(rows) /\ IsFiniteSet(rows')
  BY DEF RowsFine, AreRows, Pageviews, Events
<1>2. IsFiniteSet(V) /\ IsFiniteSet(W)
  BY <1>1, CountPart
<1>3. Cardinality(Sessions(Pageviews(range)))' = Cardinality(Sessions(W))
  BY DEF Sessions
<1>4. /\ rows \subseteq rows' => V \subseteq W
      /\ rows' \subseteq rows => W \subseteq V
  BY PageviewsMove
<1> HIDE DEF V, W
<1>5. /\ Cardinality(Sessions(V)) \in Nat /\ Cardinality(Sessions(W)) \in Nat
      /\ V \subseteq W => Cardinality(Sessions(V)) <= Cardinality(Sessions(W))
      /\ W \subseteq V => Cardinality(Sessions(W)) <= Cardinality(Sessions(V))
  BY <1>2, SessionCount, SessionsGrow
<1> QED
  BY <1>3, <1>4, <1>5 DEF V

LEMMA TilesInit == ReportInit => TilesInv
  BY DEF ReportInit, NoReport, TilesInv, SummaryFine, TrendsFine, TilesAgree

LEMMA TilesStep == RowsFine /\ RowsFine' /\ TilesInv /\ [ReportNext]_reportVars => TilesInv'
<1> SUFFICES ASSUME RowsFine, RowsFine', TilesInv, [ReportNext]_reportVars
             PROVE  TilesInv'
  OBVIOUS
<1>1. ASSUME UNCHANGED report,
             HalfDone /\ ~grown' => ~grown /\ rows' \subseteq rows,
             HalfDone /\ ~pruned' => ~pruned /\ rows \subseteq rows',
             report = NoReport \/ HalfDone \/ UNCHANGED <<rows, grown, pruned>>
      PROVE  TilesInv'
  <2>1. CASE report = NoReport
    BY <1>1, <2>1 DEF NoReport, TilesInv, SummaryFine, TrendsFine, TilesAgree
  <2>2. CASE UNCHANGED <<rows, grown, pruned>>
    <3>1. Pageviews(report.range)' = Pageviews(report.range)
      BY <1>1, <2>2 DEF Pageviews, Events
    <3> QED
      BY <1>1, <2>2, <3>1 DEF TilesInv, SummaryFine, TrendsFine, TilesAgree, Sessions
  <2>3. CASE report.at = "summary"
    <3>1. PICK c : c = report.range
      OBVIOUS
    <3> DEFINE n == Cardinality(Sessions(Pageviews(report.range)))
               n1 == Cardinality(Sessions(Pageviews(report.range)))'
    <3>2. /\ n \in Nat /\ n1 \in Nat
          /\ ~grown' => ~grown /\ n1 <= n
          /\ ~pruned' => ~pruned /\ n <= n1
      <4>1. /\ Cardinality(Sessions(Pageviews(c)))' \in Nat /\ Cardinality(Sessions(Pageviews(c))) \in Nat
            /\ rows \subseteq rows' =>
                 Cardinality(Sessions(Pageviews(c))) <= Cardinality(Sessions(Pageviews(c)))'
            /\ rows' \subseteq rows =>
                 Cardinality(Sessions(Pageviews(c)))' <= Cardinality(Sessions(Pageviews(c)))
        BY SessionsMove
      <4>2. n = Cardinality(Sessions(Pageviews(c))) /\ n1 = Cardinality(Sessions(Pageviews(c)))'
        BY <1>1, <3>1
      <4> HIDE DEF n, n1
      <4> QED
        BY <1>1, <2>3, <4>1, <4>2 DEF HalfDone
    <3>3. /\ report = [at |-> "summary", range |-> report.range, pageviews |-> report.pageviews,
                       buckets |-> report.buckets, sessions |-> 0, bounces |-> 0]
          /\ report.pageviews \in Nat /\ Total(report.buckets) \in Nat
          /\ \A d \in DOMAIN report.buckets : report.buckets[d] \in Nat
          /\ report.pageviews = 0 => DOMAIN report.buckets = {}
          /\ ~pruned =>
                /\ report.pageviews > 0 => n > 0
                /\ \A d \in DOMAIN report.buckets : report.buckets[d] <= n
          /\ ~grown => n <= Total(report.buckets) /\ n <= report.pageviews
      BY <2>3 DEF TilesInv, SummaryFine
    <3> HIDE DEF n, n1
    <3>4. /\ report'.pageviews \in Nat /\ Total(report.buckets)' \in Nat
          /\ \A d \in DOMAIN report'.buckets : report'.buckets[d] \in Nat
          /\ report'.pageviews = 0 => DOMAIN report'.buckets = {}
          /\ ~pruned' =>
                /\ report'.pageviews > 0 => n1 > 0
                /\ \A d \in DOMAIN report'.buckets : report'.buckets[d] <= n1
          /\ ~grown' => n1 <= Total(report.buckets)' /\ n1 <= report'.pageviews
      <4>1. Total(report.buckets)' = Total(report.buckets)
        BY <1>1 DEF Total
      <4> DEFINE b == report.buckets
                 p == report.pageviews
                 t == Total(report.buckets)
      <4>2. /\ p \in Nat /\ t \in Nat /\ (\A d \in DOMAIN b : b[d] \in Nat)
            /\ p = 0 => DOMAIN b = {}
            /\ ~pruned => (p > 0 => n > 0) /\ \A d \in DOMAIN b : b[d] <= n
            /\ ~grown => n <= t /\ n <= p
        BY <3>3
      <4> HIDE DEF b, p, t
      <4>3. /\ ~pruned' => (p > 0 => n1 > 0) /\ \A d \in DOMAIN b : b[d] <= n1
            /\ ~grown' => n1 <= t /\ n1 <= p
        BY <3>2, <4>2
      <4> QED
        BY <1>1, <4>1, <4>2, <4>3 DEF b, p, t
    <3>5. SummaryFine'
      BY <1>1, <3>3, <3>4 DEF SummaryFine, n1
    <3> QED
      BY <1>1, <2>3, <3>5 DEF TilesInv, TrendsFine, TilesAgree
  <2>4. CASE report.at = "trends"
    BY <1>1, <2>4 DEF TilesInv, SummaryFine, TrendsFine, TilesAgree
  <2> QED
    BY <1>1, <2>1, <2>2, <2>3, <2>4 DEF HalfDone
<1>2. ASSUME NEW range, StartReport(range) PROVE TilesInv'
  <2> DEFINE V == Pageviews(range)
             n == Cardinality(V)
             B == Buckets(V)
  <2>1. /\ report' = [at |-> "summary", range |-> range, pageviews |-> n, buckets |-> B,
                      sessions |-> 0, bounces |-> 0]
        /\ UNCHANGED <<rows, grown, pruned>>
    BY <1>2 DEF StartReport
  <2>2. Pageviews(range)' = V
    BY <2>1 DEF Pageviews, Events
  <2>3. Pageviews(report.range)' = V
    BY <2>1, <2>2
  <2>4. IsFiniteSet(V)
    BY TableFinite
  <2> HIDE DEF V
  <2>5. /\ Total(B) \in Nat /\ Cardinality(Sessions(V)) <= Total(B)
        /\ \A d \in DOMAIN B : B[d] \in Nat /\ B[d] <= Cardinality(Sessions(V))
        /\ V = {} => DOMAIN B = {}
    BY <2>4, BucketSums
  <2>6. n \in Nat /\ (n = 0 => V = {}) /\ (n > 0 => V # {})
        /\ Cardinality(Sessions(V)) <= n
    BY <2>4, FS_CardinalityType, FS_EmptySet, SessionCount
  <2>7. V # {} => Cardinality(Sessions(V)) > 0
    BY <2>4, SessionsGrow
  <2> HIDE DEF n, B
  <2>8. /\ report'.at = "summary" /\ report'.range = range /\ report'.pageviews = n /\ report'.buckets = B
        /\ report' = [at |-> "summary", range |-> report'.range, pageviews |-> report'.pageviews,
                      buckets |-> report'.buckets, sessions |-> 0, bounces |-> 0]
    BY <2>1
  <2>9. Total(report.buckets)' = Total(B)
    BY <2>8 DEF Total
  <2>10. Cardinality(Sessions(Pageviews(report.range)))' = Cardinality(Sessions(V))
    BY <2>3 DEF Sessions
  <2>11. SummaryFine'
    BY <2>5, <2>6, <2>7, <2>8, <2>9, <2>10 DEF SummaryFine
  <2> QED
    BY <2>8, <2>11 DEF TilesInv, TrendsFine, TilesAgree
<1>3. CASE FinishReport
  <2> DEFINE V == Pageviews(report.range)
             n == Cardinality(Sessions(V))
             k == IF report.pageviews = 0 THEN 0 ELSE n
  <2>1. /\ report.at = "summary" /\ UNCHANGED <<rows, grown, pruned>>
        /\ report' = [report EXCEPT !.at = "done", !.sessions = k,
                        !.bounces = IF report.pageviews = 0 THEN 0 ELSE SummaryBounces(V)]
    BY <1>3 DEF FinishReport, Summary, Summarised
  <2>2. /\ report = [at |-> "summary", range |-> report.range, pageviews |-> report.pageviews,
                     buckets |-> report.buckets, sessions |-> 0, bounces |-> 0]
        /\ report.pageviews \in Nat /\ Total(report.buckets) \in Nat
        /\ \A d \in DOMAIN report.buckets : report.buckets[d] \in Nat
        /\ report.pageviews = 0 => DOMAIN report.buckets = {}
        /\ ~pruned =>
              /\ report.pageviews > 0 => n > 0
              /\ \A d \in DOMAIN report.buckets : report.buckets[d] <= n
        /\ ~grown => n <= Total(report.buckets) /\ n <= report.pageviews
    BY <2>1 DEF TilesInv, SummaryFine
  <2>3. n \in Nat
    BY TableFinite
  <2> HIDE DEF n
  <2>4. /\ ~pruned => /\ report.pageviews > 0 => k > 0
                     /\ \A d \in DOMAIN report.buckets : report.buckets[d] <= k
        /\ ~grown => k <= Total(report.buckets) /\ k <= report.pageviews
    BY <2>2, <2>3
  <2> HIDE DEF k, V
  <2>5. /\ report'.at = "done" /\ report'.sessions = k
        /\ report'.pageviews = report.pageviews /\ report'.buckets = report.buckets
    BY <2>1, <2>2
  <2>6. Total(report.buckets)' = Total(report.buckets)
    BY <2>5 DEF Total
  <2>7. TilesAgree'
    BY <2>1, <2>4, <2>5, <2>6 DEF TilesAgree
  <2> QED
    BY <2>5, <2>7 DEF TilesInv, SummaryFine, TrendsFine
<1>4. ASSUME NEW ask \in ListRequest, NEW range, StartList(ask, range) PROVE TilesInv'
  BY <1>4 DEF StartList, TilesInv, SummaryFine, TrendsFine, TilesAgree
<1>5. CASE FinishList
  <2>1. report.at = "trends" /\ report'.at \in {"listed", "failed"}
    BY <1>5 DEF FinishList, TilesInv, TrendsFine
  <2> QED
    BY <2>1 DEF TilesInv, SummaryFine, TrendsFine, TilesAgree
<1>6. CASE Answer
  BY <1>6 DEF Answer, NoReport, TilesInv, SummaryFine, TrendsFine, TilesAgree
<1> QED
  BY <1>1, <1>2, <1>3, <1>4, <1>5, <1>6, StepKinds

THEOREM TilesHold == ReportSpec => []TilesAgree
<1>1. ReportInit => RowsFine /\ TilesInv
  BY RowsFineInit, TilesInit
<1>2. RowsFine /\ TilesInv /\ [ReportNext]_reportVars => RowsFine' /\ TilesInv'
  BY RowsFineStep, TilesStep
<1>3. TilesInv => TilesAgree
  BY DEF TilesInv
<1> QED
  BY <1>1, <1>2, <1>3, PTL DEF ReportSpec

-----------------------------------------------------------------------------
(* Top lists: the days of a trend add up to the count of its value, and of *)
(* two lists of the same groups, one that only the first holds ties with   *)
(* one that only the second holds.                                         *)
LEMMA PointSum ==
  ASSUME NEW V, IsFiniteSet(V), NEW field, NEW value
  PROVE  /\ Total(Points(V, field, value)) = Count(V, field, value)
         /\ Count(V, field, value) \in Nat
<1> DEFINE W == {r \in V : r.dim[field] = value}
           D == {DayOf(r.ts) : r \in V}
           f == Points(V, field, value)
           key == [r \in W |-> DayOf(r.ts)]
<1>1. DOMAIN f = D /\ \A d \in D : f[d] = Cardinality({r \in V : r.dim[field] = value /\ DayOf(r.ts) = d})
  BY DEF Points
<1>2. key \in [W -> D]
  OBVIOUS
<1>3. ASSUME NEW d \in D PROVE f[d] = Cardinality({r \in W : key[r] = d})
  <2>1. {r \in W : key[r] = d} = {r \in V : r.dim[field] = value /\ DayOf(r.ts) = d}
    OBVIOUS
  <2> QED
    BY <1>1, <2>1
<1>4. IsFiniteSet(W)
  BY CountPart
<1> HIDE DEF W, D, f, key
<1>5. Total(f) = Cardinality(W) /\ Total(f) \in Nat
  BY <1>1, <1>2, <1>3, <1>4, Partition
<1> QED
  BY <1>5 DEF W, f, Count

LEMMA CountGrows ==
  ASSUME NEW V, NEW W, V \subseteq W, IsFiniteSet(W), NEW field, NEW value
  PROVE  Count(V, field, value) <= Count(W, field, value)
<1>1. {r \in V : r.dim[field] = value} \subseteq {r \in W : r.dim[field] = value}
  OBVIOUS
<1>2. IsFiniteSet({r \in W : r.dim[field] = value})
  BY CountPart
<1> QED
  BY <1>1, <1>2, CountPart DEF Count

LEMMA TiedForTheLast ==
  ASSUME NEW S, IsFiniteSet(S), NEW rank \in [S -> Nat], NEW limit,
         NEW T \in Foremost(S, limit, rank), NEW U \in Foremost(S, limit, rank), NEW v \in T
  PROVE  \E w \in U : v = w \/ rank[w] = rank[v]
<1>1. /\ T \subseteq S /\ U \subseteq S /\ Cardinality(T) = Cardinality(U)
      /\ \A a \in T, b \in S \ T : rank[a] >= rank[b]
      /\ \A a \in U, b \in S \ U : rank[a] >= rank[b]
  BY DEF Foremost
<1>2. CASE v \in U
  BY <1>2
<1>3. CASE v \notin U
  <2>1. IsFiniteSet(T) /\ IsFiniteSet(U)
    BY <1>1, CountPart
  <2>2. ~(U \subseteq T)
    BY <1>1, <1>3, <2>1, CountPart
  <2>3. PICK w \in U : w \notin T
    BY <2>2
  <2>4. rank[v] \in Nat /\ rank[w] \in Nat
    BY <1>1
  <2>5. rank[v] >= rank[w] /\ rank[w] >= rank[v]
    BY <1>1, <1>3, <2>3
  <2> QED
    BY <2>4, <2>5
<1> QED
  BY <1>2, <1>3

LEMMA GroupsFinite ==
  ASSUME NEW V, IsFiniteSet(V), NEW field
  PROVE  IsFiniteSet({r.dim[field] : r \in V})
<1> DEFINE S == {r.dim[field] : r \in V}
           f == [r \in V |-> r.dim[field]]
<1>1. f \in [V -> S] /\ \A t \in S : \E r \in V : f[r] = t
  OBVIOUS
<1> HIDE DEF S, f
<1>2. IsFiniteSet(S)
  BY <1>1, CountOnto
<1> QED
  BY <1>2 DEF S

LEMMA ListsTie ==
  ASSUME NEW V, IsFiniteSet(V), NEW field, NEW limit,
         NEW T \in TopLists(V, field, limit), NEW U \in TopLists(V, field, limit), NEW v \in T
  PROVE  \E w \in U : v = w \/ Count(V, field, w) = Count(V, field, v)
<1> DEFINE S == {r.dim[field] : r \in V}
           rank == [x \in S |-> Count(V, field, x)]
<1>1. IsFiniteSet(S)
  BY GroupsFinite
<1>2. T \in Foremost(S, limit, rank) /\ U \in Foremost(S, limit, rank)
  BY DEF TopLists
<1>3. rank \in [S -> Nat]
  BY PointSum
<1>4. T \subseteq S /\ U \subseteq S
  BY <1>2 DEF Foremost
<1>5. \A x \in S : rank[x] = Count(V, field, x)
  OBVIOUS
<1> HIDE DEF S, rank
<1>6. PICK w \in U : v = w \/ rank[w] = rank[v]
  BY <1>1, <1>2, <1>3, TiedForTheLast
<1> QED
  BY <1>4, <1>5, <1>6

(* What is known of a list before its trends are read.                     *)
ListFine ==
    report.at = "trends" =>
        LET ask == report.ask
            V == Charted(ask, report.range)
        IN  /\ \A row \in report.list :
                  /\ row.count \in Nat
                  /\ ~grown => Count(V, ask.field, row.value) <= row.count
                  /\ ~pruned => row.count <= Count(V, ask.field, row.value)
            /\ ~grown /\ ~pruned /\ ask.name = Null =>
                  \E T \in TopLists(V, ask.field, ask.limit) :
                      report.list = {[value |-> v, count |-> Count(V, ask.field, v)] : v \in T}
ListInv == TrendsFine /\ ListFine /\ TrendsMatchRows

LEMMA ChartedMove ==
  ASSUME RowsFine, RowsFine', NEW ask, NEW range
  PROVE  /\ IsFiniteSet(Charted(ask, range)) /\ IsFiniteSet(Charted(ask, range)')
         /\ rows \subseteq rows' => Charted(ask, range) \subseteq Charted(ask, range)'
         /\ rows' \subseteq rows => Charted(ask, range)' \subseteq Charted(ask, range)
<1>1. Charted(ask, range) \subseteq rows /\ Charted(ask, range)' \subseteq rows'
  BY DEF Charted, Where, Events
<1>2. IsFiniteSet(rows) /\ IsFiniteSet(rows')
  BY DEF RowsFine, AreRows
<1> QED
  BY <1>1, <1>2, CountPart DEF Charted, Where, Events

(* The rows that are listed are those that are charted, except that a name *)
(* picks its own.                                                          *)
LEMMA CountedIsCharted ==
  ASSUME NEW ask \in ListRequest, NEW range
  PROVE  /\ ask.name = Null => Counted(ask, range) = Charted(ask, range)
         /\ \A v \in {r.dim[ask.field] : r \in Counted(ask, range)} :
               Count(Counted(ask, range), ask.field, v) = Count(Charted(ask, range), ask.field, v)
<1>1. Counted(ask, range) = {r \in Charted(ask, range) : ask.name = Null \/ r.dim["name"] = ask.name}
  BY DEF Counted, Charted
<1>2. CASE ask.name = Null
  BY <1>1, <1>2
<1>3. CASE ask.name # Null
  <2>1. ask.field = "name"
    BY <1>3, ReportsAssumption
  <2>2. ASSUME NEW v \in {r.dim[ask.field] : r \in Counted(ask, range)}
        PROVE  {r \in Counted(ask, range) : r.dim[ask.field] = v}
                 = {r \in Charted(ask, range) : r.dim[ask.field] = v}
    <3>1. v = ask.name
      BY <1>1, <1>3, <2>1
    <3> QED
      BY <1>1, <2>1, <3>1
  <2> QED
    BY <1>3, <2>2 DEF Count
<1> QED
  BY <1>2, <1>3

LEMMA ListInit == ReportInit => ListInv
  BY DEF ReportInit, NoReport, ListInv, ListFine, TrendsFine, TrendsMatchRows

LEMMA ListStep == RowsFine /\ RowsFine' /\ ListInv /\ [ReportNext]_reportVars => ListInv'
<1> SUFFICES ASSUME RowsFine, RowsFine', ListInv, [ReportNext]_reportVars
             PROVE  ListInv'
  OBVIOUS
<1>1. ASSUME UNCHANGED report,
             HalfDone /\ ~grown' => ~grown /\ rows' \subseteq rows,
             HalfDone /\ ~pruned' => ~pruned /\ rows \subseteq rows',
             report = NoReport \/ HalfDone \/ UNCHANGED <<rows, grown, pruned>>
      PROVE  ListInv'
  <2>1. CASE report.at \notin {"trends", "listed"}
    BY <1>1, <2>1 DEF ListInv, ListFine, TrendsFine, TrendsMatchRows
  <2>2. CASE report.at = "listed"
    <3>1. UNCHANGED <<rows, grown, pruned>>
      BY <1>1, <2>2 DEF NoReport, HalfDone
    <3>2. \A c \in report.charts : Total(c.points)' = Total(c.points)
      BY <1>1 DEF Total
    <3> QED
      BY <1>1, <2>2, <3>1, <3>2 DEF ListInv, ListFine, TrendsFine, TrendsMatchRows
  <2>3. CASE report.at = "trends"
    <3>1. PICK ask, range : ask = report.ask /\ range = report.range
      OBVIOUS
    <3> DEFINE V == Charted(ask, range)
               W == Charted(ask, range)'
    <3>2. /\ IsFiniteSet(V) /\ IsFiniteSet(W)
          /\ ~pruned' => ~pruned /\ V \subseteq W
          /\ ~grown' => ~grown /\ W \subseteq V
      BY <1>1, <2>3, ChartedMove DEF HalfDone
    <3>3. /\ Charted(report.ask, report.range) = V
          /\ Charted(report.ask, report.range)' = W
      BY <1>1, <3>1
    <3> HIDE DEF V, W
    <3>4. /\ \A row \in report.list :
                /\ row.count \in Nat
                /\ ~grown => Count(V, ask.field, row.value) <= row.count
                /\ ~pruned => row.count <= Count(V, ask.field, row.value)
          /\ ~grown /\ ~pruned /\ ask.name = Null =>
                \E T \in TopLists(V, ask.field, ask.limit) :
                    report.list = {[value |-> v, count |-> Count(V, ask.field, v)] : v \in T}
      BY <2>3, <3>1, <3>3 DEF ListInv, ListFine
    <3>5. ASSUME NEW row \in report.list
          PROVE  /\ row.count \in Nat
                 /\ ~grown' => Count(W, ask.field, row.value) <= row.count
                 /\ ~pruned' => row.count <= Count(W, ask.field, row.value)
      <4> DEFINE m == Count(V, ask.field, row.value)
                 n == Count(W, ask.field, row.value)
      <4>1. m \in Nat /\ n \in Nat
        BY <3>2, PointSum
      <4>2. (V \subseteq W => m <= n) /\ (W \subseteq V => n <= m)
        BY <3>2, CountGrows
      <4>3. row.count \in Nat /\ (~grown => m <= row.count) /\ (~pruned => row.count <= m)
        BY <3>4, <3>5
      <4> HIDE DEF m, n
      <4>4. /\ row.count \in Nat
            /\ ~grown' => n <= row.count
            /\ ~pruned' => row.count <= n
        BY <3>2, <4>1, <4>2, <4>3
      <4> QED
        BY <4>4 DEF n
    <3>6. ~grown' /\ ~pruned' /\ ask.name = Null =>
                \E T \in TopLists(W, ask.field, ask.limit) :
                    report.list = {[value |-> v, count |-> Count(W, ask.field, v)] : v \in T}
      <4>1. ~grown' /\ ~pruned' => W = V /\ ~grown /\ ~pruned
        BY <3>2
      <4> QED
        BY <3>4, <4>1
    <3>7. ListFine'
      BY <1>1, <3>1, <3>3, <3>5, <3>6 DEF ListFine
    <3> QED
      BY <1>1, <2>3, <3>7 DEF ListInv, TrendsFine, TrendsMatchRows
  <2> QED
    BY <2>1, <2>2, <2>3
<1>2. ASSUME NEW range, StartReport(range) PROVE ListInv'
  BY <1>2 DEF StartReport, ListInv, ListFine, TrendsFine, TrendsMatchRows
<1>3. CASE FinishReport
  <2>1. report.at = "summary" /\ report' = [report EXCEPT !.at = "done",
            !.sessions = IF report.pageviews = 0 THEN 0 ELSE Cardinality(Sessions(Pageviews(report.range))),
            !.bounces = IF report.pageviews = 0 THEN 0 ELSE SummaryBounces(Pageviews(report.range))]
    BY <1>3 DEF FinishReport, Summary, Summarised
  <2> QED
    BY <2>1 DEF ListInv, ListFine, TrendsFine, TrendsMatchRows
<1>4. ASSUME NEW ask \in ListRequest, NEW range, StartList(ask, range) PROVE ListInv'
  <2> DEFINE V == Counted(ask, range)
             U == Charted(ask, range)
             S == {r.dim[ask.field] : r \in V}
  <2>1. PICK T \in TopLists(V, ask.field, ask.limit) :
           report' = [at |-> "trends", ask |-> ask, range |-> range,
                      list |-> {[value |-> v, count |-> Count(V, ask.field, v)] : v \in T},
                      charts |-> {}]
    BY <1>4 DEF StartList
  <2>2. Charted(ask, range)' = U
    BY <1>4 DEF StartList, Charted, Where, Events
  <2>3. T \subseteq S
    BY DEF TopLists, Foremost
  <2>4. /\ ask.name = Null => V = U
        /\ \A v \in T : Count(V, ask.field, v) = Count(U, ask.field, v)
    BY <2>3, CountedIsCharted
  <2>5. IsFiniteSet(U)
    BY ChartedMove
  <2> HIDE DEF V, U, S
  <2>6. \A v \in T : Count(U, ask.field, v) \in Nat
    BY <2>5, PointSum
  <2>7. /\ report'.at = "trends" /\ report'.ask = ask /\ report'.range = range
        /\ report'.list = {[value |-> v, count |-> Count(V, ask.field, v)] : v \in T}
        /\ report'.charts = {}
        /\ report' = [at |-> "trends", ask |-> report'.ask, range |-> report'.range,
                      list |-> report'.list, charts |-> {}]
    BY <2>1
  <2>8. Charted(report.ask, report.range)' = U
    BY <2>2, <2>7
  <2>9. ASSUME NEW row \in report'.list
        PROVE  row.count \in Nat /\ row.count = Count(U, ask.field, row.value)
    BY <2>4, <2>6, <2>7
  <2>10. ASSUME NEW row \in report'.list
         PROVE  /\ row.count \in Nat
                /\ Count(U, ask.field, row.value) <= row.count
                /\ row.count <= Count(U, ask.field, row.value)
    BY <2>9
  <2>11. ask.name = Null =>
            report'.list = {[value |-> v, count |-> Count(U, ask.field, v)] : v \in T}
            /\ T \in TopLists(U, ask.field, ask.limit)
    BY <2>4, <2>7
  <2>12. ListFine'
    BY <2>7, <2>8, <2>10, <2>11 DEF ListFine
  <2> QED
    BY <2>7, <2>12 DEF ListInv, TrendsFine, TrendsMatchRows
<1>5. CASE FinishList
  <2> DEFINE ask == report.ask
             range == report.range
             V == Charted(ask, range)
  <2>2. /\ report.at = "trends" /\ UNCHANGED <<rows, grown, pruned>>
        /\ \/ \E T \in TopLists(V, ask.field, ask.limit) :
                report' = [report EXCEPT !.at = "listed",
                              !.charts = {[value |-> v, points |-> Points(V, ask.field, v)] : v \in T}]
           \/ report' = [report EXCEPT !.at = "failed"]
    BY <1>5 DEF FinishList
  <2>3. /\ report = [at |-> "trends", ask |-> ask, range |-> range, list |-> report.list, charts |-> {}]
        /\ \A row \in report.list :
              /\ row.count \in Nat
              /\ ~grown => Count(V, ask.field, row.value) <= row.count
              /\ ~pruned => row.count <= Count(V, ask.field, row.value)
        /\ ~grown /\ ~pruned /\ ask.name = Null =>
              \E T \in TopLists(V, ask.field, ask.limit) :
                  report.list = {[value |-> v, count |-> Count(V, ask.field, v)] : v \in T}
    BY <2>2 DEF ListInv, ListFine, TrendsFine
  <2>4. IsFiniteSet(V)
    <3>1. V \subseteq rows /\ IsFiniteSet(rows)
      BY DEF Charted, Where, Events, RowsFine, AreRows
    <3> QED
      BY <3>1, CountPart
  <2> HIDE DEF V, ask, range
  <2>5. CASE report' = [report EXCEPT !.at = "failed"]
    <3>1. report'.at = "failed"
      BY <2>3, <2>5
    <3> QED
      BY <3>1 DEF ListInv, ListFine, TrendsFine, TrendsMatchRows
  <2>6. ASSUME NEW T \in TopLists(V, ask.field, ask.limit),
               report' = [report EXCEPT !.at = "listed",
                              !.charts = {[value |-> v, points |-> Points(V, ask.field, v)] : v \in T}]
        PROVE  ListInv'
    <3>1. /\ report'.at = "listed" /\ report'.ask = ask /\ report'.list = report.list
          /\ report'.charts = {[value |-> v, points |-> Points(V, ask.field, v)] : v \in T}
      BY <2>3, <2>6
    <3>2. ASSUME NEW v
          PROVE  Total(Points(V, ask.field, v)) = Count(V, ask.field, v)
                 /\ Count(V, ask.field, v) \in Nat
      BY <2>4, PointSum
    <3>3. ASSUME NEW c \in report'.charts
          PROVE  Total(c.points) = Count(V, ask.field, c.value) /\ Count(V, ask.field, c.value) \in Nat
      BY <3>1, <3>2
    <3>4. ASSUME NEW row \in report'.list, NEW c \in report'.charts, row.value = c.value
          PROVE  /\ ~grown' => Total(c.points) <= row.count
                 /\ ~pruned' => Total(c.points) >= row.count
      <4> DEFINE n == Total(c.points)
                 m == row.count
      <4>1. n = Count(V, ask.field, row.value) /\ n \in Nat
        BY <3>3, <3>4
      <4>2. m \in Nat /\ (~grown => Count(V, ask.field, row.value) <= m)
            /\ (~pruned => m <= Count(V, ask.field, row.value))
        BY <2>3, <3>1, <3>4
      <4> HIDE DEF n, m
      <4>3. (~grown => n <= m) /\ (~pruned => n >= m)
        BY <4>1, <4>2
      <4> QED
        BY <2>2, <4>3 DEF n, m
    <3>5. ASSUME ~grown', ~pruned', report'.ask.name = Null, NEW row \in report'.list
          PROVE  \E c \in report'.charts : row.value = c.value \/ row.count = Total(c.points)
      <4>1. PICK U \in TopLists(V, ask.field, ask.limit) :
               report.list = {[value |-> v, count |-> Count(V, ask.field, v)] : v \in U}
        BY <2>2, <2>3, <3>1, <3>5
      <4>2. PICK v \in U : row = [value |-> v, count |-> Count(V, ask.field, v)]
        BY <3>1, <4>1
      <4>3. PICK w \in T : v = w \/ Count(V, ask.field, w) = Count(V, ask.field, v)
        BY <2>4, ListsTie
      <4> DEFINE c == [value |-> w, points |-> Points(V, ask.field, w)]
      <4>4. c \in report'.charts /\ c.value = w /\ Total(c.points) = Count(V, ask.field, w)
        BY <3>1, <3>2
      <4>5. row.value = v /\ row.count = Count(V, ask.field, v)
        BY <4>2
      <4> HIDE DEF c
      <4> QED
        BY <4>3, <4>4, <4>5
    <3>7. TrendsMatchRows'
      BY <3>1, <3>4, <3>5 DEF TrendsMatchRows, Total
    <3> QED
      BY <3>1, <3>7 DEF ListInv, ListFine, TrendsFine
  <2> QED
    BY <2>2, <2>5, <2>6
<1>6. CASE Answer
  BY <1>6 DEF Answer, NoReport, ListInv, ListFine, TrendsFine, TrendsMatchRows
<1> QED
  BY <1>1, <1>2, <1>3, <1>4, <1>5, <1>6, StepKinds

THEOREM TrendsMatch == ReportSpec => []TrendsMatchRows
<1>1. ReportInit => RowsFine /\ ListInv
  BY RowsFineInit, ListInit
<1>2. RowsFine /\ ListInv /\ [ReportNext]_reportVars => RowsFine' /\ ListInv'
  BY RowsFineStep, ListStep
<1>3. ListInv => TrendsMatchRows
  BY DEF ListInv
<1> QED
  BY <1>1, <1>2, <1>3, PTL DEF ReportSpec

-----------------------------------------------------------------------------
(* Filters: as long as fewer are kept than may be, all well-formed ones    *)
(* are, and there is room for one more after them.                         *)
LEMMA KeptWhenFew ==
  ASSUME NEW n \in Nat, NEW F, DOMAIN F \subseteq Nat, IsFiniteSet(DOMAIN F),
         F = [i \in DOMAIN F |-> F[i]], Cardinality(DOMAIN F) <= n
  PROVE  AtMost(n, F) = F
<1>1. ASSUME NEW j \in DOMAIN F PROVE Cardinality({k \in DOMAIN F : k <= j}) <= n
  <2>1. {k \in DOMAIN F : k <= j} \subseteq DOMAIN F
    OBVIOUS
  <2>2. /\ Cardinality({k \in DOMAIN F : k <= j}) <= Cardinality(DOMAIN F)
        /\ Cardinality({k \in DOMAIN F : k <= j}) \in Nat /\ Cardinality(DOMAIN F) \in Nat
    BY <2>1, CountPart
  <2> QED
    BY <2>2
<1>2. {j \in DOMAIN F : Cardinality({k \in DOMAIN F : k <= j}) <= n} = DOMAIN F
  BY <1>1
<1> QED
  BY <1>2 DEF AtMost

LEMMA FewKeptMeansAll ==
  ASSUME NEW n \in Nat, NEW F, DOMAIN F \subseteq Nat, IsFiniteSet(DOMAIN F),
         F = [i \in DOMAIN F |-> F[i]], Cardinality(DOMAIN AtMost(n, F)) < n
  PROVE  AtMost(n, F) = F /\ Cardinality(DOMAIN F) < n
<1> DEFINE D == DOMAIN F
           To(j) == {k \in D : k <= j}
           K == {j \in D : Cardinality(To(j)) <= n}
           N == D \ K
<1>1. DOMAIN AtMost(n, F) = K
  BY DEF AtMost
<1>2. ASSUME NEW j \in N, \A i \in N : j <= i PROVE FALSE
  <2> DEFINE E == {k \in D : k < j}
  <2>1. E \subseteq K
    BY <1>2
  <2>2. To(j) = E \cup {j} /\ j \notin E /\ E \subseteq D /\ K \subseteq D
    BY <1>2
  <2>3. ~(Cardinality(To(j)) <= n)
    BY <1>2
  <2> HIDE DEF E, To, K, N
  <2>4. IsFiniteSet(E) /\ IsFiniteSet(K) /\ Cardinality(E) <= Cardinality(K)
        /\ Cardinality(E) \in Nat /\ Cardinality(K) \in Nat
    BY <2>1, <2>2, CountPart
  <2>5. Cardinality(To(j)) = Cardinality(E) + 1
    BY <2>2, <2>4, FS_AddElement
  <2> QED
    BY <1>1, <2>3, <2>4, <2>5
<1>3. N = {}
  <2>1. N \in SUBSET Nat
    OBVIOUS
  <2> HIDE DEF N
  <2> QED
    BY <1>2, <2>1, Least
<1>4. K = D
  BY <1>3
<1>5. Cardinality(D) < n
  BY <1>1, <1>4
<1>6. AtMost(n, F) = F
  BY <1>4 DEF AtMost
<1> QED
  BY <1>5, <1>6

(* The filters kept of a request, and those of the request that asks for   *)
(* one more.                                                               *)
With(F, i, f) == [j \in DOMAIN F \cup {i} |-> IF j = i THEN f ELSE F[j]]

LEMMA RoomForOneMore ==
  ASSUME NEW raw \in FilterParam, NEW f, f # Malformed,
         Cardinality(DOMAIN parse_filters(raw)) < MAX_FILTERS
  PROVE  LET F == parse_filters(raw)
             G == With(F, Len(raw) + 1, f)
         IN  /\ DOMAIN F \subseteq 1 .. Len(raw) /\ Len(raw) \in Nat
             /\ \A i \in DOMAIN F : F[i] \in Filter
             /\ F = [i \in DOMAIN F |-> F[i]]
             /\ parse_filters(Append(raw, f)) = G
             /\ AtMost(MAX_FILTERS, G) = G
<1> DEFINE S == Filter \cup {Malformed}
           n == Len(raw)
           F == WellFormed(raw)
           more == Append(raw, f)
           H == WellFormed(more)
           G == With(F, n + 1, f)
<1>1. raw \in Seq(S) /\ MAX_FILTERS \in Nat
  BY ReportsAssumption
<1>2. n \in Nat /\ DOMAIN raw = 1 .. n /\ \A i \in 1 .. n : raw[i] \in S
  <2> HIDE DEF S
  <2> QED
    BY <1>1
<1>3. /\ DOMAIN more = 1 .. n + 1
      /\ \A i \in 1 .. n : more[i] = raw[i]
      /\ more[n + 1] = f
  <2>1. raw \in Seq(S \cup {f})
    BY <1>1, SeqMonotonic
  <2> DEFINE Z == S \cup {f}
  <2> HIDE DEF Z
  <2>2. raw \in Seq(Z) /\ f \in Z
    BY <2>1 DEF Z
  <2>3. Len(more) = n + 1 /\ DOMAIN more = 1 .. Len(more)
        /\ \A i \in 1 .. n + 1 : more[i] = IF i <= n THEN raw[i] ELSE f
    BY <2>2, AppendProperties
  <2> QED
    BY <1>2, <2>3
<1>4. /\ DOMAIN F = {j \in 1 .. n : raw[j] # Malformed}
      /\ \A i \in DOMAIN F : F[i] = raw[i]
      /\ F = [i \in DOMAIN F |-> F[i]]
  BY <1>2 DEF WellFormed
<1>5. /\ DOMAIN H = {j \in 1 .. n + 1 : more[j] # Malformed}
      /\ \A i \in DOMAIN H : H[i] = more[i]
      /\ H = [i \in DOMAIN H |-> H[i]]
  BY <1>3 DEF WellFormed
<1>6. DOMAIN G = DOMAIN F \cup {n + 1} /\ G = [i \in DOMAIN G |-> G[i]]
      /\ \A i \in DOMAIN G : G[i] = IF i = n + 1 THEN f ELSE F[i]
  BY DEF With
<1> HIDE DEF F, H, G, n, more
<1>7. H = G
  <2>1. DOMAIN H = DOMAIN G
    BY <1>2, <1>3, <1>4, <1>5, <1>6
  <2>2. ASSUME NEW i \in DOMAIN G PROVE H[i] = G[i]
    BY <1>2, <1>3, <1>4, <1>5, <1>6, <2>1
  <2> QED
    BY <1>5, <1>6, <2>1, <2>2
<1>8. IsFiniteSet(DOMAIN F) /\ DOMAIN F \subseteq Nat /\ DOMAIN F \subseteq 1 .. n
  <2>1. DOMAIN F \subseteq 1 .. n /\ IsFiniteSet(1 .. n)
    BY <1>2, <1>4, FS_Interval
  <2>2. IsFiniteSet(DOMAIN F)
    BY <2>1, CountPart
  <2> QED
    BY <1>2, <2>1, <2>2
<1>9. AtMost(MAX_FILTERS, F) = F /\ Cardinality(DOMAIN F) < MAX_FILTERS
  BY <1>1, <1>4, <1>8, FewKeptMeansAll DEF parse_filters, F
<1>10. AtMost(MAX_FILTERS, G) = G
  <2>1. n + 1 \notin DOMAIN F
    BY <1>2, <1>8
  <2>2. IsFiniteSet(DOMAIN G) /\ Cardinality(DOMAIN G) = Cardinality(DOMAIN F) + 1
    BY <1>6, <1>8, <2>1, FS_AddElement
  <2>3. Cardinality(DOMAIN F) \in Nat
    BY <1>8, FS_CardinalityType
  <2>4. Cardinality(DOMAIN G) <= MAX_FILTERS
    BY <1>1, <1>9, <2>2, <2>3
  <2>5. DOMAIN G \subseteq Nat
    BY <1>2, <1>6, <1>8
  <2> QED
    BY <1>1, <1>6, <2>2, <2>4, <2>5, KeptWhenFew
<1>11. parse_filters(raw) = F /\ parse_filters(Append(raw, f)) = G
  BY <1>7, <1>9, <1>10 DEF parse_filters, F, H, more
<1>12. \A i \in DOMAIN F : F[i] \in Filter
  BY <1>2, <1>4
<1> QED
  BY <1>2, <1>4, <1>8, <1>10, <1>11, <1>12 DEF G, n

LEMMA OneMoreRestriction ==
  ASSUME NEW V, NEW F, NEW i, i \notin DOMAIN F, NEW f
  PROVE  Where(V, With(F, i, f)) = {r \in Where(V, F) : Satisfies(r, f)}
<1>1. DOMAIN With(F, i, f) = DOMAIN F \cup {i} /\ With(F, i, f)[i] = f
      /\ \A j \in DOMAIN F : With(F, i, f)[j] = F[j]
  BY DEF With
<1> QED
  BY <1>1 DEF Where

LEMMA EqualTo ==
  ASSUME NEW column, NEW v, v # Null, NEW r
  PROVE  /\ Satisfies(r, Eq(column, v)) <=> r.dim[column] = v
         /\ Eq(column, v) # Malformed
  BY DEF Satisfies, Eq, Malformed

LEMMA NameIsAFilter ==
  ASSUME NEW raw \in FilterParam, NEW v, v # Null,
         Cardinality(DOMAIN parse_filters(raw)) < MAX_FILTERS, NEW range, NEW limit
  PROVE  Counted(events(Null, limit, Append(raw, Eq("name", v))), range) =
         {r \in Where(Events(range, "custom"), parse_filters(raw)) : r.dim["name"] = v}
<1> DEFINE f == Eq("name", v)
           F == parse_filters(raw)
           n == Len(raw) + 1
           G == With(F, n, f)
           V == Events(range, "custom")
           first == FirstNamed(G)
           w == CHOOSE x \in G[first].values : TRUE
           Rest == Only(G, DOMAIN G \ {first})
           W == {r \in Where(V, F) : r.dim["name"] = v}
<1>0. f # Malformed
  BY EqualTo
<1>1. /\ f.field = "name" /\ f.op = "eq" /\ f.values = {v}
      /\ \A r : Satisfies(r, f) <=> r.dim["name"] = v
  BY EqualTo DEF Eq
<1> HIDE DEF f
<1>2. /\ DOMAIN F \subseteq 1 .. Len(raw) /\ Len(raw) \in Nat
      /\ \A i \in DOMAIN F : F[i] \in Filter
      /\ parse_filters(Append(raw, f)) = G
  <2>1. DOMAIN F \subseteq 1 .. Len(raw) /\ Len(raw) \in Nat
    BY <1>0, RoomForOneMore
  <2>2. parse_filters(Append(raw, f)) = G
    BY <1>0, RoomForOneMore
  <2>3. \A i \in DOMAIN F : F[i] \in Filter
    BY <1>0, RoomForOneMore
  <2> QED
    BY <2>1, <2>2, <2>3
<1>3. n \notin DOMAIN F /\ n \in Nat
  BY <1>2
<1> HIDE DEF F, n
<1>4. /\ DOMAIN G = DOMAIN F \cup {n} /\ G[n] = f
      /\ \A i \in DOMAIN F : G[i] = F[i]
  BY <1>3 DEF With
<1>5. Where(V, G) = W
  <2>1. Where(V, G) = {r \in Where(V, F) : Satisfies(r, f)}
    BY <1>3, OneMoreRestriction
  <2> QED
    BY <1>1, <2>1
<1> HIDE DEF G
<1>6. first \in Named(G)
  <2>1. n \in Named(G) /\ Named(G) \subseteq DOMAIN G
    BY <1>1, <1>4 DEF Named
  <2>2. DOMAIN G \subseteq Nat
    BY <1>2, <1>3, <1>4 DEF F
  <2>3. \E i \in Named(G) : \A j \in Named(G) : i <= j
    BY <2>1, <2>2, Least
  <2> QED
    BY <2>3 DEF FirstNamed
<1> HIDE DEF first
<1>7. first \in DOMAIN G /\ G[first].field = "name" /\ G[first].op = "eq"
  BY <1>6 DEF Named
<1>8. G[first].values = {w} /\ w # Null
  <2>1. \E x : x # Null /\ G[first].values = {x}
    <3>1. CASE first = n
      BY <1>1, <1>4, <3>1
    <3>2. CASE first # n
      <4>1. G[first] \in Filter
        BY <1>2, <1>4, <1>7, <3>2 DEF F
      <4>2. \E x \in Value : G[first].values = {x}
        BY <1>7, <4>1 DEF Filter
      <4> QED
        BY <4>2, ReportsAssumption
    <3> QED
      BY <3>1, <3>2
  <2> QED
    BY <2>1
<1>9. events(Null, limit, Append(raw, f)) = Asked("name", limit, Rest, w)
  BY <1>2, <1>6 DEF events, first
<1> HIDE DEF w
<1>10. ASSUME NEW r PROVE Satisfies(r, G[first]) <=> r.dim["name"] = w
  BY <1>7, <1>8 DEF Satisfies
<1>11. /\ DOMAIN Rest = DOMAIN G \ {first}
       /\ \A i \in DOMAIN Rest : Rest[i] = G[i]
  BY DEF Only
<1> HIDE DEF Rest
<1>12. {r \in Where(V, Rest) : r.dim["name"] = w} = Where(V, G)
  BY <1>7, <1>10, <1>11 DEF Where
<1>13. Counted(Asked("name", limit, Rest, w), range) = {r \in Where(V, Rest) : r.dim["name"] = w}
  BY <1>8 DEF Counted, Asked, event_kind
<1> QED
  BY <1>5, <1>9, <1>12, <1>13 DEF f, F

LEMMA UtmIsAFilter ==
  ASSUME NEW raw \in FilterParam, NEW v, v # Null,
         Cardinality(DOMAIN parse_filters(raw)) < MAX_FILTERS, NEW limit
  PROVE  utm("utm_medium", v, Null, limit, raw) =
         top_list_response("utm_medium", limit, Append(raw, Eq("utm_source", v)))
<1> DEFINE f == Eq("utm_source", v)
           F == parse_filters(raw)
           G == With(F, Len(raw) + 1, f)
<1>1. f # Malformed
  BY EqualTo
<1>2. parse_filters(Append(raw, f)) = G /\ AtMost(MAX_FILTERS, G) = G
  <2> HIDE DEF f
  <2> QED
    BY <1>1, RoomForOneMore
<1>3. Given(F, Len(raw) + 1, "utm_source", v) = G
  BY DEF Given, With
<1>4. Given(G, Len(raw) + 2, "utm_medium", Null) = G
  BY DEF Given
<1> HIDE DEF F, G, f
<1> QED
  BY <1>2, <1>3, <1>4 DEF utm, top_list_response, F, f

LEMMA ClickLeavesTheRow ==
  ASSUME NEW raw \in FilterParam, NEW v, v # Null, NEW field, field # "name",
         Cardinality(DOMAIN parse_filters(raw)) < MAX_FILTERS, NEW range, NEW limit, NEW more
  PROVE  Counted(top_list_response(field, limit, Append(raw, Eq(field, v))), range) =
         {r \in Counted(top_list_response(field, more, raw), range) : r.dim[field] = v}
<1> DEFINE f == Eq(field, v)
           F == parse_filters(raw)
           n == Len(raw) + 1
           G == With(F, n, f)
           V == Events(range, "pageview")
<1>0. f # Malformed
  BY EqualTo
<1>1. \A r : Satisfies(r, f) <=> r.dim[field] = v
  BY EqualTo
<1> HIDE DEF f
<1>2. DOMAIN F \subseteq 1 .. Len(raw) /\ Len(raw) \in Nat /\ parse_filters(Append(raw, f)) = G
  BY <1>0, RoomForOneMore
<1>3. n \notin DOMAIN F
  BY <1>2
<1> HIDE DEF F, n
<1>4. Where(V, G) = {r \in Where(V, F) : r.dim[field] = v}
  <2>1. Where(V, G) = {r \in Where(V, F) : Satisfies(r, f)}
    BY <1>3, OneMoreRestriction
  <2> QED
    BY <1>1, <2>1
<1> HIDE DEF G
<1>5. Counted(top_list_response(field, limit, Append(raw, f)), range) = Where(V, G)
  BY <1>2 DEF Counted, top_list_response, Asked, event_kind
<1>6. Counted(top_list_response(field, more, raw), range) = Where(V, F)
  BY DEF Counted, top_list_response, Asked, event_kind, F
<1> QED
  BY <1>4, <1>5, <1>6 DEF f

LEMMA Restricted == RowsFine => RestrictionsAgree
<1> SUFFICES ASSUME RowsFine, NEW range \in TimeRange, NEW raw \in FilterParam,
                    Cardinality(DOMAIN parse_filters(raw)) < MAX_FILTERS
             PROVE
            /\ \A field \in {"referrer", "utm_source"} :
                  LET V == Counted(top_list_response(field, MaxRows, raw), range)
                  IN  \A v \in {r.dim[field] : r \in V} \ {Null} :
                        Counted(top_list_response(field, 1, Append(raw, Eq(field, v))), range) =
                            {r \in V : r.dim[field] = v}
            /\ \A v \in {r.dim["utm_source"] : r \in Pageviews(range)} \ {Null} :
                  Counted(utm("utm_medium", v, Null, MaxRows, raw), range) =
                  Counted(top_list_response("utm_medium", MaxRows, Append(raw, Eq("utm_source", v))), range)
            /\ \A v \in {r.dim["name"] : r \in Events(range, "custom")} :
                  Counted(events(v, MaxRows, raw), range) =
                  Counted(events(Null, MaxRows, Append(raw, Eq("name", v))), range)
  BY DEF RestrictionsAgree
<1>1. ASSUME NEW field \in {"referrer", "utm_source"}, NEW v, v # Null
      PROVE  Counted(top_list_response(field, 1, Append(raw, Eq(field, v))), range) =
             {r \in Counted(top_list_response(field, MaxRows, raw), range) : r.dim[field] = v}
  <2>1. field # "name"
    OBVIOUS
  <2> QED
    BY <1>1, <2>1, ClickLeavesTheRow
<1>2. ASSUME NEW v, v # Null
      PROVE  Counted(utm("utm_medium", v, Null, MaxRows, raw), range) =
             Counted(top_list_response("utm_medium", MaxRows, Append(raw, Eq("utm_source", v))), range)
  BY <1>2, UtmIsAFilter
<1>3. ASSUME NEW v \in {r.dim["name"] : r \in Events(range, "custom")}
      PROVE  Counted(events(v, MaxRows, raw), range) =
             Counted(events(Null, MaxRows, Append(raw, Eq("name", v))), range)
  <2>1. v # Null
    BY DEF Events, RowsFine, AreRows
  <2>2. Counted(events(v, MaxRows, raw), range) =
          {r \in Where(Events(range, "custom"), parse_filters(raw)) : r.dim["name"] = v}
    BY <2>1 DEF Counted, events, Asked, event_kind
  <2> QED
    BY <2>1, <2>2, NameIsAFilter
<1> QED
  BY <1>1, <1>2, <1>3

THEOREM RestrictionsHold == ReportSpec => []RestrictionsAgree
<1>1. ReportInit => RowsFine
  BY RowsFineInit
<1>2. RowsFine /\ [ReportNext]_reportVars => RowsFine'
  BY RowsFineStep
<1> QED
  BY <1>1, <1>2, Restricted, PTL DEF ReportSpec

-----------------------------------------------------------------------------
(* Lists that leave nothing out, and what their rows add up to.            *)
LEMMA AllListed ==
  ASSUME NEW S, IsFiniteSet(S), NEW limit \in Nat, NEW rank, NEW T \in Foremost(S, limit, rank)
  PROVE  /\ T \subseteq S /\ Cardinality(S) \in Nat
         /\ Cardinality(S) <= limit => T = S
         /\ T = S \/ Cardinality(T) = limit
<1>1. T \subseteq S /\ Cardinality(T) = Min({limit, Cardinality(S)})
  BY DEF Foremost
<1>2. Cardinality(S) \in Nat
  BY FS_CardinalityType
<1>3. Cardinality(T) = IF limit <= Cardinality(S) THEN limit ELSE Cardinality(S)
  BY <1>1, <1>2, LesserOf
<1>4. Cardinality(T) = Cardinality(S) => T = S
  BY <1>1, CountPart
<1> QED
  BY <1>1, <1>2, <1>3, <1>4

LEMMA ExportIsFullOrAll ==
  ASSUME NEW S, IsFiniteSet(S), Cardinality(S) <= MaxRows,
         NEW rank, NEW T \in Foremost(S, AtMostExport(MaxRows), rank)
  PROVE  T = S \/ Cardinality(T) = EXPORT_MAX_ROWS
<1>1. MaxRows \in Nat /\ EXPORT_MAX_ROWS \in Nat
  BY ReportsAssumption
<1> DEFINE l == AtMostExport(MaxRows)
<1>2. l = IF MaxRows <= EXPORT_MAX_ROWS THEN MaxRows ELSE EXPORT_MAX_ROWS
  BY <1>1, LesserOf DEF AtMostExport
<1>3. l \in Nat
  BY <1>1, <1>2
<1> HIDE DEF l
<1>4. /\ T = S \/ Cardinality(T) = l
      /\ Cardinality(S) <= l => T = S
  BY <1>3, AllListed DEF l
<1> QED
  BY <1>1, <1>2, <1>4

LEMMA AllGroupsListed ==
  ASSUME NEW V, IsFiniteSet(V), Cardinality(V) <= MaxRows, NEW field,
         NEW T \in TopLists(V, field, MaxRows)
  PROVE  T = {r.dim[field] : r \in V}
<1> DEFINE S == {r.dim[field] : r \in V}
           f == [r \in V |-> r.dim[field]]
           rank == [v \in S |-> Count(V, field, v)]
<1>1. f \in [V -> S] /\ \A t \in S : \E r \in V : f[r] = t
  OBVIOUS
<1>2. T \in Foremost(S, MaxRows, rank)
  BY DEF TopLists
<1> HIDE DEF S, f, rank
<1>3. /\ IsFiniteSet(S) /\ Cardinality(S) \in Nat /\ Cardinality(V) \in Nat
      /\ Cardinality(S) <= Cardinality(V)
  BY <1>1, CountOnto
<1>4. MaxRows \in Nat
  BY ReportsAssumption
<1>5. Cardinality(S) <= MaxRows
  BY <1>3, <1>4
<1>6. T = S
  BY <1>2, <1>3, <1>4, <1>5, AllListed
<1> QED
  BY <1>6 DEF S

LEMMA GroupSum ==
  ASSUME NEW V, IsFiniteSet(V), Cardinality(V) <= MaxRows, NEW field,
         NEW T \in TopLists(V, field, MaxRows)
  PROVE  ListTotal(V, field, T) = Cardinality(V)
<1> DEFINE f == [v \in T |-> Count(V, field, v)]
           key == [r \in V |-> r.dim[field]]
<1>1. T = {r.dim[field] : r \in V}
  BY AllGroupsListed
<1>2. key \in [V -> DOMAIN f] /\ DOMAIN f = T
  BY <1>1
<1>3. ASSUME NEW v \in T PROVE f[v] = Cardinality({r \in V : key[r] = v})
  <2>1. {r \in V : key[r] = v} = {r \in V : r.dim[field] = v}
    OBVIOUS
  <2> QED
    BY <2>1 DEF Count
<1> HIDE DEF f, key
<1>4. Total(f) = Cardinality(V)
  BY <1>2, <1>3, Partition
<1> QED
  BY <1>4 DEF ListTotal, f

(* The rows of a list of pages, over the things each page is counted by.   *)
Tallies(f, X, U, url, row, part) ==
    /\ url \in [X -> U] /\ row \in [U -> DOMAIN f] /\ part \in [U -> SUBSET X]
    /\ \A d \in DOMAIN f : \E u \in U : d = row[u]
    /\ \A u, v \in U : row[u] = row[v] => u = v
    /\ \A u \in U, x \in X : x \in part[u] <=> url[x] = u
    /\ \A u \in U : f[row[u]] = Cardinality(part[u])

LEMMA PageSum ==
  ASSUME NEW X, IsFiniteSet(X), NEW U, NEW url, NEW f, NEW row, NEW part,
         Tallies(f, X, U, url, row, part)
  PROVE  Total(f) = Cardinality(X)
<1> DEFINE key == [x \in X |-> row[url[x]]]
<1>1. key \in [X -> DOMAIN f]
  BY DEF Tallies
<1>2. ASSUME NEW d \in DOMAIN f PROVE f[d] = Cardinality({x \in X : key[x] = d})
  <2>1. PICK u \in U : d = row[u]
    BY DEF Tallies
  <2>2. {x \in X : key[x] = d} = part[u]
    BY <2>1 DEF Tallies
  <2> QED
    BY <2>1, <2>2 DEF Tallies
<1> HIDE DEF key
<1>3. \A d \in DOMAIN f : f[d] = Cardinality({x \in X : key[x] = d})
  BY <1>2
<1>4. IsFiniteSet(X)
  OBVIOUS
<1> QED
  BY ONLY <1>1, <1>3, <1>4, Partition

LEMMA EntriesCounted ==
  ASSUME NEW V, AreRows(V)
  PROVE  /\ IsFiniteSet(Entries(V)) /\ IsFiniteSet(Exits(V))
         /\ Entries(V) \subseteq V /\ Exits(V) \subseteq V
         /\ Cardinality(Entries(V)) = Cardinality(Sessions(V))
         /\ Cardinality(Exits(V)) = Cardinality(Sessions(V))
         /\ Cardinality(Entries(V)) <= MaxRows /\ Cardinality(Exits(V)) <= MaxRows
<1>1. IsFiniteSet(V) /\ Cardinality(V) <= MaxRows /\ MaxRows \in Nat
  BY ReportsAssumption DEF AreRows
<1>2. /\ EntryOf(V) \in [Sessions(V) -> V] /\ ExitOf(V) \in [Sessions(V) -> V]
      /\ Entries(V) = {EntryOf(V)[s] : s \in Sessions(V)}
      /\ Exits(V) = {ExitOf(V)[s] : s \in Sessions(V)}
  BY EndRows
<1>3. Entries(V) \subseteq V /\ Exits(V) \subseteq V
  BY <1>2
<1>4. /\ \A s \in Sessions(V) : EntryOf(V)[s].session = s
      /\ \A s \in Sessions(V) : ExitOf(V)[s].session = s
  BY Ending
<1> DEFINE p == EntryOf(V)
           q == ExitOf(V)
           S == Sessions(V)
<1>5. /\ \A s \in S : p[s] \in Entries(V) /\ q[s] \in Exits(V)
      /\ \A e \in Entries(V) : \E s \in S : e = p[s]
      /\ \A e \in Exits(V) : \E s \in S : e = q[s]
      /\ S \subseteq Sessions(V)
  BY <1>2
<1> HIDE DEF p, q, S
<1>6. Cardinality(Entries(V)) = Cardinality(S) /\ Cardinality(Exits(V)) = Cardinality(S)
  <2>1. \A s \in Sessions(V) : p[s].session = s /\ q[s].session = s
    BY <1>4 DEF p, q
  <2>2. Cardinality(Entries(V)) = Cardinality(S)
    BY <1>1, <1>5, <2>1, PickCount
  <2>3. Cardinality(Exits(V)) = Cardinality(S)
    BY <1>1, <1>5, <2>1, PickCount
  <2> QED
    BY <2>2, <2>3
<1>7. /\ IsFiniteSet(Entries(V)) /\ Cardinality(Entries(V)) <= MaxRows
      /\ IsFiniteSet(Exits(V)) /\ Cardinality(Exits(V)) <= MaxRows
  BY <1>1, <1>3, CountPart
<1> QED
  BY <1>3, <1>6, <1>7 DEF S

LEMMA EntryListAgrees ==
  ASSUME NEW V, AreRows(V), NEW T \in TopLists(Entries(V), "url", MaxRows),
         NEW list, list = {[url |-> u, page |-> EntryPage(V, u)] : u \in T}
  PROVE  /\ Total([row \in list |-> row.page.sessions]) = Cardinality(Sessions(V))
         /\ Total([row \in list |-> row.page.bounces]) = SummaryBounces(V)
<1> DEFINE E == Entries(V)
           row == [u \in T |-> [url |-> u, page |-> EntryPage(V, u)]]
           f == [r \in list |-> r.page.sessions]
           g == [r \in list |-> r.page.bounces]
           url == [r \in E |-> r.dim["url"]]
           of == [u \in T |-> {r \in E : r.dim["url"] = u}]
           B == {W \in Visits(V) : Cardinality(W) = 1}
           first == [W \in B |-> CHOOSE r \in First(W) : TRUE]
           burl == [W \in B |-> first[W].dim["url"]]
           single == [u \in T |-> {W \in B : \E r \in First(W) : r.dim["url"] = u}]
<1>1. /\ IsFiniteSet(E) /\ Cardinality(E) = Cardinality(Sessions(V))
      /\ Cardinality(E) <= MaxRows
  BY EntriesCounted
<1>2. T = {r.dim["url"] : r \in E}
  BY <1>1, AllGroupsListed
<1>3. /\ \A u \in T : row[u] \in list /\ row[u].url = u /\ row[u].page = EntryPage(V, u)
      /\ \A d \in list : \E u \in T : d = row[u]
      /\ row \in [T -> list]
  OBVIOUS
<1>4. /\ DOMAIN f = list /\ \A u \in T : f[row[u]] = EntryPage(V, u).sessions
      /\ DOMAIN g = list /\ \A u \in T : g[row[u]] = EntryPage(V, u).bounces
  <2> HIDE DEF row
  <2> QED
    BY <1>3
<1>5. /\ url \in [E -> T] /\ of \in [T -> SUBSET E]
      /\ \A u \in T, r \in E : r \in of[u] <=> url[r] = u
  BY <1>2
<1>6. ASSUME NEW u \in T PROVE f[row[u]] = Cardinality(of[u])
  <2>1. EntryPage(V, u).sessions = Cardinality(of[u])
    BY DEF EntryPage
  <2> HIDE DEF f, row, of
  <2> QED
    BY <1>4, <2>1
<1>7. ASSUME NEW W \in Visits(V) PROVE \E e \in E : First(W) = {e}
  <2>1. PICK s \in Sessions(V) : W = Of(V, s)
    BY DEF Visits
  <2>2. First(W) = {EntryOf(V)[s]}
    BY <2>1, Ending
  <2>3. EntryOf(V)[s] \in E
    BY EndRows
  <2> QED
    BY <2>2, <2>3
<1>8. IsFiniteSet(B) /\ SummaryBounces(V) = Cardinality(B)
  BY VisitCount, CountPart DEF SummaryBounces
<1>9. \A W \in B : First(W) = {first[W]} /\ first[W] \in E
  BY <1>7
<1> HIDE DEF first
<1>10. /\ burl \in [B -> T] /\ single \in [T -> SUBSET B]
       /\ \A u \in T, W \in B : W \in single[u] <=> burl[W] = u
  BY <1>2, <1>9
<1>11. ASSUME NEW u \in T PROVE g[row[u]] = Cardinality(single[u])
  <2>1. single[u] = {W \in EntryVisits(V, u) : Cardinality(W) = 1}
    BY DEF EntryVisits
  <2>2. EntryPage(V, u).bounces = Cardinality(single[u])
    BY <2>1 DEF EntryPage
  <2> HIDE DEF g, row, single
  <2> QED
    BY <1>4, <2>2
<1>12. \A u, v \in T : row[u] = row[v] => u = v
  <2> HIDE DEF row
  <2> QED
    BY <1>3
<1> HIDE DEF E, row, f, g, url, of, B, burl, single
<1>13. Total(f) = Cardinality(E)
  <2>1. row \in [T -> DOMAIN f] /\ (\A d \in DOMAIN f : \E u \in T : d = row[u])
    BY <1>3, <1>4
  <2>2. \A u \in T : f[row[u]] = Cardinality(of[u])
    BY <1>6
  <2>3. Tallies(f, E, T, url, row, of)
    BY <1>5, <1>12, <2>1, <2>2 DEF Tallies
  <2> QED
    BY ONLY <1>1, <2>3, PageSum
<1>14. Total(g) = Cardinality(B)
  <2>1. row \in [T -> DOMAIN g] /\ (\A d \in DOMAIN g : \E u \in T : d = row[u])
    BY <1>3, <1>4
  <2>2. \A u \in T : g[row[u]] = Cardinality(single[u])
    BY <1>11
  <2>3. Tallies(g, B, T, burl, row, single)
    BY <1>10, <1>12, <2>1, <2>2 DEF Tallies
  <2> QED
    BY ONLY <1>8, <2>3, PageSum
<1> QED
  BY <1>1, <1>8, <1>13, <1>14 DEF f, g

LEMMA ExitListAgrees ==
  ASSUME NEW V, AreRows(V), NEW T \in TopLists(Exits(V), "url", MaxRows),
         NEW list, list = {[url |-> u, page |-> ExitPage(V, u)] : u \in T}
  PROVE  /\ Total([row \in list |-> row.page.exits]) = Cardinality(Sessions(V))
         /\ \A row \in list : row.page.exits <= row.page.pageviews
<1> DEFINE E == Exits(V)
           row == [u \in T |-> [url |-> u, page |-> ExitPage(V, u)]]
           f == [r \in list |-> r.page.exits]
           url == [r \in E |-> r.dim["url"]]
           of == [u \in T |-> {r \in E : r.dim["url"] = u}]
<1>1. /\ IsFiniteSet(E) /\ Cardinality(E) = Cardinality(Sessions(V))
      /\ Cardinality(E) <= MaxRows
  BY EntriesCounted
<1>2. T = {r.dim["url"] : r \in E}
  BY <1>1, AllGroupsListed
<1>3. /\ \A u \in T : row[u] \in list /\ row[u].url = u /\ row[u].page = ExitPage(V, u)
      /\ \A d \in list : \E u \in T : d = row[u]
      /\ row \in [T -> list]
  OBVIOUS
<1>4. DOMAIN f = list /\ \A u \in T : f[row[u]] = ExitPage(V, u).exits
  <2> HIDE DEF row
  <2> QED
    BY <1>3
<1>5. /\ url \in [E -> T] /\ of \in [T -> SUBSET E]
      /\ \A u \in T, r \in E : r \in of[u] <=> url[r] = u
  BY <1>2
<1>6. ASSUME NEW u \in T PROVE f[row[u]] = Cardinality(of[u])
  <2>1. ExitPage(V, u).exits = Cardinality(of[u])
    BY DEF ExitPage
  <2> HIDE DEF f, row, of
  <2> QED
    BY <1>4, <2>1
<1>7. ASSUME NEW u PROVE ExitPage(V, u).exits <= ExitPage(V, u).pageviews
  <2> DEFINE X == {r \in Exits(V) : r.dim["url"] = u}
             Y == {r \in V : r.dim["url"] = u}
  <2>1. IsFiniteSet(V) /\ Exits(V) \subseteq V
    BY EntriesCounted DEF AreRows
  <2>2. X \subseteq Y /\ IsFiniteSet(Y)
    BY <2>1, CountPart
  <2> HIDE DEF X, Y
  <2>3. Cardinality(X) <= Cardinality(Y)
    BY <2>2, CountPart
  <2>4. ExitPage(V, u).exits = Cardinality(X) /\ ExitPage(V, u).pageviews = Cardinality(Y)
    BY DEF ExitPage, X, Y
  <2> QED
    BY <2>3, <2>4
<1>8. ASSUME NEW d \in list PROVE d.page.exits <= d.page.pageviews
  <2>1. PICK u \in T : d = row[u]
    BY <1>3
  <2>2. d.page = ExitPage(V, u)
    BY <2>1
  <2> QED
    BY <1>7, <2>2
<1>9. \A u, v \in T : row[u] = row[v] => u = v
  <2> HIDE DEF row
  <2> QED
    BY <1>3
<1> HIDE DEF E, row, f, url, of
<1>10. Total(f) = Cardinality(E)
  <2>1. row \in [T -> DOMAIN f] /\ (\A d \in DOMAIN f : \E u \in T : d = row[u])
    BY <1>3, <1>4
  <2>2. \A u \in T : f[row[u]] = Cardinality(of[u])
    BY <1>6
  <2>3. Tallies(f, E, T, url, row, of)
    BY <1>5, <1>9, <2>1, <2>2 DEF Tallies
  <2> QED
    BY ONLY <1>1, <2>3, PageSum
<1> QED
  BY <1>1, <1>8, <1>10 DEF f

(* The exported sessions: one row for each, that starts and ends where the *)
(* entry and the exit pages say.                                           *)
LEMMA SpanOfOne ==
  ASSUME NEW V, AreRows(V), NEW W, W \subseteq V, Cardinality(W) = 1
  PROVE  Latest(W) - Earliest(W) < 1
<1>1. IsFiniteSet(V) /\ IsFiniteSet(W)
  BY CountPart DEF AreRows
<1>2. PICK x : W = {x}
  BY <1>1, FS_Singleton
<1> DEFINE t == x.ts
<1>3. t \in Nat
  BY <1>2, RowNumbers DEF AreRows
<1>4. {r.ts : r \in W} = {t}
  BY <1>2
<1> HIDE DEF t
<1>5. Min({t}) = t /\ Max({t}) = t
  BY <1>3 DEF Min, Max
<1>6. Latest(W) = t /\ Earliest(W) = t
  BY <1>4, <1>5 DEF Latest, Earliest
<1> QED
  BY <1>3, <1>6

LEMMA SingleVisits ==
  ASSUME NEW V, AreRows(V)
  PROVE  SummaryBounces(V) = Cardinality({s \in Sessions(V) : Cardinality(Of(V, s)) = 1})
<1> DEFINE T == {s \in Sessions(V) : Cardinality(Of(V, s)) = 1}
           B == {W \in Visits(V) : Cardinality(W) = 1}
           f == [s \in T |-> Of(V, s)]
<1>1. f \in [T -> B] /\ (\A W \in B : \E s \in T : f[s] = W) /\ (\A s \in T : f[s] = Of(V, s))
  BY DEF Visits
<1>2. \A s \in T : s \in Sessions(V)
  OBVIOUS
<1>3. IsFiniteSet(B)
  BY VisitCount, CountPart
<1> HIDE DEF T, B, f
<1>4. ASSUME NEW s \in T, NEW t \in T, f[s] = f[t] PROVE s = t
  <2>1. PICK r \in Of(V, s) : TRUE
    BY <1>2, Ending
  <2>2. r \in Of(V, t)
    BY <1>1, <1>4
  <2> QED
    BY <2>1, <2>2 DEF Of
<1>5. Cardinality(T) = Cardinality(B)
  BY <1>1, <1>3, <1>4, CountInto
<1> QED
  BY <1>5 DEF T, B, SummaryBounces

LEMMA SessionRows ==
  ASSUME NEW V, AreRows(V), NEW R, R = {SessionRow(W) : W \in Visits(V)}
  PROVE  /\ IsFiniteSet(R) /\ Cardinality(R) <= MaxRows
         /\ \A url : EntryPage(V, url).sessions = Cardinality({row \in R : row.entry_url = url})
         /\ \A url : ExitPage(V, url).exits = Cardinality({row \in R : row.exit_url = url})
         /\ Cardinality({row \in R : row.is_bounce}) = SummaryBounces(V)
<1> DEFINE p == [s \in Sessions(V) |-> SessionRow(Of(V, s))]
           S == Sessions(V)
<1>1. \A s \in S : p[s] \in R /\ p[s] = SessionRow(Of(V, s))
  BY DEF Visits
<1>2. \A row \in R : \E s \in S : row = p[s]
  BY DEF Visits
<1>3. p \in [S -> R]
  BY <1>1
<1> HIDE DEF p
<1>4. ASSUME NEW s \in S
      PROVE  /\ p[s].session = s
             /\ p[s].entry_url = EntryOf(V)[s].dim["url"]
             /\ p[s].exit_url = ExitOf(V)[s].dim["url"]
             /\ p[s].is_bounce <=> Cardinality(Of(V, s)) = 1
  <2> DEFINE W == Of(V, s)
  <2>1. W # {} /\ W \subseteq V /\ \A r \in W : r.session = s
    BY Ending DEF Of
  <2>2. First(W) = {EntryOf(V)[s]} /\ Last(W) = {ExitOf(V)[s]}
    BY Ending
  <2> HIDE DEF W
  <2>3. /\ (CHOOSE r \in W : TRUE).session = s
        /\ (CHOOSE r \in First(W) : TRUE) = EntryOf(V)[s]
        /\ (CHOOSE r \in Last(W) : TRUE) = ExitOf(V)[s]
    BY <2>1, <2>2
  <2>4. Cardinality(W) = 1 => Latest(W) - Earliest(W) < 1
    BY <2>1, SpanOfOne
  <2>5. p[s] = SessionRow(W)
    BY <1>1 DEF W
  <2>6. /\ SessionRow(W).session = (CHOOSE r \in W : TRUE).session
        /\ SessionRow(W).entry_url = (CHOOSE r \in First(W) : TRUE).dim["url"]
        /\ SessionRow(W).exit_url = (CHOOSE r \in Last(W) : TRUE).dim["url"]
        /\ SessionRow(W).is_bounce = (Cardinality(W) = 1 /\ Latest(W) - Earliest(W) < 1)
    BY DEF SessionRow
  <2>7. /\ p[s].session = s /\ p[s].entry_url = EntryOf(V)[s].dim["url"]
        /\ p[s].exit_url = ExitOf(V)[s].dim["url"]
    BY <2>3, <2>5, <2>6
  <2>8. p[s].is_bounce <=> Cardinality(W) = 1
    BY <2>4, <2>5, <2>6
  <2> QED
    BY <2>7, <2>8 DEF W
<1>5. IsFiniteSet(V) /\ Cardinality(V) <= MaxRows /\ MaxRows \in Nat
  BY ReportsAssumption DEF AreRows
<1>6. IsFiniteSet(S) /\ Cardinality(S) <= MaxRows /\ Cardinality(S) \in Nat
  BY <1>5, SessionCount
<1>7. IsFiniteSet(R) /\ Cardinality(R) <= MaxRows
  <2> HIDE DEF S
  <2>1. \A row \in R : \E s \in S : p[s] = row
    BY <1>2
  <2>2. /\ IsFiniteSet(R) /\ Cardinality(R) \in Nat /\ Cardinality(R) <= Cardinality(S)
    BY ONLY <1>3, <1>6, <2>1, CountOnto
  <2> QED
    BY <1>5, <1>6, <2>2
<1>8. \A s \in Sessions(V) : p[s].session = s
  BY <1>4
<1>9. ASSUME NEW url
      PROVE  EntryPage(V, url).sessions = Cardinality({row \in R : row.entry_url = url})
  <2> DEFINE T == {s \in S : EntryOf(V)[s].dim["url"] = url}
             E == {row \in R : row.entry_url = url}
  <2>1. (\A s \in T : p[s] \in E) /\ (\A e \in E : \E s \in T : e = p[s]) /\ T \subseteq S
    BY <1>1, <1>2, <1>4
  <2> HIDE DEF T, E
  <2>2. Cardinality(E) = Cardinality(T)
    BY <1>5, <1>8, <2>1, PickCount
  <2> QED
    BY <2>2, EntryCount DEF T, E
<1>10. ASSUME NEW url
       PROVE  ExitPage(V, url).exits = Cardinality({row \in R : row.exit_url = url})
  <2> DEFINE T == {s \in S : ExitOf(V)[s].dim["url"] = url}
             E == {row \in R : row.exit_url = url}
  <2>1. (\A s \in T : p[s] \in E) /\ (\A e \in E : \E s \in T : e = p[s]) /\ T \subseteq S
    BY <1>1, <1>2, <1>4
  <2> HIDE DEF T, E
  <2>2. Cardinality(E) = Cardinality(T)
    BY <1>5, <1>8, <2>1, PickCount
  <2> QED
    BY <2>2, ExitCount DEF T, E
<1>11. Cardinality({row \in R : row.is_bounce}) = SummaryBounces(V)
  <2> DEFINE T == {s \in S : Cardinality(Of(V, s)) = 1}
             E == {row \in R : row.is_bounce}
  <2>1. (\A s \in T : p[s] \in E) /\ (\A e \in E : \E s \in T : e = p[s]) /\ T \subseteq S
    BY <1>1, <1>2, <1>4
  <2> HIDE DEF T, E
  <2>2. Cardinality(E) = Cardinality(T)
    BY <1>5, <1>8, <2>1, PickCount
  <2> QED
    BY <2>2, SingleVisits DEF T, E
<1> QED
  BY <1>7, <1>9, <1>10, <1>11

LEMMA UnfilteredLists ==
  ASSUME NEW ask \in campaigns(MaxRows, <<>>) \cup Breakdowns(MaxRows, <<>>), NEW range
  PROVE  Counted(ask, range) = Pageviews(range) /\ ask.limit = MaxRows
<1>1. DOMAIN parse_filters(<<>>) = {}
  BY DEF parse_filters, AtMost, WellFormed
<1>2. \E field \in Column \ {"name"} : ask = Asked(field, MaxRows, parse_filters(<<>>), Null)
  BY DEF campaigns, Breakdowns, top_pages, top_referrers, top_os, top_regions, top_countries,
     top_browsers, top_devices, top_list_response, Column, UTM
<1>3. /\ ask.field # "name" /\ ask.limit = MaxRows /\ ask.name = Null
      /\ ask.filters = parse_filters(<<>>)
  BY <1>2 DEF Asked
<1> QED
  BY <1>1, <1>3 DEF Counted, Where, Pageviews, event_kind

LEMMA Agreement == RowsFine => ReportsAgree
<1> SUFFICES ASSUME RowsFine, NEW range \in Ranges
             PROVE
        /\ \A raw \in FilterParam :
              LET V == Where(Pageviews(range), parse_filters(raw))
              IN  /\ \A list \in top_entry_pages(range, MaxRows, raw) :
                        /\ Total([row \in list |-> row.page.sessions]) = Cardinality(Sessions(V))
                        /\ Total([row \in list |-> row.page.bounces]) = SummaryBounces(V)
                  /\ \A list \in top_exit_pages(range, MaxRows, raw) :
                        /\ Total([row \in list |-> row.page.exits]) = Cardinality(Sessions(V))
                        /\ \A row \in list : row.page.exits <= row.page.pageviews
        /\ LET V == Pageviews(range)
           IN  /\ \A S \in export_sessions(range, MaxRows) :
                     Cardinality(S) < EXPORT_MAX_ROWS =>
                       /\ \A url \in Url :
                             /\ EntryPage(V, url).sessions = Cardinality({row \in S : row.entry_url = url})
                             /\ ExitPage(V, url).exits = Cardinality({row \in S : row.exit_url = url})
                       /\ Cardinality({row \in S : row.is_bounce}) = SummaryBounces(V)
               /\ \A E \in export_events(range, MaxRows) : V \subseteq E \/ Cardinality(E) = EXPORT_MAX_ROWS
               /\ \A ask \in campaigns(MaxRows, <<>>) \cup Breakdowns(MaxRows, <<>>) :
                     \A T \in TopLists(Counted(ask, range), ask.field, ask.limit) :
                         ListTotal(Counted(ask, range), ask.field, T) = Cardinality(V)
  BY DEF ReportsAgree
<1> DEFINE P == Pageviews(range)
<1>1. AreRows(P) /\ P \subseteq rows
  <2>1. P \subseteq rows
    BY DEF Pageviews, Events
  <2> QED
    BY <2>1, PartFine DEF RowsFine
<1>2. ASSUME NEW raw \in FilterParam PROVE AreRows(Where(P, parse_filters(raw)))
  <2>1. Where(P, parse_filters(raw)) \subseteq P
    BY DEF Where
  <2> HIDE DEF P
  <2> QED
    BY <1>1, <2>1, PartFine
<1>3. ASSUME NEW raw \in FilterParam, NEW list \in top_entry_pages(range, MaxRows, raw)
      PROVE  /\ Total([row \in list |-> row.page.sessions])
                   = Cardinality(Sessions(Where(P, parse_filters(raw))))
             /\ Total([row \in list |-> row.page.bounces]) = SummaryBounces(Where(P, parse_filters(raw)))
  <2> DEFINE V == Where(P, parse_filters(raw))
  <2>1. PICK T \in TopLists(Entries(V), "url", MaxRows) :
           list = {[url |-> u, page |-> EntryPage(V, u)] : u \in T}
    BY DEF top_entry_pages
  <2>2. AreRows(V)
    BY <1>2
  <2> HIDE DEF V
  <2>3. /\ Total([row \in list |-> row.page.sessions]) = Cardinality(Sessions(V))
        /\ Total([row \in list |-> row.page.bounces]) = SummaryBounces(V)
    BY <2>1, <2>2, EntryListAgrees
  <2> QED
    BY <2>3 DEF V
<1>4. ASSUME NEW raw \in FilterParam, NEW list \in top_exit_pages(range, MaxRows, raw)
      PROVE  /\ Total([row \in list |-> row.page.exits])
                   = Cardinality(Sessions(Where(P, parse_filters(raw))))
             /\ \A row \in list : row.page.exits <= row.page.pageviews
  <2> DEFINE V == Where(P, parse_filters(raw))
  <2>1. PICK T \in TopLists(Exits(V), "url", MaxRows) :
           list = {[url |-> u, page |-> ExitPage(V, u)] : u \in T}
    BY DEF top_exit_pages
  <2>2. AreRows(V)
    BY <1>2
  <2> HIDE DEF V
  <2>3. /\ Total([row \in list |-> row.page.exits]) = Cardinality(Sessions(V))
        /\ \A row \in list : row.page.exits <= row.page.pageviews
    BY <2>1, <2>2, ExitListAgrees
  <2> QED
    BY <2>3 DEF V
<1>5. ASSUME NEW S \in export_sessions(range, MaxRows), Cardinality(S) < EXPORT_MAX_ROWS
      PROVE  /\ \A url \in Url :
                   /\ EntryPage(P, url).sessions = Cardinality({row \in S : row.entry_url = url})
                   /\ ExitPage(P, url).exits = Cardinality({row \in S : row.exit_url = url})
             /\ Cardinality({row \in S : row.is_bounce}) = SummaryBounces(P)
  <2> DEFINE R == {SessionRow(W) : W \in Visits(P)}
             rank == [row \in R |-> row.started]
  <2>1. S \in Foremost(R, AtMostExport(MaxRows), rank)
    BY DEF export_sessions, query_sessions
  <2> HIDE DEF P, rank
  <2>2. /\ IsFiniteSet(R) /\ Cardinality(R) <= MaxRows
        /\ \A url : EntryPage(P, url).sessions = Cardinality({row \in R : row.entry_url = url})
        /\ \A url : ExitPage(P, url).exits = Cardinality({row \in R : row.exit_url = url})
        /\ Cardinality({row \in R : row.is_bounce}) = SummaryBounces(P)
    BY <1>1, SessionRows
  <2> HIDE DEF R
  <2>3. S = R \/ Cardinality(S) = EXPORT_MAX_ROWS
    BY <2>1, <2>2, ExportIsFullOrAll
  <2>4. EXPORT_MAX_ROWS \in Nat
    BY ReportsAssumption
  <2>5. S = R
    BY <1>5, <2>3, <2>4
  <2> QED
    BY <2>2, <2>5
<1>6. ASSUME NEW E \in export_events(range, MaxRows)
      PROVE  P \subseteq E \/ Cardinality(E) = EXPORT_MAX_ROWS
  <2> DEFINE A == Events(range, "pageview") \cup Events(range, "custom")
             rank == [r \in A |-> r.ts]
  <2>1. E \in Foremost(A, AtMostExport(MaxRows), rank)
    BY DEF export_events, query_events_list
  <2>2. P \subseteq A /\ A \subseteq rows
    BY DEF Pageviews, Events
  <2> HIDE DEF A, rank
  <2>3. AreRows(A)
    BY <2>2, PartFine DEF RowsFine
  <2>4. IsFiniteSet(A) /\ Cardinality(A) <= MaxRows
    BY <2>3 DEF AreRows
  <2>5. E = A \/ Cardinality(E) = EXPORT_MAX_ROWS
    BY <2>1, <2>4, ExportIsFullOrAll
  <2> QED
    BY <2>2, <2>5
<1>7. ASSUME NEW ask \in campaigns(MaxRows, <<>>) \cup Breakdowns(MaxRows, <<>>),
             NEW T \in TopLists(Counted(ask, range), ask.field, ask.limit)
      PROVE  ListTotal(Counted(ask, range), ask.field, T) = Cardinality(P)
  <2>1. Counted(ask, range) = P /\ ask.limit = MaxRows
    BY UnfilteredLists
  <2>2. IsFiniteSet(P) /\ Cardinality(P) <= MaxRows
    BY <1>1 DEF AreRows
  <2> HIDE DEF P
  <2>3. T \in TopLists(P, ask.field, MaxRows)
    BY <2>1
  <2> DEFINE field == ask.field
  <2>4. T \in TopLists(P, field, MaxRows)
    BY <2>3
  <2> HIDE DEF field
  <2>5. ListTotal(P, field, T) = Cardinality(P)
    BY <2>2, <2>4, GroupSum
  <2> QED
    BY <2>1, <2>5 DEF field
<1> QED
  BY <1>3, <1>4, <1>5, <1>6, <1>7

THEOREM ReportsHold == ReportSpec => []ReportsAgree
<1>1. ReportInit => RowsFine
  BY RowsFineInit
<1>2. RowsFine /\ [ReportNext]_reportVars => RowsFine'
  BY RowsFineStep
<1> QED
  BY <1>1, <1>2, Agreement, PTL DEF ReportSpec
=============================================================================
