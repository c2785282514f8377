----------------------------- MODULE MetaStore -----------------------------
(***************************************************************************)
(* The SQLite metadata store (store/src/embedded/meta.rs): sites, the rows *)
(* that belong to a site, and the migrations of `open`.                    *)
(*                                                                         *)
(* One connection behind a mutex: an operation runs alone, but each of its *)
(* statements commits by itself, so a crash or an error falls between two. *)
(* SQLite is external, used as the code uses it: foreign_keys=ON refuses a *)
(* row without its parent and the removal of a parent with rows.           *)
(***************************************************************************)
EXTENDS Integers, Sequences, FiniteSets

CONSTANTS
    SiteId,     \* the ULIDs sites are given, each used once
    MaxFaults,  \* bound: crashes and failing statements
    MaxEdits    \* bound: changes a user or the evaluator makes to the rows of sites

ASSUME MetaBounds == IsFiniteSet(SiteId) /\ "none" \notin SiteId /\ MaxFaults \in Nat /\ MaxEdits \in Nat

Starter == {"traffic_spike", "traffic_drop", "new_referrer"}
Own == "own"            \* an alert the user has added
AlertRow == SiteId \X (Starter \cup {Own})
Table == {"funnels", "alert_channels", "digest_subscriptions", "api_keys"}
ChildRow == SiteId \X Table

VARIABLES
    sites, alerts, fires, children,  \* the tables; fires by the alert they are of
    schema_version,
    channel_id, \* whether alerts still have the legacy column, which is NOT NULL
    conn,       \* "closed", or "open" once the migrations have run
    job,        \* the operation that holds the connection
    born,       \* ULIDs already given out
    removed,    \* starter alerts the user has deleted
    exempt,     \* sites not owed the starter alerts: an operation on them was
                \* cut short, or they had alerts before version 2
    faults, edits

tables == <<sites, alerts, fires, children, schema_version, channel_id>>
past == <<born, removed, exempt, faults, edits>>
metaVars == <<tables, conn, job, past>>

Statement == [do : {"site", "starter", "fires", "alerts", "children", "row", "drop", "seed", "version2", "version3"},
              site : SiteId \cup {"none"}, arg : Starter \cup Table \cup {"none"}]
Job == [op : {"idle", "create", "delete", "migrate"}, left : Seq(Statement)]
Idle == [op |-> "idle", left |-> <<>>]

MetaTypeOK ==
    /\ sites \subseteq SiteId /\ alerts \subseteq AlertRow /\ fires \subseteq AlertRow
    /\ children \subseteq ChildRow /\ schema_version \in 1 .. 3 /\ channel_id \in BOOLEAN
    /\ conn \in {"closed", "open"} /\ job \in Job
    /\ (job.op = "idle" <=> job.left = <<>>)
    /\ born \subseteq SiteId /\ removed \subseteq AlertRow /\ exempt \subseteq SiteId
    /\ faults \in 0 .. MaxFaults /\ edits \in 0 .. MaxEdits

Do(what, site, arg) == [do |-> what, site |-> site, arg |-> arg]

(* A new database, or one that an older build has left: the alerts in it   *)
(* are the user's own, and only version 1 knew no starter alerts.          *)
MetaInit ==
    /\ sites \in SUBSET SiteId /\ born = sites
    /\ \E S \in SUBSET sites : alerts = S \X {Own} /\ schema_version \in 1 .. 2
                               /\ exempt = IF schema_version = 1 THEN S ELSE sites
    /\ fires \in {{}, alerts} /\ children = {}
    /\ channel_id \in BOOLEAN /\ conn = "closed" /\ job = Idle
    /\ removed = {} /\ faults = 0 /\ edits = 0
-----------------------------------------------------------------------------
(* Statements *)

AlertsOf(s) == {a \in alerts : a[1] = s}

(* What SQLite refuses. *)
Refused(st) ==
    \/ st.do = "starter" /\ (st.site \notin sites \/ channel_id)
    \/ st.do = "alerts" /\ AlertsOf(st.site) \cap fires # {}
    \/ st.do = "row" /\ (AlertsOf(st.site) # {} \/ \E c \in children : c[1] = st.site)

(* insert_default_alerts: three rows, one statement each. *)
StarterRows(s) ==
    <<Do("starter", s, "traffic_spike"), Do("starter", s, "traffic_drop"),
      Do("starter", s, "new_referrer")>>

(* The sites without alerts, in whatever order the query returns them. *)
seed_default_alerts_for_empty_sites ==
    LET bare == {s \in sites : AlertsOf(s) = {}}
        n == Cardinality(bare)
        Orders == {q \in [1 .. n -> bare] : \A i, j \in 1 .. n : q[i] = q[j] => i = j}
    IN  {[k \in 1 .. 3 * n |-> StarterRows(q[(k + 2) \div 3])[((k - 1) % 3) + 1]] : q \in Orders}

Execute(st) ==
    /\ sites' = CASE st.do = "site" -> sites \cup {st.site}
                  [] st.do = "row" -> sites \ {st.site}
                  [] OTHER -> sites
    /\ alerts' = CASE st.do = "starter" -> alerts \cup {<<st.site, st.arg>>}
                   [] st.do = "alerts" -> alerts \ AlertsOf(st.site)
                   [] OTHER -> alerts
    /\ fires' = IF st.do = "fires" THEN fires \ AlertsOf(st.site) ELSE fires
    /\ children' = IF st.do = "children" THEN children \ {<<st.site, st.arg>>} ELSE children
    /\ schema_version' = CASE st.do = "version2" -> 2
                           [] st.do = "version3" -> 3
                           [] OTHER -> schema_version
    /\ channel_id' = (channel_id /\ st.do # "drop")

(* What the next statement unfolds into: the seed, a query and the rows of *)
(* the sites it finds.                                                     *)
Unfolded == IF Head(job.left).do = "seed" THEN seed_default_alerts_for_empty_sites ELSE {<<>>}

(* The connection runs the next statement; the end of the migrations opens *)
(* the store.                                                              *)
RunStatement ==
    /\ job.op # "idle" /\ ~Refused(Head(job.left))
    /\ Execute(Head(job.left))
    /\ \E more \in Unfolded :
       LET left == more \o Tail(job.left)
       IN  /\ job' = IF left = <<>> THEN Idle ELSE [job EXCEPT !.left = left]
           /\ conn' = IF left = <<>> THEN "open" ELSE conn
    /\ UNCHANGED past

(* Who is left with part of an operation. *)
CutShort == IF job.op = "idle" THEN {} ELSE {job.left[i].site : i \in DOMAIN job.left} \ {"none"}

(* A refused or failing statement ends its operation with an error, and    *)
(* what ran before it stays; without its migrations the store is not open. *)
StatementFails ==
    /\ job.op # "idle"
    /\ Refused(Head(job.left)) \/ faults < MaxFaults
    /\ faults' = IF Refused(Head(job.left)) THEN faults ELSE faults + 1
    /\ exempt' = exempt \cup CutShort /\ job' = Idle
    /\ UNCHANGED <<tables, conn, born, removed, edits>>

Crash ==
    /\ faults < MaxFaults /\ faults' = faults + 1
    /\ conn' = "closed" /\ job' = Idle /\ exempt' = exempt \cup CutShort
    /\ UNCHANGED <<tables, born, removed, edits>>
-----------------------------------------------------------------------------
(* Operations of several statements *)

Migrations_Bug ==
    (IF channel_id THEN <<Do("drop", "none", "none")>> ELSE <<>>)
    \o <<Do("seed", "none", "none"), Do("version3", "none", "none")>>
Migrations ==
    (IF channel_id THEN <<Do("drop", "none", "none")>> ELSE <<>>)
    \o (IF schema_version < 2 THEN <<Do("seed", "none", "none"), Do("version2", "none", "none")>> ELSE <<>>)
    \o (IF schema_version < 3 THEN <<Do("version3", "none", "none")>> ELSE <<>>)

(* open and migrate; creating the tables may be repeated, and rebuilding   *)
(* one without the legacy column is one transaction.                       *)
Open ==
    /\ conn = "closed" /\ job = Idle
    /\ IF Migrations = <<>> THEN conn' = "open" /\ UNCHANGED job
       ELSE job' = [op |-> "migrate", left |-> Migrations] /\ UNCHANGED conn
    /\ UNCHANGED <<tables, past>>

Ready == conn = "open" /\ job = Idle

create_site_Bug(s) ==
    /\ Ready /\ s \notin born /\ born' = born \cup {s}
    /\ job' = [op |-> "create", left |-> <<Do("site", s, "none")>>]
    /\ UNCHANGED <<tables, conn, removed, exempt, faults, edits>>
create_site(s) ==
    /\ Ready /\ s \notin born /\ born' = born \cup {s}
    /\ job' = [op |-> "create", left |-> <<Do("site", s, "none")>> \o StarterRows(s)]
    /\ UNCHANGED <<tables, conn, removed, exempt, faults, edits>>

delete_site_Bug(s) ==
    /\ Ready /\ s \in born
    /\ job' = [op |-> "delete",
               left |-> <<Do("alerts", s, "none"),
                          Do("children", s, "funnels"), Do("children", s, "alert_channels"),
                          Do("children", s, "digest_subscriptions"),
                          Do("children", s, "api_keys"), Do("row", s, "none")>>]
    /\ UNCHANGED <<tables, conn, past>>
delete_site(s) ==
    /\ Ready /\ s \in born
    /\ job' = [op |-> "delete",
               left |-> <<Do("fires", s, "none"), Do("alerts", s, "none"),
                          Do("children", s, "funnels"), Do("children", s, "alert_channels"),
                          Do("children", s, "digest_subscriptions"),
                          Do("children", s, "api_keys"), Do("row", s, "none")>>]
    /\ UNCHANGED <<tables, conn, past>>
-----------------------------------------------------------------------------
(* Operations of one statement; one that is refused changes nothing. *)

Edit == Ready /\ edits < MaxEdits /\ edits' = edits + 1

Insert(s, table) ==
    /\ Edit /\ s \in sites /\ children' = children \cup {<<s, table>>}
    /\ UNCHANGED <<sites, alerts, fires, schema_version, channel_id, conn, job, born, removed, exempt, faults>>
Delete(s, table) ==
    /\ Edit /\ <<s, table>> \in children /\ children' = children \ {<<s, table>>}
    /\ UNCHANGED <<sites, alerts, fires, schema_version, channel_id, conn, job, born, removed, exempt, faults>>

create_funnel(s) == Insert(s, "funnels")
delete_funnel(s) == Delete(s, "funnels")
create_alert_channel(s) == Insert(s, "alert_channels")
delete_alert_channel(s) == Delete(s, "alert_channels")
upsert_digest_subscription(s) == Insert(s, "digest_subscriptions")
delete_digest_subscription(s) == Delete(s, "digest_subscriptions")
create_api_key(s) == Insert(s, "api_keys")
delete_api_key(s) == Delete(s, "api_keys")

create_analytics_alert(s) ==
    /\ Edit /\ s \in sites /\ alerts' = alerts \cup {<<s, Own>>}
    /\ UNCHANGED <<sites, fires, children, schema_version, channel_id, conn, job, born, removed, exempt, faults>>

(* An alert that has fired is the parent of its fires. *)
delete_analytics_alert(a) ==
    /\ Edit /\ a \in alerts \ fires /\ alerts' = alerts \ {a}
    /\ removed' = IF a[2] \in Starter THEN removed \cup {a} ELSE removed
    /\ UNCHANGED <<sites, fires, children, schema_version, channel_id, conn, job, born, exempt, faults>>

record_analytics_alert_fire(a) ==
    /\ Edit /\ a \in alerts /\ fires' = fires \cup {a}
    /\ UNCHANGED <<sites, alerts, children, schema_version, channel_id, conn, job, born, removed, exempt, faults>>

MetaNext ==
    \/ RunStatement \/ StatementFails \/ Crash \/ Open
    \/ \E s \in SiteId :
          \/ create_site(s) \/ delete_site(s)
          \/ create_funnel(s) \/ delete_funnel(s)
          \/ create_alert_channel(s) \/ delete_alert_channel(s)
          \/ upsert_digest_subscription(s) \/ delete_digest_subscription(s)
          \/ create_api_key(s) \/ delete_api_key(s)
          \/ create_analytics_alert(s)
    \/ \E a \in AlertRow : delete_analytics_alert(a) \/ record_analytics_alert_fire(a)

MetaSpec == MetaInit /\ [][MetaNext]_metaVars
-----------------------------------------------------------------------------
(* meta.rs:562-565 "Clear them before the site row itself", meta.rs:166    *)
(* "Must run before v2 seed": no statement of an operation of several is   *)
(* refused by a constraint, whatever rows there are and wherever earlier   *)
(* operations broke off; so a site can be deleted and the store opens.     *)
NoStatementIsRefused ==
    job.op # "idle" => ~Refused(Head(job.left))

(* meta.rs:474, meta.rs:169: a site has the three starter alerts, less     *)
(* those the user has deleted, unless the operation that was to write them *)
(* was cut short; so every path that makes or upgrades a site seeds it.    *)
StartersAreThere ==
    Ready => \A s \in sites \ exempt : {s} \X Starter \subseteq alerts \cup removed

(* meta.rs:170 "so deleting them later sticks": no restart brings back a   *)
(* starter alert that the user has deleted.                                *)
DeletedStartersStayAway == removed \cap alerts = {}
=============================================================================
