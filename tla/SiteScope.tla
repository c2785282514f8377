----------------------------- MODULE SiteScope -----------------------------
(***************************************************************************)
(* The handlers of the JSON API that work on the sites of the organisation *)
(* and on the rows of a site (api/src/routes: analytics.rs, insights.rs,   *)
(* api_keys.rs, digest.rs, sites.rs), behind require_api_auth.             *)
(*                                                                         *)
(* A handler resolves its path, checks the credential, looks for the row   *)
(* it is asked about, and acts; it awaits the store between these steps    *)
(* and nothing is locked, so that domains move, keys and rows are made and *)
(* deleted under a handler that has already checked them.                  *)
(*                                                                         *)
(* A row's ULID is used once and its site never changes.  Nothing in the   *)
(* server deletes a site.  There is one organisation and one user.         *)
(***************************************************************************)
EXTENDS FiniteSets

CONSTANTS
    Request,    \* requests that may be in flight at once
    Site,       \* ULIDs of sites
    Row,        \* ULIDs of the rows below a site
    Domain,
    Served,     \* the handlers a request may be for: every route, or a part
    Dashboard,  \* the principals User and Session
    Org,        \* what an organisation-wide key is bound to
    None

ASSUME ScopeNames ==
    /\ Site \cap (Domain \cup Row \cup {Dashboard, Org, None}) = {}
    /\ None \notin Domain \cup Row \cup {Dashboard, Org}
    /\ Dashboard # Org /\ Org \notin Domain

(* A handler: whom it serves, what its path may name a site by, the table  *)
(* it works on and what it does there.                                     *)
For(whom, path, kind, does) == [whom |-> whom, path |-> path, kind |-> kind, does |-> does]

report                 == For("anyone", "any", "events", "run")
list_sites             == For("anyone", "none", "site", "list")
create_site_api        == For("dashboard", "none", "site", "create")
patch_site_api         == For("dashboard", "ulid", "site", "patch")
list_funnels           == For("anyone", "any", "funnel", "list")
create_funnel          == For("anyone", "any", "funnel", "create")
delete_funnel          == For("anyone", "any", "funnel", "delete")
funnel_result          == For("anyone", "any", "funnel", "run")
list_analytics_alerts  == For("anyone", "any", "alert", "list")
create_analytics_alert == For("dashboard", "any", "alert", "create")
patch_analytics_alert  == For("dashboard", "any", "alert", "patch")
delete_analytics_alert == For("dashboard", "any", "alert", "delete")
list_channels_api      == For("dashboard", "ulid", "channel", "list")
create_channel_api     == For("dashboard", "ulid", "channel", "create")
delete_channel_api     == For("dashboard", "ulid", "channel", "delete")
test_channel_api       == For("dashboard", "ulid", "channel", "run")
list_keys_api          == For("dashboard", "none", "key", "list")
create_key_api         == For("dashboard", "body", "key", "create")
delete_key_api         == For("dashboard", "none", "key", "delete")
list_site_keys_api     == For("dashboard", "ulid", "key", "list")
create_site_key_api    == For("dashboard", "ulid", "key", "create")
delete_site_key_api    == For("dashboard", "ulid", "key", "delete")
get_subscription       == For("user", "any", "subscription", "list")
put_subscription       == For("user", "any", "subscription", "put")
delete_subscription    == For("user", "any", "subscription", "clear")
send_test              == For("user", "any", "subscription", "run")

Routes ==
    {report, list_sites, create_site_api, patch_site_api,
     list_funnels, create_funnel, delete_funnel, funnel_result,
     list_analytics_alerts, create_analytics_alert, patch_analytics_alert, delete_analytics_alert,
     list_channels_api, create_channel_api, delete_channel_api, test_channel_api,
     list_keys_api, create_key_api, delete_key_api,
     list_site_keys_api, create_site_key_api, delete_site_key_api,
     get_subscription, put_subscription, delete_subscription, send_test}

ASSUME ServedAssumption == Served \in [Request -> SUBSET Routes]

VARIABLES
    domain,   \* the domain of a site, None until it is created
    active,   \* the sites that are active
    rows,     \* what each ULID is: a row of a site, unused, or deleted
    request   \* what each request is at

scopeVars == <<domain, active, rows, request>>

Kind == {"funnel", "alert", "channel", "key", "subscription"}
Entry(kind, site) == [kind |-> kind, site |-> site]
Unused == Entry("unused", None)
Deleted == Entry("deleted", None)
Idle == [at |-> "idle", h |-> None, who |-> None, site |-> None, row |-> None, saw |-> {}]

Exists(s) == domain[s] # None

(* The rows of a table that belong to a site.                              *)
RowsOf(kind, s) == {i \in Row : rows[i] = Entry(kind, s)}

ScopeTypeOK ==
    /\ domain \in [Site -> Domain \cup {None}] /\ active \subseteq Site
    /\ rows \in [Row -> [kind : Kind, site : Site \cup {Org}] \cup {Unused, Deleted}]
    /\ request \in [Request -> [at : {"idle", "resolve", "authorize", "find", "act", "answer"},
                                h : Routes \cup {None}, who : Site \cup {Org, Dashboard, None},
                                site : Site \cup Domain \cup {Org, None}, row : Row \cup {None},
                                saw : SUBSET (Site \cup {Org})]]

ScopeInit ==
    /\ domain \in [Site -> Domain \cup {None}] /\ active = {s \in Site : Exists(s)}
    /\ rows = [i \in Row |-> Unused] /\ request = [q \in Request |-> Idle]
-----------------------------------------------------------------------------
Goes(q, at) == request' = [request EXCEPT ![q].at = at]
Refuses(q) == request' = [request EXCEPT ![q] = Idle]
Tables == <<domain, active, rows>>

(* require_api_auth: a session, or a read key and what it is bound to; a   *)
(* key that a handler lets in may meanwhile be deleted.  A ULID in the     *)
(* path is taken as it is; a domain is looked up; a key to be made names   *)
(* its site in the body, or none.                                          *)
Arrive(q) ==
    /\ request[q] = Idle
    /\ \E h \in Served[q], who \in {Dashboard, Org} \cup {s \in Site : Exists(s)} :
          /\ h.whom = "dashboard" => who = Dashboard
          /\ \E named \in CASE h.path = "any" -> Site \cup Domain
                            [] h.path = "ulid" -> Site
                            [] h.path = "body" -> Site \cup {Org}
                            [] OTHER -> {None} :
             request' = [request EXCEPT ![q] =
               [at |-> CASE named \in Domain -> "resolve" [] named \in Site -> "authorize" [] OTHER -> "find",
                h |-> h, who |-> who, site |-> named, row |-> None, saw |-> {}]]
    /\ UNCHANGED Tables

(* resolve_site_id and get_site_by_domain: domains are not unique, and any *)
(* active site with the domain will do.                                    *)
resolve_site_id(q) ==
    LET at == {s \in active : domain[s] = request[q].site}
    IN  /\ request[q].at = "resolve"
        /\ \/ \E s \in at : request' = [request EXCEPT ![q].site = s, ![q].at = "authorize"]
           \/ at = {} /\ Refuses(q)
        /\ UNCHANGED Tables

(* A session may name any site; a key the one it is bound to, or any of    *)
(* the organisation's, if there is such a site.  No key is a user.         *)
Admits(h, who, s) ==
    \/ who = Dashboard
    \/ h.whom = "anyone" /\ who \in {s, Org} /\ Exists(s)

resolve_authorized_site(q) ==
    /\ request[q].at = "authorize"
    /\ IF Admits(request[q].h, request[q].who, request[q].site) THEN Goes(q, "find") ELSE Refuses(q)
    /\ UNCHANGED Tables
-----------------------------------------------------------------------------
(* What a handler finds before it acts: the row it is asked about, or that *)
(* nothing stands in its way.                                              *)
If(cond) == IF cond THEN {None} ELSE {}

(* The row of a ULID, if it belongs to the site of the path: get_funnel    *)
(* and get_analytics_alert go by ULID alone, and the handler compares the  *)
(* row's site_id; a channel is looked for among those of the site.         *)
RowFor_Bug(h, s) == {i \in Row : rows[i].kind = h.kind /\ (h = funnel_result \/ rows[i].site = s)}
RowFor(h, s) == {i \in Row : rows[i].kind = h.kind /\ rows[i].site = s}

Finds(h, s) ==
    CASE h = delete_key_api -> Row
      [] h = delete_site_key_api -> IF Exists(s) THEN RowsOf("key", s) \cup RowsOf("key", Org) ELSE {}
      [] h \in {create_key_api, create_site_key_api, list_site_keys_api, patch_site_api} ->
            If(s = Org \/ Exists(s))
      [] h = create_analytics_alert -> If(RowsOf("channel", s) # {})
      [] h = put_subscription -> RowsOf("subscription", s) \cup If(RowsOf("subscription", s) = {})
      [] h = send_test -> RowsOf("subscription", s)
      [] h \in {funnel_result, delete_funnel, patch_analytics_alert, delete_analytics_alert,
                test_channel_api, delete_channel_api} -> RowFor(h, s)
      [] OTHER -> {None}

Sites(R) == {rows[i].site : i \in R}

(* A row that is to be run is kept as it was read, and will be run and     *)
(* answered even if it is deleted meanwhile.                               *)
Find(q) ==
    LET h == request[q].h
        found == Finds(h, request[q].site)
    IN  /\ request[q].at = "find"
        /\ \/ \E i \in found :
                 request' = [request EXCEPT ![q].row = i, ![q].at = "act",
                                            ![q].saw = IF h.does = "run" THEN Sites({i} \cap Row) ELSE {}]
           \/ found = {} /\ Refuses(q)
        /\ UNCHANGED Tables

(* The answer, or the change, is about these sites. *)
Answer(q, saw) ==
    request' = [request EXCEPT ![q] =
      [at |-> "answer", h |-> None, who |-> @.who, site |-> @.site, row |-> None, saw |-> saw]]

(* The sites of a list of sites: all, or the one a key is bound to.        *)
Visible(who) == {s \in Site : Exists(s) /\ who \in {Dashboard, Org, s}}

Listed(h, who, s) ==
    CASE h = list_sites -> Visible(who)
      [] h = list_keys_api -> Sites({i \in Row : rows[i].kind = "key"})
      [] h = list_site_keys_api -> Sites(RowsOf("key", s) \cup RowsOf("key", Org))
      [] OTHER -> Sites(RowsOf(h.kind, s))

(* Lists and reports; the funnel that was read, run over the site of the   *)
(* path; a message to the channel that was read, or by send_test to those  *)
(* the site has once the subscription was read.                            *)
Ran(h, s, saw) == {s} \cup saw \cup IF h = send_test THEN Sites(RowsOf("channel", s)) ELSE {}

Read(q) ==
    LET h == request[q].h  s == request[q].site  IN
    /\ request[q].at = "act" /\ h.does \in {"list", "run"}
    /\ IF h = send_test /\ RowsOf("channel", s) = {} THEN Refuses(q)
       ELSE Answer(q, IF h.does = "list" THEN Listed(h, request[q].who, s) ELSE Ran(h, s, request[q].saw))
    /\ UNCHANGED Tables

(* A row needs its site; a key may be for the organisation.                *)
Create(q) ==
    LET h == request[q].h  s == request[q].site  IN
    /\ request[q].at = "act" /\ h.does = "create" /\ h.kind # "site"
    /\ \E for \in IF h = create_site_key_api THEN {s, Org} ELSE {s} :
          IF for = Org \/ Exists(for)
          THEN \E i \in Row : /\ rows[i] = Unused
                              /\ rows' = [rows EXCEPT ![i] = Entry(h.kind, for)]
                              /\ Answer(q, {for})
          ELSE Refuses(q) /\ UNCHANGED rows
    /\ UNCHANGED <<domain, active>>

(* delete_funnel and the like, by ULID alone; and set_analytics_alert_     *)
(* enabled, which changes nothing that is modelled.  A ULID of another     *)
(* table, or one already deleted, matches no row.                          *)
Change(q) ==
    LET h == request[q].h  i == request[q].row  IN
    /\ request[q].at = "act" /\ h.does \in {"delete", "patch"} /\ h.kind # "site"
    /\ IF rows[i].kind = h.kind
       THEN /\ Answer(q, {rows[i].site})
            /\ rows' = IF h.does = "delete" THEN [rows EXCEPT ![i] = Deleted] ELSE rows
       ELSE Answer(q, {}) /\ UNCHANGED rows
    /\ UNCHANGED <<domain, active>>

(* upsert_digest_subscription: ON CONFLICT(user_id, site_id) keeps the row *)
(* and its id; without one the row gets the id read before, or a new one.  *)
Upserts_Bug(i, s) == [rows EXCEPT ![i] = Entry("subscription", s)]
Upserts(i, s) ==
    IF RowsOf("subscription", s) # {} THEN rows ELSE [rows EXCEPT ![i] = Entry("subscription", s)]

Put(q) ==
    LET s == request[q].site  IN
    /\ request[q].at = "act" /\ request[q].h = put_subscription
    /\ IF Exists(s)
       THEN /\ \E i \in IF request[q].row = None THEN {j \in Row : rows[j] = Unused} ELSE {request[q].row} :
                  rows' = Upserts(i, s)
            /\ Answer(q, {s})
       ELSE Refuses(q) /\ UNCHANGED rows
    /\ UNCHANGED <<domain, active>>

(* delete_digest_subscription is by user and site. *)
Clear(q) ==
    /\ request[q].at = "act" /\ request[q].h = delete_subscription
    /\ rows' = [i \in Row |-> IF i \in RowsOf("subscription", request[q].site) THEN Deleted ELSE rows[i]]
    /\ Answer(q, {request[q].site})
    /\ UNCHANGED <<domain, active>>

CreateSite(q) ==
    /\ request[q].at = "act" /\ request[q].h = create_site_api
    /\ \E s \in Site, d \in Domain :
          /\ ~Exists(s) /\ domain' = [domain EXCEPT ![s] = d]
          /\ active' = active \cup {s} /\ Answer(q, {s})
    /\ UNCHANGED rows

(* update_site writes the whole row: what the body says of the domain and  *)
(* of is_active, and what was read of the others.                          *)
PatchSite(q) ==
    LET s == request[q].site  IN
    /\ request[q].at = "act" /\ request[q].h = patch_site_api
    /\ \E d \in Domain, on \in BOOLEAN :
          /\ domain' = [domain EXCEPT ![s] = d]
          /\ active' = IF on THEN active \cup {s} ELSE active \ {s}
    /\ Answer(q, {s}) /\ UNCHANGED rows

Reply(q) == request[q].at = "answer" /\ Refuses(q) /\ UNCHANGED Tables

(* An error of the store, or a client that is gone, ends a handler at any  *)
(* of its awaits.                                                          *)
BreaksOff(q) == request[q].at \notin {"idle", "answer"} /\ Refuses(q) /\ UNCHANGED Tables

ScopeNext ==
    \E q \in Request :
       \/ Arrive(q) \/ resolve_site_id(q) \/ resolve_authorized_site(q) \/ Find(q)
       \/ Read(q) \/ Create(q) \/ Change(q) \/ Put(q) \/ Clear(q)
       \/ CreateSite(q) \/ PatchSite(q) \/ Reply(q) \/ BreaksOff(q)

ScopeSpec == ScopeInit /\ [][ScopeNext]_scopeVars
-----------------------------------------------------------------------------
(* analytics.rs:86 "Read API keys are confined to their org (and, if       *)
(* site-bound, that single site)", analytics.rs:937 "a funnel id from      *)
(* another site must not run (or leak step names)": whatever moves between *)
(* a handler's steps, the rows that a bound key is told, runs or changes   *)
(* are its own site's, and those that a request under the path of a site   *)
(* is told, runs or changes are that site's, or keys of the organisation.  *)
ConfinedToSite ==
    \A q \in Request : request[q].at = "answer" =>
        /\ request[q].who \in Site => request[q].saw \subseteq {request[q].who}
        /\ request[q].site \in Site => request[q].saw \subseteq {request[q].site, Org}

(* routes/digest.rs:142 "so the row is stable": however reads and writes   *)
(* of PUTs and DELETEs interleave, the user has one subscription to a      *)
(* site at most.                                                           *)
OneSubscription == \A s \in Site : \A i, j \in RowsOf("subscription", s) : i = j
=============================================================================
