-------------------------- MODULE SiteScopeProofs --------------------------
(***************************************************************************)
(* Proofs about SiteScope, for any number of sites, rows, domains and      *)
(* requests and whatever part of the routes each request may be for.       *)
(***************************************************************************)
EXTENDS SiteScope, TLAPS

Under(r) == r.at \in {"resolve", "authorize", "find", "act"}

(* What a request carries on its way.  Once past the check of its          *)
(* credential a bound key is under the path of its own site, or lists the  *)
(* sites; a row that was found and is not deleted is still of the table    *)
(* and the site it was found in, since a ULID starts unused and is a row   *)
(* of another table only after that.  A row that is to be run was read in  *)
(* the site of the path.                                                   *)
Carries(r) ==
    /\ r.at # "idle" => r.who \in Site \cup {Org, Dashboard}
    /\ Under(r) => r.h \in Routes /\ (r.who \in Site => r.h.whom # "dashboard")
    /\ r.at = "resolve" => r.site \in Domain
    /\ r.at = "authorize" => r.site \in Site
    /\ r.at \in {"resolve", "authorize"} => r.h.path # "none"
    /\ r.at \in {"find", "act"} /\ r.h.path = "none" => r.site = None
    /\ r.at \in {"find", "act"} /\ r.h.path \notin {"none", "body"} => r.site \in Site
    /\ r.at \in {"find", "act"} => r.site = None \/ r.site \in Site \cup {Org}
    /\ r.at \in {"find", "act"} /\ r.h.path # "none" => r.site \in Site \cup {Org}
    /\ r.at \in {"find", "act"} /\ r.who \in Site => r.site = r.who \/ (r.h = list_sites /\ r.site = None)
    /\ r.at = "act" /\ r.h.does = "run" => r.saw \subseteq {r.site}

Holds(r, R) ==
    r.at = "act" /\ r.h \in Routes /\ r.h.does \in {"delete", "patch"} /\ r.h.kind # "site" =>
        /\ r.row \in Row
        /\ r.site \in Site =>
              /\ R[r.row] # Unused
              /\ R[r.row].kind = r.h.kind =>
                    R[r.row].site = r.site \/ (r.h = delete_site_key_api /\ R[r.row].site = Org)

Confined(r) ==
    r.at = "answer" =>
        /\ r.who \in Site => r.saw \subseteq {r.who}
        /\ r.site \in Site => r.saw \subseteq {r.site, Org}

ScopeInv ==
    /\ ScopeTypeOK
    /\ \A q \in Request : Carries(request[q]) /\ Holds(request[q], rows) /\ Confined(request[q])
-----------------------------------------------------------------------------
(* The table of the routes, as far as the proofs look into it. *)
LEMMA RouteFacts ==
    ASSUME NEW h \in Routes
    PROVE  /\ h.does = "create" /\ h.kind # "site" => h.kind \in Kind /\ h.path # "none" /\ h.kind # "subscription"
           /\ h.does \in {"delete", "patch"} /\ h.kind # "site" =>
                 h.kind \in Kind \ {"subscription"}
           /\ h.does \in {"delete", "patch"} /\ h.kind # "site" =>
                 \/ h = delete_key_api
                 \/ h = delete_site_key_api
                 \/ h \in {delete_funnel, patch_analytics_alert, delete_analytics_alert, delete_channel_api}
           /\ h.does = "run" => h.path # "none" /\ h.kind # "site"
           /\ h.does = "run" => h \in {report, funnel_result, test_channel_api, send_test}
           /\ h.does = "list" => h.kind \in Kind \/ h = list_sites
           /\ h.whom # "dashboard" /\ h.path \notin {"any", "ulid"} => h = list_sites
           /\ h.path \in {"any", "ulid", "body", "none"}
           /\ h.whom \in {"anyone", "dashboard", "user"}
  BY DEF Routes, For, Kind, report, list_sites, create_site_api, patch_site_api, list_funnels,
         create_funnel, delete_funnel, funnel_result, list_analytics_alerts,
         create_analytics_alert, patch_analytics_alert, delete_analytics_alert,
         list_channels_api, create_channel_api, delete_channel_api, test_channel_api,
         list_keys_api, create_key_api, delete_key_api, list_site_keys_api,
         create_site_key_api, delete_site_key_api, get_subscription, put_subscription,
         delete_subscription, send_test

(* The routes that a step names, told apart. *)
LEMMA NamedRoutes ==
    /\ {list_sites, patch_site_api, create_site_api, delete_key_api, delete_site_key_api, create_site_key_api,
        create_key_api, list_site_keys_api, create_analytics_alert, put_subscription, send_test,
        list_keys_api, delete_subscription, delete_funnel, patch_analytics_alert,
        delete_analytics_alert, delete_channel_api} \subseteq Routes
    /\ \A h \in {delete_funnel, patch_analytics_alert, delete_analytics_alert, delete_channel_api} :
          /\ h \notin {delete_key_api, delete_site_key_api, create_key_api, create_site_key_api,
                       list_site_keys_api, patch_site_api, create_analytics_alert,
                       put_subscription, send_test}
          /\ h.kind \notin {"site"}
    /\ \A h \in {delete_key_api, delete_site_key_api} :
          h \notin {create_key_api, create_site_key_api, list_site_keys_api, patch_site_api,
                    create_analytics_alert, put_subscription, send_test, funnel_result, delete_funnel,
                    patch_analytics_alert, delete_analytics_alert, test_channel_api, delete_channel_api}
    /\ delete_site_key_api # delete_key_api /\ delete_site_key_api.kind = "key"
    /\ delete_site_key_api.whom = "dashboard"
    /\ delete_key_api.path = "none" /\ list_keys_api.whom = "dashboard"
    /\ list_sites # list_keys_api /\ list_keys_api # list_site_keys_api /\ list_sites # list_site_keys_api
    /\ list_keys_api.path = "none" /\ list_sites.path = "none" /\ list_site_keys_api.whom = "dashboard"
    /\ list_sites.does = "list"
    /\ put_subscription.path = "any" /\ delete_subscription.path = "any" /\ patch_site_api.path = "ulid"
    /\ create_site_api.whom = "dashboard" /\ create_site_api.path = "none"
    /\ create_site_key_api.whom = "dashboard"
    /\ put_subscription # list_sites /\ delete_subscription # list_sites /\ patch_site_api # list_sites
    /\ report \notin {delete_key_api, delete_site_key_api, create_key_api, create_site_key_api,
                      list_site_keys_api, patch_site_api, create_analytics_alert, put_subscription,
                      send_test, funnel_result, delete_funnel, patch_analytics_alert,
                      delete_analytics_alert, test_channel_api, delete_channel_api}
    /\ \A h \in {funnel_result, test_channel_api} :
          h \notin {delete_key_api, delete_site_key_api, create_key_api, create_site_key_api,
                   list_site_keys_api, patch_site_api, create_analytics_alert, put_subscription, send_test}
    /\ send_test \notin {delete_key_api, delete_site_key_api, create_key_api, create_site_key_api,
                         list_site_keys_api, patch_site_api, create_analytics_alert, put_subscription}
    /\ send_test.does = "run" /\ send_test.path = "any"
  BY DEF Routes, For, report, list_sites, create_site_api, patch_site_api, list_funnels,
         create_funnel, delete_funnel, funnel_result, list_analytics_alerts,
         create_analytics_alert, patch_analytics_alert, delete_analytics_alert,
         list_channels_api, create_channel_api, delete_channel_api, test_channel_api,
         list_keys_api, create_key_api, delete_key_api, list_site_keys_api,
         create_site_key_api, delete_site_key_api, get_subscription, put_subscription,
         delete_subscription, send_test
-----------------------------------------------------------------------------
Requests ==
    [at : {"idle", "resolve", "authorize", "find", "act", "answer"},
     h : Routes \cup {None}, who : Site \cup {Org, Dashboard, None},
     site : Site \cup Domain \cup {Org, None}, row : Row \cup {None}, saw : SUBSET (Site \cup {Org})]
RowValues == [kind : Kind, site : Site \cup {Org}] \cup {Unused, Deleted}

(* What a step may do to a row that is in use. *)
RowsMove ==
    \A i \in Row : rows[i] # Unused =>
        rows'[i] # Unused /\ (rows'[i].kind \in {"subscription", "deleted"} \/ rows'[i] = rows[i])

LEMMA RowsStay == rows' = rows => RowsMove
  BY DEF RowsMove

(* What another request has found is not disturbed. *)
LEMMA OthersHold ==
    ASSUME ScopeTypeOK, RowsMove, NEW q \in Request, Holds(request[q], rows)
    PROVE  Holds(request[q], rows')
<1> DEFINE r == request[q]
<1> SUFFICES ASSUME r.at = "act", r.h \in Routes, r.h.does \in {"delete", "patch"}, r.h.kind # "site"
             PROVE  /\ r.row \in Row
                    /\ r.site \in Site =>
                          /\ rows'[r.row] # Unused
                          /\ rows'[r.row].kind = r.h.kind =>
                                rows'[r.row].site = r.site \/ (r.h = delete_site_key_api /\ rows'[r.row].site = Org)
  BY DEF Holds
<1>1. r.h.kind \in Kind \ {"subscription"}
  BY RouteFacts
<1>2. r.row \in Row /\ (r.site \in Site => rows[r.row] # Unused
         /\ (rows[r.row].kind = r.h.kind =>
                rows[r.row].site = r.site \/ (r.h = delete_site_key_api /\ rows[r.row].site = Org)))
  BY DEF Holds
<1>3. r.h.kind \notin {"subscription", "deleted"}
  BY <1>1 DEF Kind
<1> QED BY <1>2, <1>3 DEF RowsMove

(* A step of one request leaves the invariant, if what it makes of that    *)
(* request and of the tables does.                                         *)
LEMMA OneRequestMoves ==
    ASSUME ScopeInv, NEW q \in Request, NEW r \in Requests,
           request' = [request EXCEPT ![q] = r],
           domain' \in [Site -> Domain \cup {None}], active' \subseteq Site,
           rows' \in [Row -> RowValues], RowsMove,
           Carries(r), Holds(r, rows'), Confined(r)
    PROVE  ScopeInv'
<1>1. ScopeTypeOK'
  BY DEF ScopeInv, ScopeTypeOK, Requests, RowValues
<1>2. ASSUME NEW p \in Request
      PROVE  Carries(request'[p]) /\ Holds(request'[p], rows') /\ Confined(request'[p])
  <2>1. CASE p = q
    BY <2>1 DEF ScopeInv, ScopeTypeOK
  <2>2. CASE p # q
    <3>1. request'[p] = request[p]
      BY <2>2 DEF ScopeInv, ScopeTypeOK
    <3>2. Holds(request[p], rows')
      BY OthersHold DEF ScopeInv
    <3> QED BY <3>1, <3>2 DEF ScopeInv
  <2> QED BY <2>1, <2>2
<1> QED BY <1>1, <1>2 DEF ScopeInv

(* The frame of a step that changes no table. *)
LEMMA TablesStay ==
    ASSUME ScopeInv, UNCHANGED Tables
    PROVE  /\ domain' \in [Site -> Domain \cup {None}] /\ active' \subseteq Site
           /\ rows' \in [Row -> RowValues] /\ rows' = rows /\ RowsMove
  BY RowsStay DEF ScopeInv, ScopeTypeOK, Tables, RowValues

LEMMA RequestTyped ==
    ASSUME ScopeInv, NEW q \in Request
    PROVE  /\ request[q] \in Requests /\ Carries(request[q]) /\ Holds(request[q], rows)
           /\ Confined(request[q]) /\ request \in [Request -> Requests]
  BY DEF ScopeInv, ScopeTypeOK, Requests

LEMMA Refused ==
    ASSUME ScopeInv, NEW q \in Request, Refuses(q),
           domain' \in [Site -> Domain \cup {None}], active' \subseteq Site,
           rows' \in [Row -> RowValues], RowsMove
    PROVE  ScopeInv'
<1>1. Idle \in Requests /\ Carries(Idle) /\ Holds(Idle, rows') /\ Confined(Idle)
  BY DEF Idle, Requests, Carries, Holds, Confined, Under
<1> HIDE DEF Idle
<1>2. request' = [request EXCEPT ![q] = Idle]
  BY DEF Refuses
<1> QED BY <1>1, <1>2, OneRequestMoves

LEMMA Answered ==
    ASSUME ScopeInv, NEW q \in Request, NEW saw \in SUBSET (Site \cup {Org}), Answer(q, saw),
           request[q].at # "idle",
           domain' \in [Site -> Domain \cup {None}], active' \subseteq Site,
           rows' \in [Row -> RowValues], RowsMove,
           request[q].who \in Site => saw \subseteq {request[q].who},
           request[q].site \in Site => saw \subseteq {request[q].site, Org}
    PROVE  ScopeInv'
<1> DEFINE r == [at |-> "answer", h |-> None, who |-> request[q].who, site |-> request[q].site,
                 row |-> None, saw |-> saw]
<1>1. request' = [request EXCEPT ![q] = r]
  BY RequestTyped DEF Answer
<1>2. r \in Requests
  BY RequestTyped DEF Requests
<1>3. Carries(r) /\ Holds(r, rows') /\ Confined(r)
  BY RequestTyped DEF Carries, Holds, Confined, Under, Requests
<1> HIDE DEF r
<1> QED BY <1>1, <1>2, <1>3, OneRequestMoves
-----------------------------------------------------------------------------
(* One lemma for each action. *)

LEMMA ArriveKeeps == ASSUME ScopeInv, NEW q \in Request, Arrive(q) PROVE ScopeInv'
<1>1. PICK h \in Served[q], who \in {Dashboard, Org} \cup {s \in Site : Exists(s)} :
         /\ h.whom = "dashboard" => who = Dashboard
         /\ \E named \in CASE h.path = "any" -> Site \cup Domain
                           [] h.path = "ulid" -> Site
                           [] h.path = "body" -> Site \cup {Org}
                           [] OTHER -> {None} :
            request' = [request EXCEPT ![q] =
              [at |-> CASE named \in Domain -> "resolve" [] named \in Site -> "authorize" [] OTHER -> "find",
               h |-> h, who |-> who, site |-> named, row |-> None, saw |-> {}]]
  BY DEF Arrive
<1>2. h \in Routes /\ who \in Site \cup {Dashboard, Org} /\ Dashboard \notin Site /\ Org \notin Site
      /\ None \notin Site
  BY ServedAssumption, ScopeNames
<1>3. PICK named :
         /\ \/ h.path = "any" /\ named \in Site \cup Domain
            \/ h.path = "ulid" /\ named \in Site
            \/ h.path = "body" /\ named \in Site \cup {Org}
            \/ h.path = "none" /\ named = None
         /\ request' = [request EXCEPT ![q] =
              [at |-> CASE named \in Domain -> "resolve" [] named \in Site -> "authorize" [] OTHER -> "find",
               h |-> h, who |-> who, site |-> named, row |-> None, saw |-> {}]]
  <2>1. h.path \in {"any", "ulid", "body", "none"}
    BY <1>2, RouteFacts
  <2>2. CASE h.path = "any"
    BY <1>1, <2>2
  <2>3. CASE h.path = "ulid"
    BY <1>1, <2>3
  <2>4. CASE h.path = "body"
    BY <1>1, <2>4
  <2>5. CASE h.path = "none"
    BY <1>1, <2>5
  <2> QED BY <2>1, <2>2, <2>3, <2>4, <2>5
<1> DEFINE at == CASE named \in Domain -> "resolve" [] named \in Site -> "authorize" [] OTHER -> "find"
           r == [at |-> at, h |-> h, who |-> who, site |-> named, row |-> None, saw |-> {}]
<1>4. Site \cap Domain = {} /\ None \notin Site \cup Domain /\ Org \notin Site \cup Domain
  BY ScopeNames
<1>5. \/ at = "resolve" /\ named \in Domain /\ h.path # "none"
      \/ at = "authorize" /\ named \in Site /\ h.path # "none"
      \/ at = "find" /\ named = Org /\ h.path = "body"
      \/ at = "find" /\ named = None /\ h.path = "none"
  BY <1>3, <1>4
<1>6. who \in Site => h.whom # "dashboard"
  BY <1>1, <1>2
<1>7. at = "find" /\ who \in Site => h = list_sites /\ named = None
  BY <1>2, <1>5, <1>6, RouteFacts, NamedRoutes
<1>8. r \in Requests
  BY <1>2, <1>5 DEF Requests
<1>9. Carries(r)
  BY <1>2, <1>5, <1>6, <1>7 DEF Carries, Under
<1>10. Holds(r, rows') /\ Confined(r)
  BY <1>5 DEF Holds, Confined
<1>11. request' = [request EXCEPT ![q] = r]
  BY <1>3
<1>12. UNCHANGED Tables
  BY DEF Arrive
<1> HIDE DEF r, at
<1> QED BY <1>8, <1>9, <1>10, <1>11, <1>12, TablesStay, OneRequestMoves

LEMMA ResolveKeeps == ASSUME ScopeInv, NEW q \in Request, resolve_site_id(q) PROVE ScopeInv'
<1>1. CASE Refuses(q)
  BY <1>1, TablesStay, Refused DEF resolve_site_id
<1>2. ASSUME NEW s \in active, request' = [request EXCEPT ![q].site = s, ![q].at = "authorize"]
      PROVE  ScopeInv'
  <2> DEFINE r == [request[q] EXCEPT !.site = s, !.at = "authorize"]
  <2>1. s \in Site /\ request[q].at = "resolve"
    BY DEF ScopeInv, ScopeTypeOK, resolve_site_id
  <2>2. request' = [request EXCEPT ![q] = r]
    BY <1>2, RequestTyped DEF Requests
  <2>3. r \in Requests /\ r.at = "authorize" /\ r.site = s /\ r.who = request[q].who /\ r.h = request[q].h
    BY <2>1, RequestTyped DEF Requests
  <2>4. Carries(r) /\ Holds(r, rows') /\ Confined(r)
    BY <2>1, <2>3, RequestTyped DEF Carries, Holds, Confined, Under
  <2> HIDE DEF r
  <2> QED BY <2>2, <2>3, <2>4, TablesStay, OneRequestMoves DEF resolve_site_id
<1> QED BY <1>1, <1>2 DEF resolve_site_id

LEMMA AuthorizeKeeps == ASSUME ScopeInv, NEW q \in Request, resolve_authorized_site(q) PROVE ScopeInv'
<1>1. CASE Refuses(q)
  BY <1>1, TablesStay, Refused DEF resolve_authorized_site
<1>2. CASE Admits(request[q].h, request[q].who, request[q].site) /\ Goes(q, "find")
  <2> DEFINE r == [request[q] EXCEPT !.at = "find"]
  <2>1. request[q].at = "authorize"
    BY DEF resolve_authorized_site
  <2>2. request' = [request EXCEPT ![q] = r]
    BY <1>2, RequestTyped DEF Goes, Requests
  <2>3. r \in Requests /\ r.at = "find" /\ r.site = request[q].site /\ r.who = request[q].who /\ r.h = request[q].h
    BY <2>1, RequestTyped DEF Requests
  <2>4. request[q].who \in Site => request[q].who = request[q].site
    BY <1>2, ScopeNames DEF Admits
  <2>5. /\ request[q].site \in Site /\ request[q].who \in Site \cup {Org, Dashboard}
        /\ request[q].h \in Routes /\ (request[q].who \in Site => request[q].h.whom # "dashboard")
        /\ request[q].h.path # "none"
    BY <2>1, RequestTyped DEF Carries, Under
  <2> HIDE DEF r
  <2>6. Carries(r)
    BY <2>3, <2>4, <2>5 DEF Carries, Under
  <2>7. Holds(r, rows') /\ Confined(r)
    BY <2>3 DEF Holds, Confined
  <2> QED BY <2>2, <2>3, <2>6, <2>7, TablesStay, OneRequestMoves DEF resolve_authorized_site
<1> QED BY <1>1, <1>2 DEF resolve_authorized_site

(* What a handler is to run, it has read in the site of the path.          *)
LEMMA FoundToRun ==
    ASSUME NEW h \in Routes, NEW s, NEW i \in Finds(h, s), rows \in [Row -> RowValues]
    PROVE  (IF h.does = "run" THEN Sites({i} \cap Row) ELSE {}) \subseteq {s} \cap (Site \cup {Org})
<1> SUFFICES ASSUME h.does = "run", i \in Row
             PROVE  rows[i].site = s /\ rows[i].site \in Site \cup {Org}
  BY DEF Sites
<1>1. h # report
  BY NamedRoutes, ScopeNames DEF Finds
<1>2. CASE h \in {funnel_result, test_channel_api}
  <2>1. i \in RowFor(h, s)
    BY <1>2, NamedRoutes DEF Finds
  <2>2. h.kind \in Kind
    BY <1>2, RouteFacts DEF Kind, funnel_result, test_channel_api, For
  <2> QED BY <2>1, <2>2 DEF RowFor, RowValues, Unused, Deleted, Entry, Kind
<1>3. CASE h = send_test
  <2>1. i \in RowsOf("subscription", s)
    BY <1>3, NamedRoutes DEF Finds
  <2> QED BY <2>1 DEF RowsOf, RowValues, Unused, Deleted, Entry, Kind
<1> QED BY <1>1, <1>2, <1>3, RouteFacts

LEMMA FindKeeps == ASSUME ScopeInv, NEW q \in Request, Find(q) PROVE ScopeInv'
<1> DEFINE h == request[q].h
           s == request[q].site
<1>1. CASE Refuses(q)
  BY <1>1, TablesStay, Refused DEF Find
<1>2. ASSUME NEW i \in Finds(h, s),
             request' = [request EXCEPT ![q].row = i, ![q].at = "act",
                                        ![q].saw = IF h.does = "run" THEN Sites({i} \cap Row) ELSE {}]
      PROVE  ScopeInv'
  <2> DEFINE saw == IF h.does = "run" THEN Sites({i} \cap Row) ELSE {}
             r == [request[q] EXCEPT !.row = i, !.at = "act", !.saw = saw]
  <2>1. /\ request[q].at = "find" /\ h \in Routes
        /\ rows \in [Row -> RowValues] /\ (s = None \/ s \in Site \cup {Org})
    BY RequestTyped DEF Find, Carries, Under, ScopeInv, ScopeTypeOK, RowValues
  <2>2. i \in Row \cup {None}
    BY DEF Finds, RowsOf, RowFor, If
  <2>3. request' = [request EXCEPT ![q] = r]
    BY <1>2, RequestTyped DEF Requests
  <2>8. saw \subseteq {s} \cap (Site \cup {Org})
    BY <1>2, <2>1, FoundToRun DEF RowValues
  <2> HIDE DEF saw
  <2>4. /\ r \in Requests /\ r.at = "act" /\ r.site = s /\ r.who = request[q].who /\ r.h = h /\ r.row = i
        /\ r.saw = saw
    BY <2>1, <2>2, <2>8, RequestTyped DEF Requests
  <2>5. ASSUME h.does \in {"delete", "patch"}, h.kind # "site"
        PROVE  i \in Row /\ (s \in Site => rows[i] # Unused /\ (rows[i].kind = h.kind =>
                                rows[i].site = s \/ (h = delete_site_key_api /\ rows[i].site = Org)))
    <3>1. CASE h = delete_key_api
      <4>1. h.path = "none"
        BY <3>1, <2>5, NamedRoutes
      <4>2. i \in Row
        BY <1>2, <3>1, NamedRoutes DEF Finds
      <4>3. s \notin Site
        BY <2>1, <4>1, RequestTyped, ScopeNames DEF Carries
      <4> QED BY <4>2, <4>3
    <3>2. CASE h = delete_site_key_api
      <4>1. i \in RowsOf("key", s) \cup RowsOf("key", Org)
        BY <1>2, <3>2, NamedRoutes DEF Finds
      <4> QED BY <3>2, <4>1 DEF RowsOf, Entry, Unused
    <3>3. CASE h \in {delete_funnel, patch_analytics_alert, delete_analytics_alert, delete_channel_api}
      <4>1. i \in RowFor(h, s)
        BY <1>2, <3>3, NamedRoutes DEF Finds
      <4>2. h.kind \in Kind
        BY <2>1, <2>5, RouteFacts
      <4> QED BY <4>1, <4>2 DEF RowFor, Entry, Unused, Kind
    <3> QED BY <2>1, <2>5, <3>1, <3>2, <3>3, RouteFacts
  <2> HIDE DEF r
  <2>6. Carries(r)
    BY <2>1, <2>4, <2>8, RequestTyped DEF Carries, Under
  <2>7. Holds(r, rows') /\ Confined(r)
    BY <2>4, <2>5, TablesStay DEF Holds, Confined, Find
  <2> QED BY <2>3, <2>4, <2>6, <2>7, TablesStay, OneRequestMoves DEF Find
<1> QED BY <1>1, <1>2 DEF Find

(* What a handler that is about to act knows of its request. *)
LEMMA AboutToAct ==
    ASSUME ScopeInv, NEW q \in Request, request[q].at = "act"
    PROVE  /\ request[q].h \in Routes /\ request[q].who \in Site \cup {Org, Dashboard}
           /\ request[q].who \in Site => request[q].h.whom # "dashboard"
           /\ request[q].h.path # "none" => request[q].site \in Site \cup {Org}
           /\ request[q].h.path = "none" => request[q].site = None
           /\ request[q].h.path \notin {"none", "body"} => request[q].site \in Site
           /\ request[q].who \in Site =>
                 request[q].site = request[q].who \/ (request[q].h = list_sites /\ request[q].site = None)
           /\ request[q].h.does = "run" => request[q].saw \subseteq {request[q].site}
           /\ rows \in [Row -> RowValues] /\ domain \in [Site -> Domain \cup {None}] /\ active \subseteq Site
  BY RequestTyped DEF Carries, Under, ScopeInv, ScopeTypeOK, RowValues

LEMMA SitesOfRows ==
    ASSUME NEW kind \in Kind, NEW s, rows \in [Row -> RowValues]
    PROVE  Sites(RowsOf(kind, s)) \subseteq {s} \cap (Site \cup {Org})
<1>1. ASSUME NEW i \in RowsOf(kind, s)
      PROVE  rows[i].site = s /\ rows[i].site \in Site \cup {Org}
  BY DEF RowsOf, Entry, RowValues, Unused, Deleted, Kind
<1> QED BY <1>1 DEF Sites

LEMMA ReadKeeps == ASSUME ScopeInv, NEW q \in Request, Read(q) PROVE ScopeInv'
<1> DEFINE h == request[q].h
           s == request[q].site
           who == request[q].who
           saw == IF h.does = "list" THEN Listed(h, who, s) ELSE Ran(h, s, request[q].saw)
<1>1. (Refuses(q) \/ Answer(q, saw)) /\ request[q].at = "act" /\ h.does \in {"list", "run"}
  BY DEF Read
<1>2. ASSUME h.does = "list"
      PROVE  /\ saw \subseteq Site \cup {Org}
             /\ who \in Site => saw \subseteq {who}
             /\ s \in Site => saw \subseteq {s, Org}
  <2>1. CASE h = list_sites
    <3>1. saw = Visible(who)
      BY <1>2, <2>1, NamedRoutes DEF Listed
    <3>2. s = None
      BY <1>1, <2>1, NamedRoutes, AboutToAct
    <3> QED BY <3>1, <3>2, ScopeNames DEF Visible
  <2>2. CASE h = list_keys_api
    <3>1. saw = Sites({i \in Row : rows[i].kind = "key"})
      BY <1>2, <2>2, NamedRoutes DEF Listed
    <3>2. s = None /\ who \notin Site
      BY <1>1, <2>2, NamedRoutes, AboutToAct
    <3>3. saw \subseteq Site \cup {Org}
      BY <1>1, <3>1, AboutToAct DEF Sites, RowValues, Unused, Deleted, Entry
    <3> QED BY <3>2, <3>3, ScopeNames
  <2>3. CASE h = list_site_keys_api
    <3>1. saw = Sites(RowsOf("key", s) \cup RowsOf("key", Org))
      BY <1>2, <2>3, NamedRoutes DEF Listed
    <3>2. who \notin Site
      BY <1>1, <2>3, NamedRoutes, AboutToAct
    <3>3. saw = Sites(RowsOf("key", s)) \cup Sites(RowsOf("key", Org))
      BY <3>1 DEF Sites
    <3>4. "key" \in Kind
      BY DEF Kind
    <3> QED BY <1>1, <3>2, <3>3, <3>4, SitesOfRows, AboutToAct
  <2>4. CASE h \notin {list_sites, list_keys_api, list_site_keys_api}
    <3>1. saw = Sites(RowsOf(h.kind, s))
      BY <1>2, <2>4 DEF Listed
    <3>2. h.kind \in Kind
      BY <1>1, <1>2, <2>4, AboutToAct, RouteFacts
    <3>3. saw \subseteq {s} \cap (Site \cup {Org})
      BY <1>1, <3>1, <3>2, SitesOfRows, AboutToAct
    <3> QED BY <1>1, <2>4, <3>3, AboutToAct
  <2> QED BY <2>1, <2>2, <2>3, <2>4
<1>3. ASSUME h.does # "list"
      PROVE  /\ saw \subseteq Site \cup {Org}
             /\ who \in Site => saw \subseteq {who}
             /\ s \in Site => saw \subseteq {s, Org}
  <2>1. saw = Ran(h, s, request[q].saw) /\ h.does = "run"
    BY <1>1, <1>3
  <2>2. h # list_sites /\ h.path # "none" /\ s \in Site \cup {Org}
    BY <1>1, <2>1, AboutToAct, RouteFacts, NamedRoutes
  <2>3. request[q].saw \subseteq {s}
    BY <1>1, <2>1, AboutToAct
  <2>4. Sites(RowsOf("channel", s)) \subseteq {s}
    BY <1>1, SitesOfRows, AboutToAct DEF Kind
  <2>5. saw \subseteq {s}
    BY <2>1, <2>3, <2>4 DEF Ran
  <2> QED BY <1>1, <2>2, <2>5, AboutToAct
<1>4. UNCHANGED Tables
  BY DEF Read
<1> HIDE DEF saw
<1>5. CASE Refuses(q)
  BY <1>4, <1>5, TablesStay, Refused
<1>6. CASE Answer(q, saw)
  BY <1>1, <1>2, <1>3, <1>4, <1>6, TablesStay, Answered
<1> QED BY <1>1, <1>5, <1>6

LEMMA CreateKeeps == ASSUME ScopeInv, NEW q \in Request, Create(q) PROVE ScopeInv'
<1> DEFINE h == request[q].h
           s == request[q].site
<1>1. PICK for \in IF h = create_site_key_api THEN {s, Org} ELSE {s} :
          IF for = Org \/ Exists(for)
          THEN \E i \in Row : /\ rows[i] = Unused
                              /\ rows' = [rows EXCEPT ![i] = Entry(h.kind, for)]
                              /\ Answer(q, {for})
          ELSE Refuses(q) /\ UNCHANGED rows
  BY DEF Create
<1>2. /\ request[q].at = "act" /\ h.does = "create" /\ h.kind # "site"
      /\ domain' \in [Site -> Domain \cup {None}] /\ active' \subseteq Site
      /\ rows \in [Row -> RowValues]
  BY AboutToAct DEF Create
<1>3. h.kind \in Kind /\ h.path # "none" /\ h.kind # "subscription"
  BY <1>2, AboutToAct, RouteFacts
<1>4. for \in Site \cup {Org} /\ for \in {s, Org}
  BY <1>1, <1>2, <1>3, AboutToAct
<1>5. request[q].who \in Site => for = request[q].who
  <2>1. h # list_sites
    BY <1>3, NamedRoutes
  <2>2. request[q].who \in Site => h # create_site_key_api /\ s = request[q].who
    BY <1>2, <2>1, AboutToAct, NamedRoutes
  <2> QED BY <1>1, <2>2
<1>6. CASE Refuses(q) /\ UNCHANGED rows
  BY <1>2, <1>6, RowsStay, Refused
<1>7. ASSUME NEW i \in Row, rows[i] = Unused, rows' = [rows EXCEPT ![i] = Entry(h.kind, for)],
             Answer(q, {for})
      PROVE  ScopeInv'
  <2>1. rows' \in [Row -> RowValues]
    BY <1>2, <1>3, <1>4, <1>7 DEF RowValues, Entry
  <2>2. RowsMove
    BY <1>2, <1>7 DEF RowsMove
  <2> QED BY <1>2, <1>4, <1>5, <1>7, <2>1, <2>2, Answered
<1> QED BY <1>1, <1>6, <1>7

LEMMA ChangeKeeps == ASSUME ScopeInv, NEW q \in Request, Change(q) PROVE ScopeInv'
<1> DEFINE h == request[q].h
           i == request[q].row
           s == request[q].site
<1>1. /\ request[q].at = "act" /\ h.does \in {"delete", "patch"} /\ h.kind # "site"
      /\ domain' \in [Site -> Domain \cup {None}] /\ active' \subseteq Site
      /\ rows \in [Row -> RowValues]
  BY AboutToAct DEF Change
<1>2. /\ h \in Routes /\ i \in Row
      /\ s \in Site /\ rows[i].kind = h.kind =>
            rows[i].site = s \/ (h = delete_site_key_api /\ rows[i].site = Org)
  BY <1>1, AboutToAct, RequestTyped DEF Holds
<1>3. h.kind \in Kind \ {"subscription"}
  BY <1>1, <1>2, RouteFacts
<1>4. CASE rows[i].kind = h.kind
  <2>1. Answer(q, {rows[i].site})
    BY <1>4 DEF Change
  <2>2. rows' = rows \/ rows' = [rows EXCEPT ![i] = Deleted]
    BY <1>4 DEF Change
  <2>3. rows' \in [Row -> RowValues] /\ RowsMove
    BY <1>1, <1>2, <2>2 DEF RowValues, RowsMove, Deleted, Unused, Entry
  <2>4. rows[i].site \in Site \cup {Org}
    BY <1>1, <1>2, <1>3, <1>4 DEF RowValues, Unused, Deleted, Entry, Kind
  <2>5. request[q].who \in Site => rows[i].site = request[q].who
    <3>1. SUFFICES ASSUME request[q].who \in Site PROVE rows[i].site = request[q].who
      OBVIOUS
    <3>2. h # delete_site_key_api /\ h # list_sites
      BY <1>1, <3>1, AboutToAct, NamedRoutes
    <3>3. s = request[q].who
      BY <1>1, <3>1, <3>2, AboutToAct
    <3> QED BY <1>2, <1>4, <3>1, <3>2, <3>3
  <2> QED BY <1>1, <1>2, <1>4, <2>1, <2>3, <2>4, <2>5, Answered
<1>5. CASE rows[i].kind # h.kind
  <2>1. Answer(q, {}) /\ rows' = rows
    BY <1>5 DEF Change
  <2> QED BY <1>1, <2>1, RowsStay, Answered
<1> QED BY <1>4, <1>5

LEMMA PutKeeps == ASSUME ScopeInv, NEW q \in Request, Put(q) PROVE ScopeInv'
<1> DEFINE s == request[q].site
<1>1. /\ request[q].at = "act" /\ request[q].h = put_subscription
      /\ domain' \in [Site -> Domain \cup {None}] /\ active' \subseteq Site
      /\ rows \in [Row -> RowValues]
  BY AboutToAct DEF Put
<1>2. s \in Site \cup {Org} /\ (request[q].who \in Site => s = request[q].who)
  BY <1>1, AboutToAct, NamedRoutes
<1>3. CASE Refuses(q) /\ UNCHANGED rows
  BY <1>1, <1>3, RowsStay, Refused
<1>4. ASSUME NEW i, i \in (IF request[q].row = None THEN {j \in Row : rows[j] = Unused} ELSE {request[q].row}),
             rows' = Upserts(i, s), Answer(q, {s})
      PROVE  ScopeInv'
  <2>1. i \in Row
    BY <1>4, RequestTyped DEF Requests
  <2>2. rows' = rows \/ rows' = [rows EXCEPT ![i] = Entry("subscription", s)]
    BY <1>4 DEF Upserts
  <2>3. rows' \in [Row -> RowValues] /\ RowsMove
    BY <1>1, <1>2, <2>1, <2>2 DEF RowValues, RowsMove, Entry, Unused, Kind
  <2> QED BY <1>1, <1>2, <1>4, <2>3, Answered
<1> QED BY <1>3, <1>4 DEF Put

LEMMA ClearKeeps == ASSUME ScopeInv, NEW q \in Request, Clear(q) PROVE ScopeInv'
<1> DEFINE s == request[q].site
<1>1. /\ request[q].at = "act" /\ request[q].h = delete_subscription
      /\ domain' \in [Site -> Domain \cup {None}] /\ active' \subseteq Site
      /\ rows \in [Row -> RowValues] /\ Answer(q, {s})
      /\ rows' = [i \in Row |-> IF i \in RowsOf("subscription", s) THEN Deleted ELSE rows[i]]
  BY AboutToAct DEF Clear
<1>2. s \in Site \cup {Org} /\ (request[q].who \in Site => s = request[q].who)
  BY <1>1, AboutToAct, NamedRoutes
<1>3. rows' \in [Row -> RowValues] /\ RowsMove
  BY <1>1 DEF RowValues, RowsMove, Entry, Unused, Deleted
<1> QED BY <1>1, <1>2, <1>3, Answered

LEMMA CreateSiteKeeps == ASSUME ScopeInv, NEW q \in Request, CreateSite(q) PROVE ScopeInv'
<1>1. PICK s \in Site, d \in Domain :
         domain' = [domain EXCEPT ![s] = d] /\ active' = active \cup {s} /\ Answer(q, {s})
  BY DEF CreateSite
<1>2. request[q].at = "act" /\ request[q].h = create_site_api /\ rows' = rows
  BY DEF CreateSite
<1>3. request[q].who \notin Site /\ request[q].site \notin Site
  BY <1>2, AboutToAct, NamedRoutes, ScopeNames
<1> QED BY <1>1, <1>2, <1>3, AboutToAct, RowsStay, Answered

LEMMA PatchSiteKeeps == ASSUME ScopeInv, NEW q \in Request, PatchSite(q) PROVE ScopeInv'
<1> DEFINE s == request[q].site
<1>1. PICK d \in Domain, on \in BOOLEAN :
         domain' = [domain EXCEPT ![s] = d] /\ active' = IF on THEN active \cup {s} ELSE active \ {s}
  BY DEF PatchSite
<1>2. request[q].at = "act" /\ request[q].h = patch_site_api /\ rows' = rows /\ Answer(q, {s})
  BY DEF PatchSite
<1>3. s \in Site /\ (request[q].who \in Site => s = request[q].who)
  BY <1>2, AboutToAct, NamedRoutes
<1> QED BY <1>1, <1>2, <1>3, AboutToAct, RowsStay, Answered

LEMMA ReplyKeeps == ASSUME ScopeInv, NEW q \in Request, Reply(q) PROVE ScopeInv'
  BY TablesStay, Refused DEF Reply

LEMMA BreaksOffKeeps == ASSUME ScopeInv, NEW q \in Request, BreaksOff(q) PROVE ScopeInv'
  BY TablesStay, Refused DEF BreaksOff
-----------------------------------------------------------------------------
LEMMA ScopeInit_Inv == ScopeInit => ScopeInv
<1> SUFFICES ASSUME ScopeInit PROVE ScopeInv
  OBVIOUS
<1>1. ScopeTypeOK
  BY DEF ScopeInit, ScopeTypeOK, Idle
<1>2. ASSUME NEW q \in Request
      PROVE  Carries(request[q]) /\ Holds(request[q], rows) /\ Confined(request[q])
  BY DEF ScopeInit, Idle, Carries, Holds, Confined, Under
<1> QED BY <1>1, <1>2 DEF ScopeInv

LEMMA ScopeStep_Inv == ScopeInv /\ [ScopeNext]_scopeVars => ScopeInv'
<1> SUFFICES ASSUME ScopeInv, [ScopeNext]_scopeVars PROVE ScopeInv'
  OBVIOUS
<1>1. CASE UNCHANGED scopeVars
  BY <1>1 DEF scopeVars, ScopeInv, ScopeTypeOK, Carries, Holds, Confined, Under, RowsOf
<1>2. ASSUME NEW q \in Request,
             \/ Arrive(q) \/ resolve_site_id(q) \/ resolve_authorized_site(q) \/ Find(q)
             \/ Read(q) \/ Create(q) \/ Change(q) \/ Put(q) \/ Clear(q)
             \/ CreateSite(q) \/ PatchSite(q) \/ Reply(q) \/ BreaksOff(q)
      PROVE  ScopeInv'
  BY <1>2, ArriveKeeps, ResolveKeeps, AuthorizeKeeps, FindKeeps, ReadKeeps, CreateKeeps, ChangeKeeps,
     PutKeeps, ClearKeeps, CreateSiteKeeps, PatchSiteKeeps, ReplyKeeps, BreaksOffKeeps
<1> QED BY <1>1, <1>2 DEF ScopeNext

(* analytics.rs resolve_authorized_site and the site checks of the         *)
(* handlers, funnel_result's among them: whatever other requests move,     *)
(* make or delete between the steps of a request, the rows that a bound    *)
(* key is told, runs and changes are its site's, and those of a request    *)
(* under the path of a site are that site's, or keys of the organisation.  *)
THEOREM SiteConfinement == ScopeSpec => []ConfinedToSite
<1>1. ScopeInv => ConfinedToSite
  BY DEF ScopeInv, Confined, ConfinedToSite
<1> QED BY <1>1, ScopeInit_Inv, ScopeStep_Inv, PTL DEF ScopeSpec

(* meta.rs upsert_digest_subscription: with ON CONFLICT(user_id, site_id)  *)
(* no interleaving of PUTs and DELETEs leaves a second subscription.       *)
THEOREM SubscriptionsAreSingle == ScopeSpec => []OneSubscription
<1>1. ScopeInit => OneSubscription
  BY DEF ScopeInit, OneSubscription, RowsOf, Entry, Unused
<1>2. ScopeInv /\ OneSubscription /\ [ScopeNext]_scopeVars => OneSubscription'
  <2> SUFFICES ASSUME ScopeInv, OneSubscription, [ScopeNext]_scopeVars PROVE OneSubscription'
    OBVIOUS
  <2>1. CASE UNCHANGED rows
    BY <2>1 DEF OneSubscription, RowsOf
  <2>2. ASSUME NEW q \in Request, Create(q)
        PROVE  OneSubscription'
    <3>1. request[q].h.kind # "subscription"
      BY <2>2, AboutToAct, RouteFacts DEF Create
    <3> QED BY <2>2, <3>1 DEF Create, OneSubscription, RowsOf, Entry, ScopeInv, ScopeTypeOK
  <2>3. ASSUME NEW q \in Request, Change(q)
        PROVE  OneSubscription'
    BY <2>3 DEF Change, OneSubscription, RowsOf, Entry, Deleted, ScopeInv, ScopeTypeOK
  <2>4. ASSUME NEW q \in Request, Put(q)
        PROVE  OneSubscription'
    BY <2>4 DEF Put, Upserts, OneSubscription, RowsOf, Entry, ScopeInv, ScopeTypeOK
  <2>5. ASSUME NEW q \in Request, Clear(q)
        PROVE  OneSubscription'
    BY <2>5 DEF Clear, OneSubscription, RowsOf, Entry, Deleted, ScopeInv, ScopeTypeOK
  <2> QED BY <2>1, <2>2, <2>3, <2>4, <2>5
       DEF ScopeNext, scopeVars, Tables, Arrive, resolve_site_id, resolve_authorized_site, Find, Read,
           CreateSite, PatchSite, Reply, BreaksOff
<1> QED BY <1>1, <1>2, ScopeInit_Inv, ScopeStep_Inv, PTL DEF ScopeSpec
=============================================================================
