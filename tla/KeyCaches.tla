----------------------------- MODULE KeyCaches -----------------------------
(***************************************************************************)
(* The two credential caches of AppState and the rows behind them:         *)
(* site_cache (a site's public key, live while sites.is_active) and        *)
(* api_key_cache (an API key's hash, live while its row exists).  Beacons  *)
(* and API requests fill them on a miss; PATCH site and DELETE key change  *)
(* the row and then evict.  There is no lock across a handler's awaits,    *)
(* and a handler's future is dropped when its client hangs up: the SQLite  *)
(* statement it has already handed to spawn_blocking still runs.           *)
(***************************************************************************)
EXTENDS FiniteSets

CONSTANTS
    SiteKey,   \* public keys of sites
    ApiKey,    \* API keys
    Request,   \* request handlers that may be in flight at once
    Admin,     \* dashboard handlers that may be in flight at once
    HangUps,   \* whether clients may hang up
    None       \* no key

ASSUME KeyAssumption  == SiteKey \cap ApiKey = {} /\ None \notin SiteKey \cup ApiKey
ASSUME HangUpsAssumption == HangUps \in BOOLEAN

Key == SiteKey \cup ApiKey

VARIABLES
    live,     \* the database: whether a lookup of the key finds its row
    cache,    \* the keys in the two caches
    req,      \* request handlers: at an await, with the key they resolve
    adm,      \* dashboard handlers: at an await, with the key they change, the
              \* value they write, and whether the body asks for activation
    revoked   \* history: keys whose revocation completed cleanly, see Evict

vars == <<live, cache, req, adm, revoked>>

IdleReq == [at |-> "idle", key |-> None, found |-> FALSE]
IdleAdm == [at |-> "idle", key |-> None, to |-> FALSE, asked |-> FALSE]

Init ==
    /\ live = [k \in Key |-> TRUE]
    /\ cache = {}
    /\ req = [r \in Request |-> IdleReq]
    /\ adm = [a \in Admin |-> IdleAdm]
    /\ revoked = {}
-----------------------------------------------------------------------------
(* A cache hit is answered without an await and changes nothing; a miss    *)
(* sends the lookup to the database.                                       *)
Miss(r, k) ==
    /\ req[r].at = "idle"
    /\ k \notin cache
    /\ req' = [req EXCEPT ![r] = [at |-> "lookup", key |-> k, found |-> FALSE]]
    /\ UNCHANGED <<live, cache, adm, revoked>>

(* get_site_by_key (active sites only) and get_api_key_by_hash. *)
Found(k) == live[k]

Lookup(r) ==
    /\ req[r].at = "lookup"
    /\ req' = [req EXCEPT ![r].at = "fill", ![r].found = Found(req[r].key)]
    /\ UNCHANGED <<live, cache, adm, revoked>>

(* The handler resumes with the row (or without one, or with the lookup's  *)
(* error): it inserts what it found and goes on to the ingest channel.     *)
Fill(r) ==
    /\ req[r].at = "fill"
    /\ cache' = IF req[r].found THEN cache \cup {req[r].key} ELSE cache
    /\ req' = [req EXCEPT ![r] = IdleReq]
    /\ UNCHANGED <<live, adm, revoked>>

LookupFails(r) ==
    /\ req[r].at = "lookup"
    /\ req' = [req EXCEPT ![r] = IdleReq]
    /\ UNCHANGED <<live, cache, adm, revoked>>

(* A dropped request future inserts nothing. *)
RequestHangsUp(r) ==
    /\ HangUps
    /\ req[r].at # "idle"
    /\ req' = [req EXCEPT ![r] = IdleReq]
    /\ UNCHANGED <<live, cache, adm, revoked>>
-----------------------------------------------------------------------------
(* patch_site_api reads the whole row, sets the fields of the body, and    *)
(* writes the whole row: a body without is_active writes back what it read.*)
Patched_Bug(k, body) == body # "inactive"
Patched(k, body) == IF body = "unset" THEN live[k] ELSE body = "active"

ReadSite(a, k) ==
    /\ adm[a].at = "idle"
    /\ \E body \in {"unset", "active", "inactive"} :
         adm' = [adm EXCEPT ![a] = [at |-> "write", key |-> k, to |-> Patched(k, body),
                                    asked |-> body = "active"]]
    /\ UNCHANGED <<live, cache, req, revoked>>

(* delete_key_api, and delete_site_key_api for a key still listed. *)
BeginDelete(a, k) ==
    /\ adm[a].at = "idle"
    /\ adm' = [adm EXCEPT ![a] = [at |-> "write", key |-> k, to |-> FALSE,
                                  asked |-> FALSE]]
    /\ UNCHANGED <<live, cache, req, revoked>>

(* update_site and delete_api_key; "gone" is a handler whose client left.  *)
(* Only a body that asks for it makes a revoked key one that is meant to   *)
(* be let in again: writing back a stale read does not.                    *)
Write(a) ==
    /\ adm[a].at \in {"write", "gone"}
    /\ live' = [live EXCEPT ![adm[a].key] = adm[a].to]
    /\ adm' = [adm EXCEPT ![a] = IF @.at = "gone" THEN IdleAdm ELSE [@ EXCEPT !.at = "evict"]]
    /\ revoked' = IF adm[a].asked THEN revoked \ {adm[a].key} ELSE revoked
    /\ UNCHANGED <<cache, req>>

(* The write's error is answered before anything is evicted. *)
WriteFails(a) ==
    /\ adm[a].at \in {"write", "gone"}
    /\ adm' = [adm EXCEPT ![a] = IdleAdm]
    /\ UNCHANGED <<live, cache, req, revoked>>

(* The retain on the cache, then the answer.  The revocation of a dead key *)
(* completes cleanly when no request is about to insert the key from an    *)
(* earlier lookup and no other dashboard handler is about to write the row *)
(* live from an earlier read or an earlier request.                        *)
Filling(r, k) == req[r].at = "fill" /\ req[r].key = k /\ req[r].found
Reviving(a, k) == adm[a].at \in {"write", "gone"} /\ adm[a].key = k /\ adm[a].to
Clean(k) ==
    /\ ~live[k]
    /\ \A r \in Request : ~Filling(r, k)
    /\ \A a \in Admin : ~Reviving(a, k)

Evicted(k) == cache \ {k}

Evict(a) ==
    LET k == adm[a].key IN
    /\ adm[a].at = "evict"
    /\ cache' = Evicted(k)
    /\ adm' = [adm EXCEPT ![a] = IdleAdm]
    /\ revoked' = IF Clean(k) THEN revoked \cup {k} ELSE revoked
    /\ UNCHANGED <<live, req>>

(* The client leaves: a write handed to the blocking pool goes on without  *)
(* the handler, an eviction not yet done never happens.                    *)
AdminHangsUp(a) ==
    /\ HangUps
    /\ adm[a].at \in {"write", "evict"}
    /\ adm' = [adm EXCEPT ![a] = IF @.at = "write" THEN [@ EXCEPT !.at = "gone"] ELSE IdleAdm]
    /\ UNCHANGED <<live, cache, req, revoked>>

(* The caches and the handlers are memory. *)
Restart ==
    /\ cache' = {}
    /\ req' = [r \in Request |-> IdleReq]
    /\ adm' = [a \in Admin |-> IdleAdm]
    /\ revoked' = {k \in Key : ~live[k]}
    /\ live' = live

RequestStep(r) ==
    \/ \E k \in Key : Miss(r, k)
    \/ Lookup(r) \/ LookupFails(r) \/ Fill(r) \/ RequestHangsUp(r)

AdminStep(a) ==
    \/ \E k \in SiteKey : ReadSite(a, k)
    \/ \E k \in ApiKey : BeginDelete(a, k)
    \/ Write(a) \/ WriteFails(a) \/ Evict(a) \/ AdminHangsUp(a)

Next ==
    \/ \E r \in Request : RequestStep(r)
    \/ \E a \in Admin : AdminStep(a)
    \/ Restart

Spec == Init /\ [][Next]_vars
-----------------------------------------------------------------------------
TypeOK ==
    /\ live \in [Key -> BOOLEAN]
    /\ cache \subseteq Key /\ revoked \subseteq Key
    /\ req \in [Request -> {IdleReq} \cup
                [at : {"lookup", "fill"}, key : Key, found : BOOLEAN]]
    /\ adm \in [Admin -> {IdleAdm} \cup
                [at : {"write", "gone", "evict"}, key : Key, to : BOOLEAN,
                 asked : BOOLEAN]]

(* Once a revocation has been answered, with no lookup of the key still to *)
(* be inserted and no PATCH still to write what it read before, the key is *)
(* refused until a body asks for its activation: no PATCH of other fields, *)
(* no failing or abandoned handler and no restart brings it back, in the   *)
(* row or in a cache.  The two provisos are what the code does not meet:   *)
(* without them a late insertion or a stale write revives the key.         *)
RevokedStaysOut ==
    \A k \in revoked : ~live[k] /\ k \notin cache /\ \A r \in Request : ~Filling(r, k)
=============================================================================
