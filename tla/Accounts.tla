------------------------------ MODULE Accounts ------------------------------
(***************************************************************************)
(* The single owner account: the first boot that creates it (launch.rs     *)
(* bootstrap_self_hosted), the login form with its limiter (api/src/       *)
(* routes/auth.rs), the signed sessions (middleware/auth.rs) and the       *)
(* change of the password (routes/api.rs).                                 *)
(*                                                                         *)
(* Handlers run at once and await the store between their steps.  A        *)
(* password is named by the number of the hash that was stored for it: a   *)
(* guess is right when it names the hash that was read.  The limiter has   *)
(* an entry for each address; the model is of one address.                 *)
(***************************************************************************)
EXTENDS Integers, FiniteSets

CONSTANTS
    Handler,           \* requests served at once
    LOGIN_MAX_FAILURES,
    LOGIN_WINDOW,      \* in units of Tick
    SESSION_TTL,       \* in units of Tick
    MaxHashes,         \* bound: hashes ever stored
    MaxMishaps         \* bound: crashes and failing statements

ASSUME AccountsBounds ==
    /\ IsFiniteSet(Handler)
    /\ LOGIN_MAX_FAILURES \in Nat \ {0} /\ LOGIN_WINDOW \in Nat /\ SESSION_TTL \in Nat
    /\ MaxHashes \in Nat \ {0} /\ MaxMishaps \in Nat

VARIABLES
    org, owner,   \* the rows: whether there is one, and the hash stored for the owner
    boot,         \* where the process is
    hashes,       \* how many hashes have been made
    limiter,      \* login_failures of the address
    request,      \* what each handler is at
    sessions,     \* tokens that have been handed out and not expired
    failures,     \* failed logins since the last success or start, by their age
    torn,         \* the first boot was cut between its two rows
    mishaps

rows == <<org, owner, hashes, torn>>
memory == <<limiter, failures>>
accountVars == <<rows, boot, memory, request, sessions, mishaps>>

NoHash == 0   \* no owner, no row found, a password that is not the owner's
Hash == 1 .. MaxHashes
Age == 0 .. LOGIN_WINDOW + 1   \* since the window began; past the window they are alike
NoEntry == [known |-> FALSE, count |-> 0, age |-> 0]
Window(n) == [known |-> TRUE, count |-> n, age |-> 0]
Free == [at |-> "free", guess |-> NoHash, row |-> NoHash]

Session == [pwd_v : Hash, proved : Hash, left : 0 .. SESSION_TTL]

AccountsTypeOK ==
    /\ org \in BOOLEAN /\ owner \in Hash \cup {NoHash} /\ torn \in BOOLEAN
    /\ (owner # NoHash => org) /\ hashes \in 0 .. MaxHashes /\ owner <= hashes
    /\ boot \in {"down", "owner", "serving"}
    /\ limiter \in [known : BOOLEAN, count : Nat, age : Age]
    /\ request \in [Handler -> [at : {"free", "lookup", "verify", "read", "update"},
                                guess : Hash \cup {NoHash}, row : Hash \cup {NoHash}]]
    /\ (boot # "serving" => \A h \in Handler : request[h] = Free)
    /\ sessions \subseteq Session
    /\ failures \in [0 .. LOGIN_WINDOW -> Nat] /\ mishaps \in 0 .. MaxMishaps

AccountsInit ==
    /\ org = FALSE /\ owner = NoHash /\ torn = FALSE /\ hashes = 0 /\ boot = "down"
    /\ limiter = NoEntry /\ failures = [a \in 0 .. LOGIN_WINDOW |-> 0]
    /\ request = [h \in Handler |-> Free] /\ sessions = {} /\ mishaps = 0

Mishap == mishaps < MaxMishaps /\ mishaps' = mishaps + 1
-----------------------------------------------------------------------------
(* bootstrap_self_hosted *)

(* With an organisation the boot is done; without one, and with a password *)
(* in the environment, the organisation is stored first.                   *)
Boot ==
    /\ boot = "down"
    /\ IF org THEN boot' = "serving" /\ UNCHANGED org
       ELSE boot' = "owner" /\ org' = TRUE
    /\ UNCHANGED <<owner, hashes, torn, memory, request, sessions, mishaps>>

CreateOwner ==
    /\ boot = "owner"
    /\ owner' = 1 /\ hashes' = 1 /\ boot' = "serving"
    /\ UNCHANGED <<org, torn, memory, request, sessions, mishaps>>

(* An error ends the process: nothing takes the organisation back. *)
AfterError_Bug == "serving"
AfterError == "down"

CreateOwnerFails ==
    /\ boot = "owner" /\ Mishap /\ boot' = AfterError
    /\ torn' = (AfterError = "down")
    /\ UNCHANGED <<org, owner, hashes, memory, request, sessions>>

(* The limiter is in memory; sessions are signed and outlive the process. *)
Crash ==
    /\ boot # "down" /\ Mishap /\ boot' = "down"
    /\ torn' = (torn \/ boot = "owner")
    /\ limiter' = NoEntry /\ failures' = [a \in 0 .. LOGIN_WINDOW |-> 0]
    /\ request' = [h \in Handler |-> Free]
    /\ UNCHANGED <<org, owner, hashes, sessions>>
-----------------------------------------------------------------------------
(* The limiter *)

Expired == limiter.age > LOGIN_WINDOW
Limited_Bug == ~Expired /\ limiter.count > LOGIN_MAX_FAILURES
Limited == ~Expired /\ limiter.count >= LOGIN_MAX_FAILURES

(* Past the window, asking opens the next one. *)
is_login_rate_limited == limiter' = IF Expired THEN Window(0) ELSE limiter

record_login_failure ==
    /\ limiter' = IF Expired \/ ~limiter.known THEN Window(1)
                  ELSE [limiter EXCEPT !.count = @ + 1]
    /\ failures' = [failures EXCEPT ![0] = @ + 1]

clear_login_failures ==
    /\ limiter' = NoEntry /\ failures' = [a \in 0 .. LOGIN_WINDOW |-> 0]

(* Time passes for the window, the sessions and the failures alike. *)
Tick ==
    /\ limiter' = [limiter EXCEPT !.age = IF limiter.known /\ ~Expired THEN @ + 1 ELSE @]
    /\ failures' = [a \in 0 .. LOGIN_WINDOW |-> IF a = 0 THEN 0 ELSE failures[a - 1]]
    /\ sessions' = {[s EXCEPT !.left = @ - 1] : s \in {t \in sessions : t.left > 0}}
    /\ UNCHANGED <<rows, boot, request, mishaps>>
-----------------------------------------------------------------------------
(* Handlers *)

To(h, at, guess, row) == request' = [request EXCEPT ![h] = [at |-> at, guess |-> guess, row |-> row]]
Done(h) == request' = [request EXCEPT ![h] = Free]

(* sign_session_bound; proved is the password the client has shown. *)
sign_session_bound(hash, proved) ==
    sessions' = sessions \cup {[pwd_v |-> hash, proved |-> proved, left |-> SESSION_TTL]}

session_still_valid(s) == owner # NoHash /\ s.pwd_v = owner

(* login_submit: the limiter is asked, then the owner looked up. *)
LoginArrives_Bug(h, guess) ==
    /\ boot = "serving" /\ request[h] = Free
    /\ IF Limited THEN limiter' = [limiter EXCEPT !.age = 0] /\ UNCHANGED request
       ELSE is_login_rate_limited /\ To(h, "lookup", guess, NoHash)
    /\ UNCHANGED <<rows, boot, failures, sessions, mishaps>>
LoginArrives(h, guess) ==
    /\ boot = "serving" /\ request[h] = Free
    /\ ~Limited /\ is_login_rate_limited
    /\ To(h, "lookup", guess, NoHash)
    /\ UNCHANGED <<rows, boot, failures, sessions, mishaps>>

(* A lookup that fails answers 500 and counts as nothing. *)
LoginLooksUp(h) ==
    /\ request[h].at = "lookup"
    /\ \/ To(h, "verify", request[h].guess, owner) /\ UNCHANGED mishaps
       \/ Mishap /\ Done(h)
    /\ UNCHANGED <<rows, boot, memory, sessions>>

(* The password is hashed, outside any lock, against the row that was read. *)
LoginVerifies_Bug(h) ==
    /\ request[h].at = "verify" /\ Done(h)
    /\ IF request[h].row # NoHash /\ request[h].guess = request[h].row
       THEN clear_login_failures /\ sign_session_bound(owner, request[h].guess)
       ELSE record_login_failure /\ UNCHANGED sessions
    /\ UNCHANGED <<rows, boot, mishaps>>
LoginVerifies(h) ==
    /\ request[h].at = "verify" /\ Done(h)
    /\ IF request[h].row # NoHash /\ request[h].guess = request[h].row
       THEN clear_login_failures /\ sign_session_bound(request[h].row, request[h].guess)
       ELSE record_login_failure /\ UNCHANGED sessions
    /\ UNCHANGED <<rows, boot, mishaps>>

(* change_password, let in by a session that is still valid. *)
ChangeArrives(h, s, guess) ==
    /\ boot = "serving" /\ request[h] = Free /\ session_still_valid(s)
    /\ To(h, "read", guess, NoHash)
    /\ UNCHANGED <<rows, boot, memory, sessions, mishaps>>

ChangeReads(h) ==
    /\ request[h].at = "read"
    /\ \/ /\ UNCHANGED mishaps
          /\ IF request[h].guess = owner THEN To(h, "update", request[h].guess, owner) ELSE Done(h)
       \/ Mishap /\ Done(h)
    /\ UNCHANGED <<rows, boot, memory, sessions>>

(* The new hash is stored, whatever is stored by now, and the client gets  *)
(* a session for it.                                                       *)
ChangeUpdates(h) ==
    /\ request[h].at = "update" /\ Done(h)
    /\ \/ /\ hashes < MaxHashes /\ owner' = hashes + 1 /\ hashes' = hashes + 1
          /\ sign_session_bound(owner', hashes + 1)
          /\ UNCHANGED mishaps
       \/ Mishap /\ UNCHANGED <<owner, hashes, sessions>>
    /\ UNCHANGED <<org, torn, boot, memory>>

AccountsNext ==
    \/ Boot \/ CreateOwner \/ CreateOwnerFails \/ Crash \/ Tick
    \/ \E h \in Handler :
          \/ \E guess \in 0 .. hashes : LoginArrives(h, guess)
          \/ LoginLooksUp(h) \/ LoginVerifies(h)
          \/ \E s \in sessions, guess \in 0 .. hashes : ChangeArrives(h, s, guess)
          \/ ChangeReads(h) \/ ChangeUpdates(h)

AccountsSpec == AccountsInit /\ [][AccountsNext]_accountVars /\ WF_accountVars(Tick)
-----------------------------------------------------------------------------
(* auth.rs:36-38: checked before the hash is computed and counted after,   *)
(* in a window that is fixed and not sliding, the limiter still bounds the *)
(* failed logins of an address in any LOGIN_WINDOW: twice the maximum and  *)
(* the handlers that were past the check.                                  *)
Upto(f) == LET Sum[a \in 0 .. LOGIN_WINDOW] == f[a] + (IF a = 0 THEN 0 ELSE Sum[a - 1]) IN Sum
Recent == Upto(failures)[LOGIN_WINDOW]
Burst == LOGIN_MAX_FAILURES - 1 + Cardinality(Handler)
FailuresBounded == limiter.count <= Burst /\ Recent <= 2 * Burst

(* middleware/auth.rs session_still_valid: a session that is let in was    *)
(* handed out to somebody who had shown the password that is stored now,   *)
(* also when logins and changes were in flight while it was changed.       *)
SessionsFollowThePassword ==
    \A s \in sessions : session_still_valid(s) => s.proved = owner

(* launch.rs:100: a server that answers has an owner who can log in,       *)
(* unless its first boot stopped between the organisation and the owner.   *)
ServingHasOwner == boot = "serving" => owner # NoHash \/ torn

(* auth.rs:138: a lock-out ends, whatever goes on arriving.                *)
LimitLifts == []<>~Limited
=============================================================================
