------------------------- MODULE CredentialsProofs -------------------------
(***************************************************************************)
(* Proofs about who is let in: the cached keys of KeyCaches, and the owner *)
(* account with its login form and sessions of Accounts.  For any sets of  *)
(* keys, any number of handlers, any limits of the login form and any life *)
(* of a session.                                                           *)
(***************************************************************************)
EXTENDS KeyCaches, Accounts, WellFoundedInduction, FiniteSetTheorems, TLAPS

(* KeyCaches: RevokedStaysOut is inductive together with TypeOK and the     *)
(* fact that whoever is about to write a revoked key live was asked to: a  *)
(* PATCH that read the row before the revocation has not survived it       *)
(* (Clean), one that reads it afterwards reads an inactive row.            *)
RevivalsAreAsked == \A k \in revoked, a \in Admin : Reviving(a, k) => adm[a].asked
IInv == TypeOK /\ RevokedStaysOut /\ RevivalsAreAsked

(* The initial state satisfies the invariant: nothing is cached and nothing *)
(* is revoked yet.                                                          *)
LEMMA InitIInv == Init => IInv
  BY DEF Init, IInv, TypeOK, RevokedStaysOut, RevivalsAreAsked, Filling, Reviving, IdleReq, IdleAdm, Key

(* Every step of a request handler keeps it: a lookup of a revoked key      *)
(* finds nothing, so no handler comes to hold one.                          *)
LEMMA RequestKeeps ==
    ASSUME IInv, NEW r \in Request, RequestStep(r)
    PROVE  IInv'
<1> USE KeyAssumption DEF IInv, TypeOK, RevokedStaysOut, RevivalsAreAsked, Filling, Reviving, IdleReq
<1>1. ASSUME NEW k \in Key, Miss(r, k) PROVE IInv'
  BY <1>1 DEF Miss, IdleAdm
<1>2. CASE Lookup(r)
  <2>1. req[r] \in [at : {"lookup", "fill"}, key : Key, found : BOOLEAN]
    BY <1>2 DEF Lookup
  <2>2. live[req[r].key] \in BOOLEAN
    BY <2>1
  <2>3. TypeOK'
    BY <1>2, <2>1, <2>2 DEF Lookup, Found, IdleAdm
  <2>4. RevokedStaysOut'
    BY <1>2, <2>1, <2>2 DEF Lookup, Found
  <2>5. RevivalsAreAsked'
    BY <1>2 DEF Lookup
  <2> QED BY <2>3, <2>4, <2>5
<1>3. CASE LookupFails(r)
  BY <1>3 DEF LookupFails, IdleAdm
<1>4. CASE Fill(r)
  <2>1. req[r] \in [at : {"lookup", "fill"}, key : Key, found : BOOLEAN]
    BY <1>4 DEF Fill
  <2>2. TypeOK'
    BY <1>4, <2>1 DEF Fill, IdleAdm
  <2>3. RevokedStaysOut'
    BY <1>4, <2>1 DEF Fill
  <2>4. RevivalsAreAsked'
    BY <1>4 DEF Fill
  <2> QED BY <2>2, <2>3, <2>4
<1>5. CASE RequestHangsUp(r)
  BY <1>5 DEF RequestHangsUp, IdleAdm
<1> QED BY <1>1, <1>2, <1>3, <1>4, <1>5 DEF RequestStep

(* Every step of a dashboard handler keeps it: a write that makes a revoked *)
(* key live was asked to, and a revocation that completes has evicted the   *)
(* key with nobody left to bring it back.                                   *)
LEMMA AdminKeeps ==
    ASSUME IInv, NEW a \in Admin, AdminStep(a)
    PROVE  IInv'
<1> USE KeyAssumption DEF IInv, TypeOK, RevokedStaysOut, RevivalsAreAsked, Filling, Reviving, IdleAdm
<1>1. ASSUME NEW k \in SiteKey, ReadSite(a, k) PROVE IInv'
  <2>1. k \in Key
    BY DEF Key
  <2>2. \A body \in {"unset", "active", "inactive"} : Patched(k, body) \in BOOLEAN
    BY <2>1 DEF Patched
  <2>3. PICK body \in {"unset", "active", "inactive"} :
           adm' = [adm EXCEPT ![a] = [at |-> "write", key |-> k, to |-> Patched(k, body),
                                      asked |-> body = "active"]]
    BY <1>1 DEF ReadSite
  <2>4. UNCHANGED <<live, cache, req, revoked>>
    BY <1>1 DEF ReadSite
  <2>5. TypeOK'
    BY <2>1, <2>2, <2>3, <2>4 DEF IdleReq
  <2>6. k \in revoked /\ Patched(k, body) => body = "active"
    BY <2>1 DEF Patched
  <2>7. RevivalsAreAsked'
    BY <2>3, <2>4, <2>6
  <2> QED BY <2>4, <2>5, <2>7
<1>2. ASSUME NEW k \in ApiKey, BeginDelete(a, k) PROVE IInv'
  BY <1>2 DEF BeginDelete, IdleReq, Key
<1>3. CASE Write(a)
  <2>1. adm[a] \in [at : {"write", "gone", "evict"}, key : Key, to : BOOLEAN, asked : BOOLEAN]
    BY <1>3 DEF Write
  <2>2. TypeOK'
    BY <1>3, <2>1 DEF Write, IdleReq
  <2>3. adm[a].key \in revoked /\ adm[a].to => adm[a].asked
    BY <1>3 DEF Write
  <2>4. RevokedStaysOut'
    BY <1>3, <2>1, <2>3 DEF Write
  <2>5. RevivalsAreAsked'
    BY <1>3, <2>1 DEF Write
  <2> QED BY <2>2, <2>4, <2>5
<1>4. CASE WriteFails(a)
  BY <1>4 DEF WriteFails, IdleReq
<1>5. CASE Evict(a)
  <2>1. adm[a] \in [at : {"write", "gone", "evict"}, key : Key, to : BOOLEAN, asked : BOOLEAN]
    BY <1>5 DEF Evict
  <2>2. TypeOK'
    BY <1>5, <2>1 DEF Evict, Evicted, IdleReq
  <2>3. RevokedStaysOut'
    BY <1>5, <2>1 DEF Evict, Evicted, Clean
  <2>4. RevivalsAreAsked'
    BY <1>5, <2>1 DEF Evict, Clean
  <2> QED BY <2>2, <2>3, <2>4
<1>6. CASE AdminHangsUp(a)
  BY <1>6 DEF AdminHangsUp, IdleReq
<1> QED BY <1>1, <1>2, <1>3, <1>4, <1>5, <1>6 DEF AdminStep

(* A restart empties both caches and forgets every handler in flight.       *)
LEMMA RestartKeeps == IInv /\ Restart => IInv'
  BY KeyAssumption DEF IInv, TypeOK, RevokedStaysOut, RevivalsAreAsked, Filling, Reviving, Restart, IdleReq, IdleAdm

LEMMA NextKeeps == IInv /\ [Next]_vars => IInv'
<1> SUFFICES ASSUME IInv, [Next]_vars PROVE IInv'
  OBVIOUS
<1>1. CASE UNCHANGED vars
  BY <1>1 DEF vars, IInv, TypeOK, RevokedStaysOut, RevivalsAreAsked, Filling, Reviving, IdleReq, IdleAdm
<1>2. CASE Next
  BY <1>2, RequestKeeps, AdminKeeps, RestartKeeps DEF Next
<1> QED BY <1>1, <1>2

(* The handlers and the caches keep their types under every interleaving   *)
(* of lookups, writes, evictions, lost clients and restarts.               *)
THEOREM TypeCorrect == Spec => []TypeOK
<1>1. IInv => TypeOK
  BY DEF IInv
<1> QED BY InitIInv, NextKeeps, <1>1, PTL DEF Spec

(* For any number of handlers in flight: a key whose revocation was         *)
(* answered (sites.rs::patch_site_api, api_keys.rs::delete_key_api) with no  *)
(* lookup of it about to be inserted and no earlier PATCH about to write it *)
(* live stays refused until a body asks for its activation.                 *)
THEOREM CleanRevocationHolds == Spec => []RevokedStaysOut
<1>1. IInv => RevokedStaysOut
  BY DEF IInv
<1> QED BY InitIInv, NextKeeps, <1>1, PTL DEF Spec
-----------------------------------------------------------------------------
(* Accounts. *)

(* A token is signed for the hash its holder has proved to know, never for *)
(* the one that happens to be stored when it is signed; and an             *)
(* organisation without an owner is one whose boot is at the owner, or was *)
(* cut before it.                                                          *)
AccountsInv ==
    /\ AccountsTypeOK
    /\ \A s \in sessions : s.pwd_v = s.proved
    /\ org /\ owner = NoHash => torn \/ boot = "owner"
    /\ boot \in {"owner", "serving"} => org

LEMMA AccountsInit_Inv == AccountsInit => AccountsInv
<1> SUFFICES ASSUME AccountsInit PROVE AccountsInv
  OBVIOUS
<1>1. limiter \in [known : BOOLEAN, count : Nat, age : Age]
  BY AccountsBounds DEF AccountsInit, NoEntry, Age
<1>2. /\ failures \in [0 .. LOGIN_WINDOW -> Nat] /\ mishaps \in 0 .. MaxMishaps /\ hashes \in 0 .. MaxHashes
      /\ hashes = 0 /\ owner = 0
  BY AccountsBounds DEF AccountsInit, NoHash
<1>3. request \in [Handler -> [at : {"free", "lookup", "verify", "read", "update"},
                              guess : Hash \cup {NoHash}, row : Hash \cup {NoHash}]]
  BY DEF AccountsInit, Free
<1>4. org \in BOOLEAN /\ torn \in BOOLEAN
  BY DEF AccountsInit
<1>5. AccountsTypeOK
  BY <1>1, <1>2, <1>3, <1>4 DEF AccountsInit, AccountsTypeOK, NoHash
<1> QED BY <1>5 DEF AccountsInit, AccountsInv
-----------------------------------------------------------------------------
(* The pieces the actions are made of. *)

LEMMA LimiterTyped ==
    ASSUME AccountsTypeOK
    PROVE  /\ is_login_rate_limited => limiter' \in [known : BOOLEAN, count : Nat, age : Age]
           /\ record_login_failure => /\ limiter' \in [known : BOOLEAN, count : Nat, age : Age]
                                      /\ failures' \in [0 .. LOGIN_WINDOW -> Nat]
           /\ clear_login_failures => /\ limiter' \in [known : BOOLEAN, count : Nat, age : Age]
                                      /\ failures' \in [0 .. LOGIN_WINDOW -> Nat]
<1>1. /\ limiter \in [known : BOOLEAN, count : Nat, age : Age]
      /\ failures \in [0 .. LOGIN_WINDOW -> Nat] /\ 0 \in Age /\ 0 \in 0 .. LOGIN_WINDOW
  BY AccountsBounds DEF AccountsTypeOK, Age
<1>2. \A n \in Nat : Window(n) \in [known : BOOLEAN, count : Nat, age : Age]
  BY <1>1 DEF Window
<1>3. NoEntry \in [known : BOOLEAN, count : Nat, age : Age]
  BY <1>1 DEF NoEntry
<1>4. [limiter EXCEPT !.count = @ + 1] \in [known : BOOLEAN, count : Nat, age : Age]
  BY <1>1
<1>5. [failures EXCEPT ![0] = @ + 1] \in [0 .. LOGIN_WINDOW -> Nat]
  BY <1>1
<1>6. is_login_rate_limited => limiter' \in [known : BOOLEAN, count : Nat, age : Age]
  BY <1>1, <1>2 DEF is_login_rate_limited
<1>7. record_login_failure => /\ limiter' \in [known : BOOLEAN, count : Nat, age : Age]
                              /\ failures' \in [0 .. LOGIN_WINDOW -> Nat]
  BY <1>2, <1>4, <1>5 DEF record_login_failure
<1>8. clear_login_failures => /\ limiter' \in [known : BOOLEAN, count : Nat, age : Age]
                              /\ failures' \in [0 .. LOGIN_WINDOW -> Nat]
  BY <1>3 DEF clear_login_failures
<1> QED BY <1>6, <1>7, <1>8

LEMMA RequestTyped ==
    ASSUME AccountsTypeOK, NEW h \in Handler, boot = "serving"
    PROVE  /\ Done(h) => request' \in [Handler -> [at : {"free", "lookup", "verify", "read", "update"},
                                         guess : Hash \cup {NoHash}, row : Hash \cup {NoHash}]]
           /\ \A at \in {"lookup", "verify", "read", "update"}, guess, row \in Hash \cup {NoHash} :
                 To(h, at, guess, row) =>
                    request' \in [Handler -> [at : {"free", "lookup", "verify", "read", "update"},
                                    guess : Hash \cup {NoHash}, row : Hash \cup {NoHash}]]
  BY DEF AccountsTypeOK, Done, To, Free

LEMMA SignedTyped ==
    ASSUME AccountsTypeOK, NEW hash \in Hash, sign_session_bound(hash, hash)
    PROVE  /\ sessions' \subseteq Session
           /\ (\A s \in sessions : s.pwd_v = s.proved) => \A s \in sessions' : s.pwd_v = s.proved
  BY AccountsBounds DEF AccountsTypeOK, sign_session_bound, Session

(* A handler that is not free is served. *)
LEMMA OnlyServing ==
    ASSUME AccountsTypeOK, NEW h \in Handler, request[h].at # "free"
    PROVE  boot = "serving"
  BY DEF AccountsTypeOK, Free

LEMMA GuessTyped ==
    ASSUME AccountsTypeOK, NEW guess \in 0 .. hashes
    PROVE  guess \in Hash \cup {NoHash}
  BY AccountsBounds DEF AccountsTypeOK, Hash, NoHash
-----------------------------------------------------------------------------
LEMMA AccountsStep_Inv == AccountsInv /\ [AccountsNext]_accountVars => AccountsInv'
<1> SUFFICES ASSUME AccountsInv, [AccountsNext]_accountVars PROVE AccountsInv'
  OBVIOUS
<1> USE AccountsBounds DEF AccountsInv
<1>1. CASE UNCHANGED accountVars
  BY <1>1 DEF accountVars, rows, memory, AccountsTypeOK
<1>2. CASE Boot
  BY <1>2 DEF Boot, memory, AccountsTypeOK
<1>3. CASE CreateOwner
  BY <1>3 DEF CreateOwner, memory, AccountsTypeOK, Hash, NoHash
<1>4. CASE CreateOwnerFails
  <2>1. boot' = "down" /\ mishaps' \in 0 .. MaxMishaps
    BY <1>4 DEF CreateOwnerFails, AfterError, Mishap, AccountsTypeOK
  <2>3. torn' = TRUE
    BY <1>4, Zenon DEF CreateOwnerFails, AfterError
  <2>2. \A h \in Handler : request[h] = Free
    BY <1>4 DEF CreateOwnerFails, AccountsTypeOK
  <2> QED BY <1>4, <2>1, <2>2, <2>3 DEF CreateOwnerFails, memory, AccountsTypeOK
<1>5. CASE Crash
  BY <1>5 DEF Crash, Mishap, AccountsTypeOK, NoEntry, Age, Free, NoHash
<1>6. CASE Tick
  <2>1. limiter' \in [known : BOOLEAN, count : Nat, age : Age]
    <3>1. CASE limiter.known /\ ~Expired
      <4>1. limiter' = [limiter EXCEPT !.age = limiter.age + 1]
        BY <1>6, <3>1 DEF Tick
      <4> QED BY <3>1, <4>1 DEF AccountsTypeOK, Expired, Age
    <3>2. CASE ~(limiter.known /\ ~Expired)
      <4>1. limiter' = [limiter EXCEPT !.age = limiter.age]
        BY <1>6, <3>2 DEF Tick
      <4> QED BY <4>1 DEF AccountsTypeOK
    <3> QED BY <3>1, <3>2
  <2>2. failures' \in [0 .. LOGIN_WINDOW -> Nat]
    BY <1>6 DEF Tick, AccountsTypeOK
  <2>3. ASSUME NEW s \in sessions'
        PROVE  s \in Session /\ s.pwd_v = s.proved
    <3>1. PICK t \in sessions : t.left > 0 /\ s = [t EXCEPT !.left = @ - 1]
      BY <1>6 DEF Tick
    <3>2. t \in Session /\ t.pwd_v = t.proved
      BY DEF AccountsTypeOK
    <3> QED BY <3>1, <3>2 DEF Session
  <2> QED BY <1>6, <2>1, <2>2, <2>3 DEF Tick, rows, AccountsTypeOK
<1>7. ASSUME NEW h \in Handler, NEW guess \in 0 .. hashes, LoginArrives(h, guess)
      PROVE  AccountsInv'
  BY <1>7, LimiterTyped, RequestTyped, GuessTyped
     DEF LoginArrives, rows, AccountsTypeOK, NoHash
<1>8. ASSUME NEW h \in Handler, LoginLooksUp(h)
      PROVE  AccountsInv'
  <2>1. boot = "serving"
    BY <1>8, OnlyServing DEF LoginLooksUp
  <2>2. request[h].guess \in Hash \cup {NoHash} /\ owner \in Hash \cup {NoHash}
    BY DEF AccountsTypeOK
  <2>3. request' \in [Handler -> [at : {"free", "lookup", "verify", "read", "update"},
                                 guess : Hash \cup {NoHash}, row : Hash \cup {NoHash}]]
    BY <1>8, <2>1, <2>2, RequestTyped DEF LoginLooksUp
  <2>4. mishaps' \in 0 .. MaxMishaps
    BY <1>8 DEF LoginLooksUp, Mishap, AccountsTypeOK
  <2> QED BY <1>8, <2>1, <2>3, <2>4 DEF LoginLooksUp, rows, memory, AccountsTypeOK
<1>9. ASSUME NEW h \in Handler, LoginVerifies(h)
      PROVE  AccountsInv'
  <2>1. boot = "serving" /\ Done(h)
    BY <1>9, OnlyServing DEF LoginVerifies
  <2>2. /\ limiter' \in [known : BOOLEAN, count : Nat, age : Age]
        /\ failures' \in [0 .. LOGIN_WINDOW -> Nat]
    BY <1>9, LimiterTyped DEF LoginVerifies
  <2>3. sessions' \subseteq Session /\ \A s \in sessions' : s.pwd_v = s.proved
    <3>1. CASE sessions' = sessions
      BY <3>1 DEF AccountsTypeOK
    <3>2. CASE /\ request[h].row # NoHash /\ request[h].guess = request[h].row
               /\ sign_session_bound(request[h].row, request[h].guess)
      <4>1. request[h].row \in Hash
        BY <3>2 DEF AccountsTypeOK
      <4> QED BY <3>2, <4>1, SignedTyped
    <3> QED BY <1>9, <3>1, <3>2 DEF LoginVerifies
  <2> QED BY <1>9, <2>1, <2>2, <2>3, RequestTyped DEF LoginVerifies, rows, AccountsTypeOK
<1>10. ASSUME NEW h \in Handler, NEW s \in sessions, NEW guess \in 0 .. hashes, ChangeArrives(h, s, guess)
       PROVE  AccountsInv'
  BY <1>10, RequestTyped, GuessTyped DEF ChangeArrives, rows, memory, AccountsTypeOK, NoHash
<1>11. ASSUME NEW h \in Handler, ChangeReads(h)
       PROVE  AccountsInv'
  <2>1. boot = "serving"
    BY <1>11, OnlyServing DEF ChangeReads
  <2>2. request[h].guess \in Hash \cup {NoHash} /\ owner \in Hash \cup {NoHash}
    BY DEF AccountsTypeOK
  <2>3. request' \in [Handler -> [at : {"free", "lookup", "verify", "read", "update"},
                                 guess : Hash \cup {NoHash}, row : Hash \cup {NoHash}]]
    BY <1>11, <2>1, <2>2, RequestTyped DEF ChangeReads
  <2>4. mishaps' \in 0 .. MaxMishaps
    BY <1>11 DEF ChangeReads, Mishap, AccountsTypeOK
  <2> QED BY <1>11, <2>1, <2>3, <2>4 DEF ChangeReads, rows, memory, AccountsTypeOK
<1>12. ASSUME NEW h \in Handler, ChangeUpdates(h)
       PROVE  AccountsInv'
  <2>1. boot = "serving" /\ Done(h)
    BY <1>12, OnlyServing DEF ChangeUpdates
  <2>2. CASE UNCHANGED <<owner, hashes, sessions>> /\ Mishap
    BY <1>12, <2>1, <2>2, RequestTyped DEF ChangeUpdates, Mishap, memory, AccountsTypeOK
  <2>3. CASE /\ hashes < MaxHashes /\ owner' = hashes + 1 /\ hashes' = hashes + 1
             /\ sign_session_bound(owner', hashes + 1) /\ UNCHANGED mishaps
    <3>1. hashes + 1 \in Hash /\ hashes + 1 # NoHash /\ hashes' \in 0 .. MaxHashes
      BY <2>3 DEF AccountsTypeOK, Hash, NoHash
    <3>2. sign_session_bound(hashes + 1, hashes + 1)
      BY <2>3
    <3>3. sessions' \subseteq Session /\ \A s \in sessions' : s.pwd_v = s.proved
      BY <3>1, <3>2, SignedTyped
    <3> QED BY <1>12, <2>1, <2>3, <3>1, <3>3, RequestTyped DEF ChangeUpdates, memory, AccountsTypeOK
  <2> QED BY <1>12, <2>2, <2>3 DEF ChangeUpdates
<1> QED BY <1>1, <1>2, <1>3, <1>4, <1>5, <1>6, <1>7, <1>8, <1>9, <1>10, <1>11, <1>12 DEF AccountsNext

LEMMA AccountsInvariant == AccountsSpec => []AccountsInv
  BY AccountsInit_Inv, AccountsStep_Inv, PTL DEF AccountsSpec

(* The limiter's entry, the rows and the tokens keep their types, and no   *)
(* handler runs in a process that does not serve.                          *)
THEOREM AccountsTyped == AccountsSpec => []AccountsTypeOK
<1>1. AccountsInv => AccountsTypeOK
  BY DEF AccountsInv
<1> QED BY <1>1, AccountsInvariant, PTL

(* middleware/auth.rs session_still_valid: a token that is let in belongs  *)
(* to somebody who has shown the password that is stored, however logins   *)
(* and changes of the password overlap.                                    *)
THEOREM PasswordSessions == AccountsSpec => []SessionsFollowThePassword
<1>1. AccountsInv => SessionsFollowThePassword
  BY DEF AccountsInv, SessionsFollowThePassword, session_still_valid
<1> QED BY <1>1, AccountsInvariant, PTL

(* launch.rs bootstrap_self_hosted: a server that answers has an owner,    *)
(* unless its first boot was cut between the two rows.                     *)
THEOREM OwnerWhenServing == AccountsSpec => []ServingHasOwner
<1>1. AccountsInv => ServingHasOwner
  BY DEF AccountsInv, ServingHasOwner
<1> QED BY <1>1, AccountsInvariant, PTL
-----------------------------------------------------------------------------
(* Sums of the failed logins by age. *)

LEMMA Least ==
    ASSUME NEW T \in SUBSET Nat, T # {}
    PROVE  \E x \in T : \A y \in T : x <= y
<1>1. PICK x \in T : \A y \in T : ~(<<y, x>> \in OpToRel(<, Nat))
  BY NatLessThanWellFounded, WFMin
<1>2. \A y \in T : ~(y < x)
  BY <1>1 DEF OpToRel
<1> QED
  BY <1>2

(* Induction over the ages, on the set of those for which a claim holds. *)
LEMMA EveryAge ==
    ASSUME NEW S, 0 \in S, \A a \in 1 .. LOGIN_WINDOW : a - 1 \in S => a \in S
    PROVE  \A a \in 0 .. LOGIN_WINDOW : a \in S
<1> DEFINE T == (0 .. LOGIN_WINDOW) \ S
<1> SUFFICES ASSUME T # {} PROVE FALSE
  OBVIOUS
<1>1. T \in SUBSET Nat
  OBVIOUS
<1>2. PICK a \in T : \A b \in T : a <= b
  <2> HIDE DEF T
  <2> QED
    BY <1>1, Least
<1>3. a \in 1 .. LOGIN_WINDOW /\ a - 1 \notin S
  OBVIOUS
<1>4. a - 1 \in T
  <2>1. a - 1 \in 0 .. LOGIN_WINDOW
    BY <1>3, AccountsBounds
  <2> QED
    BY <1>3, <2>1
<1> QED
  BY <1>2, <1>3, <1>4

(* The sums that Upto names exist: take the least age up to which they do  *)
(* not, and extend those of the age before it.                             *)
LEMMA UptoStep ==
    ASSUME NEW f \in [0 .. LOGIN_WINDOW -> Nat]
    PROVE  Upto(f) = [a \in 0 .. LOGIN_WINDOW |-> f[a] + (IF a = 0 THEN 0 ELSE Upto(f)[a - 1])]
<1> DEFINE Sums(s, n) == s = [a \in 0 .. n |-> f[a] + (IF a = 0 THEN 0 ELSE s[a - 1])]
           Without == {n \in 0 .. LOGIN_WINDOW : ~ \E s : Sums(s, n)}
<1> USE AccountsBounds
<1>1. Without = {}
  <2> SUFFICES ASSUME Without # {} PROVE FALSE
    OBVIOUS
  <2>0. Without \in SUBSET Nat
    OBVIOUS
  <2>1. PICK n \in Without : \A m \in Without : n <= m
    <3> HIDE DEF Without
    <3> QED
      BY <2>0, Least
  <2>2. n \in 0 .. LOGIN_WINDOW /\ ~ \E s : Sums(s, n)
    OBVIOUS
  <2>3. n # 0
    <3>1. Sums([a \in 0 .. 0 |-> f[a]], 0)
      BY <2>2
    <3> QED
      BY <2>2, <3>1
  <2>4. PICK s : Sums(s, n - 1)
    BY <2>1, <2>2, <2>3
  <2>5. Sums([a \in 0 .. n |-> IF a = n THEN f[n] + s[n - 1] ELSE s[a]], n)
    <3> DEFINE t == [a \in 0 .. n |-> IF a = n THEN f[n] + s[n - 1] ELSE s[a]]
    <3>1. ASSUME NEW a \in 0 .. n
          PROVE  t[a] = f[a] + (IF a = 0 THEN 0 ELSE t[a - 1])
      BY <2>2, <2>3, <2>4
    <3> QED
      BY <3>1
  <2> QED
    BY <2>2, <2>5
<1>2. \E s : Sums(s, LOGIN_WINDOW)
  <2>1. LOGIN_WINDOW \in 0 .. LOGIN_WINDOW
    OBVIOUS
  <2> QED
    BY <1>1, <2>1
<1> QED
  BY <1>2 DEF Upto

LEMMA UptoIs ==
    ASSUME NEW f \in [0 .. LOGIN_WINDOW -> Nat]
    PROVE  /\ Upto(f) \in [0 .. LOGIN_WINDOW -> Nat]
           /\ Upto(f)[0] = f[0]
           /\ \A a \in 1 .. LOGIN_WINDOW : Upto(f)[a] = f[a] + Upto(f)[a - 1]
<1> DEFINE U == Upto(f)
           S == {a \in 0 .. LOGIN_WINDOW : U[a] \in Nat}
<1> USE AccountsBounds
<1>1. U = [a \in 0 .. LOGIN_WINDOW |-> f[a] + (IF a = 0 THEN 0 ELSE U[a - 1])]
  BY UptoStep
<1> HIDE DEF U
<1>2. DOMAIN U = 0 .. LOGIN_WINDOW /\ \A a \in 0 .. LOGIN_WINDOW : U[a] = f[a] + (IF a = 0 THEN 0 ELSE U[a - 1])
  BY <1>1
<1>3. U[0] = f[0] /\ \A a \in 1 .. LOGIN_WINDOW : U[a] = f[a] + U[a - 1]
  BY <1>2
<1>4. 0 \in S /\ \A a \in 1 .. LOGIN_WINDOW : a - 1 \in S => a \in S
  BY <1>3
<1>5. \A a \in 0 .. LOGIN_WINDOW : a \in S
  <2> HIDE DEF S
  <2> QED BY <1>4, EveryAge
<1>6. U \in [0 .. LOGIN_WINDOW -> Nat]
  BY <1>1, <1>5
<1> QED
  BY <1>3, <1>6 DEF U

(* The more ages, the more failures. *)
LEMMA UptoGrows ==
    ASSUME NEW f \in [0 .. LOGIN_WINDOW -> Nat], NEW b \in 0 .. LOGIN_WINDOW
    PROVE  \A a \in 0 .. LOGIN_WINDOW : b <= a => Upto(f)[b] <= Upto(f)[a]
<1> DEFINE U == Upto(f)
           S == {a \in 0 .. LOGIN_WINDOW : b <= a => U[b] <= U[a]}
<1> USE AccountsBounds
<1>1. U \in [0 .. LOGIN_WINDOW -> Nat] /\ \A a \in 1 .. LOGIN_WINDOW : U[a] = f[a] + U[a - 1]
  BY UptoIs
<1> HIDE DEF U
<1>2. 0 \in S /\ \A a \in 1 .. LOGIN_WINDOW : a - 1 \in S => a \in S
  <2>1. 0 \in S
    BY <1>1
  <2>2. ASSUME NEW a \in 1 .. LOGIN_WINDOW, a - 1 \in S PROVE a \in S
    <3>1. a - 1 \in 0 .. LOGIN_WINDOW /\ U[a] \in Nat /\ U[a - 1] \in Nat /\ U[b] \in Nat /\ f[a] \in Nat
      BY <1>1
    <3>2. U[a - 1] <= U[a]
      BY <1>1, <3>1
    <3>3. b <= a - 1 => U[b] <= U[a - 1]
      BY <2>2
    <3> QED
      BY <3>1, <3>2, <3>3
  <2> QED
    BY <2>1, <2>2
<1>3. \A a \in 0 .. LOGIN_WINDOW : a \in S
  <2> HIDE DEF S
  <2> QED BY <1>2, EveryAge
<1> QED
  BY <1>3 DEF U

LEMMA UptoOfNone ==
    \A a \in 0 .. LOGIN_WINDOW : Upto([b \in 0 .. LOGIN_WINDOW |-> 0])[a] = 0
<1> DEFINE f == [b \in 0 .. LOGIN_WINDOW |-> 0]
           U == Upto(f)
           S == {a \in 0 .. LOGIN_WINDOW : U[a] = 0}
<1> USE AccountsBounds
<1>1. f \in [0 .. LOGIN_WINDOW -> Nat]
  OBVIOUS
<1>2. U[0] = 0 /\ \A a \in 1 .. LOGIN_WINDOW : U[a] = 0 + U[a - 1]
  <2>1. f[0] = 0 /\ \A a \in 1 .. LOGIN_WINDOW : f[a] = 0
    OBVIOUS
  <2> HIDE DEF f
  <2> QED BY <1>1, <2>1, UptoIs
<1> HIDE DEF U
<1>3. 0 \in S /\ \A a \in 1 .. LOGIN_WINDOW : a - 1 \in S => a \in S
  BY <1>2
<1>4. \A a \in 0 .. LOGIN_WINDOW : a \in S
  <2> HIDE DEF S
  <2> QED BY <1>3, EveryAge
<1> QED
  BY <1>4 DEF U

(* One more failure now is one more in every sum. *)
LEMMA UptoCounts ==
    ASSUME NEW f \in [0 .. LOGIN_WINDOW -> Nat]
    PROVE  \A a \in 0 .. LOGIN_WINDOW : Upto([f EXCEPT ![0] = @ + 1])[a] = Upto(f)[a] + 1
<1> DEFINE g == [f EXCEPT ![0] = @ + 1]
           U == Upto(f)
           V == Upto(g)
           S == {a \in 0 .. LOGIN_WINDOW : V[a] = U[a] + 1}
<1> USE AccountsBounds
<1>1. g \in [0 .. LOGIN_WINDOW -> Nat] /\ g[0] = f[0] + 1 /\ \A a \in 1 .. LOGIN_WINDOW : g[a] = f[a]
  OBVIOUS
<1> HIDE DEF g
<1>2. /\ U \in [0 .. LOGIN_WINDOW -> Nat]
      /\ U[0] = f[0] /\ \A a \in 1 .. LOGIN_WINDOW : U[a] = f[a] + U[a - 1]
  BY UptoIs
<1>3. /\ V \in [0 .. LOGIN_WINDOW -> Nat]
      /\ V[0] = g[0] /\ \A a \in 1 .. LOGIN_WINDOW : V[a] = g[a] + V[a - 1]
  BY <1>1, UptoIs
<1> HIDE DEF U, V
<1>4. 0 \in S /\ \A a \in 1 .. LOGIN_WINDOW : a - 1 \in S => a \in S
  <2>1. 0 \in S
    BY <1>1, <1>2, <1>3
  <2>2. ASSUME NEW a \in 1 .. LOGIN_WINDOW, a - 1 \in S PROVE a \in S
    <3>1. V[a - 1] = U[a - 1] + 1 /\ f[a] \in Nat /\ U[a - 1] \in Nat /\ g[a] = f[a]
      BY <1>1, <1>2, <2>2
    <3>2. V[a] = U[a] + 1
      BY <1>2, <1>3, <3>1
    <3> QED
      BY <3>2
  <2> QED
    BY <2>1, <2>2
<1>5. \A a \in 0 .. LOGIN_WINDOW : a \in S
  <2> HIDE DEF S
  <2> QED BY <1>4, EveryAge
<1> QED
  BY <1>5 DEF U, V, g

(* When a tick passes, the failures that are older than the window drop    *)
(* out of the sums.                                                        *)
LEMMA UptoAges ==
    ASSUME NEW f \in [0 .. LOGIN_WINDOW -> Nat]
    PROVE  LET g == [a \in 0 .. LOGIN_WINDOW |-> IF a = 0 THEN 0 ELSE f[a - 1]]
           IN  Upto(g)[0] = 0 /\ \A a \in 1 .. LOGIN_WINDOW : Upto(g)[a] = Upto(f)[a - 1]
<1> DEFINE g == [a \in 0 .. LOGIN_WINDOW |-> IF a = 0 THEN 0 ELSE f[a - 1]]
           U == Upto(f)
           V == Upto(g)
           S == {a \in 0 .. LOGIN_WINDOW : a > 0 => V[a] = U[a - 1]}
<1> USE AccountsBounds
<1>1. g \in [0 .. LOGIN_WINDOW -> Nat] /\ g[0] = 0 /\ \A a \in 1 .. LOGIN_WINDOW : g[a] = f[a - 1]
  OBVIOUS
<1> HIDE DEF g
<1>2. /\ U \in [0 .. LOGIN_WINDOW -> Nat]
      /\ U[0] = f[0] /\ \A a \in 1 .. LOGIN_WINDOW : U[a] = f[a] + U[a - 1]
  BY UptoIs
<1>3. /\ V \in [0 .. LOGIN_WINDOW -> Nat]
      /\ V[0] = 0 /\ \A a \in 1 .. LOGIN_WINDOW : V[a] = g[a] + V[a - 1]
  BY <1>1, UptoIs
<1> HIDE DEF U, V
<1>4. ASSUME NEW a \in 1 .. LOGIN_WINDOW, a - 1 \in S PROVE a \in S
  <2>1. CASE a = 1
    <3>1. V[1] = f[0] + 0
      BY <1>1, <1>3, <2>1
    <3> QED BY <1>2, <2>1, <3>1
  <2>2. CASE a > 1
    <3>1. a - 1 \in 1 .. LOGIN_WINDOW /\ V[a] = f[a - 1] + U[a - 1 - 1]
      BY <1>1, <1>3, <1>4, <2>2
    <3> QED BY <1>2, <3>1
  <2> QED BY <2>1, <2>2
<1>5. \A a \in 0 .. LOGIN_WINDOW : a \in S
  <2>1. 0 \in S
    OBVIOUS
  <2> HIDE DEF S
  <2> QED BY <1>4, <2>1, EveryAge
<1>6. V[0] = 0 /\ \A a \in 1 .. LOGIN_WINDOW : V[a] = U[a - 1]
  BY <1>3, <1>5
<1> QED
  BY <1>6 DEF U, V, g
-----------------------------------------------------------------------------
(* A login is past the limiter until it is answered.  The window began     *)
(* Begun ticks ago.                                                        *)
Past == {h \in Handler : request[h].at \in {"lookup", "verify"}}
Begun == IF limiter.age > LOGIN_WINDOW THEN LOGIN_WINDOW ELSE limiter.age

(* What keeps the failed logins bounded although the limiter is asked      *)
(* before the hash is computed: the count leaves room for the logins that  *)
(* are past it (RoomLeft); what failed since the window began is counted,  *)
(* what failed before it fits one window, an entry that has expired is not *)
(* counted on, and without an entry nothing has failed (Windows).          *)
RoomLeft == limiter.count + Cardinality(Past) <= Burst
Windows ==
    /\ Upto(failures)[Begun] <= limiter.count
    /\ Recent - Upto(failures)[Begun] <= Burst
    /\ Expired => failures[0] = 0
    /\ ~limiter.known => limiter = NoEntry /\ failures = [a \in 0 .. LOGIN_WINDOW |-> 0]

LEMMA LimiterTypes ==
    ASSUME AccountsTypeOK
    PROVE  /\ limiter \in [known : BOOLEAN, count : Nat, age : Nat]
           /\ failures \in [0 .. LOGIN_WINDOW -> Nat] /\ LOGIN_WINDOW \in Nat
           /\ Begun \in 0 .. LOGIN_WINDOW /\ limiter.age <= LOGIN_WINDOW + 1
           /\ Expired <=> limiter.age = LOGIN_WINDOW + 1
           /\ Recent \in Nat /\ Upto(failures)[Begun] \in Nat /\ Upto(failures)[Begun] <= Recent
<1>1. /\ limiter \in [known : BOOLEAN, count : Nat, age : Nat]
      /\ failures \in [0 .. LOGIN_WINDOW -> Nat] /\ LOGIN_WINDOW \in Nat
      /\ limiter.age <= LOGIN_WINDOW + 1
  BY AccountsBounds DEF AccountsTypeOK, Age
<1>2. Begun \in 0 .. LOGIN_WINDOW
  BY <1>1 DEF Begun
<1>3. Expired <=> limiter.age = LOGIN_WINDOW + 1
  BY <1>1 DEF Expired
<1>4. Upto(failures) \in [0 .. LOGIN_WINDOW -> Nat] /\ LOGIN_WINDOW \in 0 .. LOGIN_WINDOW
  BY <1>1, UptoIs
<1>5. Recent \in Nat /\ Upto(failures)[Begun] \in Nat
  BY <1>2, <1>4 DEF Recent
<1>6. Upto(failures)[Begun] <= Recent
  <2>1. \A a \in 0 .. LOGIN_WINDOW : Begun <= a => Upto(failures)[Begun] <= Upto(failures)[a]
    BY <1>1, <1>2, UptoGrows
  <2> QED
    BY <1>1, <1>2, <1>4, <2>1 DEF Recent
<1> QED
  BY <1>1, <1>2, <1>3, <1>5, <1>6

LEMMA PastFits ==
    /\ Burst \in Nat /\ Cardinality(Handler) \in Nat /\ Burst = LOGIN_MAX_FAILURES - 1 + Cardinality(Handler)
    /\ LOGIN_MAX_FAILURES \in Nat \ {0}
    /\ \A S \in SUBSET Handler : /\ IsFiniteSet(S) /\ Cardinality(S) \in Nat
                                 /\ Cardinality(S) <= Cardinality(Handler)
<1>1. \A S \in SUBSET Handler : /\ IsFiniteSet(S) /\ Cardinality(S) \in Nat
                                /\ Cardinality(S) <= Cardinality(Handler)
  BY AccountsBounds, FS_Subset, FS_CardinalityType
<1>2. Cardinality(Handler) \in Nat
  BY AccountsBounds, FS_CardinalityType
<1> QED
  BY <1>1, <1>2, AccountsBounds DEF Burst

(* A step that touches neither entry nor failures and lets nobody past.    *)
LEMMA LimiterRests ==
    ASSUME AccountsTypeOK, RoomLeft, Windows, UNCHANGED memory, Past' \subseteq Past
    PROVE  RoomLeft' /\ Windows'
<1>1. limiter' = limiter /\ failures' = failures
  BY DEF memory
<1>2. Windows'
  BY <1>1 DEF Windows, Recent, Begun, Expired
<1>3. Past \in SUBSET Handler
  BY DEF Past
<1>4. Cardinality(Past') \in Nat /\ Cardinality(Past) \in Nat /\ Cardinality(Past') <= Cardinality(Past)
  BY <1>3, PastFits, FS_Subset
<1> QED
  BY <1>1, <1>2, <1>4, LimiterTypes, PastFits DEF RoomLeft, Burst

(* What a start finds: no entry, no failure, nobody past the limiter.      *)
LEMMA LimiterEmpty ==
    ASSUME limiter = NoEntry, failures = [a \in 0 .. LOGIN_WINDOW |-> 0], Past = {}
    PROVE  RoomLeft /\ Windows
<1>1. /\ limiter.count = 0 /\ limiter.age = 0 /\ LOGIN_WINDOW \in Nat /\ 0 \in 0 .. LOGIN_WINDOW
      /\ LOGIN_WINDOW \in 0 .. LOGIN_WINDOW
  BY AccountsBounds DEF NoEntry
<1>2. Begun = 0 /\ ~Expired
  BY <1>1 DEF Begun, Expired
<1>3. Upto(failures)[0] = 0 /\ Recent = 0
  BY <1>1, UptoOfNone DEF Recent
<1>4. Cardinality(Past) = 0
  BY FS_EmptySet
<1> QED
  BY <1>1, <1>2, <1>3, <1>4, PastFits DEF RoomLeft, Windows

LEMMA LimiterRestarts ==
    ASSUME limiter' = NoEntry, failures' = [a \in 0 .. LOGIN_WINDOW |-> 0], Past' = {}
    PROVE  RoomLeft' /\ Windows'
<1>1. /\ limiter'.count = 0 /\ limiter'.age = 0 /\ LOGIN_WINDOW \in Nat /\ 0 \in 0 .. LOGIN_WINDOW
      /\ LOGIN_WINDOW \in 0 .. LOGIN_WINDOW
  BY AccountsBounds DEF NoEntry
<1>2. Begun' = 0 /\ ~Expired'
  BY <1>1 DEF Begun, Expired
<1>3. Upto(failures')[0] = 0 /\ Recent' = 0
  BY <1>1, UptoOfNone DEF Recent
<1>4. Cardinality(Past') = 0
  BY FS_EmptySet
<1> QED
  BY <1>1, <1>2, <1>3, <1>4, PastFits DEF RoomLeft, Windows, Burst

LEMMA LimiterTicks ==
    ASSUME AccountsTypeOK, RoomLeft, Windows, Tick
    PROVE  RoomLeft' /\ Windows'
<1> DEFINE U == Upto(failures)
           V == Upto(failures')
<1>1. /\ limiter \in [known : BOOLEAN, count : Nat, age : Nat]
      /\ failures \in [0 .. LOGIN_WINDOW -> Nat] /\ LOGIN_WINDOW \in Nat
      /\ limiter.age <= LOGIN_WINDOW + 1 /\ (Expired <=> limiter.age = LOGIN_WINDOW + 1)
  BY LimiterTypes
<1>2. /\ limiter'.known = limiter.known /\ limiter'.count = limiter.count
      /\ limiter'.age = IF limiter.known /\ ~Expired THEN limiter.age + 1 ELSE limiter.age
  BY <1>1 DEF Tick
<1>3. failures' = [a \in 0 .. LOGIN_WINDOW |-> IF a = 0 THEN 0 ELSE failures[a - 1]] /\ Past' = Past
  BY DEF Tick, Past
<1>4. RoomLeft'
  BY <1>2, <1>3 DEF RoomLeft, Burst
<1>5. U \in [0 .. LOGIN_WINDOW -> Nat] /\ V[0] = 0 /\ \A a \in 1 .. LOGIN_WINDOW : V[a] = U[a - 1]
  BY <1>1, <1>3, UptoIs, UptoAges
<1>6. \A a, b \in 0 .. LOGIN_WINDOW : b <= a => U[b] <= U[a]
  BY <1>1, UptoGrows
<1>7. Recent = U[LOGIN_WINDOW] /\ Recent' = V[LOGIN_WINDOW]
  BY DEF Recent
<1>8. Expired' => failures'[0] = 0
  BY <1>1, <1>3
<1> HIDE DEF U, V
<1>9. CASE ~limiter.known
  <2>1. limiter = NoEntry /\ failures = [a \in 0 .. LOGIN_WINDOW |-> 0]
    BY <1>9 DEF Windows
  <2>2. limiter' = NoEntry /\ failures' = [a \in 0 .. LOGIN_WINDOW |-> 0]
    <3>1. limiter' = [limiter EXCEPT !.age = limiter.age]
      BY <1>9 DEF Tick
    <3>2. limiter' = limiter
      BY <1>1, <3>1
    <3> QED
      BY <1>1, <1>3, <2>1, <3>2
  <2>3. Upto([a \in 0 .. LOGIN_WINDOW |-> 0])[0] = 0 /\ Upto([a \in 0 .. LOGIN_WINDOW |-> 0])[LOGIN_WINDOW] = 0
    BY <1>1, UptoOfNone
  <2>4. limiter'.age = 0 /\ limiter'.count = 0
    BY <2>2 DEF NoEntry
  <2>5. Begun' = 0
    BY <1>1, <2>4 DEF Begun
  <2> QED
    BY <1>4, <1>8, <2>2, <2>3, <2>4, <2>5, PastFits DEF Windows, Recent, Burst
<1>10. CASE limiter.known /\ limiter.age < LOGIN_WINDOW
  <2>1. Begun = limiter.age /\ Begun' = limiter.age + 1
    BY <1>1, <1>2, <1>10 DEF Begun
  <2>2. V[Begun'] = U[Begun]
    <3>1. ASSUME NEW n \in Nat, n < LOGIN_WINDOW PROVE V[n + 1] = U[n]
      <4>1. n + 1 \in 1 .. LOGIN_WINDOW /\ (n + 1) - 1 = n
        BY <1>1, <3>1
      <4>2. V[n + 1] = U[(n + 1) - 1]
        BY <1>5, <4>1
      <4> QED
        BY <4>1, <4>2
    <3>2. limiter.age \in Nat
      BY <1>1
    <3> QED
      BY <1>10, <2>1, <3>1, <3>2
  <2>3. V[LOGIN_WINDOW] <= U[LOGIN_WINDOW] /\ U[LOGIN_WINDOW] \in Nat /\ V[LOGIN_WINDOW] \in Nat /\ U[Begun] \in Nat
    <3>1. limiter.age \in Nat
      BY <1>1
    <3>2. /\ LOGIN_WINDOW \in 1 .. LOGIN_WINDOW /\ LOGIN_WINDOW - 1 \in 0 .. LOGIN_WINDOW
          /\ LOGIN_WINDOW \in 0 .. LOGIN_WINDOW /\ LOGIN_WINDOW - 1 <= LOGIN_WINDOW /\ limiter.age \in 0 .. LOGIN_WINDOW
      BY <1>1, <1>10, <3>1
    <3> QED
      BY <1>5, <1>6, <2>1, <3>2
  <2>4. V[Begun'] <= limiter'.count /\ Recent' - V[Begun'] <= Burst
    BY <1>2, <1>7, <2>2, <2>3, PastFits DEF Windows, U
  <2> QED
    BY <1>2, <1>4, <1>8, <1>10, <2>4 DEF Windows, V, Burst
<1>11. CASE limiter.known /\ limiter.age >= LOGIN_WINDOW
  <2>1. Begun = LOGIN_WINDOW /\ Begun' = LOGIN_WINDOW
    BY <1>1, <1>2, <1>11 DEF Begun
  <2>2. V[LOGIN_WINDOW] <= U[LOGIN_WINDOW] /\ U[LOGIN_WINDOW] \in Nat /\ V[LOGIN_WINDOW] \in Nat
    <3>1. CASE LOGIN_WINDOW = 0
      BY <1>1, <1>5, <3>1
    <3>2. CASE LOGIN_WINDOW > 0
      <4>1. LOGIN_WINDOW \in 1 .. LOGIN_WINDOW /\ LOGIN_WINDOW - 1 \in 0 .. LOGIN_WINDOW
            /\ LOGIN_WINDOW \in 0 .. LOGIN_WINDOW /\ LOGIN_WINDOW - 1 <= LOGIN_WINDOW
        BY <1>1, <3>2
      <4> QED
        BY <1>5, <1>6, <4>1
    <3> QED
      BY <1>1, <3>1, <3>2
  <2>3. V[Begun'] <= limiter'.count /\ Recent' - V[Begun'] <= Burst
    BY <1>1, <1>2, <1>7, <2>1, <2>2, PastFits DEF Windows, U
  <2> QED
    BY <1>2, <1>4, <1>8, <1>11, <2>3 DEF Windows, V, Burst
<1> QED
  BY <1>1, <1>9, <1>10, <1>11

(* Opening a window: nothing has failed in the unit in which the entry is  *)
(* found expired, and what the sums hold is what the window counted.       *)
LEMMA ExpiredFits ==
    ASSUME AccountsTypeOK, RoomLeft, Windows, Expired
    PROVE  Upto(failures)[0] = 0 /\ Recent <= Burst /\ limiter.known
<1>1. limiter.known
  BY AccountsBounds DEF Windows, Expired, NoEntry
<1>2. Begun = LOGIN_WINDOW
  BY LimiterTypes DEF Begun
<1>3. Recent <= limiter.count
  BY <1>2 DEF Windows, Recent
<1>4. Cardinality(Past) \in Nat
  BY PastFits DEF Past
<1>5. Recent <= Burst
  BY <1>3, <1>4, LimiterTypes, PastFits DEF RoomLeft
<1> QED
  BY <1>1, <1>5, LimiterTypes, UptoIs DEF Windows

LEMMA LimiterArrives ==
    ASSUME AccountsTypeOK, RoomLeft, Windows, NEW h \in Handler, NEW guess, LoginArrives(h, guess)
    PROVE  RoomLeft' /\ Windows'
<1>1. Past' \in SUBSET Handler
  BY DEF Past
<1>2. /\ failures' = failures /\ limiter' = IF Expired THEN Window(0) ELSE limiter
      /\ limiter.count < LOGIN_MAX_FAILURES \/ Expired
  BY LimiterTypes, AccountsBounds DEF LoginArrives, Limited, is_login_rate_limited
<1>3. RoomLeft'
  <2>1. limiter'.count <= LOGIN_MAX_FAILURES - 1 /\ limiter'.count \in Nat
    BY <1>2, LimiterTypes, PastFits DEF Window
  <2>2. Cardinality(Past') \in Nat /\ Cardinality(Past') <= Cardinality(Handler)
    BY <1>1, PastFits
  <2> QED
    BY <2>1, <2>2, PastFits DEF RoomLeft, Burst
<1>4. CASE ~Expired
  BY <1>2, <1>3, <1>4 DEF Windows, Recent, Begun, Expired, Burst
<1>5. CASE Expired
  <2>1. limiter'.known /\ limiter'.count = 0 /\ limiter'.age = 0
    BY <1>2, <1>5 DEF Window
  <2>2. Begun' = 0 /\ ~Expired'
    BY <2>1, AccountsBounds DEF Begun, Expired
  <2>3. Recent' = Recent
    BY <1>2 DEF Recent
  <2> QED
    BY <1>2, <1>3, <1>5, <2>1, <2>2, <2>3, ExpiredFits, LimiterTypes, PastFits DEF Windows, Burst
<1> QED
  BY <1>4, <1>5

LEMMA LimiterVerifies ==
    ASSUME AccountsTypeOK, RoomLeft, Windows, NEW h \in Handler, LoginVerifies(h)
    PROVE  RoomLeft' /\ Windows'
<1>1. h \in Past /\ Past' = Past \ {h} /\ Past \in SUBSET Handler
  BY DEF LoginVerifies, Done, Free, Past, AccountsTypeOK
<1>2. /\ Cardinality(Past') = Cardinality(Past) - 1 /\ Cardinality(Past) \in Nat
      /\ Cardinality(Past') \in Nat /\ Cardinality(Past') <= Cardinality(Handler) - 1
  BY <1>1, PastFits, FS_RemoveElement
<1>3. CASE clear_login_failures
  <2>1. limiter' = NoEntry /\ failures' = [a \in 0 .. LOGIN_WINDOW |-> 0]
    BY <1>3 DEF clear_login_failures
  <2>2. limiter'.count = 0 /\ limiter'.age = 0 /\ LOGIN_WINDOW \in Nat
    BY <2>1, AccountsBounds DEF NoEntry
  <2>3. Begun' = 0 /\ ~Expired'
    BY <2>2 DEF Begun, Expired
  <2>4. Upto([a \in 0 .. LOGIN_WINDOW |-> 0])[0] = 0 /\ Upto([a \in 0 .. LOGIN_WINDOW |-> 0])[LOGIN_WINDOW] = 0
    BY <2>2, UptoOfNone
  <2> QED
    BY <1>2, <2>1, <2>2, <2>3, <2>4, PastFits DEF RoomLeft, Windows, Recent, Burst
<1>4. CASE record_login_failure
  <2> DEFINE U == Upto(failures)
             V == Upto(failures')
  <2>1. failures' = [failures EXCEPT ![0] = @ + 1] /\ LOGIN_WINDOW \in Nat
    BY <1>4, AccountsBounds DEF record_login_failure
  <2>2. \A a \in 0 .. LOGIN_WINDOW : V[a] = U[a] + 1 /\ U[a] \in Nat
    BY <2>1, LimiterTypes, UptoCounts, UptoIs
  <2>3. Recent = U[LOGIN_WINDOW] /\ Recent' = V[LOGIN_WINDOW]
    BY DEF Recent
  <2> HIDE DEF U, V
  <2>4. CASE Expired \/ ~limiter.known
    <3>1. limiter'.known /\ limiter'.count = 1 /\ limiter'.age = 0
      BY <1>4, <2>4 DEF record_login_failure, Window
    <3>2. Begun' = 0 /\ ~Expired'
      BY <2>1, <3>1 DEF Begun, Expired
    <3>3. U[0] = 0 /\ Recent <= Burst
      <4>1. CASE Expired
        BY <4>1, ExpiredFits DEF U
      <4>2. CASE ~limiter.known
        <5>1. failures = [a \in 0 .. LOGIN_WINDOW |-> 0]
          BY <4>2 DEF Windows
        <5> QED
          BY <2>1, <5>1, UptoOfNone, PastFits DEF U, Recent
      <4> QED
        BY <2>4, <4>1, <4>2
    <3>4. V[0] = 1 /\ Recent' = Recent + 1 /\ Recent \in Nat
      BY <2>1, <2>2, <2>3, <3>3
    <3>5. RoomLeft'
      BY <1>2, <3>1, PastFits DEF RoomLeft, Burst
    <3>6. V[Begun'] <= limiter'.count /\ Recent' - V[Begun'] <= Burst
      BY <3>1, <3>2, <3>3, <3>4, PastFits
    <3> QED
      BY <3>1, <3>2, <3>5, <3>6 DEF Windows, V, Burst
  <2>5. CASE ~Expired /\ limiter.known
    <3>1. limiter'.known /\ limiter'.count = limiter.count + 1 /\ limiter'.age = limiter.age
      BY <1>4, <2>5, LimiterTypes DEF record_login_failure
    <3>2. Begun' = Begun /\ ~Expired' /\ Begun \in 0 .. LOGIN_WINDOW /\ limiter.count \in Nat
      BY <2>5, <3>1, LimiterTypes DEF Begun, Expired
    <3>3. RoomLeft'
      BY <1>2, <3>1, <3>2, PastFits DEF RoomLeft, Burst
    <3>4. V[Begun] = U[Begun] + 1 /\ Recent' = Recent + 1 /\ Recent \in Nat /\ U[Begun] \in Nat
      BY <2>1, <2>2, <2>3, <3>2
    <3>5. V[Begun'] <= limiter'.count /\ Recent' - V[Begun'] <= Burst
      BY <3>1, <3>2, <3>4, PastFits DEF Windows, U
    <3> QED
      BY <3>1, <3>2, <3>3, <3>5 DEF Windows, V, Burst
  <2> QED
    BY <2>4, <2>5
<1> QED
  BY <1>3, <1>4 DEF LoginVerifies

LEMMA LimiterStep ==
    ASSUME AccountsTypeOK, RoomLeft, Windows, [AccountsNext]_accountVars
    PROVE  RoomLeft' /\ Windows'
<1>1. CASE UNCHANGED accountVars \/ Boot \/ CreateOwner \/ CreateOwnerFails
  <2>1. UNCHANGED memory /\ Past' = Past
    BY <1>1 DEF accountVars, memory, Boot, CreateOwner, CreateOwnerFails, Past
  <2> QED
    BY <2>1, LimiterRests
<1>2. CASE Crash
  <2>1. limiter' = NoEntry /\ failures' = [a \in 0 .. LOGIN_WINDOW |-> 0] /\ Past' = {}
    BY <1>2 DEF Crash, Past, Free
  <2> QED
    BY <2>1, LimiterRestarts
<1>3. ASSUME NEW h \in Handler, LoginLooksUp(h) PROVE RoomLeft' /\ Windows'
  <2>1. Past' \subseteq Past /\ UNCHANGED memory
    BY <1>3 DEF LoginLooksUp, To, Done, Free, Past, AccountsTypeOK
  <2> QED
    BY <2>1, LimiterRests
<1>4. ASSUME NEW h \in Handler, NEW s \in sessions, NEW guess, ChangeArrives(h, s, guess) PROVE RoomLeft' /\ Windows'
  <2>1. Past' \subseteq Past /\ UNCHANGED memory
    BY <1>4 DEF ChangeArrives, To, Past, AccountsTypeOK
  <2> QED
    BY <2>1, LimiterRests
<1>5. ASSUME NEW h \in Handler, ChangeReads(h) \/ ChangeUpdates(h) PROVE RoomLeft' /\ Windows'
  <2>1. Past' \subseteq Past /\ UNCHANGED memory
    BY <1>5 DEF ChangeReads, ChangeUpdates, To, Done, Free, Past, AccountsTypeOK
  <2> QED
    BY <2>1, LimiterRests
<1> QED
  BY <1>1, <1>2, <1>3, <1>4, <1>5, LimiterTicks, LimiterArrives, LimiterVerifies DEF AccountsNext

(* auth.rs:36-38: however many logins are past the limiter when it closes, *)
(* and wherever its windows begin, the failed logins of an address in any  *)
(* LOGIN_WINDOW are at most twice the limit and the handlers there are.    *)
THEOREM FailedLoginsBounded == AccountsSpec => []FailuresBounded
<1>1. AccountsInit => RoomLeft /\ Windows
  <2>1. AccountsInit => Past = {}
    BY DEF AccountsInit, Past, Free
  <2> QED
    BY <2>1, LimiterEmpty DEF AccountsInit
<1>2. AccountsInv /\ RoomLeft /\ Windows /\ [AccountsNext]_accountVars => RoomLeft' /\ Windows'
  BY LimiterStep DEF AccountsInv
<1>3. AccountsInv /\ RoomLeft /\ Windows => FailuresBounded
  <2> SUFFICES ASSUME AccountsInv, RoomLeft, Windows PROVE FailuresBounded
    OBVIOUS
  <2>1. AccountsTypeOK
    BY DEF AccountsInv
  <2>2. Cardinality(Past) \in Nat
    BY PastFits DEF Past
  <2>3. limiter.count <= Burst /\ limiter.count \in Nat
    BY <2>1, <2>2, LimiterTypes, PastFits DEF RoomLeft
  <2> DEFINE before == Upto(failures)[Begun]
  <2>4. before <= limiter.count /\ Recent - before <= Burst
    BY DEF Windows
  <2>5. Recent \in Nat /\ before \in Nat /\ Burst \in Nat
    BY <2>1, LimiterTypes, PastFits
  <2> HIDE DEF before
  <2>6. Recent <= 2 * Burst
    BY ONLY <2>3, <2>4, <2>5
  <2> QED
    BY <2>3, <2>6 DEF FailuresBounded
<1> QED
  BY <1>1, <1>2, <1>3, AccountsInvariant, PTL DEF AccountsSpec
=============================================================================
