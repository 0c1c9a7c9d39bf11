----------------------------- MODULE AuthSession -----------------------------
(***************************************************************************)
(* The mobile session of one user: the row in Postgres, the 24 h copy of it *)
(* in Redis that requests are checked against, and the tokens issued.       *)
(*                                                                         *)
(*   modules/auth/mobile-auth.service.ts  login, refresh, logout           *)
(*   modules/auth/auth.middleware.ts      requireMobileAuth                *)
(*   lib/auth-cache.ts, lib/auth-state-change.ts                           *)
(*   modules/users/users.service.ts       toggleUserStatus                 *)
(*   modules/fleet/fleet.service.ts       deactivateDriver                 *)
(*                                                                         *)
(* Nothing orders a write of the copy after the update of the row it was    *)
(* read from.  jwt:blacklist and forcedReloginAt are left out: only         *)
(* forceReloginAfter sets them and nothing calls it.  A user waiting for    *)
(* provisioning is left out too: the copy it could be checked against has   *)
(* no device.                                                               *)
(***************************************************************************)
EXTENDS Integers, FiniteSets

CONSTANTS
  Devices, NoDevice,
  Logins,      \* concurrent mobileLogin handlers
  Requests,    \* concurrent authenticated requests
  Revokers,    \* concurrent handlers in revokeMobileAuthState
  MaxVersion,  \* bound: session version
  MaxLost      \* bound: Redis calls that fail

ASSUME DevicesKnown == NoDevice \notin Devices
ASSUME BoundsKnown == MaxVersion \in Nat /\ MaxLost \in Nat

VARIABLES
  row,      \* users: isActive, sessionVersion, registeredDeviceId
  cache,    \* auth:user:{id}, or NoState
  tokens,   \* tokens handed to a client
  login, request, revoker, \* handlers in flight
  lost,     \* bounded counter
  granted,  \* history: the token the last step let through, or NoToken
  revoked,  \* history: newest version a returned revocation has set
  deactivated, \* history: newest version deactivateDriver has set
  clean     \* history: no update of the row has overtaken a copy on its way
            \* to Redis, and no repair of the copy was lost

handlers == <<login, request, revoker>>
histories == <<revoked, deactivated, clean>>
vars == <<row, cache, tokens, handlers, lost, granted, histories>>

States == [active : BOOLEAN, sv : Nat, device : Devices \cup {NoDevice}]
NoState == [active |-> FALSE, sv |-> -1, device |-> NoDevice]
Tokens == [sv : Nat, device : Devices]
NoToken == [sv |-> -1, device |-> NoDevice]
IdleLogin == [pc |-> "idle", token |-> NoToken, snap |-> NoState]
IdleRequest == IdleLogin
IdleRevoker == [pc |-> "idle", sv |-> 0]

TypeOK ==
  /\ row \in States /\ row.sv <= MaxVersion
  /\ cache \in States \cup {NoState}
  /\ tokens \subseteq Tokens
  /\ login \in [Logins -> {IdleLogin} \cup [pc : {"bind", "state"}, token : Tokens, snap : {NoState}]
                                     \cup [pc : {"write"}, token : Tokens, snap : States]]
  /\ request \in [Requests -> {IdleRequest} \cup [pc : {"read"}, token : Tokens, snap : {NoState}]
                                            \cup [pc : {"fill"}, token : Tokens, snap : States]]
  /\ revoker \in [Revokers -> {IdleRevoker} \cup [pc : {"delete"}, sv : Nat]]
  /\ lost \in 0..MaxLost
  /\ granted \in Tokens \cup {NoToken}
  /\ revoked \in Nat /\ deactivated \in Nat
  /\ clean \in BOOLEAN

(* An active user who has not logged in yet.                                *)
Init ==
  /\ row = [active |-> TRUE, sv |-> 0, device |-> NoDevice]
  /\ cache = NoState
  /\ tokens = {}
  /\ login = [l \in Logins |-> IdleLogin]
  /\ request = [r \in Requests |-> IdleRequest]
  /\ revoker = [v \in Revokers |-> IdleRevoker]
  /\ lost = 0
  /\ granted = NoToken
  /\ revoked = 0 /\ deactivated = 0
  /\ clean = TRUE

(* Copies read from the row that have yet to reach Redis.                   *)
InFlight == {login[l].snap : l \in {k \in Logins : login[k].pc = "write"}}
       \cup {request[r].snap : r \in {k \in Requests : request[k].pc = "fill"}}
(* Every update of the row that requests must notice passes here.           *)
Overtakes == clean' = (clean /\ InFlight = {})
Lose == lost < MaxLost /\ lost' = lost + 1

-----------------------------------------------------------------------------
(* mobileLogin: read the user, bind the device, issue the token from the    *)
(* version first read, read the row again and copy it (a lost copy is only  *)
(* logged).                                                                 *)
LoginRead(l, d) ==
  /\ login[l].pc = "idle"
  /\ row.active
  /\ login' = [login EXCEPT ![l] = [pc |-> "bind", token |-> [sv |-> row.sv, device |-> d], snap |-> NoState]]
  /\ granted' = NoToken
  /\ UNCHANGED <<row, cache, tokens, request, revoker, lost, histories>>

LoginBind(l) ==
  /\ login[l].pc = "bind"
  /\ row' = [row EXCEPT !.device = login[l].token.device]
  /\ login' = [login EXCEPT ![l].pc = "state"]
  /\ Overtakes
  /\ granted' = NoToken
  /\ UNCHANGED <<cache, tokens, request, revoker, lost, revoked, deactivated>>

LoginState(l) ==
  /\ login[l].pc = "state"
  /\ login' = [login EXCEPT ![l].pc = "write", ![l].snap = row]
  /\ granted' = NoToken
  /\ UNCHANGED <<row, cache, tokens, request, revoker, lost, histories>>

LoginWrite(l) ==
  /\ login[l].pc = "write"
  /\ \/ cache' = login[l].snap /\ UNCHANGED <<lost, clean>>
     \/ Lose /\ clean' = FALSE /\ UNCHANGED cache
  /\ tokens' = tokens \cup {login[l].token}
  /\ login' = [login EXCEPT ![l] = IdleLogin]
  /\ granted' = NoToken
  /\ UNCHANGED <<row, request, revoker, revoked, deactivated>>

(* mobileRefresh: a token for the device the row names.                     *)
Refresh(d) ==
  /\ row.active /\ row.device = d
  /\ tokens' = tokens \cup {[sv |-> row.sv, device |-> d]}
  /\ granted' = NoToken
  /\ UNCHANGED <<row, cache, handlers, lost, histories>>

(* Mutants: any device's token will do; no expiry.                          *)
AdmitsAnyDevice(state, token) == state.active /\ token.sv = state.sv
NoTTL == FALSE

-----------------------------------------------------------------------------
(* requireMobileAuth on the state getAuthUserState returns.                 *)
Admits(state, token) ==
  /\ state.active
  /\ token.sv = state.sv
  /\ state.device # NoDevice /\ token.device = state.device
Decide(state, token) == granted' = IF Admits(state, token) THEN token ELSE NoToken

(* A request whose Redis lookup hits is decided by the copy.                *)
AskCached(token) ==
  /\ token \in tokens
  /\ cache # NoState
  /\ Decide(cache, token)
  /\ UNCHANGED <<row, cache, tokens, handlers, lost, histories>>

(* One whose lookup misses, or fails, goes to the row.                      *)
AskMissed(r, token) ==
  /\ request[r].pc = "idle"
  /\ token \in tokens
  /\ \/ cache = NoState /\ UNCHANGED lost
     \/ cache # NoState /\ Lose
  /\ request' = [request EXCEPT ![r] = [pc |-> "read", token |-> token, snap |-> NoState]]
  /\ granted' = NoToken
  /\ UNCHANGED <<row, cache, tokens, login, revoker, histories>>

(* The row decides, and its copy goes to Redis without anyone waiting.      *)
Read(r) ==
  /\ request[r].pc = "read"
  /\ Decide(row, request[r].token)
  /\ request' = [request EXCEPT ![r].pc = "fill", ![r].snap = row]
  /\ UNCHANGED <<row, cache, tokens, login, revoker, lost, histories>>

Fill(r) ==
  /\ request[r].pc = "fill"
  /\ \/ cache' = request[r].snap /\ UNCHANGED lost
     \/ Lose /\ UNCHANGED cache
  /\ request' = [request EXCEPT ![r] = IdleRequest]
  /\ granted' = NoToken
  /\ UNCHANGED <<row, tokens, login, revoker, histories>>

CacheExpires ==
  /\ cache # NoState
  /\ cache' = NoState
  /\ granted' = NoToken
  /\ UNCHANGED <<row, tokens, handlers, lost, histories>>

-----------------------------------------------------------------------------
(* The updates that revokeMobileAuthState is called with: a logout (from    *)
(* one session or all) unbinds the device, toggleUserStatus sets isActive.  *)
LoggedOut == [row EXCEPT !.device = NoDevice]
Toggled(on) == [row EXCEPT !.active = on]

RevokeUpdate(v, data) ==
  /\ revoker[v].pc = "idle"
  /\ row.sv < MaxVersion
  /\ row' = [data EXCEPT !.sv = row.sv + 1]
  /\ revoker' = [revoker EXCEPT ![v] = [pc |-> "delete", sv |-> row.sv + 1]]
  /\ Overtakes
  /\ granted' = NoToken
  /\ UNCHANGED <<cache, tokens, login, request, lost, revoked, deactivated>>

Newest(m, n) == IF m > n THEN m ELSE n

(* Mutant: a logout leaves the copy.                                        *)
DeleteIfDisabled(v) ==
  /\ revoker[v].pc = "delete"
  /\ cache' = IF row.active THEN cache ELSE NoState
  /\ revoked' = Newest(revoked, revoker[v].sv)
  /\ revoker' = [revoker EXCEPT ![v] = IdleRevoker]
  /\ granted' = NoToken
  /\ UNCHANGED <<row, tokens, login, request, lost, deactivated, clean>>

(* invalidateMobileAuthCache swallows a failure; the caller is answered.    *)
RevokeDelete(v) ==
  /\ revoker[v].pc = "delete"
  /\ \/ cache' = NoState /\ UNCHANGED <<lost, clean>>
     \/ Lose /\ clean' = FALSE /\ UNCHANGED cache
  /\ revoked' = Newest(revoked, revoker[v].sv)
  /\ revoker' = [revoker EXCEPT ![v] = IdleRevoker]
  /\ granted' = NoToken
  /\ UNCHANGED <<row, tokens, login, request, deactivated>>

(* The transaction of deactivateDriver leaves the copy alone.               *)
Deactivate ==
  /\ row.sv < MaxVersion
  /\ row' = [row EXCEPT !.active = FALSE, !.sv = row.sv + 1]
  /\ deactivated' = row.sv + 1
  /\ granted' = NoToken
  /\ UNCHANGED <<cache, tokens, handlers, lost, revoked, clean>>

-----------------------------------------------------------------------------
LoginStep(l) == LoginBind(l) \/ LoginState(l) \/ LoginWrite(l)
RequestStep(r) == Read(r) \/ Fill(r)

Next ==
  \/ \E l \in Logins, d \in Devices : LoginRead(l, d)
  \/ \E l \in Logins : LoginStep(l)
  \/ \E d \in Devices : Refresh(d)
  \/ \E t \in tokens : AskCached(t)
  \/ \E r \in Requests, t \in tokens : AskMissed(r, t)
  \/ \E r \in Requests : RequestStep(r)
  \/ CacheExpires
  \/ \E v \in Revokers, d \in {LoggedOut} \cup {Toggled(b) : b \in BOOLEAN} : RevokeUpdate(v, d)
  \/ \E v \in Revokers : RevokeDelete(v)
  \/ Deactivate

(* A handler that has started runs on, and a copy older than 24 h is gone.  *)
Fairness ==
  /\ \A l \in Logins : WF_vars(LoginStep(l))
  /\ \A r \in Requests : WF_vars(RequestStep(r))
  /\ \A v \in Revokers : WF_vars(RevokeDelete(v))
  /\ WF_vars(CacheExpires)

Spec == Init /\ [][Next]_vars
FairSpec == Spec /\ Fairness

-----------------------------------------------------------------------------
(* Revocation by session version: unless an update overtook a copy on its   *)
(* way to Redis or the deletion of the copy was lost, no token older than a *)
(* revocation is let through once revokeMobileAuthState has returned.       *)
RevocationHolds ==
  clean => (granted # NoToken => granted.sv >= revoked)

(* Device binding: under the same proviso, once every login and revocation  *)
(* in progress has finished with Redis, a request let through came with a   *)
(* token of the device the row names.                                       *)
Settled ==
  /\ \A l \in Logins : login[l].pc \notin {"state", "write"}
  /\ \A v \in Revokers : revoker[v].pc = "idle"
DeviceHolds ==
  clean /\ Settled => (granted # NoToken => granted.device = row.device)

(* Whatever was overtaken or lost, a version that a revocation or a          *)
(* deactivation has replaced is let through for a while at most: the copies  *)
(* in flight land and the entry expires.                                    *)
RevokedStaysOut ==
  \A k \in 1..MaxVersion :
    <>[](revoked >= k \/ deactivated >= k) => <>[](granted # NoToken => granted.sv >= k)

(* What that rests on, step by step: once the row has version k, copies of an *)
(* older one are only used up.  No step takes a new one, the entry becomes   *)
(* one only by a writer that thereby has spent its own, and only the entry   *)
(* lets an older token through (auth-cache.ts:58-130).                       *)
Old(k, state) == state # NoState /\ state.sv < k
Writers(k) == {l \in Logins : login[l].pc = "write" /\ Old(k, login[l].snap)}
Fillers(k) == {r \in Requests : request[r].pc = "fill" /\ Old(k, request[r].snap)}
OldCopiesFade ==
  [][\A k \in 0..row.sv :
       /\ row'.sv >= k
       /\ Writers(k)' \subseteq Writers(k) /\ Fillers(k)' \subseteq Fillers(k)
       /\ Old(k, cache') =>
            Old(k, cache) \/ Writers(k)' # Writers(k) \/ Fillers(k)' # Fillers(k)
       /\ granted' # NoToken /\ granted'.sv < k => Old(k, cache) \/ granted' = granted]_vars

(* The handlers, the copy and the requests implement what a session version  *)
(* promises (auth-state-change.ts:19-35, auth.middleware.ts:52-72).          *)
Promise == INSTANCE SessionVersion WITH
  current <- row.sv, promised <- revoked, passed <- granted.sv, sound <- clean
ImplementsVersion == Promise!Spec
=============================================================================
