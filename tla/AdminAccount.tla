---------------------------- MODULE AdminAccount ----------------------------
(***************************************************************************)
(* The account of one administrator: its row, the copy of it in Redis that  *)
(* requests are checked against, the sessions, and everything that writes   *)
(* the row.                                                                *)
(*                                                                         *)
(*   modules/auth/admin-auth.service.ts    login, second factor, MFA        *)
(*   modules/auth/admin-auth.routes.ts     logout, reset, invitation        *)
(*   modules/auth/admin-auth.middleware.ts requireAdminAuth                 *)
(*   modules/admin/admin.routes.ts         deactivation, suspension, role   *)
(*   lib/auth-cache.ts, lib/auth-state-change.ts                            *)
(*                                                                         *)
(* Passwords and codes are right or the call changes nothing here.  Left    *)
(* out: rate limits, fingerprints, anomalies, trusted devices, the step-up   *)
(* token, backup codes and the log of suspensions.                          *)
(***************************************************************************)
EXTENDS Integers, FiniteSets

CONSTANTS
  Roles,
  NoCopy, NoAdmission,
  AdminLogins,     \* login handlers at once
  AdminRequests,   \* the account's own requests at once
  Handlers,        \* requests of others, and through mailed links, at once
  MaxAdminVersion, \* bound: session version
  MaxAdminLost     \* bound: Redis calls that fail, and handlers after a write

ASSUME AdminAccountConstants ==
  /\ MaxAdminVersion \in Nat /\ MaxAdminLost \in Nat
  /\ NoCopy \notin [active : BOOLEAN, role : Roles, sv : Nat]
  /\ NoAdmission \notin [sv : Nat, mfa : BOOLEAN, role : Roles]

VARIABLES
  account,      \* the row
  adminCopy,    \* auth:admin:{id}, or NoCopy
  sessions,     \* tokens handed to the browser: version, second factor passed
  challenge,    \* an MFA challenge is in Redis
  adminLogin,   \* login handler -> its place, its token, the copy it took
  adminRequest, \* request -> its place, its token, the copy on its way
  handler,      \* handler -> its place
  adminLost,    \* bounded counter
  admitted,     \* history: what the last step let through, or NoAdmission
  adminRevoked, \* history: newest version a returned handler has set
  adminClean,   \* history: no update of the row has overtaken a copy on its
                \* way to Redis, and no deletion of the copy was lost
  roleHalf      \* history: a change of role failed before the deletion of the
                \* copy, and no handler has deleted it since

adminHandlers == <<adminLogin, adminRequest, handler>>
adminHistories == <<adminRevoked, adminClean, roleHalf>>
adminVars == <<account, adminCopy, sessions, challenge, adminHandlers,
               adminLost, admitted, adminHistories>>

Accounts == [active : BOOLEAN, suspended : BOOLEAN, mfa : BOOLEAN, secret : BOOLEAN,
             invited : BOOLEAN, role : Roles, sv : Nat]
Copies == [active : BOOLEAN, role : Roles, sv : Nat]
Sessions == [sv : Nat, mfa : BOOLEAN]
NoSession == [sv |-> 0, mfa |-> FALSE]
Admissions == [sv : Nat, mfa : BOOLEAN, role : Roles]

NoAdminLogin == [pc |-> "idle", token |-> NoSession, copy |-> NoCopy]
NoAdminRequest == NoAdminLogin

AdminTypeOK ==
  /\ account \in Accounts /\ account.sv <= MaxAdminVersion
  /\ adminCopy \in Copies \cup {NoCopy}
  /\ sessions \in SUBSET Sessions
  /\ challenge \in BOOLEAN
  /\ adminLogin \in [AdminLogins ->
       [pc : {"idle", "final", "copy"}, token : Sessions, copy : Copies \cup {NoCopy}]]
  /\ \A l \in AdminLogins : adminLogin[l].pc = "copy" => adminLogin[l].copy # NoCopy
  /\ adminRequest \in [AdminRequests ->
       [pc : {"idle", "read", "admitted", "setup", "enable", "disable", "delete"},
        token : Sessions, copy : Copies \cup {NoCopy}]]
  /\ handler \in [Handlers -> {"idle", "bump", "drop", "delete", "reset", "accept"}]
  /\ adminLost \in 0..MaxAdminLost
  /\ admitted \in Admissions \cup {NoAdmission}
  /\ adminRevoked \in 0..account.sv /\ adminClean \in BOOLEAN /\ roleHalf \in BOOLEAN

(* A seeded account, or one that has just been invited.                     *)
AdminInit ==
  /\ \E role \in Roles, active \in BOOLEAN :
       account = [active |-> active, suspended |-> FALSE, mfa |-> FALSE, secret |-> FALSE,
                  invited |-> ~active, role |-> role, sv |-> 0]
  /\ adminCopy = NoCopy /\ sessions = {} /\ challenge = FALSE
  /\ adminLogin = [l \in AdminLogins |-> NoAdminLogin]
  /\ adminRequest = [r \in AdminRequests |-> NoAdminRequest]
  /\ handler = [h \in Handlers |-> "idle"]
  /\ adminLost = 0 /\ admitted = NoAdmission
  /\ adminRevoked = 0 /\ adminClean = TRUE /\ roleHalf = FALSE

CopyOf(row) == [active |-> row.active, role |-> row.role, sv |-> row.sv]

(* Copies read from the row that have yet to reach Redis.                   *)
AdminCopiesInFlight ==
  \/ \E l \in AdminLogins : adminLogin[l].copy # NoCopy
  \/ \E r \in AdminRequests : adminRequest[r].copy # NoCopy

AdminLose == adminLost < MaxAdminLost /\ adminLost' = adminLost + 1

(* An update of the row's part that copies hold.                            *)
UpdateAccount(row) ==
  /\ account' = row
  /\ adminClean' = (adminClean /\ ~AdminCopiesInFlight)
  /\ admitted' = NoAdmission

(* sessionVersion: { increment: 1 } in the same update.                     *)
Bumped(row) == [row EXCEPT !.sv = @ + 1]
Bump(row) == account.sv < MaxAdminVersion /\ UpdateAccount(Bumped(row))

-----------------------------------------------------------------------------
(* adminLogin, from the row it read: refused, finished at once, or, with MFA, *)
(* a challenge (and a 500 without a secret).                                *)
LoginPassword(l) ==
  /\ adminLogin[l].pc = "idle"
  /\ account.active /\ ~account.suspended
  /\ IF account.mfa
     THEN account.secret /\ challenge' = TRUE /\ UNCHANGED adminLogin
     ELSE /\ adminLogin' = [adminLogin EXCEPT ![l] =
               [NoAdminLogin EXCEPT !.pc = "final", !.token = [sv |-> account.sv, mfa |-> FALSE]]]
          /\ UNCHANGED challenge
  /\ admitted' = NoAdmission
  /\ UNCHANGED <<account, adminCopy, sessions, adminRequest, handler, adminLost, adminHistories>>

(* verifyAdminLoginMfa: the challenge names the account, the row is read     *)
(* anew; two calls may use one challenge.                                   *)
LoginCode(l) ==
  /\ adminLogin[l].pc = "idle" /\ challenge
  /\ IF account.active /\ ~account.suspended /\ account.mfa /\ account.secret
     THEN /\ adminLogin' = [adminLogin EXCEPT ![l] =
               [NoAdminLogin EXCEPT !.pc = "final", !.token = [sv |-> account.sv, mfa |-> TRUE]]]
          /\ UNCHANGED challenge
     ELSE challenge' = FALSE /\ UNCHANGED adminLogin
  /\ admitted' = NoAdmission
  /\ UNCHANGED <<account, adminCopy, sessions, adminRequest, handler, adminLost, adminHistories>>

ChallengeExpires ==
  /\ challenge /\ challenge' = FALSE /\ admitted' = NoAdmission
  /\ UNCHANGED <<account, adminCopy, sessions, adminHandlers, adminLost, adminHistories>>

(* finalizeAdminLogin: the token has the version read at first; the row is   *)
(* read again and copied (a lost copy is only logged), then the answer goes. *)
LoginFinal(l) ==
  /\ adminLogin[l].pc = "final"
  /\ challenge' = (challenge /\ ~adminLogin[l].token.mfa)
  /\ adminLogin' = [adminLogin EXCEPT ![l] =
       [pc |-> "copy", token |-> adminLogin[l].token, copy |-> CopyOf(account)]]
  /\ admitted' = NoAdmission
  /\ UNCHANGED <<account, adminCopy, sessions, adminRequest, handler, adminLost, adminHistories>>

LoginCopy(l) ==
  /\ adminLogin[l].pc = "copy"
  /\ \/ adminCopy' = adminLogin[l].copy /\ UNCHANGED adminLost
     \/ AdminLose /\ UNCHANGED adminCopy
  /\ sessions' = sessions \cup {adminLogin[l].token}
  /\ adminLogin' = [adminLogin EXCEPT ![l] = NoAdminLogin]
  /\ admitted' = NoAdmission
  /\ UNCHANGED <<account, challenge, adminRequest, handler, adminHistories>>

-----------------------------------------------------------------------------
(* requireAdminAuth on the state getAuthAdminState returns; the role is the  *)
(* state's, not the token's.                                                *)
AdminAdmits(state, token) == state.active /\ token.sv = state.sv

Judge(r, state, token, copy) ==
  LET passes == AdminAdmits(state, token) IN
  /\ admitted' = IF passes THEN [sv |-> token.sv, mfa |-> token.mfa, role |-> state.role]
                           ELSE NoAdmission
  /\ adminRequest' = [adminRequest EXCEPT ![r] =
       [pc |-> IF passes THEN "admitted" ELSE "idle", token |-> NoSession, copy |-> copy]]

AdminAskCached(r, token) ==
  /\ adminRequest[r].pc = "idle" /\ token \in sessions /\ adminCopy # NoCopy
  /\ Judge(r, adminCopy, token, adminRequest[r].copy)
  /\ UNCHANGED <<account, adminCopy, sessions, challenge, adminLogin, handler,
                 adminLost, adminHistories>>

(* Redis has no copy, or does not answer: the row will decide.  (Bound: the  *)
(* request's last copy has reached Redis.)                                  *)
AdminAskMissed(r, token) ==
  /\ adminRequest[r] = NoAdminRequest /\ token \in sessions
  /\ \/ adminCopy = NoCopy /\ UNCHANGED adminLost
     \/ adminCopy # NoCopy /\ AdminLose
  /\ adminRequest' = [adminRequest EXCEPT ![r].pc = "read", ![r].token = token]
  /\ admitted' = NoAdmission
  /\ UNCHANGED <<account, adminCopy, sessions, challenge, adminLogin, handler, adminHistories>>

(* The row decides, and its copy goes to Redis without anyone waiting.      *)
AdminRead(r) ==
  /\ adminRequest[r].pc = "read"
  /\ Judge(r, account, adminRequest[r].token, CopyOf(account))
  /\ UNCHANGED <<account, adminCopy, sessions, challenge, adminLogin, handler,
                 adminLost, adminHistories>>

AdminFill(r) ==
  /\ adminRequest[r].copy # NoCopy
  /\ \/ adminCopy' = adminRequest[r].copy /\ UNCHANGED adminLost
     \/ AdminLose /\ UNCHANGED adminCopy
  /\ adminRequest' = [adminRequest EXCEPT ![r].copy = NoCopy]
  /\ admitted' = NoAdmission
  /\ UNCHANGED <<account, sessions, challenge, adminLogin, handler, adminHistories>>

(* Mutant: no expiry.                                                       *)
CopyKept == FALSE

AdminCopyExpires ==
  /\ adminCopy # NoCopy /\ adminCopy' = NoCopy
  /\ admitted' = NoAdmission
  /\ UNCHANGED <<account, sessions, challenge, adminHandlers, adminLost, adminHistories>>

-----------------------------------------------------------------------------
(* What the account itself asks for, once let through.                      *)
RequestAt(r, from, to) ==
  /\ adminRequest[r].pc = from
  /\ adminRequest' = [adminRequest EXCEPT ![r].pc = to]
  /\ UNCHANGED <<adminCopy, sessions, challenge, adminLogin, handler, adminLost,
                 adminRevoked, roleHalf>>

RequestReads(r, to) ==
  /\ RequestAt(r, "admitted", to) /\ admitted' = NoAdmission
  /\ UNCHANGED <<account, adminClean>>

(* Anything that leaves the account alone.                                  *)
RequestEnds(r) == RequestReads(r, "idle")

(* A logout and the revocation of a trusted device are revokeAdminAuthState. *)
AdminLogout(r) == RequestAt(r, "admitted", "delete") /\ Bump(account)

(* The MFA handlers read the row, check codes, hash backup codes, and write. *)
SetupRead(r) == ~account.mfa /\ RequestReads(r, "setup")
EnableRead(r) == account.secret /\ ~account.mfa /\ RequestReads(r, "enable")
DisableRead(r) == account.secret /\ account.mfa /\ RequestReads(r, "disable")

(* setMfaSecretForSetup turns MFA off whatever it is by now, without a bump. *)
SetupWrite(r) ==
  /\ RequestAt(r, "setup", "idle") /\ admitted' = NoAdmission
  /\ account' = [account EXCEPT !.secret = TRUE, !.mfa = FALSE]
  /\ UNCHANGED adminClean

EnableWrite(r) ==
  RequestAt(r, "enable", "delete") /\ Bump([account EXCEPT !.mfa = TRUE])

DisableWrite(r) ==
  RequestAt(r, "disable", "delete") /\ Bump([account EXCEPT !.mfa = FALSE, !.secret = FALSE])

(* invalidateAdminAuthCache swallows a failure; the caller is answered.     *)
DropCopy ==
  /\ \/ adminCopy' = NoCopy /\ roleHalf' = FALSE /\ UNCHANGED <<adminLost, adminClean>>
     \/ AdminLose /\ adminClean' = FALSE /\ UNCHANGED <<adminCopy, roleHalf>>
  /\ admitted' = NoAdmission
  /\ UNCHANGED <<account, sessions, challenge, adminLogin>>

RequestDelete(r) ==
  /\ adminRequest[r].pc = "delete"
  /\ adminRequest' = [adminRequest EXCEPT ![r].pc = "idle"]
  /\ DropCopy /\ adminRevoked' = account.sv
  /\ UNCHANGED handler

(* A handler of the account's own throws, or the process dies: what it has    *)
(* written stays, and what was to follow, the deletion too, does not come.   *)
(* (Bound: only what dies after a write is counted as lost.)                *)
RequestDies(r) ==
  /\ adminRequest[r].pc \notin {"idle", "admitted"}
  /\ IF adminRequest[r].pc = "delete" THEN AdminLose ELSE UNCHANGED adminLost
  /\ adminRequest' = [adminRequest EXCEPT ![r].pc = "idle", ![r].token = NoSession]
  /\ admitted' = NoAdmission
  /\ UNCHANGED <<account, adminCopy, sessions, challenge, adminLogin, handler, adminHistories>>

-----------------------------------------------------------------------------
(* What others ask for, and what mailed links do.                           *)
HandlerAt(h, from, to) ==
  /\ handler[h] = from
  /\ handler' = [handler EXCEPT ![h] = to]
  /\ UNCHANGED <<adminCopy, sessions, challenge, adminLogin, adminRequest, adminLost,
                 adminRevoked, roleHalf>>

HandlerReads(h, to) ==
  /\ HandlerAt(h, "idle", to) /\ admitted' = NoAdmission
  /\ UNCHANGED <<account, adminClean>>

DeactivateAdmin(h) == HandlerAt(h, "idle", "delete") /\ Bump([account EXCEPT !.active = FALSE])
ReactivateAdmin(h) == HandlerAt(h, "idle", "delete") /\ Bump([account EXCEPT !.active = TRUE])

(* Mutant: the version is left as it is.                                    *)
SuspendUnbumped(h) ==
  /\ HandlerAt(h, "idle", "delete")
  /\ UpdateAccount([account EXCEPT !.active = FALSE, !.suspended = TRUE])

Suspend(h) ==
  HandlerAt(h, "idle", "delete") /\ Bump([account EXCEPT !.active = FALSE, !.suspended = TRUE])
Unsuspend(h) ==
  HandlerAt(h, "idle", "delete") /\ Bump([account EXCEPT !.active = TRUE, !.suspended = FALSE])

(* Profile and scopes in one transaction, the version in another update; the *)
(* copy is deleted twice.                                                   *)
ChangeRole(h) ==
  /\ HandlerAt(h, "idle", "bump")
  /\ \E role \in Roles : UpdateAccount([account EXCEPT !.role = role])

BumpAfterChange(h) == HandlerAt(h, "bump", "drop") /\ Bump(account)

(* The link of a password reset (sent to, and good for, an active account).  *)
ResetRead(h) == account.active /\ HandlerReads(h, "reset")
ResetWrite(h) == HandlerAt(h, "reset", "delete") /\ Bump(account)

(* The link of an invitation, good once: for as many as read it in time.     *)
AcceptRead(h) == account.invited /\ HandlerReads(h, "accept")
AcceptWrite(h) ==
  HandlerAt(h, "accept", "delete") /\ Bump([account EXCEPT !.active = TRUE, !.invited = FALSE])

InvitationExpires ==
  /\ account.invited /\ account' = [account EXCEPT !.invited = FALSE]
  /\ admitted' = NoAdmission
  /\ UNCHANGED <<adminCopy, sessions, challenge, adminHandlers, adminLost, adminHistories>>

(* Mutant: the copy stays unless the account was disabled.                  *)
HandlerDropIfDisabled(h) ==
  /\ handler[h] \in {"drop", "delete"}
  /\ handler' = [handler EXCEPT ![h] = IF @ = "drop" THEN "delete" ELSE "idle"]
  /\ adminCopy' = IF account.active THEN adminCopy ELSE NoCopy
  /\ adminRevoked' = account.sv /\ admitted' = NoAdmission
  /\ UNCHANGED <<account, sessions, challenge, adminLogin, adminRequest, adminLost,
                 adminClean, roleHalf>>

HandlerDrop(h) ==
  /\ handler[h] \in {"drop", "delete"}
  /\ handler' = [handler EXCEPT ![h] = IF @ = "drop" THEN "delete" ELSE "idle"]
  /\ DropCopy /\ adminRevoked' = account.sv
  /\ UNCHANGED adminRequest

(* A handler throws or dies between two of its writes.  After the update of   *)
(* the role that leaves the version, or the copy of the old role, or both.   *)
HandlerDies(h) ==
  /\ handler[h] # "idle"
  /\ IF handler[h] \in {"reset", "accept"} THEN UNCHANGED adminLost ELSE AdminLose
  /\ handler' = [handler EXCEPT ![h] = "idle"]
  /\ roleHalf' = (roleHalf \/ handler[h] \in {"bump", "drop"})
  /\ admitted' = NoAdmission
  /\ UNCHANGED <<account, adminCopy, sessions, challenge, adminLogin, adminRequest,
                 adminRevoked, adminClean>>

-----------------------------------------------------------------------------
AdminLoginSteps(l) == LoginFinal(l) \/ LoginCopy(l)
RequestSteps(r) ==
  \/ AdminRead(r) \/ RequestEnds(r) \/ RequestDelete(r)
  \/ SetupRead(r) \/ EnableRead(r) \/ DisableRead(r) \/ AdminLogout(r)
  \/ SetupWrite(r) \/ EnableWrite(r) \/ DisableWrite(r)
HandlerSteps(h) ==
  BumpAfterChange(h) \/ ResetWrite(h) \/ AcceptWrite(h) \/ HandlerDrop(h)

AdminNext ==
  \/ \E l \in AdminLogins : LoginPassword(l) \/ LoginCode(l) \/ AdminLoginSteps(l)
  \/ \E r \in AdminRequests :
       \/ \E t \in sessions : AdminAskCached(r, t) \/ AdminAskMissed(r, t)
       \/ RequestSteps(r) \/ AdminFill(r) \/ RequestDies(r)
  \/ \E h \in Handlers :
       \/ DeactivateAdmin(h) \/ ReactivateAdmin(h) \/ Suspend(h) \/ Unsuspend(h)
       \/ ChangeRole(h) \/ ResetRead(h) \/ AcceptRead(h) \/ HandlerSteps(h)
       \/ HandlerDies(h)
  \/ ChallengeExpires \/ AdminCopyExpires \/ InvitationExpires

AdminSpec == AdminInit /\ [][AdminNext]_adminVars

(* A handler that has started runs on unless it dies, and a copy older than   *)
(* 8 h is gone.                                                             *)
AdminFairness ==
  /\ \A l \in AdminLogins : WF_adminVars(AdminLoginSteps(l))
  /\ \A r \in AdminRequests : WF_adminVars(RequestSteps(r)) /\ WF_adminVars(AdminFill(r))
  /\ \A h \in Handlers : WF_adminVars(HandlerSteps(h))
  /\ WF_adminVars(AdminCopyExpires)

-----------------------------------------------------------------------------
(* A session of the current version is one the row, as it is now, would      *)
(* give: the account is active, not suspended, and the second factor was     *)
(* asked for if MFA is on.  Logins that read the row before it changed get   *)
(* a token of the version they read, and whatever disables the account or    *)
(* enables MFA has replaced that version in the same update                  *)
(* (admin-auth.service.ts:118-390, auth-state-change.ts:37-53).              *)
CurrentSession ==
  \A t \in sessions :
    t.sv = account.sv => account.active /\ ~account.suspended /\ (account.mfa => t.mfa)

(* No change of role is between its transaction and the deletion of the copy, *)
(* nor has one ended there.                                                 *)
RoleSettled == ~roleHalf /\ \A h \in Handlers : handler[h] \notin {"bump", "drop"}

(* Unless an update overtook a copy on its way to Redis or a deletion of the *)
(* copy was lost, nothing older than what a returned handler has replaced is *)
(* let through, handlers that failed half-way or not; and nobody passes under *)
(* a role other than the row's but while a change of role has yet to delete   *)
(* the copy, or has failed before it did and no handler has deleted it since  *)
(* (auth-cache.ts:146-197, admin.routes.ts:233-285).                        *)
AdminDecisionsHold ==
  adminClean /\ admitted # NoAdmission =>
    /\ admitted.sv >= adminRevoked
    /\ RoleSettled => admitted.role = account.role

(* Whatever was overtaken or lost, and wherever handlers failed: an account   *)
(* that stays disabled gets nothing through in the end, one whose MFA stays   *)
(* on only sessions that passed the second factor, and one whose role stays   *)
(* only that role (auth-cache.ts:132, admin-auth.middleware.ts:55).          *)
ChangesReachSessions ==
  /\ <>[]~account.active => <>[](admitted = NoAdmission)
  /\ <>[]account.mfa => <>[](admitted # NoAdmission => admitted.mfa)
  /\ \A role \in Roles :
       <>[](account.role = role) => <>[](admitted # NoAdmission => admitted.role = role)

(* What that rests on, step by step: once the row has version k, copies of an *)
(* older one are only used up.  No step takes a new one, the entry becomes   *)
(* one only by a writer that thereby has spent its own, and only the entry   *)
(* lets an older token through; CurrentSession tells of the others           *)
(* (auth-cache.ts:132-197, admin-auth.service.ts:393-470).                   *)
OldCopy(k, copy) == copy # NoCopy /\ copy.sv < k
LoginsWithOld(k) == {l \in AdminLogins : OldCopy(k, adminLogin[l].copy)}
RequestsWithOld(k) == {r \in AdminRequests : OldCopy(k, adminRequest[r].copy)}
OldAdminCopiesFade ==
  [][\A k \in 0..account.sv :
       /\ account'.sv >= k
       /\ LoginsWithOld(k)' \subseteq LoginsWithOld(k)
       /\ RequestsWithOld(k)' \subseteq RequestsWithOld(k)
       /\ OldCopy(k, adminCopy') =>
            \/ OldCopy(k, adminCopy)
            \/ LoginsWithOld(k)' # LoginsWithOld(k) \/ RequestsWithOld(k)' # RequestsWithOld(k)
       /\ admitted' # NoAdmission /\ admitted'.sv < k => OldCopy(k, adminCopy)]_adminVars

(* The account's handlers, its copy and its requests implement the same       *)
(* promise (auth-state-change.ts:37-52, admin-auth.middleware.ts:56-65).     *)
AdminPromise == INSTANCE SessionVersion WITH
  current <- account.sv, promised <- adminRevoked, sound <- adminClean,
  passed <- IF admitted = NoAdmission THEN -1 ELSE admitted.sv
ImplementsAdminVersion == AdminPromise!Spec
=============================================================================
