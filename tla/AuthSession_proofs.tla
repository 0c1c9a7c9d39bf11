------------------------- MODULE AuthSession_proofs -------------------------
(* Mobile sessions: revocation and device binding hold for any number of     *)
(* logins, requests and revocations, any versions and any losses.  Then the  *)
(* accounts of administrators: their types, sessions and decisions; and the  *)
(* mobile app: its types, and its two copies of the token.                   *)
EXTENDS AuthSession, AdminAccount, MobileSession, TLAPS

(* Every copy in flight is of the device the row still names and of a        *)
(* version no revocation under way or returned has replaced.                 *)
Current(snap) ==
  /\ snap.device = row.device
  /\ snap.sv >= revoked
  /\ \A v \in Revokers : snap.sv >= revoker[v].sv

VersionsBelow ==
  /\ revoked <= row.sv
  /\ \A v \in Revokers : revoker[v].sv <= row.sv

FlightsCurrent ==
  clean => /\ \A l \in Logins : login[l].pc = "write" => Current(login[l].snap)
           /\ \A r \in Requests : request[r].pc = "fill" => Current(request[r].snap)

CacheCurrent ==
  clean => (cache # NoState => /\ cache.sv >= revoked
                               /\ Settled => cache.device = row.device)

SessionInv == VersionsBelow /\ FlightsCurrent /\ CacheCurrent

(* An update that nothing is in flight at keeps the history clean. *)
LEMMA OvertakesClean ==
  ASSUME Overtakes
  PROVE  /\ clean' \in BOOLEAN
         /\ clean' => /\ clean
                      /\ \A l \in Logins : login[l].pc # "write"
                      /\ \A r \in Requests : request[r].pc # "fill"
<1>1. clean' = (clean /\ InFlight = {})
  BY DEF Overtakes
<1>2. InFlight = {} => /\ \A l \in Logins : login[l].pc # "write"
                      /\ \A r \in Requests : request[r].pc # "fill"
  <2>1. ASSUME NEW l \in Logins, login[l].pc = "write" PROVE login[l].snap \in InFlight
    BY <2>1 DEF InFlight
  <2>2. ASSUME NEW r \in Requests, request[r].pc = "fill" PROVE request[r].snap \in InFlight
    BY <2>2 DEF InFlight
  <2> QED
    BY <2>1, <2>2
<1> QED
  BY <1>1, <1>2, Zenon

(* The types are invariant. *)
THEOREM TypeCorrect == Spec => []TypeOK
<1> USE BoundsKnown, DevicesKnown DEF handlers, histories, TypeOK, States, NoState, Tokens, NoToken, IdleLogin, IdleRequest, IdleRevoker
<1>1. Init => TypeOK
  BY DEF Init
<1>2. TypeOK /\ [Next]_vars => TypeOK'
  <2> SUFFICES ASSUME TypeOK, [Next]_vars PROVE TypeOK'
    OBVIOUS
  <2>1. ASSUME NEW l \in Logins, NEW d \in Devices, LoginRead(l, d) PROVE TypeOK'
    BY <2>1 DEF LoginRead
  <2>2. ASSUME NEW l \in Logins, LoginBind(l) PROVE TypeOK'
    <3>1. login[l] \in [pc : {"bind"}, token : Tokens, snap : {NoState}]
      BY <2>2 DEF LoginBind
    <3>2. row' \in States /\ row'.sv = row.sv
      BY <2>2, <3>1 DEF LoginBind
    <3>3. [login[l] EXCEPT !.pc = "state"] \in [pc : {"state"}, token : Tokens, snap : {NoState}]
      BY <3>1
    <3>4. login' = [login EXCEPT ![l] = [login[l] EXCEPT !.pc = "state"]]
      BY <2>2 DEF LoginBind
    <3> QED
      BY <2>2, <3>2, <3>3, <3>4, OvertakesClean DEF LoginBind
  <2>3. ASSUME NEW l \in Logins, LoginState(l) PROVE TypeOK'
    BY <2>3 DEF LoginState
  <2>4. ASSUME NEW l \in Logins, LoginWrite(l) PROVE TypeOK'
    <3>1. login[l] \in [pc : {"write"}, token : Tokens, snap : States]
      BY <2>4 DEF LoginWrite
    <3>2. tokens' \subseteq Tokens /\ cache' \in States \cup {NoState}
      BY <2>4, <3>1 DEF LoginWrite
    <3>3. lost' \in 0..MaxLost
      BY <2>4 DEF LoginWrite, Lose
    <3>4. clean' \in BOOLEAN
      BY <2>4, Zenon DEF LoginWrite
    <3> QED
      BY <2>4, <3>2, <3>3, <3>4 DEF LoginWrite
  <2>5. ASSUME NEW d \in Devices, Refresh(d) PROVE TypeOK'
    BY <2>5 DEF Refresh
  <2>6. ASSUME NEW t \in tokens, AskCached(t) PROVE TypeOK'
    BY <2>6 DEF AskCached, Decide, Admits
  <2>7. ASSUME NEW r \in Requests, NEW t \in tokens, AskMissed(r, t) PROVE TypeOK'
    BY <2>7 DEF AskMissed, Lose
  <2>8. ASSUME NEW r \in Requests, Read(r) PROVE TypeOK'
    BY <2>8 DEF Read, Decide, Admits
  <2>9. ASSUME NEW r \in Requests, Fill(r) PROVE TypeOK'
    BY <2>9 DEF Fill, Lose
  <2>10. ASSUME CacheExpires PROVE TypeOK'
    BY <2>10 DEF CacheExpires
  <2>11. ASSUME NEW v \in Revokers, NEW d \in {LoggedOut} \cup {Toggled(b) : b \in BOOLEAN}, RevokeUpdate(v, d) PROVE TypeOK'
    BY <2>11, OvertakesClean DEF RevokeUpdate, LoggedOut, Toggled
  <2>12. ASSUME NEW v \in Revokers, RevokeDelete(v) PROVE TypeOK'
    <3>1. revoker[v] \in [pc : {"delete"}, sv : Nat]
      BY <2>12 DEF RevokeDelete
    <3>2. revoked' \in Nat
      BY <2>12, <3>1 DEF RevokeDelete, Newest
    <3>3. lost' \in 0..MaxLost
      BY <2>12 DEF RevokeDelete, Lose
    <3>4. clean' \in BOOLEAN
      BY <2>12, Zenon DEF RevokeDelete
    <3> QED
      BY <2>12, <3>2, <3>3, <3>4 DEF RevokeDelete
  <2>13. ASSUME Deactivate PROVE TypeOK'
    <3>1. row' = [active |-> FALSE, sv |-> row.sv + 1, device |-> row.device]
      BY <2>13 DEF Deactivate
    <3>2. row.sv \in Nat /\ row.sv + 1 <= MaxVersion /\ row.device \in Devices \cup {NoDevice}
      BY <2>13 DEF Deactivate
    <3>3. row' \in States /\ row'.sv <= MaxVersion
      BY <3>1, <3>2
    <3> QED
      BY <2>13, <3>2, <3>3 DEF Deactivate
  <2>14. CASE UNCHANGED vars
    BY <2>14 DEF vars, handlers, histories
  <2> QED
    BY <2>1, <2>2, <2>3, <2>4, <2>5, <2>6, <2>7, <2>8, <2>9, <2>10, <2>11, <2>12, <2>13, <2>14 DEF Next, LoginStep, RequestStep
<1> QED
  BY <1>1, <1>2, PTL DEF Spec

LEMMA SessionInductive == TypeOK /\ SessionInv /\ [Next]_vars => SessionInv'
<1> USE BoundsKnown, DevicesKnown DEF handlers, histories, TypeOK, States, NoState, Tokens, NoToken, IdleLogin, IdleRequest, IdleRevoker, SessionInv, VersionsBelow, FlightsCurrent, CacheCurrent, Current, Settled
<1> SUFFICES ASSUME TypeOK, SessionInv, [Next]_vars PROVE SessionInv'
  OBVIOUS
  <1>1. ASSUME NEW l \in Logins, NEW d \in Devices, LoginRead(l, d) PROVE SessionInv'
    BY <1>1 DEF LoginRead
  <1>2. ASSUME NEW l \in Logins, LoginBind(l) PROVE SessionInv'
    BY <1>2, OvertakesClean DEF LoginBind
  <1>3. ASSUME NEW l \in Logins, LoginState(l) PROVE SessionInv'
    BY <1>3 DEF LoginState
  <1>4. ASSUME NEW l \in Logins, LoginWrite(l) PROVE SessionInv'
    BY <1>4 DEF LoginWrite, Lose
  <1>5. ASSUME NEW d \in Devices, Refresh(d) PROVE SessionInv'
    BY <1>5 DEF Refresh
  <1>6. ASSUME NEW t \in tokens, AskCached(t) PROVE SessionInv'
    BY <1>6 DEF AskCached, Decide, Admits
  <1>7. ASSUME NEW r \in Requests, NEW t \in tokens, AskMissed(r, t) PROVE SessionInv'
    BY <1>7 DEF AskMissed, Lose
  <1>8. ASSUME NEW r \in Requests, Read(r) PROVE SessionInv'
    BY <1>8 DEF Read, Decide, Admits
  <1>9. ASSUME NEW r \in Requests, Fill(r) PROVE SessionInv'
    BY <1>9 DEF Fill, Lose
  <1>10. ASSUME CacheExpires PROVE SessionInv'
    BY <1>10 DEF CacheExpires
  <1>11. ASSUME NEW v \in Revokers, NEW d \in {LoggedOut} \cup {Toggled(b) : b \in BOOLEAN}, RevokeUpdate(v, d) PROVE SessionInv'
    BY <1>11, OvertakesClean DEF RevokeUpdate, LoggedOut, Toggled
  <1>12. ASSUME NEW v \in Revokers, RevokeDelete(v) PROVE SessionInv'
    BY <1>12 DEF RevokeDelete, Lose, Newest
  <1>13. ASSUME Deactivate PROVE SessionInv'
    BY <1>13 DEF Deactivate
  <1>14. CASE UNCHANGED vars
    BY <1>14 DEF vars, handlers, histories
  <1> QED
    BY <1>1, <1>2, <1>3, <1>4, <1>5, <1>6, <1>7, <1>8, <1>9, <1>10, <1>11, <1>12, <1>13, <1>14 DEF Next, LoginStep, RequestStep

THEOREM SessionInvariant == Spec => []SessionInv
<1>1. Init => SessionInv
  BY DEF Init, SessionInv, VersionsBelow, FlightsCurrent, CacheCurrent, IdleLogin, IdleRequest, IdleRevoker
<1> QED
  BY <1>1, SessionInductive, TypeCorrect, PTL DEF Spec

(* What a step lets through is what SessionInv says of the copy and the row. *)
Grants == RevocationHolds /\ DeviceHolds

LEMMA GrantsInductive == TypeOK /\ SessionInv /\ Grants /\ [Next]_vars => Grants'
<1> USE BoundsKnown, DevicesKnown DEF handlers, histories, TypeOK, States, NoState, Tokens, NoToken, IdleLogin, IdleRequest, IdleRevoker, Grants, RevocationHolds, DeviceHolds, SessionInv, VersionsBelow, CacheCurrent
<1> SUFFICES ASSUME TypeOK, SessionInv, Grants, [Next]_vars PROVE Grants'
  OBVIOUS
  <1>1. ASSUME NEW l \in Logins, NEW d \in Devices, LoginRead(l, d) PROVE Grants'
    BY <1>1 DEF LoginRead
  <1>2. ASSUME NEW l \in Logins, LoginBind(l) PROVE Grants'
    BY <1>2 DEF LoginBind, Overtakes
  <1>3. ASSUME NEW l \in Logins, LoginState(l) PROVE Grants'
    BY <1>3 DEF LoginState
  <1>4. ASSUME NEW l \in Logins, LoginWrite(l) PROVE Grants'
    BY <1>4 DEF LoginWrite, Lose
  <1>5. ASSUME NEW d \in Devices, Refresh(d) PROVE Grants'
    BY <1>5 DEF Refresh
  <1>6. ASSUME NEW t \in tokens, AskCached(t) PROVE Grants'
    BY <1>6 DEF AskCached, Decide, Admits, handlers, histories, Settled
  <1>7. ASSUME NEW r \in Requests, NEW t \in tokens, AskMissed(r, t) PROVE Grants'
    BY <1>7 DEF AskMissed, Lose
  <1>8. ASSUME NEW r \in Requests, Read(r) PROVE Grants'
    BY <1>8 DEF Read, Decide, Admits, handlers, histories, Settled
  <1>9. ASSUME NEW r \in Requests, Fill(r) PROVE Grants'
    BY <1>9 DEF Fill, Lose
  <1>10. ASSUME CacheExpires PROVE Grants'
    BY <1>10 DEF CacheExpires
  <1>11. ASSUME NEW v \in Revokers, NEW d \in {LoggedOut} \cup {Toggled(b) : b \in BOOLEAN}, RevokeUpdate(v, d) PROVE Grants'
    BY <1>11, OvertakesClean DEF RevokeUpdate, LoggedOut, Toggled
  <1>12. ASSUME NEW v \in Revokers, RevokeDelete(v) PROVE Grants'
    BY <1>12 DEF RevokeDelete, Lose, Newest
  <1>13. ASSUME Deactivate PROVE Grants'
    BY <1>13 DEF Deactivate
  <1>14. CASE UNCHANGED vars
    BY <1>14 DEF vars, handlers, histories, Settled
  <1> QED
    BY <1>1, <1>2, <1>3, <1>4, <1>5, <1>6, <1>7, <1>8, <1>9, <1>10, <1>11, <1>12, <1>13, <1>14 DEF Next, LoginStep, RequestStep

THEOREM GrantsInvariant == Spec => []Grants
<1>1. Init => Grants
  BY DEF Init, Grants, RevocationHolds, DeviceHolds
<1> QED
  BY <1>1, GrantsInductive, SessionInvariant, TypeCorrect, PTL DEF Spec

(* A revocation that nothing overtook is final. *)
THEOREM Revocation == Spec => []RevocationHolds
<1>1. Grants => RevocationHolds
  BY DEF Grants
<1> QED
  BY <1>1, GrantsInvariant, PTL

(* A user's requests come from the one device the row names. *)
THEOREM DeviceBinding == Spec => []DeviceHolds
<1>1. Grants => DeviceHolds
  BY DEF Grants
<1> QED
  BY <1>1, GrantsInvariant, PTL

-----------------------------------------------------------------------------
(* Copies of a version that the row has left fade.                           *)
Fades(k) ==
  /\ row'.sv >= k
  /\ Writers(k)' \subseteq Writers(k) /\ Fillers(k)' \subseteq Fillers(k)
  /\ Old(k, cache') => Old(k, cache) \/ Writers(k)' # Writers(k) \/ Fillers(k)' # Fillers(k)
  /\ granted' # NoToken /\ granted'.sv < k => Old(k, cache) \/ granted' = granted

LEMMA FadesStep ==
  ASSUME TypeOK, Next, NEW k \in 0..row.sv
  PROVE  Fades(k)
<1> USE DEF Fades, Writers, Fillers, handlers, histories
<1>0. k \in Nat /\ row.sv \in Nat /\ row.sv >= k /\ ~Old(k, row)
  BY DEF TypeOK, States, Old
<1>1. ASSUME NEW l \in Logins, NEW d \in Devices, LoginRead(l, d) PROVE Fades(k)
  BY <1>0, <1>1 DEF LoginRead, TypeOK
<1>2. ASSUME NEW l \in Logins, LoginBind(l) PROVE Fades(k)
  <2>1. row'.sv = row.sv
    BY <1>2 DEF LoginBind, TypeOK, States
  <2> QED
    BY <1>0, <1>2, <2>1 DEF LoginBind, TypeOK
<1>3. ASSUME NEW l \in Logins, LoginState(l) PROVE Fades(k)
  <2>1. \A m \in Logins : login'[m].pc = "write" /\ m # l => login[m] = login'[m]
    BY <1>3 DEF LoginState, TypeOK
  <2>2. login'[l].snap = row
    BY <1>3 DEF LoginState, TypeOK
  <2> QED
    BY <1>0, <1>3, <2>1, <2>2 DEF LoginState
<1>4. ASSUME NEW l \in Logins, LoginWrite(l) PROVE Fades(k)
  <2>1. login'[l].pc = "idle" /\ \A m \in Logins : m # l => login[m] = login'[m]
    BY <1>4 DEF LoginWrite, IdleLogin, TypeOK
  <2>2. Writers(k)' = Writers(k) \ {l}
    BY <2>1
  <2>3. cache' = cache \/ (cache' = login[l].snap /\ login[l].pc = "write")
    BY <1>4 DEF LoginWrite
  <2>4. Old(k, cache') => Old(k, cache) \/ l \in Writers(k)
    BY <2>3
  <2>5. row' = row /\ request' = request /\ granted' = NoToken
    BY <1>4 DEF LoginWrite
  <2> QED
    BY <1>0, <2>2, <2>4, <2>5
<1>5. ASSUME NEW d \in Devices, Refresh(d) PROVE Fades(k)
  BY <1>0, <1>5 DEF Refresh
<1>6. ASSUME NEW t \in tokens, AskCached(t) PROVE Fades(k)
  <2>1. granted' # NoToken => granted' = t /\ t.sv = cache.sv
    BY <1>6 DEF AskCached, Decide, Admits
  <2> QED
    BY <1>0, <1>6, <2>1 DEF AskCached, Old
<1>7. ASSUME NEW r \in Requests, NEW t \in tokens, AskMissed(r, t) PROVE Fades(k)
  <2>1. request'[r].pc = "read" /\ \A q \in Requests : q # r => request'[q] = request[q]
    BY <1>7 DEF AskMissed, TypeOK
  <2> QED
    BY <1>0, <1>7, <2>1 DEF AskMissed
<1>8. ASSUME NEW r \in Requests, Read(r) PROVE Fades(k)
  <2>1. request'[r].snap = row /\ \A q \in Requests : q # r => request'[q] = request[q]
    BY <1>8 DEF Read, TypeOK
  <2>2. granted' # NoToken => granted'.sv = row.sv
    BY <1>8 DEF Read, Decide, Admits
  <2>3. row' = row /\ cache' = cache /\ login' = login
    BY <1>8 DEF Read
  <2>4. Fillers(k)' \subseteq Fillers(k) /\ Writers(k)' = Writers(k)
    BY <1>0, <2>1, <2>3
  <2> QED
    BY <1>0, <2>2, <2>3, <2>4
<1>9. ASSUME NEW r \in Requests, Fill(r) PROVE Fades(k)
  <2>1. request'[r].pc = "idle" /\ \A q \in Requests : q # r => request'[q] = request[q]
    BY <1>9 DEF Fill, IdleRequest, IdleLogin, TypeOK
  <2>2. Fillers(k)' = Fillers(k) \ {r}
    BY <2>1
  <2>3. cache' = cache \/ (cache' = request[r].snap /\ request[r].pc = "fill")
    BY <1>9 DEF Fill
  <2>4. Old(k, cache') => Old(k, cache) \/ r \in Fillers(k)
    BY <2>3
  <2>5. row' = row /\ login' = login /\ granted' = NoToken
    BY <1>9 DEF Fill
  <2> QED
    BY <1>0, <2>2, <2>4, <2>5
<1>10. CASE CacheExpires
  BY <1>0, <1>10 DEF CacheExpires, Old
<1>11. ASSUME NEW v \in Revokers, NEW d \in {LoggedOut} \cup {Toggled(b) : b \in BOOLEAN}, RevokeUpdate(v, d)
       PROVE Fades(k)
  <2>1. row'.sv = row.sv + 1
    BY <1>11 DEF RevokeUpdate, LoggedOut, Toggled, TypeOK, States
  <2> QED
    BY <1>0, <1>11, <2>1 DEF RevokeUpdate
<1>12. ASSUME NEW v \in Revokers, RevokeDelete(v) PROVE Fades(k)
  BY <1>0, <1>12 DEF RevokeDelete, Old
<1>13. CASE Deactivate
  <2>1. row'.sv = row.sv + 1
    BY <1>13 DEF Deactivate, TypeOK, States
  <2> QED
    BY <1>0, <1>13, <2>1 DEF Deactivate
<1> QED
  BY <1>1, <1>2, <1>3, <1>4, <1>5, <1>6, <1>7, <1>8, <1>9, <1>10, <1>11, <1>12, <1>13
     DEF Next, LoginStep, RequestStep

(* Whatever is overtaken or lost, a version once replaced is let through only *)
(* by the entry, which gets it back only from the copies under way by then.  *)
THEOREM OldFade == Spec => OldCopiesFade
<1>1. TypeOK /\ [Next]_vars => [\A k \in 0..row.sv : Fades(k)]_vars
  BY FadesStep
<1> QED
  BY <1>1, TypeCorrect, PTL DEF Spec, OldCopiesFade, Fades

(* No token is of a version the row has yet to reach. *)
IssuedBelow ==
  /\ \A t \in tokens : t.sv <= row.sv
  /\ \A l \in Logins : login[l].pc # "idle" => login[l].token.sv <= row.sv

LEMMA IssuedStep == TypeOK /\ TypeOK' /\ IssuedBelow /\ [Next]_vars => IssuedBelow'
<1> SUFFICES ASSUME TypeOK, TypeOK', IssuedBelow, [Next]_vars PROVE IssuedBelow'
  OBVIOUS
<1>0. row.sv \in Nat /\ \A t \in tokens : t.sv \in Nat
  BY DEF TypeOK, States, Tokens
<1>1. \A l \in Logins : login[l].pc # "idle" => login[l].token.sv \in Nat
  BY DEF TypeOK, IdleLogin, Tokens
<1>2. ASSUME Next PROVE row'.sv >= row.sv /\ row'.sv \in Nat
  <2>1. row'.sv \in Nat
    BY DEF TypeOK, States
  <2> QED
    BY <1>0, <1>2, <2>1, FadesStep DEF Fades
<1>3. ASSUME Next, tokens' \subseteq tokens,
             \A l \in Logins : login'[l].pc # "idle" => login[l].pc # "idle" /\ login'[l].token = login[l].token
      PROVE  IssuedBelow'
  BY <1>0, <1>1, <1>2, <1>3 DEF IssuedBelow
<1>4. ASSUME NEW l \in Logins, NEW d \in Devices, LoginRead(l, d) PROVE IssuedBelow'
  <2>1. login'[l].token.sv = row.sv /\ \A m \in Logins : m # l => login'[m] = login[m]
    BY <1>4 DEF LoginRead, TypeOK
  <2> QED
    BY <1>0, <1>4, <2>1 DEF LoginRead, IssuedBelow
<1>5. ASSUME NEW l \in Logins, LoginWrite(l) PROVE IssuedBelow'
  <2>1. login'[l].pc = "idle" /\ \A m \in Logins : m # l => login'[m] = login[m]
    BY <1>5 DEF LoginWrite, IdleLogin, TypeOK
  <2>2. tokens' = tokens \cup {login[l].token} /\ login[l].pc = "write" /\ row' = row
    BY <1>5 DEF LoginWrite
  <2> QED
    BY <2>1, <2>2 DEF IssuedBelow
<1>6. ASSUME NEW d \in Devices, Refresh(d) PROVE IssuedBelow'
  BY <1>0, <1>6 DEF Refresh, handlers, IssuedBelow
<1>7. ASSUME NEW l \in Logins, LoginBind(l) \/ LoginState(l) PROVE IssuedBelow'
  <2>1. Next /\ tokens' = tokens
    BY <1>7 DEF Next, LoginStep, LoginBind, LoginState
  <2>2. login[l].pc # "idle" /\ login'[l].token = login[l].token /\ \A m \in Logins : m # l => login'[m] = login[m]
    BY <1>7 DEF LoginBind, LoginState, TypeOK
  <2> QED
    BY <1>3, <2>1, <2>2
<1>8. ASSUME Next, tokens' = tokens, login' = login PROVE IssuedBelow'
  BY <1>3, <1>8
<1>9. ASSUME NEW t \in tokens, AskCached(t) \/ (\E r \in Requests : AskMissed(r, t)) PROVE tokens' = tokens /\ login' = login
  BY <1>9 DEF AskCached, AskMissed, handlers
<1>10. ASSUME (\E r \in Requests : RequestStep(r)) \/ CacheExpires PROVE tokens' = tokens /\ login' = login
  BY <1>10 DEF RequestStep, Read, Fill, CacheExpires, handlers
<1>11. ASSUME NEW v \in Revokers, RevokeDelete(v) \/ (\E d \in {LoggedOut} \cup {Toggled(b) : b \in BOOLEAN} : RevokeUpdate(v, d))
       PROVE  tokens' = tokens /\ login' = login
  BY <1>11 DEF RevokeDelete, RevokeUpdate
<1>12. ASSUME Deactivate PROVE tokens' = tokens /\ login' = login
  BY <1>12 DEF Deactivate, handlers
<1>13. CASE UNCHANGED vars
  BY <1>13 DEF vars, handlers, IssuedBelow
<1> QED
  BY <1>4, <1>5, <1>6, <1>7, <1>8, <1>9, <1>10, <1>11, <1>12, <1>13 DEF Next, LoginStep

(* The handlers, the copy and the requests keep what a session version promises: *)
(* versions follow one another, none is let through before it is reached, and,   *)
(* unless a copy was overtaken or a repair lost, none after a returned handler   *)
(* has replaced it.                                                          *)
THEOREM VersionImplemented == Spec => ImplementsVersion
<1>1. Init => Promise!Init /\ IssuedBelow
  BY DEF Init, Promise!Init, Promise!NoVersion, NoToken, IssuedBelow, IdleLogin
<1>2. ASSUME TypeOK, TypeOK', SessionInv, IssuedBelow, Grants', [Next]_vars
      PROVE  [Promise!Next]_(Promise!vars)
  <2>0. /\ row.sv \in Nat /\ revoked \in Nat /\ revoked <= row.sv /\ granted'.sv \in Nat \cup {-1}
        /\ \A v \in Revokers : revoker[v].sv <= row.sv /\ revoker[v].sv \in Nat
        /\ clean \in BOOLEAN /\ clean' \in BOOLEAN
    BY <1>2 DEF TypeOK, States, Tokens, NoToken, IdleRevoker, SessionInv, VersionsBelow
  <2>1. ASSUME clean' => clean, granted' = NoToken, row'.sv = row.sv, revoked' = revoked PROVE Promise!Next
    BY <2>1 DEF Promise!Next, Promise!Other, Promise!Weakens, Promise!NoVersion, NoToken
  <2>2. ASSUME clean' => clean, granted' = NoToken, row'.sv = row.sv + 1, revoked' = revoked PROVE Promise!Next
    BY <2>2 DEF Promise!Next, Promise!Replace, Promise!Weakens, Promise!NoVersion, NoToken
  <2>3. ASSUME row' = row, revoked' = revoked, clean' = clean, granted' # NoToken => granted'.sv \in 0..row.sv PROVE Promise!Next
    <3>1. CASE granted' = NoToken
      BY <2>1, <2>3, <3>1
    <3>2. CASE granted' # NoToken
      <4>1. clean => granted'.sv >= revoked
        BY <1>2, <2>3, <3>2 DEF Grants, RevocationHolds
      <4> QED
        BY <2>3, <3>2, <4>1 DEF Promise!Next, Promise!LetThrough
    <3> QED
      BY <3>1, <3>2
  <2>4. ASSUME NEW l \in Logins, \/ LoginBind(l) \/ LoginState(l) \/ LoginWrite(l)
                                \/ \E d \in Devices : LoginRead(l, d) PROVE Promise!Next
    <3>1. granted' = NoToken /\ revoked' = revoked
      BY <2>4 DEF LoginBind, LoginState, LoginWrite, LoginRead, histories
    <3>2. row'.sv = row.sv
      BY <1>2, <2>4 DEF LoginBind, LoginState, LoginWrite, LoginRead, TypeOK, States
    <3>3. clean' => clean
      BY <2>4, OvertakesClean DEF LoginBind, LoginState, LoginWrite, LoginRead, histories
    <3> QED
      BY <2>1, <3>1, <3>2, <3>3
  <2>5. ASSUME \/ \E d \in Devices : Refresh(d)
               \/ \E r \in Requests, t \in tokens : AskMissed(r, t)
               \/ \E r \in Requests : Fill(r)
               \/ CacheExpires PROVE Promise!Next
    <3>1. row' = row /\ revoked' = revoked /\ clean' = clean /\ granted' = NoToken
      BY <2>5 DEF Refresh, AskMissed, Fill, CacheExpires, histories
    <3> QED
      BY <2>1, <3>1
  <2>6. ASSUME NEW t \in tokens, AskCached(t) PROVE Promise!Next
    <3>1. row' = row /\ revoked' = revoked /\ clean' = clean /\ granted' \in {t, NoToken}
      BY <2>6 DEF AskCached, Decide, histories
    <3>2. t.sv \in 0..row.sv
      BY <1>2, <2>0 DEF IssuedBelow, TypeOK, Tokens
    <3> QED
      BY <2>3, <3>1, <3>2
  <2>7. ASSUME NEW r \in Requests, Read(r) PROVE Promise!Next
    <3>1. /\ row' = row /\ revoked' = revoked /\ clean' = clean
          /\ granted' # NoToken => granted'.sv = row.sv
      BY <2>7 DEF Read, Decide, Admits, histories
    <3> QED
      BY <2>0, <2>3, <3>1
  <2>8. ASSUME NEW v \in Revokers, NEW d \in {LoggedOut} \cup {Toggled(b) : b \in BOOLEAN}, RevokeUpdate(v, d)
        PROVE  Promise!Next
    <3>1. row'.sv = row.sv + 1
      BY <1>2, <2>8 DEF RevokeUpdate, LoggedOut, Toggled, TypeOK, States
    <3>2. granted' = NoToken /\ revoked' = revoked
      BY <2>8 DEF RevokeUpdate
    <3>3. clean' => clean
      BY <2>8, OvertakesClean DEF RevokeUpdate
    <3> QED
      BY <2>2, <3>1, <3>2, <3>3
  <2>9. ASSUME NEW v \in Revokers, RevokeDelete(v) PROVE Promise!Next
    <3>1. row' = row /\ granted' = NoToken /\ (clean' => clean)
      BY <2>9 DEF RevokeDelete
    <3>2. revoked' \in revoked..row.sv
      BY <2>0, <2>9 DEF RevokeDelete, Newest
    <3> QED
      BY <3>1, <3>2 DEF Promise!Next, Promise!Return, Promise!Weakens, Promise!NoVersion, NoToken
  <2>10. ASSUME Deactivate PROVE Promise!Next
    <3>1. row'.sv = row.sv + 1
      BY <1>2, <2>10 DEF Deactivate, TypeOK, States
    <3>2. granted' = NoToken /\ revoked' = revoked /\ clean' = clean
      BY <2>10 DEF Deactivate
    <3> QED
      BY <2>2, <3>1, <3>2
  <2>11. ASSUME UNCHANGED vars PROVE UNCHANGED Promise!vars
    BY <2>11 DEF vars, histories, Promise!vars
  <2> QED
    BY <1>2, <2>4, <2>5, <2>6, <2>7, <2>8, <2>9, <2>10, <2>11 DEF Next, LoginStep, RequestStep
<1> QED
  BY <1>1, <1>2, IssuedStep, TypeCorrect, SessionInvariant, GrantsInvariant, PTL DEF Spec, ImplementsVersion, Promise!Spec

-----------------------------------------------------------------------------
(* Administrators (AdminAccount).                                           *)
LoginRecords == [pc : {"idle", "final", "copy"}, token : Sessions, copy : Copies \cup {NoCopy}]
RequestRecords == [pc : {"idle", "read", "admitted", "setup", "enable", "disable", "delete"},
                   token : Sessions, copy : Copies \cup {NoCopy}]

LEMMA CopyTyped == ASSUME AdminTypeOK PROVE CopyOf(account) \in Copies
  BY DEF AdminTypeOK, CopyOf, Accounts, Copies

LEMMA LoginTyped ==
  ASSUME AdminTypeOK, NEW l \in AdminLogins, NEW c \in LoginRecords,
         adminLogin' = [adminLogin EXCEPT ![l] = c], c.pc = "copy" => c.copy # NoCopy
  PROVE  /\ adminLogin' \in [AdminLogins -> LoginRecords]
         /\ \A m \in AdminLogins : adminLogin'[m].pc = "copy" => adminLogin'[m].copy # NoCopy
         /\ adminLogin'[l] = c /\ \A m \in AdminLogins : m # l => adminLogin'[m] = adminLogin[m]
  BY DEF AdminTypeOK, LoginRecords

LEMMA RequestTyped ==
  ASSUME AdminTypeOK, NEW r \in AdminRequests, NEW c \in RequestRecords,
         adminRequest' = [adminRequest EXCEPT ![r] = c]
  PROVE  /\ adminRequest' \in [AdminRequests -> RequestRecords]
         /\ adminRequest'[r] = c /\ \A q \in AdminRequests : q # r => adminRequest'[q] = adminRequest[q]
  BY DEF AdminTypeOK, RequestRecords

(* What the steps of logins leave. *)
LEMMA PasswordLeaves ==
  ASSUME AdminTypeOK, NEW l \in AdminLogins, LoginPassword(l) \/ LoginCode(l)
  PROVE  /\ UNCHANGED <<account, adminCopy, sessions, adminRequest, handler, adminLost, adminHistories>>
         /\ admitted' = NoAdmission /\ challenge' \in BOOLEAN
         /\ \/ UNCHANGED adminLogin
            \/ /\ account.active /\ ~account.suspended
               /\ \E c \in LoginRecords : /\ adminLogin' = [adminLogin EXCEPT ![l] = c]
                                          /\ c.pc = "final" /\ c.copy = NoCopy /\ c.token.sv = account.sv
                                          /\ account.mfa => c.token.mfa
<1> DEFINE token(mfa) == [sv |-> account.sv, mfa |-> mfa]
           c(mfa) == [NoAdminLogin EXCEPT !.pc = "final", !.token = token(mfa)]
<1>1. account.sv \in Nat /\ challenge \in BOOLEAN
  BY DEF AdminTypeOK, Accounts
<1>2. ASSUME NEW mfa \in BOOLEAN
      PROVE  /\ c(mfa) \in LoginRecords /\ c(mfa).pc = "final" /\ c(mfa).copy = NoCopy
             /\ c(mfa).token.sv = account.sv /\ c(mfa).token.mfa = mfa
  BY <1>1 DEF LoginRecords, NoAdminLogin, NoSession, Sessions
<1>3. CASE LoginPassword(l)
  <2>1. CASE account.mfa
    BY <1>3, <2>1 DEF LoginPassword
  <2>2. CASE ~account.mfa
    BY <1>1, <1>2, <1>3, <2>2 DEF LoginPassword
  <2> QED
    BY <2>1, <2>2
<1>4. CASE LoginCode(l)
  <2>1. CASE account.active /\ ~account.suspended /\ account.mfa /\ account.secret
    BY <1>1, <1>2, <1>4, <2>1 DEF LoginCode
  <2>2. CASE ~(account.active /\ ~account.suspended /\ account.mfa /\ account.secret)
    BY <1>4, <2>2 DEF LoginCode
  <2> QED
    BY <2>1, <2>2
<1> QED
  BY <1>3, <1>4

LEMMA FinalLeaves ==
  ASSUME AdminTypeOK, NEW l \in AdminLogins, LoginFinal(l)
  PROVE  /\ UNCHANGED <<account, adminCopy, sessions, adminRequest, handler, adminLost, adminHistories>>
         /\ admitted' = NoAdmission /\ challenge' \in BOOLEAN
         /\ adminLogin[l].pc = "final"
         /\ \E c \in LoginRecords : /\ adminLogin' = [adminLogin EXCEPT ![l] = c]
                                    /\ c.pc = "copy" /\ c.copy = CopyOf(account) /\ c.copy # NoCopy
                                    /\ c.token = adminLogin[l].token
<1> DEFINE c == [pc |-> "copy", token |-> adminLogin[l].token, copy |-> CopyOf(account)]
<1>1. adminLogin[l] \in LoginRecords
  BY DEF AdminTypeOK, LoginRecords
<1>2. c \in LoginRecords
  BY <1>1, CopyTyped DEF LoginRecords
<1>3. adminLogin' = [adminLogin EXCEPT ![l] = c]
  BY <1>1 DEF LoginFinal, LoginRecords, AdminTypeOK
<1>4. CopyOf(account) # NoCopy
  BY CopyTyped, AdminAccountConstants DEF Copies
<1>5. challenge' \in BOOLEAN
  BY Zenon DEF LoginFinal
<1> QED
  BY <1>2, <1>3, <1>4, <1>5 DEF LoginFinal

LEMMA CopyLeaves ==
  ASSUME AdminTypeOK, NEW l \in AdminLogins, LoginCopy(l)
  PROVE  /\ UNCHANGED <<account, challenge, adminRequest, handler, adminHistories>>
         /\ admitted' = NoAdmission /\ adminLost' \in 0..MaxAdminLost
         /\ adminLogin[l].pc = "copy" /\ adminLogin[l].copy \in Copies
         /\ adminCopy' \in {adminCopy, adminLogin[l].copy}
         /\ sessions' = sessions \cup {adminLogin[l].token} /\ adminLogin[l].token \in Sessions
         /\ adminLogin' = [adminLogin EXCEPT ![l] = NoAdminLogin]
  BY AdminAccountConstants DEF AdminTypeOK, LoginCopy, AdminLose

LEMMA RestingTyped == /\ NoAdminLogin \in LoginRecords /\ NoAdminLogin.pc = "idle" /\ NoAdminLogin.copy = NoCopy
                      /\ NoAdminRequest \in RequestRecords /\ NoSession \in Sessions
  BY DEF NoAdminLogin, NoAdminRequest, NoSession, Sessions, LoginRecords, RequestRecords

(* What the steps of requests leave. *)
LEMMA JudgeLeaves ==
  ASSUME AdminTypeOK, NEW r \in AdminRequests, NEW state, state \in Copies \/ state \in Accounts,
         NEW token \in Sessions, NEW copy \in Copies \cup {NoCopy}, Judge(r, state, token, copy)
  PROVE  /\ admitted' \in Admissions \cup {NoAdmission}
         /\ admitted' # NoAdmission => admitted'.sv = state.sv /\ admitted'.role = state.role
         /\ \E c \in RequestRecords : /\ adminRequest' = [adminRequest EXCEPT ![r] = c] /\ c.copy = copy
                                      /\ c.pc \in {"idle", "admitted"}
<1>1. state.sv \in Nat /\ state.role \in Roles
  BY DEF Copies, Accounts
<1>2. CASE AdminAdmits(state, token)
  <2> DEFINE c == [pc |-> "admitted", token |-> NoSession, copy |-> copy]
             let == [sv |-> token.sv, mfa |-> token.mfa, role |-> state.role]
  <2>1. c \in RequestRecords
    BY RestingTyped DEF RequestRecords
  <2>2. let \in Admissions /\ let.sv = state.sv /\ let.role = state.role
    BY <1>1, <1>2 DEF Admissions, Sessions, AdminAdmits
  <2>3. admitted' = let /\ adminRequest' = [adminRequest EXCEPT ![r] = c]
    BY <1>2 DEF Judge
  <2> QED
    BY <2>1, <2>2, <2>3
<1>3. CASE ~AdminAdmits(state, token)
  <2> DEFINE c == [pc |-> "idle", token |-> NoSession, copy |-> copy]
  <2>1. c \in RequestRecords
    BY RestingTyped DEF RequestRecords
  <2>2. admitted' = NoAdmission /\ adminRequest' = [adminRequest EXCEPT ![r] = c]
    BY <1>3 DEF Judge
  <2> QED
    BY <2>1, <2>2
<1> QED
  BY <1>2, <1>3

LEMMA AskLeaves ==
  ASSUME AdminTypeOK, NEW r \in AdminRequests, NEW t \in sessions, AdminAskMissed(r, t)
  PROVE  /\ UNCHANGED <<account, adminCopy, sessions, challenge, adminLogin, handler, adminHistories>>
         /\ admitted' = NoAdmission /\ adminLost' \in 0..MaxAdminLost
         /\ adminRequest[r].pc # "delete"
         /\ \E c \in RequestRecords : /\ adminRequest' = [adminRequest EXCEPT ![r] = c]
                                      /\ c.copy = adminRequest[r].copy /\ c.pc = "read"
<1> DEFINE c == [NoAdminRequest EXCEPT !.pc = "read", !.token = t]
<1>1. c \in RequestRecords /\ c.copy = NoCopy /\ c.pc = "read"
  BY DEF RequestRecords, NoAdminRequest, NoAdminLogin, AdminTypeOK
<1>2. adminRequest[r] = NoAdminRequest
  BY DEF AdminAskMissed
<1>3. adminRequest' = [adminRequest EXCEPT ![r] = c]
  BY <1>2 DEF AdminAskMissed, NoAdminRequest, NoAdminLogin, AdminTypeOK
<1>4. adminLost' \in 0..MaxAdminLost
  BY AdminAccountConstants DEF AdminAskMissed, AdminLose, AdminTypeOK
<1>5. adminRequest[r].pc = "idle" /\ adminRequest[r].copy = NoCopy
  BY <1>2 DEF NoAdminRequest, NoAdminLogin
<1> HIDE DEF c
<1> QED
  BY <1>1, <1>3, <1>4, <1>5 DEF AdminAskMissed

LEMMA FillLeaves ==
  ASSUME AdminTypeOK, NEW r \in AdminRequests, AdminFill(r)
  PROVE  /\ UNCHANGED <<account, sessions, challenge, adminLogin, handler, adminHistories>>
         /\ admitted' = NoAdmission /\ adminLost' \in 0..MaxAdminLost
         /\ adminRequest[r].copy \in Copies /\ adminCopy' \in {adminCopy, adminRequest[r].copy}
         /\ \E c \in RequestRecords : /\ adminRequest' = [adminRequest EXCEPT ![r] = c]
                                      /\ c.copy = NoCopy /\ c.pc = adminRequest[r].pc
<1> DEFINE c == [adminRequest[r] EXCEPT !.copy = NoCopy]
<1>1. c \in RequestRecords /\ c.copy = NoCopy /\ c.pc = adminRequest[r].pc
  BY DEF AdminTypeOK, RequestRecords
<1>2. adminRequest' = [adminRequest EXCEPT ![r] = c]
  BY DEF AdminFill
<1>3. adminLost' \in 0..MaxAdminLost
  BY AdminAccountConstants DEF AdminFill, AdminLose, AdminTypeOK
<1> HIDE DEF c
<1> QED
  BY <1>1, <1>2, <1>3 DEF AdminFill, AdminTypeOK

LEMMA AtLeaves ==
  ASSUME AdminTypeOK, NEW r \in AdminRequests, NEW from, NEW to \in {"idle", "setup", "enable", "disable", "delete"},
         RequestAt(r, from, to)
  PROVE  /\ UNCHANGED <<adminCopy, sessions, challenge, adminLogin, handler, adminLost, adminRevoked, roleHalf>>
         /\ adminRequest[r].pc = from
         /\ \E c \in RequestRecords : /\ adminRequest' = [adminRequest EXCEPT ![r] = c]
                                      /\ c.copy = adminRequest[r].copy /\ c.pc = to
<1> DEFINE c == [adminRequest[r] EXCEPT !.pc = to]
<1>1. c \in RequestRecords /\ c.copy = adminRequest[r].copy /\ c.pc = to
  BY DEF AdminTypeOK, RequestRecords
<1>2. adminRequest' = [adminRequest EXCEPT ![r] = c]
  BY DEF RequestAt
<1> HIDE DEF c
<1> QED
  BY <1>1, <1>2 DEF RequestAt

LEMMA DropLeaves ==
  ASSUME AdminTypeOK, DropCopy
  PROVE  /\ UNCHANGED <<account, sessions, challenge, adminLogin>>
         /\ admitted' = NoAdmission /\ adminLost' \in 0..MaxAdminLost
         /\ roleHalf' \in BOOLEAN
         /\ \/ adminCopy' = NoCopy /\ adminClean' = adminClean
            \/ adminCopy' = adminCopy /\ adminClean' = FALSE
<1>1. UNCHANGED <<account, sessions, challenge, adminLogin>> /\ admitted' = NoAdmission
  BY DEF DropCopy
<1>2. CASE adminCopy' = NoCopy /\ roleHalf' = FALSE /\ UNCHANGED <<adminLost, adminClean>>
  BY <1>1, <1>2 DEF AdminTypeOK
<1>3. CASE AdminLose /\ adminClean' = FALSE /\ UNCHANGED <<adminCopy, roleHalf>>
  BY <1>1, <1>3, AdminAccountConstants DEF AdminTypeOK, AdminLose
<1> QED
  BY <1>2, <1>3 DEF DropCopy

LEMMA RequestDeletes ==
  ASSUME AdminTypeOK, NEW r \in AdminRequests, RequestDelete(r)
  PROVE  \E c \in RequestRecords : /\ adminRequest' = [adminRequest EXCEPT ![r] = c]
                                   /\ c.copy = adminRequest[r].copy /\ c.pc = "idle"
<1> DEFINE c == [adminRequest[r] EXCEPT !.pc = "idle"]
<1>1. c \in RequestRecords /\ c.copy = adminRequest[r].copy /\ c.pc = "idle"
  BY DEF AdminTypeOK, RequestRecords
<1>2. adminRequest' = [adminRequest EXCEPT ![r] = c]
  BY DEF RequestDelete
<1> HIDE DEF c
<1> QED
  BY <1>1, <1>2

(* What an update of the row leaves: its version is one more, or the update is *)
(* of what no session depends on.                                            *)
Bumps(upd) == upd.sv = account.sv + 1 /\ upd \in Accounts /\ upd.sv <= MaxAdminVersion

LEMMA BumpLeaves ==
  ASSUME AdminTypeOK, NEW upd \in Accounts, upd.sv = account.sv, Bump(upd)
  PROVE  /\ Bumps(account') /\ admitted' = NoAdmission
         /\ adminClean' \in BOOLEAN /\ (adminClean' => adminClean /\ ~AdminCopiesInFlight)
         /\ account'.active = upd.active /\ account'.role = upd.role
<1>1. /\ Bumped(upd) \in Accounts /\ Bumped(upd).sv = account.sv + 1
      /\ Bumped(upd).active = upd.active /\ Bumped(upd).role = upd.role
  BY DEF Bumped, Accounts
<1>2. account.sv < MaxAdminVersion /\ account' = Bumped(upd) /\ admitted' = NoAdmission
  BY DEF Bump, UpdateAccount
<1>3. account.sv + 1 <= MaxAdminVersion
  BY <1>2, AdminAccountConstants DEF AdminTypeOK, Accounts
<1>4. adminClean' \in BOOLEAN /\ (adminClean' => adminClean /\ ~AdminCopiesInFlight)
  BY Zenon DEF Bump, UpdateAccount
<1> QED
  BY <1>1, <1>2, <1>3, <1>4 DEF Bumps

LEMMA HandlerLeaves ==
  ASSUME AdminTypeOK, NEW h \in Handlers, NEW from, NEW to \in {"idle", "bump", "drop", "delete", "reset", "accept"},
         HandlerAt(h, from, to)
  PROVE  /\ UNCHANGED <<adminCopy, sessions, challenge, adminLogin, adminRequest, adminLost,
                       adminRevoked, roleHalf>>
         /\ handler \in [Handlers -> {"idle", "bump", "drop", "delete", "reset", "accept"}]
         /\ handler' \in [Handlers -> {"idle", "bump", "drop", "delete", "reset", "accept"}]
         /\ handler[h] = from /\ handler'[h] = to /\ \A g \in Handlers : g # h => handler'[g] = handler[g]
  BY DEF AdminTypeOK, HandlerAt

(* Every session, and every login that has a token to give, is of an earlier   *)
(* version than the row's, or one the row as it is now would give.            *)
Good(t) ==
  /\ t.sv <= account.sv
  /\ t.sv = account.sv => account.active /\ ~account.suspended /\ (account.mfa => t.mfa)

SessionsGood ==
  /\ \A t \in sessions : Good(t)
  /\ \A l \in AdminLogins : adminLogin[l].pc # "idle" => Good(adminLogin[l].token)

(* An update of the row has a new version, or leaves what Good looks at.       *)
Harmless ==
  \/ Bumps(account')
  \/ /\ account'.sv = account.sv /\ account'.active = account.active
     /\ account'.suspended = account.suspended /\ (account'.mfa => account.mfa)

LEMMA GoodKept ==
  ASSUME AdminTypeOK, Harmless, NEW t \in Sessions, Good(t)
  PROVE  Good(t)'
<1>1. t.sv \in Nat /\ account.sv \in Nat
  BY DEF AdminTypeOK, Sessions, Accounts
<1>2. CASE Bumps(account')
  BY <1>1, <1>2 DEF Good, Bumps
<1>3. CASE ~Bumps(account')
  BY <1>1, <1>3 DEF Good, Harmless
<1> QED
  BY <1>2, <1>3

(* While clean: every copy on its way says what the row says, and the copy in   *)
(* Redis has the row's role or that of a change not settled, and is of no older  *)
(* version than what a returned handler has replaced.                          *)
Fresh(copy) == copy \in {NoCopy, CopyOf(account)}

CopiesFresh ==
  adminClean =>
    /\ \A l \in AdminLogins : Fresh(adminLogin[l].copy)
    /\ \A r \in AdminRequests : Fresh(adminRequest[r].copy)
    /\ adminCopy # NoCopy /\ RoleSettled => adminCopy.role = account.role
    /\ adminCopy # NoCopy => adminCopy.sv >= adminRevoked

AdminInv == AdminTypeOK /\ SessionsGood /\ CopiesFresh /\ AdminDecisionsHold

LEMMA AdminInitial == AdminInit => AdminInv
<1> SUFFICES ASSUME AdminInit PROVE AdminInv
  OBVIOUS
<1>1. account \in Accounts /\ account.sv = 0
  BY DEF AdminInit, Accounts
<1>2. /\ adminLogin \in [AdminLogins -> LoginRecords] /\ \A l \in AdminLogins : adminLogin[l] = NoAdminLogin
      /\ adminRequest \in [AdminRequests -> RequestRecords]
      /\ \A r \in AdminRequests : adminRequest[r].copy = NoCopy
  BY RestingTyped DEF AdminInit, NoAdminRequest
<1>3. handler \in [Handlers -> {"idle", "bump", "drop", "delete", "reset", "accept"}]
  BY DEF AdminInit
<1>4. /\ adminCopy = NoCopy /\ sessions = {} /\ challenge = FALSE /\ adminLost = 0
      /\ admitted = NoAdmission /\ adminRevoked = 0 /\ adminClean = TRUE /\ roleHalf = FALSE
  BY DEF AdminInit
<1>5. account.sv <= MaxAdminVersion /\ adminLost \in 0..MaxAdminLost /\ adminRevoked \in 0..account.sv
  BY <1>1, <1>4, AdminAccountConstants
<1>6. AdminTypeOK
  BY <1>1, <1>2, <1>3, <1>4, <1>5, RestingTyped DEF AdminTypeOK, LoginRecords, RequestRecords
<1>7. SessionsGood /\ CopiesFresh /\ AdminDecisionsHold
  BY <1>2, <1>4, RestingTyped DEF SessionsGood, CopiesFresh, Fresh, AdminDecisionsHold
<1> QED
  BY <1>6, <1>7 DEF AdminInv

(* Steps of logins. *)
LEMMA LoginsKeep ==
  ASSUME AdminInv, NEW l \in AdminLogins, LoginPassword(l) \/ LoginCode(l) \/ AdminLoginSteps(l)
  PROVE  AdminInv'
<1> USE DEF AdminInv
<1>1. account' = account /\ adminHistories' = adminHistories /\ admitted' = NoAdmission
      /\ adminRequest' = adminRequest /\ handler' = handler
  BY PasswordLeaves, FinalLeaves, CopyLeaves DEF AdminLoginSteps
<1>2. /\ CopyOf(account)' = CopyOf(account) /\ (RoleSettled' <=> RoleSettled)
      /\ \A t : Good(t)' <=> Good(t)
  BY <1>1 DEF CopyOf, RoleSettled, Good, adminHistories
<1>3. AdminDecisionsHold'
  BY <1>1 DEF AdminDecisionsHold
<1>4. CASE LoginPassword(l) \/ LoginCode(l)
  <2>1. CASE UNCHANGED adminLogin
    <3>1. AdminTypeOK'
      BY <1>1, <1>4, <2>1, PasswordLeaves DEF AdminTypeOK, adminHistories
    <3>2. SessionsGood' /\ CopiesFresh'
      BY <1>1, <1>2, <1>4, <2>1, PasswordLeaves DEF SessionsGood, CopiesFresh, Fresh, adminHistories
    <3> QED
      BY <1>3, <3>1, <3>2
  <2>2. CASE ~UNCHANGED adminLogin
    <3>1. account.active /\ ~account.suspended
      BY <1>4, <2>2, PasswordLeaves
    <3>2. PICK c \in LoginRecords : /\ adminLogin' = [adminLogin EXCEPT ![l] = c]
                                    /\ c.pc = "final" /\ c.copy = NoCopy /\ c.token.sv = account.sv
                                    /\ account.mfa => c.token.mfa
      BY <1>4, <2>2, PasswordLeaves
    <3>3. /\ adminLogin' \in [AdminLogins -> LoginRecords]
          /\ \A m \in AdminLogins : adminLogin'[m].pc = "copy" => adminLogin'[m].copy # NoCopy
          /\ adminLogin'[l] = c /\ \A m \in AdminLogins : m # l => adminLogin'[m] = adminLogin[m]
      BY <3>2, LoginTyped
    <3>4. AdminTypeOK'
      BY <1>1, <1>4, <3>3, PasswordLeaves DEF AdminTypeOK, adminHistories, LoginRecords
    <3>5. Good(c.token)
      BY <3>1, <3>2 DEF Good, AdminTypeOK, Accounts
    <3>6. SessionsGood'
      BY <1>2, <1>4, <3>3, <3>5, PasswordLeaves DEF SessionsGood
    <3>7. CopiesFresh'
      BY <1>1, <1>2, <1>4, <3>2, <3>3, PasswordLeaves DEF CopiesFresh, Fresh, adminHistories
    <3> QED
      BY <1>3, <3>4, <3>6, <3>7
  <2> QED
    BY <2>1, <2>2
<1>5. CASE LoginFinal(l)
  <2>1. PICK c \in LoginRecords : /\ adminLogin' = [adminLogin EXCEPT ![l] = c]
                                  /\ c.pc = "copy" /\ c.copy = CopyOf(account) /\ c.copy # NoCopy
                                  /\ c.token = adminLogin[l].token
    BY <1>5, FinalLeaves
  <2>2. /\ adminLogin' \in [AdminLogins -> LoginRecords]
        /\ \A m \in AdminLogins : adminLogin'[m].pc = "copy" => adminLogin'[m].copy # NoCopy
        /\ adminLogin'[l] = c /\ \A m \in AdminLogins : m # l => adminLogin'[m] = adminLogin[m]
    BY <2>1, LoginTyped
  <2>3. AdminTypeOK'
    BY <1>1, <1>5, <2>2, FinalLeaves DEF AdminTypeOK, adminHistories, LoginRecords
  <2>4. Good(c.token)
    BY <1>5, <2>1, FinalLeaves DEF SessionsGood
  <2>5. SessionsGood'
    BY <1>2, <1>5, <2>2, <2>4, FinalLeaves DEF SessionsGood
  <2>6. CopiesFresh'
    BY <1>1, <1>2, <1>5, <2>1, <2>2, FinalLeaves DEF CopiesFresh, Fresh, adminHistories
  <2> QED
    BY <1>3, <2>3, <2>5, <2>6
<1>6. CASE LoginCopy(l)
  <2>1. /\ adminLogin' \in [AdminLogins -> LoginRecords]
        /\ \A m \in AdminLogins : adminLogin'[m].pc = "copy" => adminLogin'[m].copy # NoCopy
        /\ adminLogin'[l] = NoAdminLogin /\ \A m \in AdminLogins : m # l => adminLogin'[m] = adminLogin[m]
    BY <1>6, CopyLeaves, LoginTyped, RestingTyped
  <2>2. AdminTypeOK'
    BY <1>1, <1>6, <2>1, CopyLeaves DEF AdminTypeOK, adminHistories, LoginRecords
  <2>3. SessionsGood'
    BY <1>2, <1>6, <2>1, CopyLeaves, RestingTyped DEF SessionsGood
  <2>4. CopyOf(account).sv = account.sv /\ CopyOf(account).role = account.role /\ adminRevoked <= account.sv /\ account.sv \in Nat /\ adminRevoked \in Nat
    BY DEF CopyOf, AdminTypeOK, Accounts
  <2>5. adminClean => Fresh(adminLogin[l].copy) /\ adminLogin[l].copy # NoCopy
    BY <1>6, CopyLeaves, AdminAccountConstants DEF CopiesFresh, Copies
  <2>6. CopiesFresh'
    <3> SUFFICES ASSUME adminClean' PROVE CopiesFresh'
      BY DEF CopiesFresh
    <3>1. adminClean /\ adminRevoked' = adminRevoked
      BY <1>1 DEF adminHistories
    <3>2. adminLogin[l].copy = CopyOf(account)
      BY <2>5, <3>1 DEF Fresh
    <3>3. \A m \in AdminLogins : Fresh(adminLogin[m].copy)'
      BY <1>2, <2>1, <3>1, RestingTyped DEF CopiesFresh, Fresh
    <3>4. \A r \in AdminRequests : Fresh(adminRequest[r].copy)'
      BY <1>1, <1>2, <3>1 DEF CopiesFresh, Fresh
    <3>5. adminCopy' # NoCopy /\ RoleSettled' => adminCopy'.role = account'.role
      BY <1>1, <1>2, <1>6, <2>4, <3>1, <3>2, CopyLeaves DEF CopiesFresh
    <3>6. adminCopy' # NoCopy => adminCopy'.sv >= adminRevoked'
      BY <1>6, <2>4, <3>1, <3>2, CopyLeaves DEF CopiesFresh
    <3> QED
      BY <3>3, <3>4, <3>5, <3>6 DEF CopiesFresh
  <2> QED
    BY <1>3, <2>2, <2>3, <2>6
<1> QED
  BY <1>4, <1>5, <1>6 DEF AdminLoginSteps

(* Steps that leave the copy in Redis, and the sessions, alone: the row keeps  *)
(* what copies hold, or a handler is under way and copies were too late.       *)
HandlerPlaces == {"idle", "bump", "drop", "delete", "reset", "accept"}
SameCopy == CopyOf(account)' = CopyOf(account)

LEMMA RowChanges ==
  ASSUME AdminInv, account' \in Accounts, account'.sv <= MaxAdminVersion, account.sv <= account'.sv, Harmless,
         UNCHANGED <<adminCopy, sessions, challenge, adminLogin, adminLost, adminRevoked>>,
         admitted' = NoAdmission, adminRequest' \in [AdminRequests -> RequestRecords],
         \A r \in AdminRequests : adminRequest'[r].copy = adminRequest[r].copy,
         handler' \in [Handlers -> HandlerPlaces], adminClean' \in BOOLEAN,
         adminClean' => adminClean /\ (AdminCopiesInFlight => SameCopy),
         roleHalf' \in BOOLEAN, RoleSettled' => account'.role = account.role /\ RoleSettled
  PROVE  AdminInv'
<1> USE DEF AdminInv
<1>1. adminRevoked' \in 0..account'.sv
  BY DEF AdminTypeOK, Accounts
<1>2. AdminTypeOK'
  BY <1>1 DEF AdminTypeOK, RequestRecords, HandlerPlaces
<1>3. \A l \in AdminLogins : adminLogin[l].token \in Sessions
  BY DEF AdminTypeOK
<1>4. \A t \in sessions : t \in Sessions
  BY DEF AdminTypeOK
<1>5. SessionsGood'
  <2>1. \A t \in sessions' : Good(t)'
    BY <1>4, GoodKept DEF SessionsGood
  <2>2. \A l \in AdminLogins : adminLogin'[l].pc # "idle" => Good(adminLogin[l].token)'
    BY <1>3, GoodKept DEF SessionsGood
  <2> QED
    BY <2>1, <2>2 DEF SessionsGood
<1>6. CopiesFresh'
  <2> SUFFICES ASSUME adminClean' PROVE CopiesFresh'
    BY DEF CopiesFresh
  <2>1. adminClean /\ (AdminCopiesInFlight => SameCopy)
    OBVIOUS
  <2>2. \A l \in AdminLogins : adminLogin[l].copy # NoCopy => SameCopy
    BY <2>1 DEF AdminCopiesInFlight
  <2>3. \A r \in AdminRequests : adminRequest[r].copy # NoCopy => SameCopy
    BY <2>1 DEF AdminCopiesInFlight
  <2>4. \A l \in AdminLogins : Fresh(adminLogin[l].copy)'
    BY <2>1, <2>2 DEF CopiesFresh, Fresh, SameCopy
  <2>5. \A r \in AdminRequests : Fresh(adminRequest[r].copy)'
    BY <2>1, <2>3 DEF CopiesFresh, Fresh, SameCopy
  <2>6. adminCopy' # NoCopy /\ RoleSettled' => adminCopy'.role = account'.role
    BY <2>1 DEF CopiesFresh
  <2>7. adminCopy' # NoCopy => adminCopy'.sv >= adminRevoked'
    BY <2>1 DEF CopiesFresh
  <2> QED
    BY <2>4, <2>5, <2>6, <2>7 DEF CopiesFresh
<1>7. AdminDecisionsHold'
  BY DEF AdminDecisionsHold
<1> QED
  BY <1>2, <1>5, <1>6, <1>7

(* A deletion of the copy ends in no copy, or no longer counts as clean.       *)
LEMMA DropKeeps ==
  ASSUME AdminInv, DropCopy, adminRevoked' = account.sv,
         adminRequest' \in [AdminRequests -> RequestRecords],
         \A r \in AdminRequests : adminRequest'[r].copy = adminRequest[r].copy,
         handler' \in [Handlers -> HandlerPlaces]
  PROVE  AdminInv'
<1> USE DEF AdminInv
<1>1. /\ UNCHANGED <<account, sessions, challenge, adminLogin>>
      /\ admitted' = NoAdmission /\ adminLost' \in 0..MaxAdminLost
      /\ roleHalf' \in BOOLEAN
      /\ \/ adminCopy' = NoCopy /\ adminClean' = adminClean
         \/ adminCopy' = adminCopy /\ adminClean' = FALSE
  BY DropLeaves
<1>2. CopyOf(account)' = CopyOf(account) /\ \A t : Good(t)' <=> Good(t)
  BY <1>1 DEF CopyOf, Good
<1>3. adminRevoked' \in 0..account'.sv
  BY <1>1 DEF AdminTypeOK, Accounts
<1>4. adminClean' \in BOOLEAN /\ adminCopy' \in Copies \cup {NoCopy}
  BY <1>1 DEF AdminTypeOK
<1>5. AdminTypeOK'
  BY <1>1, <1>3, <1>4 DEF AdminTypeOK, RequestRecords, HandlerPlaces
<1>6. SessionsGood'
  BY <1>1, <1>2 DEF SessionsGood
<1>7. CopiesFresh'
  BY <1>1, <1>2 DEF CopiesFresh, Fresh
<1>8. AdminDecisionsHold'
  BY <1>1 DEF AdminDecisionsHold
<1> QED
  BY <1>5, <1>6, <1>7, <1>8

(* Steps of requests that read: the row, its version and the handlers stay.     *)
LEMMA RequestReadsKeep ==
  ASSUME AdminInv, NEW r \in AdminRequests, NEW c \in RequestRecords,
         adminRequest' = [adminRequest EXCEPT ![r] = c],
         UNCHANGED <<account, sessions, challenge, adminLogin, handler, adminHistories>>,
         adminLost' \in 0..MaxAdminLost, adminCopy' \in {adminCopy, adminRequest[r].copy},
         admitted' \in Admissions \cup {NoAdmission},
         c.copy \in {NoCopy, adminRequest[r].copy, CopyOf(account)},
         adminClean /\ admitted' # NoAdmission =>
           /\ admitted'.sv >= adminRevoked
           /\ RoleSettled => admitted'.role = account.role
  PROVE  AdminInv'
<1> USE DEF AdminInv
<1>1. /\ adminRequest' \in [AdminRequests -> RequestRecords]
      /\ adminRequest'[r] = c /\ \A q \in AdminRequests : q # r => adminRequest'[q] = adminRequest[q]
  BY RequestTyped
<1>2. CopyOf(account)' = CopyOf(account) /\ \A t : Good(t)' <=> Good(t)
  BY DEF CopyOf, Good
<1>3. RoleSettled' <=> RoleSettled
  BY DEF RoleSettled, adminHistories
<1>4. adminRevoked' = adminRevoked /\ adminClean' = adminClean /\ roleHalf' = roleHalf
  BY DEF adminHistories
<1>5. adminCopy' \in Copies \cup {NoCopy}
  BY DEF AdminTypeOK
<1>6. AdminTypeOK'
  BY <1>1, <1>4, <1>5 DEF AdminTypeOK, RequestRecords
<1>7. SessionsGood'
  BY <1>2 DEF SessionsGood
<1>8. CopiesFresh'
  <2> SUFFICES ASSUME adminClean' PROVE CopiesFresh'
    BY DEF CopiesFresh
  <2>1. CopyOf(account).sv = account.sv /\ CopyOf(account).role = account.role /\ adminRevoked <= account.sv /\ account.sv \in Nat /\ adminRevoked \in Nat
    BY DEF CopyOf, AdminTypeOK, Accounts
  <2>2. /\ \A l \in AdminLogins : Fresh(adminLogin[l].copy)
        /\ \A q \in AdminRequests : Fresh(adminRequest[q].copy)
        /\ adminCopy # NoCopy /\ RoleSettled => adminCopy.role = account.role
        /\ adminCopy # NoCopy => adminCopy.sv >= adminRevoked
    BY <1>4 DEF CopiesFresh
  <2>3. \A l \in AdminLogins : Fresh(adminLogin[l].copy)'
    BY <1>2, <2>2 DEF Fresh
  <2>4. \A q \in AdminRequests : Fresh(adminRequest[q].copy)'
    BY <1>1, <1>2, <2>2 DEF Fresh
  <2>5. adminCopy' # NoCopy /\ RoleSettled' => adminCopy'.role = account'.role
    BY <1>3, <2>1, <2>2 DEF Fresh
  <2>6. adminCopy' # NoCopy => adminCopy'.sv >= adminRevoked'
    <3>1. CASE adminCopy' = adminCopy
      BY <1>4, <2>2, <3>1
    <3>2. CASE adminCopy' = adminRequest[r].copy
      BY <1>4, <2>1, <2>2, <3>2 DEF Fresh
    <3> QED
      BY <3>1, <3>2
  <2> QED
    BY <2>3, <2>4, <2>5, <2>6 DEF CopiesFresh
<1>9. AdminDecisionsHold'
  BY <1>3, <1>4 DEF AdminDecisionsHold
<1> QED
  BY <1>6, <1>7, <1>8, <1>9

LEMMA RequestsReadKeep ==
  ASSUME AdminInv, NEW r \in AdminRequests,
         \/ \E t \in sessions : AdminAskCached(r, t) \/ AdminAskMissed(r, t)
         \/ AdminRead(r) \/ AdminFill(r)
  PROVE  AdminInv'
<1> USE DEF AdminInv
<1>1. adminRequest[r] \in RequestRecords /\ account \in Accounts /\ CopyOf(account) \in Copies
  BY CopyTyped DEF AdminTypeOK, RequestRecords
<1>2. CASE \E t \in sessions : AdminAskCached(r, t)
  <2>1. PICK t \in sessions : AdminAskCached(r, t)
    BY <1>2
  <2>2. t \in Sessions /\ adminCopy \in Copies /\ adminRequest[r].copy \in Copies \cup {NoCopy}
    BY <2>1 DEF AdminTypeOK, AdminAskCached
  <2>3. Judge(r, adminCopy, t, adminRequest[r].copy)
    BY <2>1 DEF AdminAskCached
  <2>4. PICK c \in RequestRecords : /\ adminRequest' = [adminRequest EXCEPT ![r] = c] /\ c.copy = adminRequest[r].copy
                                    /\ c.pc \in {"idle", "admitted"}
    BY <2>2, <2>3, JudgeLeaves
  <2>5. /\ admitted' \in Admissions \cup {NoAdmission}
        /\ admitted' # NoAdmission => admitted'.sv = adminCopy.sv /\ admitted'.role = adminCopy.role
    BY <2>2, <2>3, JudgeLeaves
  <2>6. adminCopy # NoCopy /\ adminRequest[r].pc = "idle"
    BY <2>1 DEF AdminAskCached
  <2>7. adminClean => adminCopy.sv >= adminRevoked /\ (RoleSettled => adminCopy.role = account.role)
    BY <2>6 DEF CopiesFresh
  <2>8. /\ UNCHANGED <<account, sessions, challenge, adminLogin, handler, adminHistories>>
        /\ adminLost' \in 0..MaxAdminLost /\ adminCopy' = adminCopy
    BY <2>1 DEF AdminAskCached, AdminTypeOK
  <2> QED
    BY <2>4, <2>5, <2>6, <2>7, <2>8, RequestReadsKeep
<1>3. CASE \E t \in sessions : AdminAskMissed(r, t)
  <2>1. PICK t \in sessions : AdminAskMissed(r, t)
    BY <1>3
  <2>2. PICK c \in RequestRecords : /\ adminRequest' = [adminRequest EXCEPT ![r] = c]
                                    /\ c.copy = adminRequest[r].copy /\ c.pc = "read"
    BY <2>1, AskLeaves
  <2>3. /\ UNCHANGED <<account, adminCopy, sessions, challenge, adminLogin, handler, adminHistories>>
        /\ admitted' = NoAdmission /\ adminLost' \in 0..MaxAdminLost /\ adminRequest[r].pc # "delete"
    BY <2>1, AskLeaves
  <2> QED
    BY <2>2, <2>3, RequestReadsKeep
<1>4. CASE AdminRead(r)
  <2>1. adminRequest[r].token \in Sessions /\ Judge(r, account, adminRequest[r].token, CopyOf(account))
    BY <1>1, <1>4 DEF AdminRead, RequestRecords
  <2>2. PICK c \in RequestRecords : /\ adminRequest' = [adminRequest EXCEPT ![r] = c] /\ c.copy = CopyOf(account)
                                    /\ c.pc \in {"idle", "admitted"}
    BY <1>1, <2>1, JudgeLeaves
  <2>3. /\ admitted' \in Admissions \cup {NoAdmission}
        /\ admitted' # NoAdmission => admitted'.sv = account.sv /\ admitted'.role = account.role
    BY <1>1, <2>1, JudgeLeaves
  <2>4. account.sv >= adminRevoked
    BY DEF AdminTypeOK, Accounts
  <2>5. /\ UNCHANGED <<account, sessions, challenge, adminLogin, handler, adminHistories>>
        /\ adminLost' \in 0..MaxAdminLost /\ adminCopy' = adminCopy /\ adminRequest[r].pc = "read"
    BY <1>4 DEF AdminRead, AdminTypeOK
  <2> QED
    BY <2>2, <2>3, <2>4, <2>5, RequestReadsKeep
<1>5. CASE AdminFill(r)
  <2>1. PICK c \in RequestRecords : /\ adminRequest' = [adminRequest EXCEPT ![r] = c]
                                    /\ c.copy = NoCopy /\ c.pc = adminRequest[r].pc
    BY <1>5, FillLeaves
  <2>2. /\ UNCHANGED <<account, sessions, challenge, adminLogin, handler, adminHistories>>
        /\ admitted' = NoAdmission /\ adminLost' \in 0..MaxAdminLost
        /\ adminCopy' \in {adminCopy, adminRequest[r].copy}
    BY <1>5, FillLeaves
  <2> QED
    BY <2>1, <2>2, RequestReadsKeep
<1> QED
  BY <1>2, <1>3, <1>4, <1>5

(* What the account asks for changes its row only on the way to a deletion.     *)
LEMMA RequestsMoveKeep ==
  ASSUME AdminInv, NEW r \in AdminRequests, NEW from \in {"admitted", "setup", "enable", "disable"},
         NEW to \in {"idle", "setup", "enable", "disable", "delete"}, RequestAt(r, from, to),
         admitted' = NoAdmission, account' \in Accounts, account'.sv <= MaxAdminVersion,
         account.sv <= account'.sv, Harmless, adminClean' \in BOOLEAN,
         adminClean' => adminClean /\ (AdminCopiesInFlight => SameCopy),
         account'.role = account.role
  PROVE  AdminInv'
<1> USE DEF AdminInv
<1>1. PICK c \in RequestRecords : /\ adminRequest' = [adminRequest EXCEPT ![r] = c]
                                  /\ c.copy = adminRequest[r].copy /\ c.pc = to
  BY AtLeaves
<1>2. /\ UNCHANGED <<adminCopy, sessions, challenge, adminLogin, handler, adminLost, adminRevoked, roleHalf>>
      /\ adminRequest[r].pc = from
  BY AtLeaves
<1>3. /\ adminRequest' \in [AdminRequests -> RequestRecords]
      /\ adminRequest'[r] = c /\ \A q \in AdminRequests : q # r => adminRequest'[q] = adminRequest[q]
  BY <1>1, RequestTyped
<1>4. \A q \in AdminRequests : adminRequest'[q].copy = adminRequest[q].copy
  BY <1>1, <1>3
<1>5. handler' \in [Handlers -> HandlerPlaces]
  BY <1>2 DEF AdminTypeOK, HandlerPlaces
<1>6. /\ roleHalf' \in BOOLEAN
      /\ RoleSettled' => account'.role = account.role /\ RoleSettled
  BY <1>2 DEF RoleSettled, AdminTypeOK
<1> QED
  BY <1>2, <1>3, <1>4, <1>5, <1>6, RowChanges

LEMMA RowStays ==
  ASSUME AdminTypeOK, account' = account
  PROVE  /\ account' \in Accounts /\ account'.sv <= MaxAdminVersion /\ account.sv <= account'.sv
         /\ Harmless /\ SameCopy /\ account'.role = account.role
  BY DEF AdminTypeOK, Accounts, Harmless, SameCopy, CopyOf

LEMMA RowBumped ==
  ASSUME AdminTypeOK, NEW upd \in Accounts, upd.sv = account.sv, Bump(upd)
  PROVE  /\ account' \in Accounts /\ account'.sv <= MaxAdminVersion /\ account.sv <= account'.sv
         /\ Harmless /\ admitted' = NoAdmission /\ adminClean' \in BOOLEAN
         /\ adminClean' => adminClean /\ (AdminCopiesInFlight => SameCopy)
         /\ account'.role = upd.role
<1>1. /\ Bumps(account') /\ admitted' = NoAdmission /\ account'.role = upd.role
      /\ adminClean' \in BOOLEAN /\ (adminClean' => adminClean /\ ~AdminCopiesInFlight)
  BY BumpLeaves
<1>2. account.sv \in Nat
  BY DEF AdminTypeOK, Accounts
<1> QED
  BY <1>1, <1>2 DEF Bumps, Harmless

LEMMA RequestStepsKeep ==
  ASSUME AdminInv, NEW r \in AdminRequests, RequestSteps(r)
  PROVE  AdminInv'
<1> USE DEF AdminInv
<1>1. account \in Accounts /\ adminClean \in BOOLEAN
  BY DEF AdminTypeOK
<1>2. CASE AdminRead(r)
  BY <1>2, RequestsReadKeep
<1>3. CASE RequestEnds(r) \/ SetupRead(r) \/ EnableRead(r) \/ DisableRead(r)
  <2>1. PICK to \in {"idle", "setup", "enable", "disable"} : RequestReads(r, to)
    BY <1>3 DEF RequestEnds, SetupRead, EnableRead, DisableRead
  <2>2. /\ RequestAt(r, "admitted", to) /\ admitted' = NoAdmission /\ account' = account
        /\ adminClean' = adminClean
    BY <2>1 DEF RequestReads
  <2> QED
    BY <1>1, <2>2, RowStays, RequestsMoveKeep
<1>4. CASE AdminLogout(r)
  BY <1>1, <1>4, RowBumped, RequestsMoveKeep DEF AdminLogout
<1>5. CASE SetupWrite(r)
  <2>1. /\ RequestAt(r, "setup", "idle") /\ admitted' = NoAdmission /\ adminClean' = adminClean
        /\ account' = [account EXCEPT !.secret = TRUE, !.mfa = FALSE]
    BY <1>5 DEF SetupWrite
  <2>2. /\ account' \in Accounts /\ account'.sv = account.sv /\ account'.active = account.active
        /\ account'.suspended = account.suspended /\ account'.mfa = FALSE /\ account'.role = account.role
    BY <1>1, <2>1 DEF Accounts
  <2>3. Harmless /\ SameCopy
    BY <2>2 DEF Harmless, SameCopy, CopyOf
  <2>4. account'.sv <= MaxAdminVersion /\ account.sv <= account'.sv
    BY <1>1, <2>2 DEF AdminTypeOK, Accounts
  <2> QED
    BY <1>1, <2>1, <2>2, <2>3, <2>4, RequestsMoveKeep
<1>6. CASE EnableWrite(r)
  <2> DEFINE upd == [account EXCEPT !.mfa = TRUE]
  <2>1. upd \in Accounts /\ upd.sv = account.sv /\ upd.role = account.role
    BY <1>1 DEF Accounts
  <2>2. RequestAt(r, "enable", "delete") /\ Bump(upd)
    BY <1>6 DEF EnableWrite
  <2> HIDE DEF upd
  <2> QED
    BY <2>1, <2>2, RowBumped, RequestsMoveKeep
<1>7. CASE DisableWrite(r)
  <2> DEFINE upd == [account EXCEPT !.mfa = FALSE, !.secret = FALSE]
  <2>1. upd \in Accounts /\ upd.sv = account.sv /\ upd.role = account.role
    BY <1>1 DEF Accounts
  <2>2. RequestAt(r, "disable", "delete") /\ Bump(upd)
    BY <1>7 DEF DisableWrite
  <2> HIDE DEF upd
  <2> QED
    BY <2>1, <2>2, RowBumped, RequestsMoveKeep
<1>8. CASE RequestDelete(r)
  <2>1. PICK c \in RequestRecords : /\ adminRequest' = [adminRequest EXCEPT ![r] = c]
                                    /\ c.copy = adminRequest[r].copy /\ c.pc = "idle"
    BY <1>8, RequestDeletes
  <2>2. /\ adminRequest' \in [AdminRequests -> RequestRecords]
        /\ \A q \in AdminRequests : adminRequest'[q].copy = adminRequest[q].copy
    BY <2>1, RequestTyped
  <2>3. DropCopy /\ adminRevoked' = account.sv /\ handler' \in [Handlers -> HandlerPlaces]
    BY <1>8 DEF RequestDelete, AdminTypeOK, HandlerPlaces
  <2> QED
    BY <2>2, <2>3, DropKeeps
<1> QED
  BY <1>2, <1>3, <1>4, <1>5, <1>6, <1>7, <1>8 DEF RequestSteps

(* Handlers of others: each update puts its handler on the way to a deletion.   *)
LEMMA HandlersMoveKeep ==
  ASSUME AdminInv, NEW h \in Handlers, NEW from \in HandlerPlaces, NEW to \in HandlerPlaces \ {"idle"},
         HandlerAt(h, from, to),
         admitted' = NoAdmission, account' \in Accounts, account'.sv <= MaxAdminVersion,
         account.sv <= account'.sv, Harmless, adminClean' \in BOOLEAN,
         adminClean' => adminClean /\ (AdminCopiesInFlight => SameCopy),
         to \in {"bump", "drop"} \/ (from \notin {"bump", "drop"} /\ account'.role = account.role)
  PROVE  AdminInv'
<1> USE DEF AdminInv, HandlerPlaces
<1>1. /\ UNCHANGED <<adminCopy, sessions, challenge, adminLogin, adminRequest, adminLost, adminRevoked, roleHalf>>
      /\ handler' \in [Handlers -> HandlerPlaces] /\ handler'[h] = to /\ handler[h] = from
      /\ \A g \in Handlers : g # h => handler'[g] = handler[g]
  BY HandlerLeaves
<1>2. adminRequest' \in [AdminRequests -> RequestRecords]
  BY <1>1 DEF AdminTypeOK, RequestRecords
<1>3. roleHalf' \in BOOLEAN
  BY <1>1 DEF AdminTypeOK
<1>4. RoleSettled' => account'.role = account.role /\ RoleSettled
  BY <1>1 DEF RoleSettled
<1> QED
  BY <1>1, <1>2, <1>3, <1>4, RowChanges

(* A handler that fails leaves the row and the copy as they are; if it was        *)
(* changing the role, the change is not settled.                              *)
LEMMA DyingKeeps ==
  ASSUME AdminInv, (\E r \in AdminRequests : RequestDies(r)) \/ (\E h \in Handlers : HandlerDies(h))
  PROVE  AdminInv'
<1> USE DEF AdminInv
<1>1. adminLost' \in 0..MaxAdminLost
  <2>1. AdminLose \/ UNCHANGED adminLost
    BY DEF RequestDies, HandlerDies
  <2> QED
    BY <2>1, AdminAccountConstants DEF AdminLose, AdminTypeOK
<1>2. ASSUME NEW r \in AdminRequests, RequestDies(r) PROVE AdminInv'
  <2> DEFINE c == [adminRequest[r] EXCEPT !.pc = "idle", !.token = NoSession]
  <2>1. c \in RequestRecords /\ c.copy = adminRequest[r].copy
    BY RestingTyped DEF AdminTypeOK, RequestRecords
  <2>2. /\ adminRequest' = [adminRequest EXCEPT ![r] = c] /\ admitted' = NoAdmission
        /\ UNCHANGED <<account, adminCopy, sessions, challenge, adminLogin, handler, adminHistories>>
    BY <1>2 DEF RequestDies
  <2> HIDE DEF c
  <2> QED
    BY <1>1, <2>1, <2>2, RequestReadsKeep
<1>3. ASSUME NEW h \in Handlers, HandlerDies(h) PROVE AdminInv'
  <2>1. /\ UNCHANGED <<account, adminCopy, sessions, challenge, adminLogin, adminRequest, adminRevoked, adminClean>>
        /\ admitted' = NoAdmission /\ roleHalf' = (roleHalf \/ handler[h] \in {"bump", "drop"})
        /\ handler' = [handler EXCEPT ![h] = "idle"]
    BY <1>3 DEF HandlerDies
  <2>2. handler' \in [Handlers -> HandlerPlaces] /\ \A g \in Handlers : g # h => handler'[g] = handler[g]
    BY <2>1 DEF AdminTypeOK, HandlerPlaces
  <2>3. roleHalf' \in BOOLEAN
    BY <2>1
  <2>4. AdminTypeOK'
    BY <1>1, <2>1, <2>2, <2>3 DEF AdminTypeOK, HandlerPlaces
  <2>5. RoleSettled' => RoleSettled
    BY <2>1, <2>2 DEF RoleSettled
  <2>6. SessionsGood' /\ AdminDecisionsHold'
    BY <2>1 DEF SessionsGood, Good, AdminDecisionsHold
  <2>7. CopiesFresh'
    BY <2>1, <2>5 DEF CopiesFresh, Fresh, CopyOf
  <2> QED
    BY <2>4, <2>6, <2>7
<1> QED
  BY <1>2, <1>3

LEMMA HandlersKeep ==
  ASSUME AdminInv, NEW h \in Handlers,
         \/ DeactivateAdmin(h) \/ ReactivateAdmin(h) \/ Suspend(h) \/ Unsuspend(h)
         \/ ChangeRole(h) \/ ResetRead(h) \/ AcceptRead(h) \/ HandlerSteps(h)
  PROVE  AdminInv'
<1> USE DEF AdminInv
<1> DEFINE Off == [account EXCEPT !.active = FALSE]
           On == [account EXCEPT !.active = TRUE]
           Barred == [account EXCEPT !.active = FALSE, !.suspended = TRUE]
           Allowed == [account EXCEPT !.active = TRUE, !.suspended = FALSE]
           Accepted == [account EXCEPT !.active = TRUE, !.invited = FALSE]
<1>1. account \in Accounts /\ adminClean \in BOOLEAN
  BY DEF AdminTypeOK
<1>2. \A upd \in {account, Off, On, Barred, Allowed, Accepted} :
        upd \in Accounts /\ upd.sv = account.sv /\ upd.role = account.role
  BY <1>1 DEF Accounts
<1>3. CASE HandlerDrop(h)
  <2>1. handler' \in [Handlers -> HandlerPlaces] /\ DropCopy /\ adminRevoked' = account.sv /\ adminRequest' = adminRequest
    BY <1>3 DEF HandlerDrop, AdminTypeOK, HandlerPlaces
  <2>2. adminRequest \in [AdminRequests -> RequestRecords]
    BY DEF AdminTypeOK, RequestRecords
  <2> QED
    BY <2>1, <2>2, DropKeeps
<1>4. CASE ResetRead(h) \/ AcceptRead(h)
  <2>1. PICK to \in {"reset", "accept"} : HandlerReads(h, to)
    BY <1>4 DEF ResetRead, AcceptRead
  <2>2. HandlerAt(h, "idle", to) /\ admitted' = NoAdmission /\ account' = account /\ adminClean' = adminClean
    BY <2>1 DEF HandlerReads
  <2> QED
    BY <1>1, <2>2, RowStays, HandlersMoveKeep DEF HandlerPlaces
<1>5. CASE ChangeRole(h)
  <2>1. PICK role \in Roles : UpdateAccount([account EXCEPT !.role = role])
    BY <1>5 DEF ChangeRole
  <2>2. HandlerAt(h, "idle", "bump") /\ account' = [account EXCEPT !.role = role] /\ admitted' = NoAdmission
    BY <1>5, <2>1 DEF ChangeRole, UpdateAccount
  <2>3. adminClean' \in BOOLEAN /\ (adminClean' => adminClean /\ ~AdminCopiesInFlight)
    BY <2>1, Zenon DEF UpdateAccount
  <2>4. /\ account' \in Accounts /\ account'.sv = account.sv /\ account'.active = account.active
        /\ account'.suspended = account.suspended /\ account'.mfa = account.mfa
    BY <1>1, <2>2 DEF Accounts
  <2>5. account'.sv <= MaxAdminVersion /\ account.sv <= account'.sv /\ Harmless
    BY <1>1, <2>4 DEF AdminTypeOK, Accounts, Harmless
  <2>6. "idle" \in HandlerPlaces /\ "bump" \in HandlerPlaces \ {"idle"} /\ "bump" \in {"bump", "drop"}
    BY DEF HandlerPlaces
  <2>7. adminClean' \in BOOLEAN
    BY <2>3
  <2>8. adminClean' => adminClean /\ (AdminCopiesInFlight => SameCopy)
    BY <2>3, Zenon
  <2>9. account' \in Accounts /\ admitted' = NoAdmission /\ HandlerAt(h, "idle", "bump")
    BY <2>2, <2>4
  <2> QED
    BY <2>5, <2>6, <2>7, <2>8, <2>9, HandlersMoveKeep
<1>6. CASE \/ DeactivateAdmin(h) \/ ReactivateAdmin(h) \/ Suspend(h) \/ Unsuspend(h)
           \/ BumpAfterChange(h) \/ ResetWrite(h) \/ AcceptWrite(h)
  <2>1. PICK from \in HandlerPlaces, to \in HandlerPlaces \ {"idle"},
             upd \in {account, Off, On, Barred, Allowed, Accepted} :
               /\ HandlerAt(h, from, to) /\ Bump(upd)
               /\ to \in {"bump", "drop"} \/ from \notin {"bump", "drop"}
    BY <1>6 DEF DeactivateAdmin, ReactivateAdmin, Suspend, Unsuspend, BumpAfterChange, ResetWrite, AcceptWrite, HandlerPlaces
  <2>2. upd \in Accounts /\ upd.sv = account.sv /\ upd.role = account.role
    BY <1>2
  <2> HIDE DEF Off, On, Barred, Allowed, Accepted
  <2> QED
    BY <2>1, <2>2, RowBumped, HandlersMoveKeep
<1> QED
  BY <1>3, <1>4, <1>5, <1>6 DEF HandlerSteps

LEMMA ExpiriesKeep ==
  ASSUME AdminInv, ChallengeExpires \/ AdminCopyExpires \/ InvitationExpires
  PROVE  AdminInv'
<1> USE DEF AdminInv, adminHandlers, adminHistories
<1>1. CASE ChallengeExpires \/ AdminCopyExpires
  <2>1. /\ UNCHANGED <<account, sessions, adminLogin, adminRequest, handler, adminLost, adminRevoked, adminClean, roleHalf>>
        /\ admitted' = NoAdmission /\ challenge' \in BOOLEAN /\ adminCopy' \in {adminCopy, NoCopy}
    BY <1>1 DEF ChallengeExpires, AdminCopyExpires, AdminTypeOK
  <2>2. AdminTypeOK'
    BY <2>1 DEF AdminTypeOK
  <2>3. SessionsGood'
    BY <2>1 DEF SessionsGood, Good
  <2>4. CopiesFresh'
    BY <2>1 DEF CopiesFresh, Fresh, CopyOf, RoleSettled
  <2>5. AdminDecisionsHold'
    BY <2>1 DEF AdminDecisionsHold
  <2> QED
    BY <2>2, <2>3, <2>4, <2>5
<1>2. CASE InvitationExpires
  <2>1. /\ account' = [account EXCEPT !.invited = FALSE] /\ admitted' = NoAdmission
        /\ UNCHANGED <<adminCopy, sessions, challenge, adminLogin, adminRequest, handler, adminLost, adminRevoked, adminClean, roleHalf>>
    BY <1>2 DEF InvitationExpires
  <2>2. /\ account' \in Accounts /\ account'.sv = account.sv /\ account'.active = account.active
        /\ account'.suspended = account.suspended /\ account'.mfa = account.mfa /\ account'.role = account.role
    BY <2>1 DEF Accounts, AdminTypeOK
  <2>3. Harmless /\ SameCopy /\ account'.sv <= MaxAdminVersion /\ account.sv <= account'.sv
    BY <2>2 DEF Harmless, SameCopy, CopyOf, AdminTypeOK, Accounts
  <2>4. /\ adminRequest' \in [AdminRequests -> RequestRecords] /\ handler' \in [Handlers -> HandlerPlaces]
        /\ adminClean' \in BOOLEAN /\ roleHalf' \in BOOLEAN
    BY <2>1 DEF AdminTypeOK, RequestRecords, HandlerPlaces
  <2>5. RoleSettled' <=> RoleSettled
    BY <2>1 DEF RoleSettled
  <2> QED
    BY <2>1, <2>2, <2>3, <2>4, <2>5, RowChanges
<1> QED
  BY <1>1, <1>2

LEMMA AdminInvariant == AdminSpec => []AdminInv
<1>1. AdminInv /\ [AdminNext]_adminVars => AdminInv'
  <2> SUFFICES ASSUME AdminInv, [AdminNext]_adminVars PROVE AdminInv'
    OBVIOUS
  <2>1. CASE \E l \in AdminLogins : LoginPassword(l) \/ LoginCode(l) \/ AdminLoginSteps(l)
    BY <2>1, LoginsKeep
  <2>2. CASE \E r \in AdminRequests : \/ \E t \in sessions : AdminAskCached(r, t) \/ AdminAskMissed(r, t)
                                      \/ RequestSteps(r) \/ AdminFill(r) \/ RequestDies(r)
    BY <2>2, RequestsReadKeep, RequestStepsKeep, DyingKeeps
  <2>3. CASE \E h \in Handlers : \/ DeactivateAdmin(h) \/ ReactivateAdmin(h) \/ Suspend(h) \/ Unsuspend(h)
                                 \/ ChangeRole(h) \/ ResetRead(h) \/ AcceptRead(h) \/ HandlerSteps(h)
                                 \/ HandlerDies(h)
    BY <2>3, HandlersKeep, DyingKeeps
  <2>4. CASE ChallengeExpires \/ AdminCopyExpires \/ InvitationExpires
    BY <2>4, ExpiriesKeep
  <2>5. CASE UNCHANGED adminVars
    <3>1. UNCHANGED <<account, adminCopy, sessions, challenge, adminLogin, adminRequest, handler,
                      adminLost, admitted, adminRevoked, adminClean, roleHalf>>
      BY <2>5 DEF adminVars, adminHandlers, adminHistories
    <3>2. AdminTypeOK'
      BY <3>1 DEF AdminInv, AdminTypeOK
    <3>3. SessionsGood' /\ CopiesFresh' /\ AdminDecisionsHold'
      BY <3>1 DEF AdminInv, SessionsGood, Good, CopiesFresh, Fresh, CopyOf, AdminDecisionsHold, RoleSettled
    <3> QED
      BY <3>2, <3>3 DEF AdminInv
  <2> QED
    BY <2>1, <2>2, <2>3, <2>4, <2>5 DEF AdminNext
<1> QED
  BY <1>1, AdminInitial, PTL DEF AdminSpec

(* Whatever logins, requests and handlers of administrators interleave, the    *)
(* row, the copy, the sessions and every place keep their types.              *)
THEOREM AdminTypes == AdminSpec => []AdminTypeOK
<1>1. AdminInv => AdminTypeOK
  BY DEF AdminInv
<1> QED
  BY <1>1, AdminInvariant, PTL

(* For any number of logins, requests and handlers: no session of the current  *)
(* version belongs to a disabled account, nor lacks the second factor.        *)
THEOREM SessionsCurrent == AdminSpec => []CurrentSession
<1>1. AdminInv => CurrentSession
  BY DEF AdminInv, SessionsGood, Good, CurrentSession
<1> QED
  BY <1>1, AdminInvariant, PTL

(* ... and what requireAdminAuth lets through on a copy is as new as what any   *)
(* returned handler has left, unless a copy was overtaken or a deletion lost,   *)
(* wherever handlers died; and under the row's role, unless a change of role    *)
(* has yet to delete the copy, or died before it did.                         *)
THEOREM Decisions == AdminSpec => []AdminDecisionsHold
<1>1. AdminInv => AdminDecisionsHold
  BY DEF AdminInv
<1> QED
  BY <1>1, AdminInvariant, PTL

(* Copies of a version that the account has left fade.                       *)
AdminFades(k) ==
  /\ account'.sv >= k
  /\ LoginsWithOld(k)' \subseteq LoginsWithOld(k)
  /\ RequestsWithOld(k)' \subseteq RequestsWithOld(k)
  /\ OldCopy(k, adminCopy') =>
       \/ OldCopy(k, adminCopy)
       \/ LoginsWithOld(k)' # LoginsWithOld(k) \/ RequestsWithOld(k)' # RequestsWithOld(k)
  /\ admitted' # NoAdmission /\ admitted'.sv < k => OldCopy(k, adminCopy)

(* Steps that write no copy to Redis, and take none that is old. *)
LEMMA NoneWritten ==
  ASSUME AdminTypeOK, NEW k \in 0..account.sv, account'.sv >= account.sv, account'.sv \in Nat,
         adminCopy' \in {adminCopy, NoCopy},
         \A l \in AdminLogins : adminLogin'[l].copy \in {adminLogin[l].copy, NoCopy, CopyOf(account)},
         \A r \in AdminRequests : adminRequest'[r].copy \in {adminRequest[r].copy, NoCopy, CopyOf(account)},
         admitted' # NoAdmission => admitted'.sv = account.sv \/ OldCopy(k, adminCopy) \/ ~(admitted'.sv < k)
  PROVE  AdminFades(k)
<1>1. account.sv \in Nat /\ CopyOf(account).sv = account.sv
  BY DEF AdminTypeOK, Accounts, CopyOf
<1>2. ~OldCopy(k, NoCopy) /\ ~OldCopy(k, CopyOf(account))
  BY <1>1 DEF OldCopy
<1>3. account'.sv >= k
  BY <1>1
<1>4. LoginsWithOld(k)' \subseteq LoginsWithOld(k)
  BY <1>2 DEF LoginsWithOld
<1>5. RequestsWithOld(k)' \subseteq RequestsWithOld(k)
  BY <1>2 DEF RequestsWithOld
<1>6. OldCopy(k, adminCopy') => OldCopy(k, adminCopy)
  BY <1>2
<1>7. admitted' # NoAdmission /\ admitted'.sv < k => OldCopy(k, adminCopy)
  BY <1>1
<1> QED
  BY <1>3, <1>4, <1>5, <1>6, <1>7 DEF AdminFades

LEMMA LoginsFade ==
  ASSUME AdminTypeOK, NEW k \in 0..account.sv, NEW l \in AdminLogins,
         LoginPassword(l) \/ LoginCode(l) \/ AdminLoginSteps(l)
  PROVE  AdminFades(k)
<1>1. account.sv \in Nat
  BY DEF AdminTypeOK, Accounts
<1>2. CASE LoginPassword(l) \/ LoginCode(l)
  <2>1. /\ UNCHANGED <<account, adminCopy, adminRequest>> /\ admitted' = NoAdmission
        /\ \/ UNCHANGED adminLogin
           \/ \E c \in LoginRecords : adminLogin' = [adminLogin EXCEPT ![l] = c] /\ c.pc = "final" /\ c.copy = NoCopy
    BY <1>2, PasswordLeaves
  <2>2. \A m \in AdminLogins : adminLogin'[m].copy \in {adminLogin[m].copy, NoCopy}
    BY <2>1, LoginTyped
  <2> QED
    BY <1>1, <2>1, <2>2, NoneWritten
<1>3. CASE LoginFinal(l)
  <2>1. /\ UNCHANGED <<account, adminCopy, adminRequest>> /\ admitted' = NoAdmission
        /\ \E c \in LoginRecords : adminLogin' = [adminLogin EXCEPT ![l] = c] /\ c.copy = CopyOf(account) /\ c.copy # NoCopy
    BY <1>3, FinalLeaves
  <2>2. \A m \in AdminLogins : adminLogin'[m].copy \in {adminLogin[m].copy, CopyOf(account)}
    BY <2>1, LoginTyped
  <2> QED
    BY <1>1, <2>1, <2>2, NoneWritten
<1>4. CASE LoginCopy(l)
  <2>1. /\ UNCHANGED <<account, adminRequest>> /\ admitted' = NoAdmission
        /\ adminCopy' \in {adminCopy, adminLogin[l].copy}
        /\ adminLogin' = [adminLogin EXCEPT ![l] = NoAdminLogin]
    BY <1>4, CopyLeaves
  <2>2. adminLogin'[l].copy = NoCopy /\ \A m \in AdminLogins : m # l => adminLogin'[m] = adminLogin[m]
    BY <2>1, LoginTyped, RestingTyped
  <2>3. LoginsWithOld(k)' = LoginsWithOld(k) \ {l} /\ RequestsWithOld(k)' = RequestsWithOld(k)
    BY <2>1, <2>2 DEF LoginsWithOld, RequestsWithOld, OldCopy
  <2>4. OldCopy(k, adminCopy') => OldCopy(k, adminCopy) \/ l \in LoginsWithOld(k)
    BY <2>1 DEF LoginsWithOld
  <2> QED
    BY <1>1, <2>1, <2>3, <2>4 DEF AdminFades
<1> QED
  BY <1>2, <1>3, <1>4 DEF AdminLoginSteps

LEMMA LookupsFade ==
  ASSUME AdminTypeOK, NEW k \in 0..account.sv, NEW r \in AdminRequests,
         \/ \E t \in sessions : AdminAskCached(r, t) \/ AdminAskMissed(r, t)
         \/ AdminRead(r) \/ AdminFill(r)
  PROVE  AdminFades(k)
<1>1. account.sv \in Nat /\ account \in Accounts /\ sessions \subseteq Sessions /\ adminRequest[r] \in RequestRecords
  BY DEF AdminTypeOK, Accounts, RequestRecords
<1>2. adminRequest[r].copy \in Copies \cup {NoCopy} /\ adminRequest[r].token \in Sessions
  BY <1>1 DEF RequestRecords
<1>3. ASSUME NEW t \in sessions, AdminAskCached(r, t) PROVE AdminFades(k)
  <2>1. UNCHANGED <<account, adminCopy, adminLogin>> /\ adminCopy \in Copies
    BY <1>3 DEF AdminAskCached, AdminTypeOK
  <2>2. /\ admitted' # NoAdmission => admitted'.sv = adminCopy.sv
        /\ \E c \in RequestRecords : adminRequest' = [adminRequest EXCEPT ![r] = c] /\ c.copy = adminRequest[r].copy
    BY <1>1, <1>2, <1>3, <2>1, JudgeLeaves DEF AdminAskCached
  <2>3. \A q \in AdminRequests : adminRequest'[q].copy = adminRequest[q].copy
    BY <2>2, RequestTyped
  <2>4. adminCopy.sv < k => OldCopy(k, adminCopy)
    BY <1>3 DEF AdminAskCached, OldCopy
  <2>5. adminCopy.sv \in Nat
    BY <2>1 DEF Copies
  <2> QED
    BY <1>1, <2>1, <2>2, <2>3, <2>4, <2>5, NoneWritten
<1>4. ASSUME NEW t \in sessions, AdminAskMissed(r, t) PROVE AdminFades(k)
  <2>1. /\ UNCHANGED <<account, adminCopy, adminLogin>> /\ admitted' = NoAdmission
        /\ \E c \in RequestRecords : adminRequest' = [adminRequest EXCEPT ![r] = c] /\ c.copy = adminRequest[r].copy
    BY <1>4, AskLeaves
  <2>2. \A q \in AdminRequests : adminRequest'[q].copy = adminRequest[q].copy
    BY <2>1, RequestTyped
  <2> QED
    BY <1>1, <2>1, <2>2, NoneWritten
<1>5. CASE AdminRead(r)
  <2>1. UNCHANGED <<account, adminCopy, adminLogin>> /\ CopyOf(account) \in Copies
    BY <1>5, CopyTyped DEF AdminRead
  <2>2. /\ admitted' # NoAdmission => admitted'.sv = account.sv
        /\ \E c \in RequestRecords : adminRequest' = [adminRequest EXCEPT ![r] = c] /\ c.copy = CopyOf(account)
    BY <1>1, <1>2, <1>5, <2>1, JudgeLeaves DEF AdminRead
  <2>3. \A q \in AdminRequests : adminRequest'[q].copy \in {adminRequest[q].copy, CopyOf(account)}
    BY <2>2, RequestTyped
  <2> QED
    BY <1>1, <2>1, <2>2, <2>3, NoneWritten
<1>6. CASE AdminFill(r)
  <2>1. /\ UNCHANGED <<account, adminLogin>> /\ admitted' = NoAdmission
        /\ adminCopy' \in {adminCopy, adminRequest[r].copy}
        /\ \E c \in RequestRecords : adminRequest' = [adminRequest EXCEPT ![r] = c] /\ c.copy = NoCopy
    BY <1>6, FillLeaves
  <2>2. adminRequest'[r].copy = NoCopy /\ \A q \in AdminRequests : q # r => adminRequest'[q] = adminRequest[q]
    BY <2>1, RequestTyped
  <2>3. RequestsWithOld(k)' = RequestsWithOld(k) \ {r} /\ LoginsWithOld(k)' = LoginsWithOld(k)
    BY <2>1, <2>2 DEF LoginsWithOld, RequestsWithOld, OldCopy
  <2>4. OldCopy(k, adminCopy') => OldCopy(k, adminCopy) \/ r \in RequestsWithOld(k)
    BY <2>1 DEF RequestsWithOld
  <2> QED
    BY <1>1, <2>1, <2>3, <2>4 DEF AdminFades
<1> QED
  BY <1>3, <1>4, <1>5, <1>6

(* The version only grows. *)
LEMMA VersionGrows ==
  ASSUME AdminTypeOK, NEW upd \in Accounts, upd.sv = account.sv,
         account' = upd \/ UpdateAccount(upd) \/ Bump(upd)
  PROVE  account'.sv >= account.sv /\ account'.sv \in Nat
  BY DEF AdminTypeOK, Accounts, UpdateAccount, Bump, Bumped

LEMMA ChangesFade ==
  ASSUME AdminTypeOK, NEW k \in 0..account.sv, NEW upd \in Accounts, upd.sv = account.sv,
         account' = upd \/ UpdateAccount(upd) \/ Bump(upd), admitted' = NoAdmission,
         adminCopy' \in {adminCopy, NoCopy}, adminLogin' = adminLogin,
         \A r \in AdminRequests : adminRequest'[r].copy = adminRequest[r].copy
  PROVE  AdminFades(k)
  BY VersionGrows, NoneWritten

(* What the row is updated to, but for its version. *)
Changed == {account,
            [account EXCEPT !.secret = TRUE, !.mfa = FALSE],
            [account EXCEPT !.mfa = TRUE], [account EXCEPT !.mfa = FALSE, !.secret = FALSE],
            [account EXCEPT !.active = FALSE], [account EXCEPT !.active = TRUE],
            [account EXCEPT !.active = FALSE, !.suspended = TRUE],
            [account EXCEPT !.active = TRUE, !.suspended = FALSE],
            [account EXCEPT !.active = TRUE, !.invited = FALSE],
            [account EXCEPT !.invited = FALSE]}
           \cup {[account EXCEPT !.role = role] : role \in Roles}

LEMMA ChangedTyped ==
  ASSUME AdminTypeOK
  PROVE  \A upd \in Changed : upd \in Accounts /\ upd.sv = account.sv
<1>1. account \in Accounts
  BY DEF AdminTypeOK
<1> QED
  BY <1>1 DEF Changed, Accounts

LEMMA RequestStepsFade ==
  ASSUME AdminTypeOK, NEW k \in 0..account.sv, NEW r \in AdminRequests, RequestSteps(r)
  PROVE  AdminFades(k)
<1>1. CASE AdminRead(r)
  BY <1>1, LookupsFade
<1>2. CASE RequestDelete(r)
  <2>1. \A q \in AdminRequests : adminRequest'[q].copy = adminRequest[q].copy
    BY <1>2, RequestDeletes, RequestTyped
  <2>2. UNCHANGED <<account, adminLogin>> /\ admitted' = NoAdmission /\ adminCopy' \in {adminCopy, NoCopy}
    BY <1>2, DropLeaves DEF RequestDelete
  <2>3. account \in Accounts
    BY DEF AdminTypeOK
  <2> QED
    BY <2>1, <2>2, <2>3, ChangesFade
<1>3. CASE \/ RequestEnds(r) \/ SetupRead(r) \/ EnableRead(r) \/ DisableRead(r)
           \/ AdminLogout(r) \/ SetupWrite(r) \/ EnableWrite(r) \/ DisableWrite(r)
  <2>1. \E from, to : to \in {"idle", "setup", "enable", "disable", "delete"} /\ RequestAt(r, from, to)
    BY <1>3 DEF RequestEnds, SetupRead, EnableRead, DisableRead, RequestReads, AdminLogout, SetupWrite, EnableWrite, DisableWrite
  <2>2. UNCHANGED <<adminCopy, adminLogin>> /\ \A q \in AdminRequests : adminRequest'[q].copy = adminRequest[q].copy
    BY <2>1, AtLeaves, RequestTyped
  <2>3. admitted' = NoAdmission
    BY <1>3 DEF RequestEnds, SetupRead, EnableRead, DisableRead, RequestReads, AdminLogout, SetupWrite, EnableWrite, DisableWrite,
                Bump, UpdateAccount
  <2>4. \E upd \in Changed : account' = upd \/ Bump(upd)
    BY <1>3 DEF RequestEnds, SetupRead, EnableRead, DisableRead, RequestReads, AdminLogout, SetupWrite, EnableWrite, DisableWrite,
                Changed
  <2> QED
    BY <2>2, <2>3, <2>4, ChangedTyped, ChangesFade
<1> QED
  BY <1>1, <1>2, <1>3 DEF RequestSteps

LEMMA HandlersFade ==
  ASSUME AdminTypeOK, NEW k \in 0..account.sv, NEW h \in Handlers,
         \/ DeactivateAdmin(h) \/ ReactivateAdmin(h) \/ Suspend(h) \/ Unsuspend(h)
         \/ ChangeRole(h) \/ ResetRead(h) \/ AcceptRead(h) \/ HandlerSteps(h)
  PROVE  AdminFades(k)
<1>1. CASE HandlerDrop(h)
  <2>1. UNCHANGED <<account, adminLogin, adminRequest>> /\ admitted' = NoAdmission /\ adminCopy' \in {adminCopy, NoCopy}
    BY <1>1, DropLeaves DEF HandlerDrop
  <2>2. account \in Accounts
    BY DEF AdminTypeOK
  <2> QED
    BY <2>1, <2>2, ChangesFade
<1>2. CASE \/ DeactivateAdmin(h) \/ ReactivateAdmin(h) \/ Suspend(h) \/ Unsuspend(h)
           \/ ChangeRole(h) \/ ResetRead(h) \/ AcceptRead(h)
           \/ BumpAfterChange(h) \/ ResetWrite(h) \/ AcceptWrite(h)
  <2>1. UNCHANGED <<adminCopy, adminLogin, adminRequest>>
    BY <1>2 DEF DeactivateAdmin, ReactivateAdmin, Suspend, Unsuspend, ChangeRole, ResetRead, AcceptRead, HandlerReads,
                BumpAfterChange, ResetWrite, AcceptWrite, HandlerAt
  <2>2. admitted' = NoAdmission
    BY <1>2 DEF DeactivateAdmin, ReactivateAdmin, Suspend, Unsuspend, ChangeRole, ResetRead, AcceptRead, HandlerReads,
                BumpAfterChange, ResetWrite, AcceptWrite, Bump, UpdateAccount
  <2>3. \E upd \in Changed : account' = upd \/ UpdateAccount(upd) \/ Bump(upd)
    BY <1>2 DEF DeactivateAdmin, ReactivateAdmin, Suspend, Unsuspend, ChangeRole, ResetRead, AcceptRead, HandlerReads,
                BumpAfterChange, ResetWrite, AcceptWrite, Changed
  <2> QED
    BY <2>1, <2>2, <2>3, ChangedTyped, ChangesFade
<1> QED
  BY <1>1, <1>2 DEF HandlerSteps

LEMMA DyingLeaves ==
  ASSUME AdminTypeOK, (\E r \in AdminRequests : RequestDies(r)) \/ (\E h \in Handlers : HandlerDies(h))
  PROVE  /\ UNCHANGED <<account, adminCopy, adminLogin, adminRevoked, adminClean>>
         /\ admitted' = NoAdmission
         /\ \A q \in AdminRequests : adminRequest'[q].copy = adminRequest[q].copy
<1>1. CASE \E r \in AdminRequests : RequestDies(r)
  BY <1>1 DEF RequestDies, adminHistories, AdminTypeOK
<1>2. CASE \E h \in Handlers : HandlerDies(h)
  BY <1>2 DEF HandlerDies
<1> QED
  BY <1>1, <1>2

(* Whatever is overtaken or lost, a version once replaced is let through only *)
(* by the entry, which gets it back only from the copies under way by then.  *)
THEOREM OldAdminFade == AdminSpec => OldAdminCopiesFade
<1>1. AdminTypeOK /\ [AdminNext]_adminVars => [\A k \in 0..account.sv : AdminFades(k)]_adminVars
  <2> SUFFICES ASSUME AdminTypeOK, AdminNext, NEW k \in 0..account.sv PROVE AdminFades(k)
    OBVIOUS
  <2>1. CASE ChallengeExpires \/ AdminCopyExpires
    <3>1. UNCHANGED <<account, adminLogin, adminRequest>> /\ admitted' = NoAdmission /\ adminCopy' \in {adminCopy, NoCopy}
      BY <2>1 DEF ChallengeExpires, AdminCopyExpires, adminHandlers
    <3>2. account \in Accounts
      BY DEF AdminTypeOK
    <3> QED
      BY <3>1, <3>2, ChangesFade
  <2>2. CASE InvitationExpires
    <3>1. UNCHANGED <<adminCopy, adminLogin, adminRequest>> /\ admitted' = NoAdmission
      BY <2>2 DEF InvitationExpires, adminHandlers
    <3>2. \E upd \in Changed : account' = upd
      BY <2>2 DEF InvitationExpires, Changed
    <3> QED
      BY <3>1, <3>2, ChangedTyped, ChangesFade
  <2>3. CASE (\E r \in AdminRequests : RequestDies(r)) \/ (\E h \in Handlers : HandlerDies(h))
    <3>1. account \in Accounts
      BY DEF AdminTypeOK
    <3> QED
      BY <2>3, <3>1, DyingLeaves, ChangesFade
  <2> QED
    BY <2>1, <2>2, <2>3, LoginsFade, LookupsFade, RequestStepsFade, HandlersFade DEF AdminNext
<1> QED
  BY <1>1, AdminTypes, PTL DEF AdminSpec, OldAdminCopiesFade, AdminFades

(* What of an account's steps the promise sees: nothing is let through, and the  *)
(* version stays or grows by one, or a handler returns.                         *)
Quiet ==
  /\ admitted' = NoAdmission /\ (adminClean' => adminClean)
  /\ \/ account'.sv \in {account.sv, account.sv + 1} /\ adminRevoked' = adminRevoked
     \/ account'.sv = account.sv /\ adminRevoked' = account.sv

LEMMA QuietPromised ==
  ASSUME AdminTypeOK, Quiet
  PROVE  AdminPromise!Next
<1>1. account.sv \in Nat /\ adminRevoked \in 0..account.sv
  BY DEF AdminTypeOK, Accounts
<1>2. CASE account'.sv = account.sv /\ adminRevoked' = adminRevoked
  BY <1>2 DEF Quiet, AdminPromise!Next, AdminPromise!Other, AdminPromise!Weakens, AdminPromise!NoVersion
<1>3. CASE account'.sv = account.sv + 1 /\ adminRevoked' = adminRevoked
  BY <1>3 DEF Quiet, AdminPromise!Next, AdminPromise!Replace, AdminPromise!Weakens, AdminPromise!NoVersion
<1>4. CASE account'.sv = account.sv /\ adminRevoked' = account.sv
  BY <1>1, <1>4 DEF Quiet, AdminPromise!Next, AdminPromise!Return, AdminPromise!Weakens, AdminPromise!NoVersion
<1> QED
  BY <1>2, <1>3, <1>4 DEF Quiet

LEMMA DecisionPromised ==
  ASSUME AdminTypeOK, AdminDecisionsHold', account' = account, UNCHANGED adminHistories,
         admitted' # NoAdmission => admitted'.sv \in 0..account.sv
  PROVE  AdminPromise!Next
<1>1. adminRevoked' = adminRevoked /\ (adminClean' <=> adminClean) /\ adminClean' = adminClean
  BY DEF adminHistories
<1>2. CASE admitted' = NoAdmission
  BY <1>1, <1>2, QuietPromised DEF Quiet
<1>3. CASE admitted' # NoAdmission
  <2>1. adminClean => admitted'.sv >= adminRevoked
    BY <1>1, <1>3 DEF AdminDecisionsHold
  <2> QED
    BY <1>1, <1>3, <2>1 DEF AdminPromise!Next, AdminPromise!LetThrough
<1> QED
  BY <1>2, <1>3

LEMMA ChangeQuiet ==
  ASSUME AdminTypeOK, NEW upd \in Accounts, upd.sv = account.sv,
         account' = upd \/ Bump(upd),
         admitted' = NoAdmission, adminRevoked' = adminRevoked, adminClean' => adminClean
  PROVE  Quiet
  BY BumpLeaves DEF Bumps, Quiet

LEMMA UpdateWeakens ==
  ASSUME NEW upd, UpdateAccount(upd)
  PROVE  admitted' = NoAdmission /\ (adminClean' => adminClean)
  BY Zenon DEF UpdateAccount

LEMMA DropQuiet ==
  ASSUME AdminTypeOK, DropCopy, adminRevoked' = account.sv
  PROVE  Quiet
<1>1. account' = account /\ admitted' = NoAdmission
  BY DropLeaves
<1>2. adminClean' => adminClean
  BY DropLeaves, Zenon
<1> QED
  BY <1>1, <1>2 DEF Quiet

LEMMA RequestStepsQuiet ==
  ASSUME AdminTypeOK, NEW r \in AdminRequests, RequestSteps(r), ~AdminRead(r)
  PROVE  Quiet
<1>1. CASE RequestDelete(r)
  BY <1>1, DropQuiet DEF RequestDelete
<1>2. CASE \/ RequestEnds(r) \/ SetupRead(r) \/ EnableRead(r) \/ DisableRead(r)
           \/ AdminLogout(r) \/ SetupWrite(r) \/ EnableWrite(r) \/ DisableWrite(r)
  <2>1. adminRevoked' = adminRevoked
    BY <1>2 DEF RequestEnds, SetupRead, EnableRead, DisableRead, RequestReads, AdminLogout, SetupWrite, EnableWrite, DisableWrite,
                RequestAt
  <2>2. \/ admitted' = NoAdmission /\ UNCHANGED adminClean
        \/ \E upd : UpdateAccount(upd)
    BY <1>2, Zenon DEF RequestEnds, SetupRead, EnableRead, DisableRead, RequestReads, AdminLogout, SetupWrite, EnableWrite, DisableWrite,
                Bump
  <2>3. \E upd \in Changed : account' = upd \/ Bump(upd)
    BY <1>2 DEF RequestEnds, SetupRead, EnableRead, DisableRead, RequestReads, AdminLogout, SetupWrite, EnableWrite, DisableWrite,
                Changed
  <2> QED
    BY <2>1, <2>2, <2>3, ChangedTyped, ChangeQuiet, UpdateWeakens
<1> QED
  BY <1>1, <1>2 DEF RequestSteps

LEMMA HandlersQuiet ==
  ASSUME AdminTypeOK, NEW h \in Handlers,
         \/ DeactivateAdmin(h) \/ ReactivateAdmin(h) \/ Suspend(h) \/ Unsuspend(h)
         \/ ChangeRole(h) \/ ResetRead(h) \/ AcceptRead(h) \/ HandlerSteps(h)
  PROVE  Quiet
<1>1. CASE HandlerDrop(h)
  BY <1>1, DropQuiet DEF HandlerDrop
<1>2. CASE \/ DeactivateAdmin(h) \/ ReactivateAdmin(h) \/ Suspend(h) \/ Unsuspend(h)
           \/ ChangeRole(h) \/ ResetRead(h) \/ AcceptRead(h)
           \/ BumpAfterChange(h) \/ ResetWrite(h) \/ AcceptWrite(h)
  <2>1. adminRevoked' = adminRevoked
    BY <1>2 DEF DeactivateAdmin, ReactivateAdmin, Suspend, Unsuspend, ChangeRole, ResetRead, AcceptRead, HandlerReads,
                BumpAfterChange, ResetWrite, AcceptWrite, HandlerAt
  <2>2. \/ admitted' = NoAdmission /\ UNCHANGED adminClean
        \/ \E upd : UpdateAccount(upd)
    BY <1>2, Zenon DEF DeactivateAdmin, ReactivateAdmin, Suspend, Unsuspend, ChangeRole, ResetRead, AcceptRead, HandlerReads,
                BumpAfterChange, ResetWrite, AcceptWrite, Bump
  <2>3. \E upd \in Changed : account' = upd \/ Bump(upd)
    BY <1>2 DEF DeactivateAdmin, ReactivateAdmin, Suspend, Unsuspend, ChangeRole, ResetRead, AcceptRead, HandlerReads,
                BumpAfterChange, ResetWrite, AcceptWrite, Changed, UpdateAccount
  <2> QED
    BY <2>1, <2>2, <2>3, ChangedTyped, ChangeQuiet, UpdateWeakens
<1> QED
  BY <1>1, <1>2 DEF HandlerSteps

(* The administrators' handlers, their copy and their requests keep the same     *)
(* promise, the MFA handlers and the change of a role included.                 *)
THEOREM AdminVersionImplemented == AdminSpec => ImplementsAdminVersion
<1>1. AdminInit => AdminPromise!Init
  BY DEF AdminInit, AdminPromise!Init, AdminPromise!NoVersion
<1>2. ASSUME AdminInv, AdminInv', [AdminNext]_adminVars
      PROVE  [AdminPromise!Next]_(AdminPromise!vars)
  <2>0. /\ AdminTypeOK /\ AdminDecisionsHold' /\ account.sv \in Nat
        /\ sessions \subseteq Sessions
    BY <1>2 DEF AdminInv, AdminTypeOK, Accounts
  <2>1. ASSUME NEW l \in AdminLogins, LoginPassword(l) \/ LoginCode(l) \/ AdminLoginSteps(l) PROVE AdminPromise!Next
    <3>1. UNCHANGED <<account, adminHistories>> /\ admitted' = NoAdmission
      BY <2>0, <2>1, PasswordLeaves, FinalLeaves, CopyLeaves DEF AdminLoginSteps
    <3> QED
      BY <2>0, <3>1, DecisionPromised
  <2>2. ASSUME NEW r \in AdminRequests, NEW t \in sessions, AdminAskCached(r, t) PROVE AdminPromise!Next
    <3>1. UNCHANGED <<account, adminHistories>>
      BY <2>2 DEF AdminAskCached
    <3>2. admitted' # NoAdmission => admitted'.sv = t.sv
      BY <2>2, Zenon DEF AdminAskCached, Judge
    <3>3. t.sv \in 0..account.sv
      BY <1>2, <2>0 DEF AdminInv, SessionsGood, Good, Sessions
    <3> QED
      BY <2>0, <3>1, <3>2, <3>3, DecisionPromised
  <2>3. ASSUME NEW r \in AdminRequests, \/ \E t \in sessions : AdminAskMissed(r, t)
                                       \/ AdminFill(r) PROVE AdminPromise!Next
    <3>1. UNCHANGED <<account, adminHistories>> /\ admitted' = NoAdmission
      BY <2>3 DEF AdminAskMissed, AdminFill
    <3> QED
      BY <2>0, <3>1, DecisionPromised
  <2>4. ASSUME NEW r \in AdminRequests, AdminRead(r) PROVE AdminPromise!Next
    <3>1. UNCHANGED <<account, adminHistories>>
      BY <2>4 DEF AdminRead
    <3>2. admitted' # NoAdmission => admitted'.sv = account.sv
      BY <2>4 DEF AdminRead, Judge, AdminAdmits
    <3> QED
      BY <2>0, <3>1, <3>2, DecisionPromised
  <2>5. ASSUME NEW r \in AdminRequests, RequestSteps(r) PROVE AdminPromise!Next
    BY <2>0, <2>4, <2>5, RequestStepsQuiet, QuietPromised
  <2>6. ASSUME NEW h \in Handlers, \/ DeactivateAdmin(h) \/ ReactivateAdmin(h) \/ Suspend(h) \/ Unsuspend(h)
                                   \/ ChangeRole(h) \/ ResetRead(h) \/ AcceptRead(h) \/ HandlerSteps(h)
        PROVE  AdminPromise!Next
    BY <2>0, <2>6, HandlersQuiet, QuietPromised
  <2>7. ASSUME ChallengeExpires \/ AdminCopyExpires \/ InvitationExpires PROVE AdminPromise!Next
    <3>1. admitted' = NoAdmission /\ UNCHANGED adminHistories /\ account'.sv = account.sv
      BY <2>0, <2>7 DEF ChallengeExpires, AdminCopyExpires, InvitationExpires, AdminTypeOK, Accounts
    <3>2. Quiet
      BY <3>1 DEF Quiet, adminHistories
    <3> QED
      BY <2>0, <3>2, QuietPromised
  <2>8. ASSUME UNCHANGED adminVars PROVE UNCHANGED AdminPromise!vars
    BY <2>8 DEF adminVars, adminHistories, AdminPromise!vars
  <2>9. ASSUME (\E r \in AdminRequests : RequestDies(r)) \/ (\E h \in Handlers : HandlerDies(h))
        PROVE  AdminPromise!Next
    <3>1. Quiet
      BY <2>0, <2>9, DyingLeaves DEF Quiet
    <3> QED
      BY <2>0, <3>1, QuietPromised
  <2> QED
    BY <1>2, <2>1, <2>2, <2>3, <2>5, <2>6, <2>7, <2>8, <2>9 DEF AdminNext
<1> QED
  BY <1>1, <1>2, AdminInvariant, PTL DEF AdminSpec, ImplementsAdminVersion, AdminPromise!Spec

-----------------------------------------------------------------------------
(* The mobile app (MobileSession).                                          *)
CallRecords ==
  [pc : {"idle", "locked", "sent", "refreshing", "clearing", "done", "failed", "refused"},
   token : 0..MaxTokens, retried : BOOLEAN, gate : Runs \cup {NoRun}]

RefreshStores == refresh \in {"persist", "set"}
LoginStores == signIn \in {"persist", "set"}

(* A storing that met the clearing or another storing is a clash, and so is a  *)
(* deletion that failed; short of one, the secure store has what the storing,  *)
(* or the clearing, put there.                                               *)
StoreInv ==
  /\ Storing /\ Clearing => clash
  /\ RefreshStores /\ LoginStores => clash
  /\ clear = "reset" => kept = 0 \/ clash
  /\ RefreshStores => renewed # 0
  /\ refresh = "set" => kept = renewed \/ clash
  /\ LoginStores => gained # 0
  /\ signIn = "set" => kept = gained \/ clash
  /\ StoresAgree

MobileInv == MobileTypeOK /\ StoreInv

(* The records of calls.                                                      *)
LEMMA CallsTyped ==
  /\ NoCallYet \in CallRecords
  /\ \A c \in MobileCalls, pc \in {"done", "failed", "refused"} : Over(c, pc) \in CallRecords
  /\ \A pc \in {"refreshing", "clearing"} : Waiting(pc) \in CallRecords
  /\ \A c \in MobileCalls, ph \in Phases, g \in Runs \cup {NoRun}, token \in 0..MaxTokens, retried \in BOOLEAN :
       Sent(c, ph, g, token, retried) \in CallRecords
<1>1. 0 \in 0..MaxTokens
  BY MobileSessionConstants
<1>2. NoCallYet \in CallRecords
  BY <1>1 DEF NoCallYet, CallRecords
<1>3. \A c \in MobileCalls, pc \in {"done", "failed", "refused"} : Over(c, pc) \in CallRecords
  BY <1>1 DEF Over, NoCallYet, CallRecords
<1>4. \A pc \in {"refreshing", "clearing"} : Waiting(pc) \in CallRecords
  BY <1>1 DEF Waiting, NoCallYet, CallRecords
<1>5. \A c \in MobileCalls, ph \in Phases, g \in Runs \cup {NoRun}, token \in 0..MaxTokens, retried \in BOOLEAN :
        Sent(c, ph, g, token, retried) \in CallRecords
  BY DEF Sent, CallRecords
<1> QED
  BY <1>2, <1>3, <1>4, <1>5

LEMMA TroubleTyped == ASSUME MobileTypeOK, Trouble PROVE trouble' \in 0..MaxTrouble
  BY MobileSessionConstants DEF MobileTypeOK, Trouble

LEMMA ClearStarts ==
  ASSUME MobileTypeOK, StartClear
  PROVE  /\ clear' \in {"signout", "delete", "reset", "caches"} /\ clash' \in BOOLEAN
         /\ clear = "none" => clear' = "signout" /\ (Storing => clash')
         /\ clear # "none" => UNCHANGED <<clear, clash>>
<1>1. clear' \in {"signout", "delete", "reset", "caches"}
  BY DEF MobileTypeOK, StartClear
<1>2. clash' \in BOOLEAN
  BY Zenon DEF MobileTypeOK, StartClear, Storing
<1>3. clear = "none" => clear' = "signout" /\ (Storing => clash')
  BY DEF StartClear
<1>4. clear # "none" => UNCHANGED <<clear, clash>>
  BY DEF StartClear
<1> QED
  BY <1>1, <1>2, <1>3, <1>4

(* What a step leaves of the invariant when it stores nothing: the session may  *)
(* begin to be cleared.                                                      *)
LEMMA StoreKept ==
  ASSUME MobileInv, UNCHANGED <<mtoken, kept, renewed, gained>>,
         RefreshStores' => refresh' = refresh, LoginStores' => signIn' = signIn,
         refresh \in {"persist", "set"} => refresh' = refresh,
         signIn \in {"persist", "set"} => signIn' = signIn,
         StartClear \/ UNCHANGED <<clear, clash>>
  PROVE  StoreInv'
<1> USE DEF MobileInv
<1>1. (Storing' <=> Storing) /\ (RefreshStores' <=> RefreshStores) /\ (LoginStores' <=> LoginStores)
  BY DEF Storing, RefreshStores, LoginStores
<1>2. CASE StartClear
  <2>1. clear = "none" => clear' = "signout" /\ (Storing => clash')
    BY <1>2, ClearStarts
  <2>2. clear # "none" => UNCHANGED <<clear, clash>>
    BY <1>2, ClearStarts
  <2>3. RefreshStores \/ LoginStores => Storing
    BY DEF Storing, RefreshStores, LoginStores
  <2>4. CASE clear = "none"
    BY <1>1, <2>1, <2>3, <2>4 DEF StoreInv, StoresAgree, Clearing, RefreshStores, LoginStores
  <2>5. CASE clear # "none"
    BY <1>1, <2>2, <2>5 DEF StoreInv, StoresAgree, Clearing, RefreshStores, LoginStores
  <2> QED
    BY <2>4, <2>5
<1>3. CASE UNCHANGED <<clear, clash>>
  BY <1>1, <1>3 DEF StoreInv, StoresAgree, Clearing, RefreshStores, LoginStores
<1> QED
  BY <1>2, <1>3

(* Calls and their answers.                                                   *)
LEMMA AnswersKeep ==
  ASSUME MobileInv, NEW c \in MobileCalls, CallSteps(c)
  PROVE  MobileInv'
<1> USE DEF MobileInv, storeVars, effectVars, refreshVars, loginVars, serverVars
<1>1. /\ UNCHANGED <<storeVars, effectVars, renewed, loginVars, phoneAuth, serverVars>>
      /\ refresh' = refresh \/ (refresh = "none" /\ refresh' = "asking")
      /\ StartClear \/ UNCHANGED <<clear, clash>>
      /\ Trouble \/ UNCHANGED trouble
  BY DEF CallSteps, MobileUnlock, AnswerGood, AnswerUnauthorized, ProfileUnauthorized, AnswerForbidden,
         AnswerFails, Answered
<1>2. mobileCall' \in [MobileCalls -> CallRecords]
  <2>0. mobileCall \in [MobileCalls -> CallRecords]
    BY DEF MobileTypeOK, CallRecords
  <2>1. CASE MobileUnlock(c)
    <3> DEFINE rec == [mobileCall[c] EXCEPT !.pc = "sent", !.gate = NoRun]
    <3>1. mobileCall' = [mobileCall EXCEPT ![c] = rec]
      BY <2>1 DEF MobileUnlock
    <3>2. rec \in CallRecords
      BY <2>0 DEF CallRecords
    <3> HIDE DEF rec
    <3> QED
      BY <2>0, <3>1, <3>2
  <2>2. CASE ~MobileUnlock(c)
    <3>1. PICK rec \in {Over(c, "done"), Over(c, "failed"), Over(c, "refused"), Waiting("refreshing"), Waiting("clearing")} :
            mobileCall' = [mobileCall EXCEPT ![c] = rec]
      BY <2>2 DEF CallSteps, AnswerGood, AnswerUnauthorized, ProfileUnauthorized, AnswerForbidden, AnswerFails, Answered
    <3>2. rec \in CallRecords
      BY CallsTyped
    <3> QED
      BY <2>0, <3>1, <3>2
  <2> QED
    BY <2>1, <2>2
<1>3. StoreInv'
  BY <1>1, StoreKept DEF RefreshStores, LoginStores
<1>4. clear' \in {"none", "signout", "delete", "reset", "caches"} /\ clash' \in BOOLEAN /\ trouble' \in 0..MaxTrouble
  BY <1>1, ClearStarts, TroubleTyped DEF MobileTypeOK
<1>5. MobileTypeOK'
  BY <1>1, <1>2, <1>4 DEF MobileTypeOK, CallRecords
<1> QED
  BY <1>3, <1>5

LEMMA ScreensKeep ==
  ASSUME MobileInv, NEW c \in Screens, ScreenRequests(c)
  PROVE  MobileInv'
<1> USE DEF MobileInv, storeVars, effectVars, refreshVars, loginVars, serverVars
<1>1. Sent(c, phase, gate, mtoken, FALSE) \in CallRecords
  BY CallsTyped DEF MobileTypeOK, MobileCalls
<1>0. mobileCall \in [MobileCalls -> CallRecords]
  BY DEF MobileTypeOK, CallRecords
<1>2. mobileCall' \in [MobileCalls -> CallRecords]
  BY <1>0, <1>1 DEF ScreenRequests
<1>3. MobileTypeOK'
  <2>1. UNCHANGED <<mtoken, kept, renewed, gained, hasUser, phase, gate, shown, synced, current, retryDue,
                   runToken, stranded, refresh, clear, signIn, phoneAuth, issued, floor, clash, trouble>>
    BY DEF ScreenRequests
  <2> QED
    BY <1>2, <2>1 DEF MobileTypeOK, CallRecords
<1>4. StoreInv'
  BY StoreKept DEF ScreenRequests, RefreshStores, LoginStores
<1> QED
  BY <1>3, <1>4

(* The refresh.                                                               *)
LEMMA RefreshKeeps ==
  ASSUME MobileInv, RefreshSteps
  PROVE  MobileInv'
<1> USE DEF MobileInv, storeVars, effectVars, refreshVars, loginVars, serverVars
<1>0. mobileCall \in [MobileCalls -> CallRecords] /\ MaxTokens \in Nat
  BY MobileSessionConstants DEF MobileTypeOK, CallRecords
<1>1. CASE RefreshFails
  <2>1. mobileCall' = [c \in MobileCalls |-> IF mobileCall[c].pc = "refreshing" THEN Waiting("clearing") ELSE mobileCall[c]]
    BY <1>1 DEF RefreshFails, Resumed
  <2>2. mobileCall' \in [MobileCalls -> CallRecords]
    BY <1>0, <2>1, CallsTyped
  <2>3. clear' \in {"none", "signout", "delete", "reset", "caches"} /\ clash' \in BOOLEAN
    BY <1>1, ClearStarts DEF RefreshFails
  <2>4. MobileTypeOK'
    BY <1>1, <2>2, <2>3 DEF RefreshFails, MobileTypeOK, CallRecords
  <2>5. StoreInv'
    BY <1>1, StoreKept DEF RefreshFails, RefreshStores, LoginStores
  <2> QED
    BY <2>4, <2>5
<1>2. CASE RefreshAsk
  <2>1. MobileTypeOK'
    BY <1>2 DEF RefreshAsk, MobileTypeOK
  <2>2. StoreInv'
    BY <1>2, StoreKept DEF RefreshAsk, RefreshStores, LoginStores
  <2> QED
    BY <2>1, <2>2
<1>3. CASE RefreshGranted
  <2>1. /\ issued' \in 1..MaxTokens /\ floor' = floor /\ renewed' = issued' /\ issued' = issued + 1
        /\ refresh' = "persist" /\ clear' = clear /\ signIn' = signIn
    BY <1>0, <1>3 DEF RefreshGranted, Issue, MobileTypeOK
  <2>2. clash' \in BOOLEAN
    BY <1>3, Zenon DEF RefreshGranted, Clearing
  <2>3. (Clearing \/ LoginStores) => clash'
    BY <1>3 DEF RefreshGranted, LoginStores
  <2>4. MobileTypeOK'
    BY <1>3, <2>1, <2>2 DEF RefreshGranted, MobileTypeOK
  <2>5. StoreInv'
    BY <1>3, <2>1, <2>3 DEF RefreshGranted, StoreInv, StoresAgree, Clearing, Storing, RefreshStores, LoginStores
  <2> QED
    BY <2>4, <2>5
<1>4. CASE RefreshPersist
  <2>1. MobileTypeOK'
    BY <1>4 DEF RefreshPersist, MobileTypeOK
  <2>2. StoreInv'
    BY <1>4 DEF RefreshPersist, StoreInv, StoresAgree, Clearing, Storing, RefreshStores, LoginStores
  <2> QED
    BY <2>1, <2>2
<1>5. CASE RefreshSet
  <2>1. mobileCall' = [c \in MobileCalls |->
          IF mobileCall[c].pc = "refreshing" THEN Sent(c, phase', gate, mtoken', TRUE) ELSE mobileCall[c]]
    BY <1>5 DEF RefreshSet, Resumed
  <2>2. /\ mtoken' = renewed /\ mtoken' \in 0..MaxTokens /\ phase' \in {"authenticated", "bootstrapping"}
        /\ phase' = "authenticated" => hasUser
        /\ refresh = "set" /\ refresh' = "none" /\ renewed' = 0
        /\ UNCHANGED <<kept, hasUser, gate, effectVars, clear, loginVars, phoneAuth, serverVars, clash, trouble>>
    BY <1>5 DEF RefreshSet, MobileTypeOK
  <2>3. mobileCall' \in [MobileCalls -> CallRecords]
    BY <1>0, <2>1, <2>2, CallsTyped DEF MobileTypeOK, Phases
  <2>4. mtoken' # 0
    BY <2>2 DEF StoreInv, RefreshStores
  <2>5. MobileTypeOK'
    BY <1>0, <2>2, <2>3, <2>4 DEF MobileTypeOK, CallRecords, Phases
  <2>6. StoreInv'
    BY <2>2 DEF StoreInv, StoresAgree, Clearing, Storing, RefreshStores, LoginStores
  <2> QED
    BY <2>5, <2>6
<1> QED
  BY <1>1, <1>2, <1>3, <1>4, <1>5 DEF RefreshSteps

(* The clearing.                                                              *)
LEMMA ClearingKeeps ==
  ASSUME MobileInv, ClearSteps
  PROVE  MobileInv'
<1> USE DEF MobileInv, storeVars, effectVars, refreshVars, loginVars, serverVars
<1>0. mobileCall \in [MobileCalls -> CallRecords] /\ MaxTokens \in Nat
  BY MobileSessionConstants DEF MobileTypeOK, CallRecords
<1>1. CASE ClearSignOut
  <2>1. trouble' \in 0..MaxTrouble /\ phoneAuth' \in BOOLEAN
    BY <1>1, TroubleTyped DEF ClearSignOut, MobileTypeOK
  <2>2. MobileTypeOK'
    BY <1>1, <2>1 DEF ClearSignOut, MobileTypeOK
  <2>3. StoreInv'
    BY <1>1 DEF ClearSignOut, StoreInv, StoresAgree, Clearing, Storing, RefreshStores, LoginStores
  <2> QED
    BY <2>2, <2>3
<1>2. CASE ClearDelete
  <2>1. trouble' \in 0..MaxTrouble /\ clash' \in BOOLEAN /\ kept' \in {kept, 0}
    BY <1>2, TroubleTyped DEF ClearDelete, MobileTypeOK
  <2>2. MobileTypeOK'
    BY <1>0, <1>2, <2>1 DEF ClearDelete, MobileTypeOK
  <2>3. StoreInv'
    BY <1>2 DEF ClearDelete, StoreInv, StoresAgree, Clearing, Storing, RefreshStores, LoginStores
  <2> QED
    BY <2>2, <2>3
<1>3. CASE ClearReset
  <2>1. /\ mtoken' = 0 /\ phase' = "unauthenticated" /\ hasUser' = FALSE /\ gate' = NoRun /\ clear' = "caches"
        /\ UNCHANGED <<kept, renewed, gained, shown, synced, current, retryDue, runToken, stranded, mobileCall, refresh,
                       signIn, phoneAuth, issued, floor, clash, trouble>>
    BY <1>3 DEF ClearReset
  <2>2. 0 \in 0..MaxTokens
    BY <1>0
  <2>3. MobileTypeOK'
    BY <2>1, <2>2 DEF MobileTypeOK, Phases
  <2>4. StoreInv'
    BY <1>3 DEF ClearReset, StoreInv, StoresAgree, Clearing, Storing, RefreshStores, LoginStores
  <2> QED
    BY <2>3, <2>4
<1>4. CASE ClearCaches
  <2>1. mobileCall' = [c \in MobileCalls |-> IF mobileCall[c].pc = "clearing" THEN Over(c, "refused") ELSE mobileCall[c]]
    BY <1>4 DEF ClearCaches, Resumed
  <2>2. mobileCall' \in [MobileCalls -> CallRecords]
    BY <1>0, <2>1, CallsTyped
  <2>3. MobileTypeOK'
    BY <1>4, <2>2 DEF ClearCaches, MobileTypeOK, CallRecords
  <2>4. StoreInv'
    BY <1>4 DEF ClearCaches, StoreInv, StoresAgree, Clearing, Storing, RefreshStores, LoginStores
  <2> QED
    BY <2>3, <2>4
<1> QED
  BY <1>1, <1>2, <1>3, <1>4 DEF ClearSteps

(* The login, the logout and the server.                                       *)
LEMMA LoginKeeps ==
  ASSUME MobileInv, LoginVerify \/ LoginSteps
  PROVE  MobileInv'
<1> USE DEF MobileInv, storeVars, effectVars, refreshVars, loginVars, serverVars
<1>0. MaxTokens \in Nat
  BY MobileSessionConstants
<1>1. CASE LoginVerify
  <2>1. MobileTypeOK'
    BY <1>1 DEF LoginVerify, MobileTypeOK
  <2>2. StoreInv'
    BY <1>1, StoreKept DEF LoginVerify, RefreshStores, LoginStores
  <2> QED
    BY <2>1, <2>2
<1>2. CASE LoginGranted
  <2>1. /\ issued' \in 1..MaxTokens /\ floor' = floor /\ gained' = issued' /\ issued' = issued + 1
        /\ signIn' = "persist" /\ clear' = clear /\ refresh' = refresh
    BY <1>0, <1>2 DEF LoginGranted, Issue, MobileTypeOK
  <2>2. clash' \in BOOLEAN
    BY <1>2, Zenon DEF LoginGranted, Clearing
  <2>3. (Clearing \/ RefreshStores) => clash'
    BY <1>2 DEF LoginGranted, RefreshStores
  <2>4. MobileTypeOK'
    BY <1>2, <2>1, <2>2 DEF LoginGranted, MobileTypeOK
  <2>5. StoreInv'
    BY <1>2, <2>1, <2>3 DEF LoginGranted, StoreInv, StoresAgree, Clearing, Storing, RefreshStores, LoginStores
  <2> QED
    BY <2>4, <2>5
<1>3. CASE LoginFails
  <2>1. /\ clear' \in {"none", "signout", "delete", "reset", "caches"} /\ clash' \in BOOLEAN /\ trouble' \in 0..MaxTrouble
        /\ StartClear \/ UNCHANGED <<clear, clash>>
    BY <1>3, ClearStarts, TroubleTyped DEF LoginFails, MobileTypeOK
  <2>2. MobileTypeOK'
    BY <1>3, <2>1 DEF LoginFails, MobileTypeOK
  <2>3. StoreInv'
    BY <1>3, <2>1, StoreKept DEF LoginFails, RefreshStores, LoginStores
  <2> QED
    BY <2>2, <2>3
<1>4. CASE LoginPersist
  <2>1. MobileTypeOK'
    BY <1>4 DEF LoginPersist, MobileTypeOK
  <2>2. StoreInv'
    BY <1>4 DEF LoginPersist, StoreInv, StoresAgree, Clearing, Storing, RefreshStores, LoginStores
  <2> QED
    BY <2>1, <2>2
<1>5. CASE LoginSet
  <2>1. gained # 0
    BY <1>5 DEF LoginSet, StoreInv, LoginStores
  <2>2. MobileTypeOK'
    BY <1>0, <1>5, <2>1 DEF LoginSet, MobileTypeOK, Phases
  <2>3. StoreInv'
    BY <1>5 DEF LoginSet, StoreInv, StoresAgree, Clearing, Storing, RefreshStores, LoginStores
  <2> QED
    BY <2>2, <2>3
<1>6. CASE LoginSignOut
  <2>1. trouble' \in 0..MaxTrouble /\ phoneAuth' \in BOOLEAN
    BY <1>6, TroubleTyped DEF LoginSignOut, MobileTypeOK
  <2>2. MobileTypeOK'
    BY <1>6, <2>1 DEF LoginSignOut, MobileTypeOK
  <2>3. StoreInv'
    BY <1>6, StoreKept DEF LoginSignOut, RefreshStores, LoginStores
  <2> QED
    BY <2>2, <2>3
<1> QED
  BY <1>1, <1>2, <1>3, <1>4, <1>5, <1>6 DEF LoginSteps

LEMMA RevocationsKeep ==
  ASSUME MobileInv, MobileLogout \/ ServerRevokes
  PROVE  MobileInv'
<1> USE DEF MobileInv, storeVars, effectVars, refreshVars, loginVars, serverVars
<1>1. /\ UNCHANGED <<storeVars, effectVars, mobileCall, refreshVars, loginVars, phoneAuth, issued>>
      /\ floor' \in {floor, issued} /\ (Trouble \/ UNCHANGED trouble)
      /\ StartClear \/ UNCHANGED <<clear, clash>>
  BY DEF MobileLogout, ServerRevokes
<1>2. clear' \in {"none", "signout", "delete", "reset", "caches"} /\ clash' \in BOOLEAN /\ trouble' \in 0..MaxTrouble
  BY <1>1, ClearStarts, TroubleTyped DEF MobileTypeOK
<1>5. floor' \in 0..issued' /\ issued' = issued
  BY <1>1, MobileSessionConstants DEF MobileTypeOK
<1>3. MobileTypeOK'
  BY <1>1, <1>2, <1>5 DEF MobileTypeOK
<1>4. StoreInv'
  BY <1>1, StoreKept DEF RefreshStores, LoginStores
<1> QED
  BY <1>3, <1>4

(* The effect of the layout and its runs.                                      *)
LEMMA EffectKeeps ==
  ASSUME MobileInv, EffectSteps
  PROVE  MobileInv'
<1> USE DEF MobileInv, storeVars, effectVars, refreshVars, loginVars, serverVars
<1>0. MaxTokens \in Nat
  BY MobileSessionConstants
<1>1. CASE EffectSignedOut
  <2>1. MobileTypeOK'
    BY <1>0, <1>1 DEF EffectSignedOut, MobileTypeOK, Phases
  <2>2. StoreInv'
    BY <1>1, StoreKept DEF EffectSignedOut, RefreshStores, LoginStores
  <2> QED
    BY <2>1, <2>2
<1>2. CASE EffectFetches
  <2>1. PICK k \in Runs :
          /\ runToken' = [runToken EXCEPT ![k] = mtoken] /\ current' = k /\ gate' = k
          /\ mobileCall' = [mobileCall EXCEPT ![k] = Sent(k, "bootstrapping", k, mtoken, FALSE)]
    BY <1>2 DEF EffectFetches
  <2>2. Sent(k, "bootstrapping", k, mtoken, FALSE) \in CallRecords
    BY CallsTyped DEF MobileTypeOK, MobileCalls, Phases
  <2>3. mobileCall' \in [MobileCalls -> CallRecords]
    BY <2>1, <2>2 DEF MobileTypeOK, CallRecords
  <2>4. MobileTypeOK'
    BY <1>2, <2>1, <2>3 DEF EffectFetches, MobileTypeOK, CallRecords, Phases
  <2>5. StoreInv'
    BY <1>2, StoreKept DEF EffectFetches, RefreshStores, LoginStores
  <2> QED
    BY <2>4, <2>5
<1> QED
  BY <1>1, <1>2 DEF EffectSteps

LEMMA RunsKeep ==
  ASSUME MobileInv, NEW k \in Runs, RunSteps(k)
  PROVE  MobileInv'
<1> USE DEF MobileInv, storeVars, effectVars, refreshVars, loginVars, serverVars
<1>1. /\ runToken' = [runToken EXCEPT ![k] = 0] /\ gate' = NoRun
      /\ mobileCall' = [mobileCall EXCEPT ![k] = NoCallYet]
      /\ UNCHANGED <<mtoken, kept, shown, current, refresh, renewed, signIn, gained, phoneAuth, issued, floor, trouble>>
      /\ StartClear \/ UNCHANGED <<clear, clash>>
  BY DEF RunSteps, RunSucceeds, RunRefused, RunFails, RunEnds
<1>2. mobileCall' \in [MobileCalls -> CallRecords] /\ runToken' \in [Runs -> 0..MaxTokens]
  <2>1. mobileCall \in [MobileCalls -> CallRecords] /\ NoCallYet \in CallRecords
    BY CallsTyped DEF MobileTypeOK, CallRecords
  <2>2. runToken \in [Runs -> 0..MaxTokens] /\ 0 \in 0..MaxTokens
    BY MobileSessionConstants DEF MobileTypeOK
  <2>3. mobileCall' \in [MobileCalls -> CallRecords]
    BY <1>1, <2>1
  <2> QED
    BY <1>1, <2>2, <2>3
<1>3. clear' \in {"none", "signout", "delete", "reset", "caches"} /\ clash' \in BOOLEAN
  BY <1>1, ClearStarts DEF MobileTypeOK
<1>4. /\ hasUser' \in BOOLEAN /\ phase' \in Phases /\ retryDue' \in BOOLEAN /\ synced' \in 0..MaxTokens
      /\ phase' = "authenticated" => hasUser' /\ mtoken' # 0
      /\ stranded' \in BOOLEAN
  <2>1. runToken[k] \in 0..MaxTokens /\ 0 \in 0..MaxTokens
    BY MobileSessionConstants DEF MobileTypeOK
  <2>2. CASE RunSucceeds(k)
    BY <2>1, <2>2 DEF RunSucceeds, MobileTypeOK, Phases
  <2>3. CASE RunRefused(k)
    BY <2>1, <2>3 DEF RunRefused, MobileTypeOK
  <2>4. CASE RunFails(k)
    BY <2>1, <2>4 DEF RunFails, MobileTypeOK, Phases
  <2> QED
    BY <2>2, <2>3, <2>4 DEF RunSteps
<1>5. MobileTypeOK'
  BY <1>1, <1>2, <1>3, <1>4 DEF MobileTypeOK, CallRecords
<1>6. StoreInv'
  BY <1>1, StoreKept DEF RefreshStores, LoginStores
<1> QED
  BY <1>5, <1>6

LEMMA StartsKeep ==
  ASSUME MobileInv, AppStarts
  PROVE  MobileInv'
<1> USE DEF MobileInv, storeVars, effectVars, refreshVars, loginVars, serverVars
<1>1. mobileCall' \in [MobileCalls -> CallRecords] /\ runToken' \in [Runs -> 0..MaxTokens] /\ 0 \in 0..MaxTokens
  BY CallsTyped, MobileSessionConstants DEF AppStarts
<1>2. trouble' \in 0..MaxTrouble
  BY TroubleTyped DEF AppStarts
<1>3. MobileTypeOK'
  BY <1>1, <1>2 DEF AppStarts, MobileTypeOK, CallRecords, Phases
<1>4. StoreInv'
  BY DEF AppStarts, StoreInv, StoresAgree, Clearing, Storing, RefreshStores, LoginStores
<1> QED
  BY <1>3, <1>4

LEMMA MobileInvariant == MobileSpec => []MobileInv
<1>1. MobileInit => MobileInv
  <2> SUFFICES ASSUME MobileInit PROVE MobileInv
    OBVIOUS
  <2>1. mobileCall \in [MobileCalls -> CallRecords]
    BY CallsTyped DEF MobileInit
  <2>2. 0 \in 0..MaxTokens /\ 0 \in 0..MaxTrouble /\ 0 \in 0..0
    BY MobileSessionConstants
  <2>3. MobileTypeOK
    BY <2>1, <2>2 DEF MobileInit, MobileTypeOK, CallRecords, Phases
  <2>4. StoreInv
    BY DEF MobileInit, StoreInv, StoresAgree, Clearing, Storing, RefreshStores, LoginStores
  <2> QED
    BY <2>3, <2>4 DEF MobileInv
<1>2. MobileInv /\ [MobileNext]_mobileVars => MobileInv'
  <2>1. MobileInv /\ UNCHANGED mobileVars => MobileInv'
    BY DEF mobileVars, storeVars, effectVars, refreshVars, loginVars, serverVars, MobileInv, MobileTypeOK,
         StoreInv, StoresAgree, Clearing, Storing, RefreshStores, LoginStores
  <2> QED
    BY <2>1, AnswersKeep, ScreensKeep, RefreshKeeps, ClearingKeeps, LoginKeeps, RevocationsKeep, EffectKeeps,
       RunsKeep, StartsKeep DEF MobileNext
<1> QED
  BY <1>1, <1>2, PTL DEF MobileSpec

(* The stores, calls, runs and tokens keep their types, and an authenticated    *)
(* phone has a user and a token, whatever interleaves.                        *)
THEOREM MobileTypes == MobileSpec => []MobileTypeOK
<1>1. MobileInv => MobileTypeOK
  BY DEF MobileInv
<1> QED
  BY <1>1, MobileInvariant, PTL

(* For any number of requests, runs, tokens and failures: at rest, and unless    *)
(* storings met, the app's token is the one its next start will find.          *)
THEOREM StoresMeet == MobileSpec => []StoresAgree
<1>1. MobileInv => StoresAgree
  BY DEF MobileInv, StoreInv
<1> QED
  BY <1>1, MobileInvariant, PTL

-----------------------------------------------------------------------------
(* Nobody waits in vain.  The promises first.                                 *)
LEMMA PromisesStep ==
  ASSUME MobileTypeOK, PromisesKept, [MobileNext]_mobileVars
  PROVE  PromisesKept'
<1> USE DEF PromisesKept, MobileTypeOK, storeVars, effectVars, refreshVars, loginVars, serverVars
<1>1. ASSUME NEW c \in MobileCalls, CallSteps(c) PROVE PromisesKept'
  <2>1. CASE MobileUnlock(c)
    <3> DEFINE rec == [mobileCall[c] EXCEPT !.pc = "sent", !.gate = NoRun]
    <3>0. mobileCall \in [MobileCalls -> CallRecords]
      BY DEF CallRecords
    <3>1. mobileCall' = [mobileCall EXCEPT ![c] = rec]
      BY <2>1 DEF MobileUnlock
    <3>2. rec.pc = "sent"
      BY <3>0 DEF CallRecords
    <3>3. mobileCall[c].pc = "locked" /\ UNCHANGED <<runToken, refresh, clear>>
      BY <2>1 DEF MobileUnlock
    <3> HIDE DEF rec
    <3> QED
      BY <3>1, <3>2, <3>3
  <2>2. CASE AnswerGood(c) \/ ProfileUnauthorized(c) \/ AnswerFails(c)
    <3>1. PICK rec \in {Over(c, "done"), Over(c, "refused"), Over(c, "failed")} :
            mobileCall' = [mobileCall EXCEPT ![c] = rec]
      BY <2>2 DEF AnswerGood, ProfileUnauthorized, AnswerFails, Answered
    <3>2. UNCHANGED <<runToken, refresh, clear>>
      BY <2>2 DEF AnswerGood, ProfileUnauthorized, AnswerFails, Answered
    <3>3. mobileCall[c].pc = "sent"
      BY <2>2 DEF AnswerGood, ProfileUnauthorized, AnswerFails
    <3>4. IF c \in Runs THEN rec.pc \in {"done", "refused", "failed"} ELSE rec.pc = "idle"
      BY DEF Over, NoCallYet
    <3> QED
      BY <3>1, <3>2, <3>3, <3>4 DEF MobileCalls
  <2>3. CASE AnswerUnauthorized(c)
    <3>1. PICK pc \in {"clearing", "refreshing"} :
            /\ mobileCall' = [mobileCall EXCEPT ![c] = Waiting(pc)]
            /\ pc = "clearing" => clear' # "none"
            /\ pc = "refreshing" => refresh' # "none"
      BY <2>3 DEF AnswerUnauthorized, Answered, StartClear
    <3>2. /\ UNCHANGED runToken /\ c \notin Runs
          /\ refresh # "none" => refresh' # "none"
          /\ clear # "none" => clear' # "none"
      BY <2>3, MobileSessionConstants DEF AnswerUnauthorized, Answered, StartClear
    <3>3. Waiting(pc).pc = pc
      BY DEF Waiting, NoCallYet
    <3> QED
      BY <3>1, <3>2, <3>3 DEF MobileCalls
  <2>4. CASE AnswerForbidden(c)
    BY <2>4 DEF AnswerForbidden, Answered, Waiting, NoCallYet, StartClear
  <2> QED
    BY <1>1, <2>1, <2>2, <2>3, <2>4 DEF CallSteps
<1>2. ASSUME NEW c \in Screens, ScreenRequests(c) PROVE PromisesKept'
  BY <1>2, MobileSessionConstants DEF ScreenRequests, Sent, Locked, MobileCalls
<1>3. CASE RefreshFails
  BY <1>3 DEF RefreshFails, Resumed, Waiting, NoCallYet, StartClear, MobileCalls
<1>4. CASE RefreshAsk \/ RefreshGranted \/ RefreshPersist
  BY <1>4 DEF RefreshAsk, RefreshGranted, RefreshPersist
<1>5. CASE RefreshSet
  BY <1>5 DEF RefreshSet, Resumed, Sent, Locked, MobileCalls
<1>6. CASE ClearSignOut \/ ClearDelete \/ ClearReset
  BY <1>6 DEF ClearSignOut, ClearDelete, ClearReset
<1>7. CASE ClearCaches
  BY <1>7 DEF ClearCaches, Resumed, Over, NoCallYet, MobileCalls
<1>8. CASE LoginVerify \/ LoginSteps \/ MobileLogout \/ ServerRevokes
  BY <1>8 DEF LoginVerify, LoginSteps, LoginGranted, LoginFails, LoginPersist, LoginSet, LoginSignOut, MobileLogout,
              ServerRevokes, StartClear
<1>9. CASE EffectSignedOut
  BY <1>9 DEF EffectSignedOut
<1>10. CASE EffectFetches
  BY <1>10 DEF EffectFetches, Sent, Locked, MobileCalls
<1>11. ASSUME NEW k \in Runs, RunSteps(k) PROVE PromisesKept'
  BY <1>11 DEF RunSteps, RunSucceeds, RunRefused, RunFails, RunEnds, NoCallYet, StartClear, MobileCalls
<1>12. CASE AppStarts
  BY <1>12 DEF AppStarts, NoCallYet, MobileCalls
<1>13. CASE UNCHANGED mobileVars
  BY <1>13 DEF mobileVars
<1> QED
  BY <1>1, <1>2, <1>3, <1>4, <1>5, <1>6, <1>7, <1>8, <1>9, <1>10, <1>11, <1>12, <1>13
     DEF MobileNext, RefreshSteps, ClearSteps, EffectSteps

(* A token that is still to be stored is one the app has not seen.            *)
Unseen(token) ==
  token # 0 => /\ token \notin {mtoken, shown, synced}
               /\ \A k \in Runs : runToken[k] # token
SeenIssued ==
  /\ {mtoken, kept, shown, synced, renewed, gained} \subseteq 0..issued
  /\ \A k \in Runs : runToken[k] \in 0..issued
TokensInv ==
  /\ SeenIssued
  /\ Unseen(renewed) /\ Unseen(gained) /\ (renewed # 0 => renewed # gained)

LEMMA TokensStep ==
  ASSUME MobileTypeOK, TokensInv, [MobileNext]_mobileVars
  PROVE  TokensInv'
<1> USE DEF TokensInv, SeenIssued, Unseen, MobileTypeOK, storeVars, effectVars, refreshVars, loginVars, serverVars
<1>1. ASSUME UNCHANGED <<mtoken, kept, shown, synced, runToken, renewed, gained, issued>> PROVE TokensInv'
  BY <1>1
<1>2. ASSUME NEW c \in MobileCalls, CallSteps(c)
      PROVE  UNCHANGED <<mtoken, kept, shown, synced, runToken, renewed, gained, issued>>
  BY <1>2 DEF CallSteps, MobileUnlock, AnswerGood, AnswerUnauthorized, ProfileUnauthorized, AnswerForbidden, AnswerFails,
              Answered
<1>3. ASSUME (\E c \in Screens : ScreenRequests(c)) \/ RefreshFails \/ RefreshAsk
      PROVE  UNCHANGED <<mtoken, kept, shown, synced, runToken, renewed, gained, issued>>
  BY <1>3 DEF ScreenRequests, RefreshFails, RefreshAsk
<1>4. ASSUME LoginVerify \/ LoginFails \/ LoginSignOut \/ MobileLogout \/ ServerRevokes \/ ClearSignOut \/ ClearCaches
      PROVE  UNCHANGED <<mtoken, kept, shown, synced, runToken, renewed, gained, issued>>
  BY <1>4 DEF LoginVerify, LoginFails, LoginSignOut, MobileLogout, ServerRevokes, ClearSignOut, ClearCaches
<1>5. CASE RefreshGranted
  BY <1>5 DEF RefreshGranted, Issue
<1>6. CASE LoginGranted
  BY <1>6 DEF LoginGranted, Issue
<1>7. CASE RefreshPersist \/ LoginPersist \/ ClearDelete
  BY <1>7 DEF RefreshPersist, LoginPersist, ClearDelete
<1>8. CASE RefreshSet
  BY <1>8 DEF RefreshSet
<1>9. CASE LoginSet
  BY <1>9 DEF LoginSet
<1>10. CASE ClearReset
  BY <1>10 DEF ClearReset
<1>11. CASE EffectSteps
  BY <1>11 DEF EffectSteps, EffectSignedOut, EffectFetches
<1>12. ASSUME NEW k \in Runs, RunSteps(k) PROVE TokensInv'
  BY <1>12 DEF RunSteps, RunSucceeds, RunRefused, RunFails, RunEnds
<1>13. CASE AppStarts
  BY <1>13 DEF AppStarts
<1>14. CASE UNCHANGED mobileVars
  BY <1>14 DEF mobileVars
<1> QED
  BY <1>1, <1>2, <1>3, <1>4, <1>5, <1>6, <1>7, <1>8, <1>9, <1>10, <1>11, <1>12, <1>13, <1>14
     DEF MobileNext, RefreshSteps, ClearSteps, LoginSteps

(* The run that is not cancelled is one for the token last shown, which has    *)
(* not been synced; what has been is what was shown.                          *)
RunInv ==
  /\ Fetching => runToken[current] = shown /\ synced # shown
  /\ mtoken # 0 /\ synced = mtoken => shown = mtoken

LEMMA RunStep ==
  ASSUME MobileTypeOK, TokensInv, StoreInv, RunInv, [MobileNext]_mobileVars
  PROVE  RunInv'
<1> USE DEF RunInv, Fetching, TokensInv, Unseen, MobileTypeOK, storeVars, effectVars, refreshVars, loginVars, serverVars
<1>1. ASSUME UNCHANGED <<mtoken, effectVars>> PROVE RunInv'
  BY <1>1
<1>2. ASSUME NEW c \in MobileCalls, CallSteps(c) PROVE UNCHANGED <<mtoken, effectVars>>
  BY <1>2 DEF CallSteps, MobileUnlock, AnswerGood, AnswerUnauthorized, ProfileUnauthorized, AnswerForbidden, AnswerFails,
              Answered
<1>3. ASSUME (\E c \in Screens : ScreenRequests(c)) \/ RefreshFails \/ RefreshAsk \/ RefreshGranted \/ RefreshPersist
      PROVE  UNCHANGED <<mtoken, effectVars>>
  BY <1>3 DEF ScreenRequests, RefreshFails, RefreshAsk, RefreshGranted, RefreshPersist
<1>4. ASSUME \/ LoginVerify \/ LoginGranted \/ LoginFails \/ LoginPersist \/ LoginSignOut \/ MobileLogout
             \/ ServerRevokes \/ ClearSignOut \/ ClearDelete \/ ClearCaches
      PROVE  UNCHANGED <<mtoken, effectVars>>
  BY <1>4 DEF LoginVerify, LoginGranted, LoginFails, LoginPersist, LoginSignOut, MobileLogout, ServerRevokes, ClearSignOut,
              ClearDelete, ClearCaches
<1>5. CASE RefreshSet \/ LoginSet
  BY <1>5 DEF RefreshSet, LoginSet, StoreInv, RefreshStores, LoginStores
<1>6. CASE ClearReset
  BY <1>6 DEF ClearReset
<1>7. CASE EffectSteps
  BY <1>7, MobileSessionConstants DEF EffectSteps, EffectSignedOut, EffectFetches
<1>8. ASSUME NEW k \in Runs, RunSteps(k) PROVE RunInv'
  BY <1>8, MobileSessionConstants DEF RunSteps, RunSucceeds, RunRefused, RunFails, RunEnds
<1>9. CASE AppStarts
  BY <1>9 DEF AppStarts
<1>10. CASE UNCHANGED mobileVars
  BY <1>10 DEF mobileVars
<1> QED
  BY <1>1, <1>2, <1>3, <1>4, <1>5, <1>6, <1>7, <1>8, <1>9, <1>10 DEF MobileNext, RefreshSteps, ClearSteps, LoginSteps

Moving == phase = "bootstrapping" => EffectDue \/ RetryComes \/ Fetching \/ Clearing \/ stranded

LEMMA MovingStep ==
  ASSUME MobileTypeOK, TokensInv, StoreInv, RunInv, Moving, [MobileNext]_mobileVars
  PROVE  Moving'
<1> USE DEF Moving, EffectDue, RetryComes, Fetching, Clearing, MobileTypeOK, storeVars, effectVars, refreshVars, loginVars, serverVars
<1>1. ASSUME UNCHANGED <<mtoken, phase, effectVars>>, Clearing => Clearing' PROVE Moving'
  BY <1>1
<1>2. ASSUME NEW c \in MobileCalls, CallSteps(c) PROVE Moving'
  BY <1>1, <1>2 DEF CallSteps, MobileUnlock, AnswerGood, AnswerUnauthorized, ProfileUnauthorized, AnswerForbidden,
                    AnswerFails, Answered, StartClear
<1>3. ASSUME (\E c \in Screens : ScreenRequests(c)) \/ RefreshFails \/ RefreshAsk \/ RefreshGranted \/ RefreshPersist
      PROVE  Moving'
  BY <1>1, <1>3 DEF ScreenRequests, RefreshFails, RefreshAsk, RefreshGranted, RefreshPersist, StartClear
<1>4. ASSUME \/ LoginVerify \/ LoginGranted \/ LoginFails \/ LoginPersist \/ LoginSignOut \/ MobileLogout
             \/ ServerRevokes \/ ClearSignOut \/ ClearDelete \/ ClearCaches
      PROVE  Moving'
  BY <1>1, <1>4 DEF LoginVerify, LoginGranted, LoginFails, LoginPersist, LoginSignOut, MobileLogout, ServerRevokes,
                    ClearSignOut, ClearDelete, ClearCaches, StartClear
<1>5. CASE RefreshSet
  BY <1>5 DEF RefreshSet, StoreInv, RefreshStores, TokensInv, Unseen
<1>6. CASE LoginSet \/ ClearReset \/ EffectSignedOut
  BY <1>6 DEF LoginSet, ClearReset, EffectSignedOut
<1>7. CASE EffectFetches
  BY <1>7, MobileSessionConstants DEF EffectFetches
<1>8. ASSUME NEW k \in Runs, RunSteps(k) PROVE Moving'
  <2>1. CASE k = current /\ RunSucceeds(k)
    BY <2>1 DEF RunSucceeds, RunEnds, RunInv
  <2>2. CASE k = current /\ RunRefused(k)
    BY <2>2 DEF RunRefused, StartClear
  <2>3. CASE k = current /\ RunFails(k)
    BY <2>3, MobileSessionConstants DEF RunFails, RunEnds, RunInv
  <2>4. CASE k # current
    BY <1>8, <2>4 DEF RunSteps, RunSucceeds, RunRefused, RunFails, RunEnds
  <2> QED
    BY <1>8, <2>1, <2>2, <2>3, <2>4 DEF RunSteps
<1>9. CASE AppStarts
  BY <1>9 DEF AppStarts
<1>10. CASE UNCHANGED mobileVars
  BY <1>1, <1>10 DEF mobileVars
<1> QED
  BY <1>2, <1>3, <1>4, <1>5, <1>6, <1>7, <1>8, <1>9, <1>10
     DEF MobileNext, RefreshSteps, ClearSteps, LoginSteps, EffectSteps

(* Whatever interleaves, no request and no bootstrap waits for something that  *)
(* is not coming: the deadlock freedom AppSettles rests on.                   *)
THEOREM NoWaitInVain == MobileSpec => []NobodyWaitsInVain
<1> DEFINE WaitInv == PromisesKept /\ TokensInv /\ RunInv /\ Moving
<1>1. MobileInit => WaitInv
  <2> SUFFICES ASSUME MobileInit PROVE WaitInv
    OBVIOUS
  <2>1. PromisesKept
    BY DEF MobileInit, PromisesKept, NoCallYet, MobileCalls
  <2>2. TokensInv
    BY DEF MobileInit, TokensInv, SeenIssued, Unseen
  <2>3. RunInv /\ Moving
    BY DEF MobileInit, RunInv, Moving, Fetching
  <2> QED
    BY <2>1, <2>2, <2>3
<1>2. MobileInv /\ WaitInv /\ [MobileNext]_mobileVars => WaitInv'
  BY PromisesStep, TokensStep, RunStep, MovingStep DEF MobileInv
<1>3. WaitInv => NobodyWaitsInVain
  BY DEF Moving, NobodyWaitsInVain
<1> QED
  BY <1>1, <1>2, <1>3, MobileInvariant, PTL DEF MobileSpec
=============================================================================
