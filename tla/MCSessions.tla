----------------------------- MODULE MCSessions -----------------------------
(***************************************************************************)
(* Model checking the server's sessions in one run: AuthSession is a mobile  *)
(* user's, AdminAccount an administrator's.  No state is shared, so each      *)
(* behaviour has the steps of one of them, the part chosen at first: what is  *)
(* checked is what a run of each would check.                               *)
(***************************************************************************)
EXTENDS AuthSession, AdminAccount

VARIABLE part
sessionVars == <<vars, adminVars, part>>

Server(A) == part = "server" /\ A /\ UNCHANGED <<adminVars, part>>
Admin(A) == part = "admin" /\ A /\ UNCHANGED <<vars, part>>

(* A machine that will not move rests in one initial state.  (Bound: roles   *)
(* being interchangeable, the first one is always the same.)                *)
OneRole == CHOOSE role \in Roles : TRUE

SessionsInit ==
  /\ part \in {"server", "admin"}
  /\ Init /\ AdminInit
  /\ account.role = OneRole
  /\ part # "admin" => account.active

SessionsNext ==
  \/ \E l \in Logins :
       \/ \E d \in Devices : Server(LoginRead(l, d))
       \/ Server(LoginBind(l)) \/ Server(LoginState(l)) \/ Server(LoginWrite(l))
  \/ \E d \in Devices : Server(Refresh(d))
  \/ \E t \in tokens : Server(AskCached(t)) \/ \E r \in Requests : Server(AskMissed(r, t))
  \/ \E r \in Requests : Server(Read(r)) \/ Server(Fill(r))
  \/ \E v \in Revokers :
       \/ Server(RevokeUpdate(v, LoggedOut))
       \/ \E b \in BOOLEAN : Server(RevokeUpdate(v, Toggled(b)))
       \/ Server(RevokeDelete(v))
  \/ Server(CacheExpires) \/ Server(Deactivate)
  \/ \E l \in AdminLogins :
       Admin(LoginPassword(l)) \/ Admin(LoginCode(l)) \/ Admin(LoginFinal(l)) \/ Admin(LoginCopy(l))
  \/ \E r \in AdminRequests :
       \/ \E t \in sessions : Admin(AdminAskCached(r, t)) \/ Admin(AdminAskMissed(r, t))
       \/ Admin(AdminRead(r)) \/ Admin(AdminFill(r)) \/ Admin(RequestEnds(r))
       \/ Admin(AdminLogout(r)) \/ Admin(RequestDelete(r)) \/ Admin(RequestDies(r))
       \/ Admin(SetupRead(r)) \/ Admin(EnableRead(r)) \/ Admin(DisableRead(r))
       \/ Admin(SetupWrite(r)) \/ Admin(EnableWrite(r)) \/ Admin(DisableWrite(r))
  \/ \E h \in Handlers :
       \/ Admin(DeactivateAdmin(h)) \/ Admin(ReactivateAdmin(h))
       \/ Admin(Suspend(h)) \/ Admin(Unsuspend(h))
       \/ Admin(ChangeRole(h)) \/ Admin(BumpAfterChange(h))
       \/ Admin(ResetRead(h)) \/ Admin(ResetWrite(h)) \/ Admin(AcceptRead(h)) \/ Admin(AcceptWrite(h))
       \/ Admin(HandlerDrop(h)) \/ Admin(HandlerDies(h))
  \/ Admin(ChallengeExpires) \/ Admin(AdminCopyExpires) \/ Admin(InvitationExpires)

(* What is fair in a machine is not enabled in its initial state, where it   *)
(* rests while another one moves.                                           *)
SessionsSpec ==
  SessionsInit /\ [][SessionsNext]_sessionVars /\ Fairness /\ AdminFairness
=============================================================================
