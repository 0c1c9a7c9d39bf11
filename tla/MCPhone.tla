------------------------------ MODULE MCPhone ------------------------------
(***************************************************************************)
(* Model checking the phone in one run: CheckinQueue is its queue of         *)
(* check-ins, MobileSession its session.  The queue knows of the session      *)
(* only that a 403 clears both, which each has as a step of its own, and no   *)
(* state is shared: each behaviour has the steps of one of them, the part     *)
(* chosen at first, and what is checked is what a run of each would check.    *)
(***************************************************************************)
EXTENDS CheckinQueue, MobileSession

VARIABLE part
phoneVars == <<vars, mobileVars, part>>

Queue(A) == part = "queue" /\ A /\ UNCHANGED <<mobileVars, part>>
App(A) == part = "app" /\ A /\ UNCHANGED <<vars, part>>

PhoneInit == part \in {"queue", "app"} /\ Init /\ MobileInit

PhoneNext ==
  \/ \E c \in Callers :
       \/ \E s \in Scans : Queue(Scan(c, s))
       \/ \E m \in net : Queue(CallAnswered(c, m)) \/ Queue(CallUnanswered(c, m))
       \/ Queue(AddRead(c)) \/ Queue(AddSave(c))
  \/ Queue(Disconnect) \/ Queue(Reconnect) \/ Queue(Restart)
  \/ Queue(FlushRead) \/ Queue(FlushSave)
  \/ \E chunk \in SUBSET flush.todo : \E expired \in SUBSET chunk :
       Queue(FlushChunk(chunk, expired))
  \/ \E i \in flush.waiting, m \in net : Queue(ItemAnswered(i, m)) \/ Queue(ItemUnanswered(i, m))
  \/ \E m \in net : Queue(Serve(m))
  \/ \E c \in MobileCalls :
       \/ App(MobileUnlock(c)) \/ App(AnswerGood(c)) \/ App(AnswerUnauthorized(c))
       \/ App(ProfileUnauthorized(c)) \/ App(AnswerForbidden(c)) \/ App(AnswerFails(c))
  \/ \E c \in Screens : App(ScreenRequests(c))
  \/ App(RefreshFails) \/ App(RefreshAsk) \/ App(RefreshGranted)
  \/ App(RefreshPersist) \/ App(RefreshSet)
  \/ App(ClearSignOut) \/ App(ClearDelete) \/ App(ClearReset) \/ App(ClearCaches)
  \/ App(LoginVerify) \/ App(LoginGranted) \/ App(LoginFails)
  \/ App(LoginPersist) \/ App(LoginSet) \/ App(LoginSignOut)
  \/ App(MobileLogout) \/ App(ServerRevokes)
  \/ App(EffectSignedOut) \/ App(EffectFetches) \/ App(AppStarts)
  \/ \E k \in Runs : App(RunSucceeds(k)) \/ App(RunRefused(k)) \/ App(RunFails(k))

QueueFairness ==
  /\ \A c \in Callers : WF_vars(CallStep(c))
  /\ WF_vars(FlushStep) /\ WF_vars(\E m \in net : Serve(m))

(* What is fair in a machine is not enabled in its initial state, where it   *)
(* rests while another one moves.                                           *)
PhoneSpec ==
  PhoneInit /\ [][PhoneNext]_phoneVars /\ QueueFairness /\ MobileFairness
=============================================================================
