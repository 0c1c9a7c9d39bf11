---------------------------- MODULE MCBackOffice ----------------------------
(***************************************************************************)
(* Model checking the work of the staff in one run: ImportSession, Incidents, *)
(* Delegation, and Notifications, which the latter two dispatch to (that a   *)
(* dispatch may throw is all they take from it).  No state is shared, so     *)
(* each behaviour has the steps of one of them, the part chosen at first:    *)
(* what is checked is what a run of each would check.                       *)
(***************************************************************************)
EXTENDS ImportSession, Incidents, Delegation, Notifications

VARIABLE part
officeVars == <<vars, incidentsVars, delegationVars, notificationsVars, part>>

Incident(A) == part = "incidents" /\ A /\ UNCHANGED <<vars, delegationVars, notificationsVars, part>>
Import(A) == part = "import" /\ A /\ UNCHANGED <<incidentsVars, delegationVars, notificationsVars, part>>
Staff(A) == part = "delegation" /\ A /\ UNCHANGED <<vars, incidentsVars, notificationsVars, part>>
Telling(A) == part = "notifications" /\ A /\ UNCHANGED <<vars, incidentsVars, delegationVars, part>>

(* A machine that will not move rests in one initial state.  (Bounds: phones, *)
(* and what rows say, being interchangeable, the first row is always the      *)
(* same at first; rows of one phone only differ in what they say.)           *)
OneContent == CHOOSE c \in Contents : TRUE
FewContents == {c \in Contents : c.phone = OneContent.phone \/ c.says = OneContent.says}
FirstRow == CHOOSE r \in Rows : \A q \in Rows : r <= q

OfficeInit ==
  /\ part \in {"incidents", "import", "delegation", "notifications"}
  /\ Init /\ IncidentsInit /\ DelegationInit /\ NotificationsInit
  /\ part # "delegation" => returns = 0
  /\ content[FirstRow] = OneContent /\ content \in [Rows -> FewContents]
  /\ part # "import" =>
       session = "READY_TO_IMPORT" /\ content = [r \in Rows |-> OneContent]

OfficeNext ==
  \/ \E i \in Reports :
       \/ Incident(ReportCreate(i)) \/ Incident(ReportFails(i)) \/ Incident(ReportEnqueue(i))
       \/ Incident(ResolveIncident(i)) \/ Incident(AssignSubstitute(i))
       \/ \E o \in Operators : Incident(OperatorRead(o, i))
  \/ \E t \in tasks :
       Incident(DeliverVoid(t)) \/ \E d \in Deliveries : Incident(DeliverRead(d, t))
  \/ \E d \in Deliveries :
       \/ Incident(DeliverRaise(d)) \/ Incident(DeliverEnqueue(d))
       \/ Incident(DeliverAck(d)) \/ Incident(DeliverFails(d))
  \/ \E o \in Operators : Incident(OperatorEscalate(o))
  \/ \E x \in Executors :
       \/ Import(Execute(x)) \/ Import(Retry(x)) \/ Import(Reset(x)) \/ Import(Mark(x))
       \/ Import(ReadPending(x)) \/ Import(Commit(x)) \/ Import(RollBack(x))
       \/ (\E r \in Rows : Import(FailRow(x, r)))
       \/ Import(Count(x)) \/ Import(Sync(x)) \/ Import(Crash(x))
  \/ \E e \in Editors :
       \/ \E r \in Rows, c \in FewContents, valid \in BOOLEAN : Import(Edit(e, r, c, valid))
       \/ Import(EditCount(e)) \/ Import(EditSync(e))
  \/ \E a \in Activations :
       \/ Staff(TakeLock(a)) \/ Staff(TimeLock(a)) \/ Staff(CheckTrip(a))
       \/ Staff(CheckKey(a)) \/ Staff(CreateRow(a)) \/ Staff(CommitDelegation(a))
       \/ Staff(Publish(a)) \/ Staff(Prolong(a)) \/ Staff(ActivationFails(a))
  \/ \E e \in Closers :
       Staff(PingCounts(e)) \/ Staff(PingResets(e)) \/ Staff(Request(e))
  \/ \E m \in Monitors : Staff(Scan(m)) \/ Staff(Verdict(m))
  \/ \E e \in Endings :
       \/ Staff(EndReads(e)) \/ Staff(CloseRows(e)) \/ Staff(Unpublish(e))
       \/ Staff(FreeLock(e)) \/ Staff(EndFails(e))
  \/ \E s \in Senders :
       \/ Telling(Dispatch(s)) \/ Telling(Alert(s)) \/ Telling(RecordDrop(s))
       \/ Telling(Throws(s)) \/ Telling(Refuse(s)) \/ Telling(StartAdd(s))
       \/ Telling(Added(s)) \/ Telling(AddSucceeds(s)) \/ Telling(AddFails(s))
       \/ Telling(Take(s)) \/ Telling(Serve(s)) \/ Telling(Unheard(s))
       \/ Telling(AttemptFails(s))
       \/ Telling(BackoffEnds(s)) \/ Telling(Stalled(s))
  \/ Telling(CoolDown) \/ Telling(Dies)
  \/ Staff(LockLapses) \/ Staff(ReturnLapses) \/ Staff(TripEnds)

(* What is fair in a machine is not enabled in its initial state, where it   *)
(* rests while another one moves; that notifications come is not, unless     *)
(* they are the part.                                                       *)
OfficeSpec ==
  /\ OfficeInit /\ [][OfficeNext]_officeVars
  /\ \A x \in Executors : WF_vars(ExecutorStep(x))
  /\ \A e \in Editors : WF_vars(EditorStep(e))
  /\ IncidentsFairness /\ DelegationFairness
  /\ \A s \in Senders :
       WF_notificationsVars(part = "notifications" /\ (SenderStep(s) \/ JobStep(s)))
  /\ WF_notificationsVars(CoolDown)

=============================================================================
