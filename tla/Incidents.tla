----------------------------- MODULE Incidents -----------------------------
(***************************************************************************)
(* modules/incidents and the incident operations of admin.service.ts.       *)
(*                                                                         *)
(* A driver's report creates a row, then a Cloud Task that is due in ten    *)
(* minutes; each delivery that finds the incident REPORTED raises its level *)
(* and creates the next task.  Operators escalate, assign and resolve by    *)
(* hand meanwhile.  Every handler works from the row it read, and no update *)
(* has a condition.                                                        *)
(*                                                                         *)
(* Cloud Tasks (external) delivers a task at least once, possibly again     *)
(* while an earlier delivery is under way, until one answers 2xx.  The ten  *)
(* minutes are not measured: a task may be delivered as soon as it exists.  *)
(***************************************************************************)
EXTENDS Integers, FiniteSets

CONSTANTS
  Reports,     \* reports of drivers; each that gets so far creates an incident
  TaskIds,     \* names of tasks
  Deliveries,  \* deliveries that may be under way at once
  Operators,   \* operators' requests that may be under way at once
  NoWork,
  MaxFailures  \* bound: deliveries that die or whose dispatch throws

ASSUME IncidentsConstants ==
  /\ MaxFailures \in Nat
  /\ Operators \cap Deliveries = {}

Levels == {"COORDINATOR", "TRANSPORT_OFFICER", "PRINCIPAL"}
Statuses == {"REPORTED", "ASSIGNED", "RESOLVED"}

(* getNextEscalationLevel, where there is one.                              *)
NextLevel(level) ==
  IF level = "COORDINATOR" THEN "TRANSPORT_OFFICER" ELSE "PRINCIPAL"

VARIABLES
  incident,  \* report -> the row's status ("none" before it exists) and level
  reporting, \* report -> new, created, failed or done
  tasks,     \* the tasks Cloud Tasks holds
  delivery,  \* delivery -> the task it carries, the level it read, its place
  operator,  \* operator -> the incident and the level it read
  topped,    \* ghost: incidents whose level has been PRINCIPAL
  untasked,  \* ghost: incidents one of whose tasks could not be created
  failures   \* bounded counter

incidentsVars ==
  <<incident, reporting, tasks, delivery, operator, topped, untasked, failures>>

(* A task, with the level it was created to leave (a ghost: the payload is   *)
(* the incident and the status REPORTED).                                   *)
TaskRecords == [id: TaskIds, incident: Reports, from: Levels]
DeliveryRecords ==
  [task: TaskRecords, level: Levels, pc: {"read", "raised", "enqueued"}]

IncidentsTypeOK ==
  /\ incident \in [Reports -> [status: Statuses \cup {"none"}, level: Levels]]
  /\ reporting \in [Reports -> {"new", "created", "failed", "done"}]
  /\ tasks \in SUBSET TaskRecords
  /\ delivery \in [Deliveries -> DeliveryRecords \cup {NoWork}]
  /\ operator \in [Operators -> [incident: Reports, level: Levels] \cup {NoWork}]
  /\ topped \in SUBSET Reports
  /\ untasked \in SUBSET Reports
  /\ failures \in 0..MaxFailures
  /\ \A i \in Reports : incident[i].status = "none" <=> reporting[i] = "new"

IncidentsInit ==
  /\ incident = [i \in Reports |-> [status |-> "none", level |-> "COORDINATOR"]]
  /\ reporting = [i \in Reports |-> "new"]
  /\ tasks = {}
  /\ delivery = [d \in Deliveries |-> NoWork]
  /\ operator = [o \in Operators |-> NoWork]
  /\ topped = {} /\ untasked = {}
  /\ failures = 0

-----------------------------------------------------------------------------
(* enqueueEscalationJob: a failure to create the task is logged only.  (When *)
(* the model has no free name for a task its creation fails.)               *)
EnqueueEscalationJob(i, level) ==
  \/ \E id \in TaskIds :
       /\ id \notin {t.id : t \in tasks}
       /\ \A d \in Deliveries : delivery[d] # NoWork => delivery[d].task.id # id
       /\ tasks' = tasks \cup {[id |-> id, incident |-> i, from |-> level]}
       /\ UNCHANGED untasked
  \/ untasked' = untasked \cup {i} /\ UNCHANGED tasks

(* reportIncident, up to the row.  A driver whose report answered 422 makes  *)
(* another one, which creates another incident.                             *)
ReportCreate(i) ==
  /\ reporting[i] = "new"
  /\ incident' = [incident EXCEPT ![i].status = "REPORTED"]
  /\ reporting' = [reporting EXCEPT ![i] = "created"]
  /\ UNCHANGED <<tasks, delivery, operator, topped, untasked, failures>>

(* The coordinators' query or the dispatch to them throws: no task.         *)
ReportFails(i) ==
  /\ reporting[i] = "created"
  /\ reporting' = [reporting EXCEPT ![i] = "failed"]
  /\ UNCHANGED <<incident, tasks, delivery, operator, topped, untasked, failures>>

ReportEnqueue(i) ==
  /\ reporting[i] = "created"
  /\ EnqueueEscalationJob(i, "COORDINATOR")
  /\ reporting' = [reporting EXCEPT ![i] = "done"]
  /\ UNCHANGED <<incident, delivery, operator, topped, failures>>

-----------------------------------------------------------------------------
(* processEscalation: the task is void once the incident is attended or at   *)
(* its last level, and is acknowledged.                                     *)
Void(i) == incident[i].status # "REPORTED" \/ incident[i].level = "PRINCIPAL"

DeliverVoid(t) ==
  /\ t \in tasks /\ Void(t.incident)
  /\ tasks' = tasks \ {t}
  /\ UNCHANGED <<incident, reporting, delivery, operator, topped, untasked, failures>>

DeliverRead(d, t) ==
  /\ delivery[d] = NoWork /\ t \in tasks /\ ~Void(t.incident)
  /\ delivery' = [delivery EXCEPT ![d] =
       [task |-> t, level |-> incident[t.incident].level, pc |-> "read"]]
  /\ UNCHANGED <<incident, reporting, tasks, operator, topped, untasked, failures>>

(* The row of incident i gets a level, and a status where one is given.     *)
SetLevel(i, level, status) ==
  /\ incident' = [incident EXCEPT ![i] = [status |-> status, level |-> level]]
  /\ topped' = IF level = "PRINCIPAL" THEN topped \cup {i} ELSE topped

(* updateIncidentEscalationLevel, whatever the row says by now.  The query   *)
(* for users of the role PRINCIPAL, which the schema's enumeration lacks,    *)
(* throws: a delivery that raised to PRINCIPAL ends with a 500.             *)
DeliverRaise(d) ==
  /\ delivery[d] # NoWork /\ delivery[d].pc = "read"
  /\ LET i == delivery[d].task.incident
         level == NextLevel(delivery[d].level) IN
     /\ SetLevel(i, level, incident[i].status)
     /\ delivery' = [delivery EXCEPT ![d] =
          IF level = "PRINCIPAL" THEN NoWork ELSE [@ EXCEPT !.pc = "raised"]]
  /\ UNCHANGED <<reporting, tasks, operator, untasked, failures>>

(* The recipients are notified and the next task is created.                *)
DeliverEnqueue(d) ==
  /\ delivery[d] # NoWork /\ delivery[d].pc = "raised"
  /\ EnqueueEscalationJob(delivery[d].task.incident, NextLevel(delivery[d].level))
  /\ delivery' = [delivery EXCEPT ![d].pc = "enqueued"]
  /\ UNCHANGED <<incident, reporting, operator, topped, failures>>

DeliverAck(d) ==
  /\ delivery[d] # NoWork /\ delivery[d].pc = "enqueued"
  /\ tasks' = tasks \ {delivery[d].task}
  /\ delivery' = [delivery EXCEPT ![d] = NoWork]
  /\ UNCHANGED <<incident, reporting, operator, topped, untasked, failures>>

(* Mutant: the failure is swallowed and the task acknowledged.              *)
DeliverSwallows(d) ==
  /\ delivery[d] # NoWork /\ failures < MaxFailures
  /\ failures' = failures + 1
  /\ tasks' = tasks \ {delivery[d].task}
  /\ delivery' = [delivery EXCEPT ![d] = NoWork]
  /\ UNCHANGED <<incident, reporting, operator, topped, untasked>>

(* The process dies, or the dispatch to the new level's users throws: the    *)
(* task stays with Cloud Tasks.                                             *)
DeliverFails(d) ==
  /\ delivery[d] # NoWork /\ failures < MaxFailures
  /\ failures' = failures + 1
  /\ delivery' = [delivery EXCEPT ![d] = NoWork]
  /\ UNCHANGED <<incident, reporting, tasks, operator, topped, untasked>>

-----------------------------------------------------------------------------
(* escalateIncident of the admin service: refuses a resolved incident by the *)
(* row it read, then writes the level after the one it read, and ASSIGNED.  *)
OperatorRead(o, i) ==
  /\ operator[o] = NoWork
  /\ incident[i].status \in {"REPORTED", "ASSIGNED"}
  /\ operator' = [operator EXCEPT ![o] = [incident |-> i, level |-> incident[i].level]]
  /\ UNCHANGED <<incident, reporting, tasks, delivery, topped, untasked, failures>>

OperatorEscalate(o) ==
  /\ operator[o] # NoWork
  /\ SetLevel(operator[o].incident, NextLevel(operator[o].level), "ASSIGNED")
  /\ operator' = [operator EXCEPT ![o] = NoWork]
  /\ UNCHANGED <<reporting, tasks, delivery, untasked, failures>>

(* resolveIncident and assignSubstitute: their updates take nothing from the *)
(* row that was read but that it exists.                                    *)
Attend(i, status) ==
  /\ incident[i].status # "none"
  /\ incident' = [incident EXCEPT ![i].status = status]
  /\ UNCHANGED <<reporting, tasks, delivery, operator, topped, untasked, failures>>

ResolveIncident(i) == Attend(i, "RESOLVED")

(* Mutant: the escalation starts over with the substitute.                  *)
AssignSubstituteAnew(i) ==
  /\ incident[i].status # "none"
  /\ incident' = [incident EXCEPT ![i] = [status |-> "ASSIGNED", level |-> "COORDINATOR"]]
  /\ UNCHANGED <<reporting, tasks, delivery, operator, topped, untasked, failures>>

AssignSubstitute(i) == Attend(i, "ASSIGNED")

IncidentsNext ==
  \/ \E i \in Reports :
       \/ ReportCreate(i) \/ ReportFails(i) \/ ReportEnqueue(i)
       \/ ResolveIncident(i) \/ AssignSubstitute(i)
       \/ \E o \in Operators : OperatorRead(o, i)
  \/ \E t \in tasks : DeliverVoid(t) \/ \E d \in Deliveries : DeliverRead(d, t)
  \/ \E d \in Deliveries :
       DeliverRaise(d) \/ DeliverEnqueue(d) \/ DeliverAck(d) \/ DeliverFails(d)
  \/ \E o \in Operators : OperatorEscalate(o)

IncidentsSpec == IncidentsInit /\ [][IncidentsNext]_incidentsVars

(* Cloud Tasks goes on delivering what is not acknowledged, and a handler    *)
(* that runs goes on.  Operators and drivers owe nothing.                   *)
IncidentsServed(d) == DeliverRaise(d) \/ DeliverEnqueue(d) \/ DeliverAck(d)
IncidentsDelivered(id) ==
  \E t \in tasks : t.id = id /\ (DeliverVoid(t) \/ \E d \in Deliveries : DeliverRead(d, t))

IncidentsFairness ==
  /\ \A d \in Deliveries : WF_incidentsVars(IncidentsServed(d))
  /\ \A id \in TaskIds : WF_incidentsVars(IncidentsDelivered(id))

-----------------------------------------------------------------------------
Unattended(i) == incident[i].status = "REPORTED" /\ i \notin topped
Tasked(i) == reporting[i] = "done" /\ i \notin untasked

(* An incident nobody has attended, short of the last level, is never        *)
(* forgotten once its report returned: Cloud Tasks holds a task for it,      *)
(* however deliveries overlap, die and are repeated, unless the creation of  *)
(* a task failed (incidents.service.ts:83-165).                             *)
NeverForgotten ==
  \A i \in Reports : Unattended(i) /\ Tasked(i) => \E t \in tasks : t.incident = i

(* The level gets to PRINCIPAL only from TRANSPORT_OFFICER: the officers are  *)
(* never passed over, though deliveries and operators write what follows the *)
(* level they read, not the one there is (incidents.service.ts:151,          *)
(* admin.service.ts:1672-1683).                                             *)
OfficersFirst ==
  [][\A i \in Reports : incident[i].level = "COORDINATOR" => incident'[i].level # "PRINCIPAL"]_incidentsVars

(* An incident whose report returned and whose tasks were created reaches    *)
(* its last level or is attended by somebody, though the handler of the last *)
(* level always fails (incidents.service.ts:128-189).                       *)
UnattendedEscalates ==
  \A i \in Reports : []<>~(Unattended(i) /\ Tasked(i))
=============================================================================
