-------------------------- MODULE Incidents_proofs --------------------------
(* Incidents are escalated through the officers and never forgotten, for any *)
(* reports, tasks, deliveries and operators, and any number of failures; and  *)
(* what is dispatched about them does not vanish, for any senders,           *)
(* thresholds, attempts and failures.                                       *)
EXTENDS Incidents, Notifications, TLAPS

(* Before an incident's report returned there is no task for it; a task that  *)
(* is to leave the officers' level, and whoever read that level, came after   *)
(* the coordinators' level was left for good; and a delivery that is about to *)
(* be acknowledged carries a task of the coordinators' level, while the task  *)
(* it created is kept as long as anybody needs it.                           *)
Busy(d) == delivery[d] # NoWork

TasksFollowReports ==
  /\ \A t \in tasks : reporting[t.incident] = "done"
  /\ \A d \in Deliveries : Busy(d) => reporting[delivery[d].task.incident] = "done"
  /\ \A o \in Operators :
       operator[o] # NoWork => incident[operator[o].incident].status # "none"

TaskRises(t) ==
  /\ t.from \in {"COORDINATOR", "TRANSPORT_OFFICER"}
  /\ t.from # "COORDINATOR" => incident[t.incident].level # "COORDINATOR"

DeliveryRises(d) ==
  Busy(d) =>
    /\ delivery[d].task.from \in {"COORDINATOR", "TRANSPORT_OFFICER"}
    /\ delivery[d].level # "COORDINATOR" \/ delivery[d].pc # "read"
         => incident[delivery[d].task.incident].level # "COORDINATOR"
    /\ delivery[d].pc # "read" => delivery[d].level = "COORDINATOR"
    /\ delivery[d].level = "COORDINATOR" => delivery[d].task.from = "COORDINATOR"

OperatorRises(o) ==
  operator[o] # NoWork /\ operator[o].level # "COORDINATOR"
    => incident[operator[o].incident].level # "COORDINATOR"

LevelsRise ==
  /\ \A t \in tasks : TaskRises(t)
  /\ \A d \in Deliveries : DeliveryRises(d)
  /\ \A o \in Operators : OperatorRises(o)

Needs(i) == Unattended(i) /\ Tasked(i)

TasksSucceed ==
  /\ \A i \in Reports : incident[i].level = "PRINCIPAL" => i \in topped
  /\ \A d \in Deliveries :
       Busy(d) /\ delivery[d].pc = "enqueued" /\ Needs(delivery[d].task.incident)
         => \E t \in tasks : /\ t.incident = delivery[d].task.incident
                             /\ t.from = "TRANSPORT_OFFICER"

IInv ==
  /\ IncidentsTypeOK /\ TasksFollowReports /\ LevelsRise
  /\ TasksSucceed /\ NeverForgotten

(* What creating a task leaves: the tasks there were, and one more or a mark. *)
LEMMA Enqueued ==
  ASSUME IncidentsTypeOK, NEW i \in Reports, NEW level \in Levels, EnqueueEscalationJob(i, level)
  PROVE  /\ tasks' \in SUBSET TaskRecords /\ untasked' \in SUBSET Reports
         /\ tasks \subseteq tasks' /\ untasked \subseteq untasked'
         /\ i \in untasked' \/ \E t \in tasks' : t.incident = i /\ t.from = level
         /\ \A t \in tasks' : t \notin tasks => t.incident = i /\ t.from = level
<1>1. CASE untasked' = untasked \cup {i} /\ UNCHANGED tasks
  BY <1>1 DEF IncidentsTypeOK
<1>2. ASSUME NEW id \in TaskIds, UNCHANGED untasked,
             tasks' = tasks \cup {[id |-> id, incident |-> i, from |-> level]}
      PROVE  /\ tasks' \in SUBSET TaskRecords /\ untasked' \in SUBSET Reports
             /\ tasks \subseteq tasks' /\ untasked \subseteq untasked'
             /\ \E t \in tasks' : t.incident = i /\ t.from = level
             /\ \A t \in tasks' : t \notin tasks => t.incident = i /\ t.from = level
  <2> DEFINE new == [id |-> id, incident |-> i, from |-> level]
  <2>1. new \in TaskRecords /\ new.incident = i /\ new.from = level
    BY DEF TaskRecords
  <2>2. tasks' = tasks \cup {new}
    BY <1>2
  <2> HIDE DEF new
  <2> QED
    BY <1>2, <2>1, <2>2 DEF IncidentsTypeOK
<1> QED
  BY <1>1, <1>2 DEF EnqueueEscalationJob

LEMMA NextLevelTyped ==
  ASSUME NEW level \in Levels
  PROVE  NextLevel(level) \in {"TRANSPORT_OFFICER", "PRINCIPAL"}
  BY DEF NextLevel

(* What writing a level leaves. *)
LEMMA LevelSet ==
  ASSUME IncidentsTypeOK, NEW i \in Reports, NEW level \in Levels, NEW status \in Statuses \cup {"none"},
         SetLevel(i, level, status)
  PROVE  /\ incident' \in [Reports -> [status : Statuses \cup {"none"}, level : Levels]]
         /\ topped' \in SUBSET Reports /\ topped \subseteq topped'
         /\ level = "PRINCIPAL" => i \in topped'
         /\ incident'[i].level = level /\ incident'[i].status = status
         /\ \A j \in Reports : j # i => incident'[j] = incident[j]
  BY DEF IncidentsTypeOK, SetLevel

LEMMA Started == IncidentsInit => IInv
  BY IncidentsConstants
  DEF IncidentsInit, IInv, IncidentsTypeOK, TasksFollowReports, LevelsRise, TaskRises, DeliveryRises, OperatorRises, TasksSucceed,
      NeverForgotten, Busy, Needs, Unattended, Tasked, Levels, Statuses, DeliveryRecords, TaskRecords

(* The steps that change a row's status alone. *)
LEMMA Attended ==
  ASSUME IInv, NEW i \in Reports, NEW status \in {"ASSIGNED", "RESOLVED"}, Attend(i, status)
  PROVE  IInv'
<1> USE DEF IInv, Attend, Statuses
<1>1. /\ incident' \in [Reports -> [status : Statuses \cup {"none"}, level : Levels]]
      /\ \A j \in Reports : incident'[j].level = incident[j].level
      /\ incident'[i].status = status
      /\ \A j \in Reports : j # i => incident'[j] = incident[j]
  BY DEF IncidentsTypeOK
<1>2. IncidentsTypeOK'
  BY <1>1 DEF IncidentsTypeOK
<1>3. \A j \in Reports : Needs(j)' => Needs(j)
  BY <1>1 DEF Needs, Unattended, Tasked
<1>4. TasksFollowReports'
  BY <1>1 DEF TasksFollowReports, Busy, IncidentsTypeOK
<1>5. LevelsRise'
  BY <1>1 DEF LevelsRise, TaskRises, DeliveryRises, OperatorRises, Busy, IncidentsTypeOK, TaskRecords, DeliveryRecords
<1>6. TasksSucceed'
  BY <1>1, <1>3 DEF TasksSucceed, Busy, IncidentsTypeOK, TaskRecords, DeliveryRecords
<1>7. NeverForgotten'
  BY <1>3 DEF NeverForgotten, Needs
<1> QED
  BY <1>2, <1>4, <1>5, <1>6, <1>7

LEMMA Reported ==
  ASSUME IInv, NEW i \in Reports, ReportCreate(i) \/ ReportFails(i)
  PROVE  IInv'
<1> USE DEF IInv, ReportCreate, ReportFails, Statuses
<1>1. /\ incident' \in [Reports -> [status : Statuses \cup {"none"}, level : Levels]]
      /\ \A j \in Reports : incident'[j].level = incident[j].level
      /\ \A j \in Reports : j # i => incident'[j] = incident[j] /\ reporting'[j] = reporting[j]
      /\ incident'[i].status # "none"
      /\ reporting[i] # "done" /\ reporting'[i] # "done" /\ reporting'[i] # "new"
  BY DEF IncidentsTypeOK
<1>2. IncidentsTypeOK'
  BY <1>1 DEF IncidentsTypeOK
<1>3. \A j \in Reports : Needs(j)' => Needs(j)
  BY <1>1 DEF Needs, Unattended, Tasked
<1>4. TasksFollowReports'
  BY <1>1 DEF TasksFollowReports, Busy, IncidentsTypeOK, TaskRecords, DeliveryRecords
<1>5. LevelsRise'
  BY <1>1 DEF LevelsRise, TaskRises, DeliveryRises, OperatorRises, Busy, IncidentsTypeOK, TaskRecords, DeliveryRecords
<1>6. TasksSucceed'
  BY <1>1, <1>3 DEF TasksSucceed, Busy, IncidentsTypeOK, TaskRecords, DeliveryRecords
<1>7. NeverForgotten'
  BY <1>3 DEF NeverForgotten, Needs
<1> QED
  BY <1>2, <1>4, <1>5, <1>6, <1>7

LEMMA Enqueues ==
  ASSUME IInv, NEW i \in Reports, ReportEnqueue(i)
  PROVE  IInv'
<1> USE DEF IInv, ReportEnqueue
<1>1. /\ tasks' \in SUBSET TaskRecords /\ untasked' \in SUBSET Reports
      /\ tasks \subseteq tasks' /\ untasked \subseteq untasked'
      /\ i \in untasked' \/ \E t \in tasks' : t.incident = i /\ t.from = "COORDINATOR"
      /\ \A t \in tasks' : t \notin tasks => t.incident = i /\ t.from = "COORDINATOR"
  BY Enqueued DEF Levels
<1>2. IncidentsTypeOK'
  BY <1>1 DEF IncidentsTypeOK
<1>3. \A j \in Reports : j # i /\ Needs(j)' => Needs(j)
  BY <1>1 DEF Needs, Unattended, Tasked, IncidentsTypeOK
<1>4. TasksFollowReports'
  BY <1>1 DEF TasksFollowReports, Busy, IncidentsTypeOK, TaskRecords, DeliveryRecords
<1>5. LevelsRise'
  BY <1>1 DEF LevelsRise, TaskRises, DeliveryRises, OperatorRises, Busy
<1>6. \A d \in Deliveries : Busy(d) => delivery[d].task.incident # i
  BY DEF TasksFollowReports
<1>7. TasksSucceed'
  BY <1>1, <1>3, <1>6 DEF TasksSucceed, Busy, IncidentsTypeOK, TaskRecords, DeliveryRecords
<1>8. NeverForgotten'
  BY <1>1, <1>3 DEF NeverForgotten, Needs, Tasked
<1> QED
  BY <1>2, <1>4, <1>5, <1>7, <1>8

(* An operator who reads, and a task found void. *)
LEMMA Reads ==
  ASSUME IInv,
         \/ \E o \in Operators, i \in Reports : OperatorRead(o, i)
         \/ \E t \in tasks : DeliverVoid(t)
  PROVE  IInv'
<1>1. ASSUME NEW o \in Operators, NEW i \in Reports, OperatorRead(o, i) PROVE IInv'
  <2>1. IncidentsTypeOK'
    BY <1>1 DEF IInv, IncidentsTypeOK, OperatorRead
  <2>2. operator' \in [Operators -> [incident : Reports, level : Levels] \cup {NoWork}]
    BY <2>1 DEF IncidentsTypeOK
  <2>3. /\ operator'[o] = [incident |-> i, level |-> incident[i].level]
        /\ \A q \in Operators : q # o => operator'[q] = operator[q]
        /\ incident[i].status # "none"
    BY <1>1 DEF IInv, IncidentsTypeOK, OperatorRead
  <2>4. TasksFollowReports'
    BY <1>1, <2>3 DEF IInv, TasksFollowReports, OperatorRead, Busy
  <2>5. LevelsRise'
    BY <1>1, <2>3 DEF IInv, LevelsRise, TaskRises, DeliveryRises, OperatorRises, OperatorRead, Busy
  <2>6. TasksSucceed' /\ NeverForgotten'
    BY <1>1 DEF IInv, TasksSucceed, NeverForgotten, OperatorRead, Busy, Needs, Unattended, Tasked
  <2> QED
    BY <2>1, <2>4, <2>5, <2>6 DEF IInv
<1>2. ASSUME NEW t \in tasks, DeliverVoid(t) PROVE IInv'
  <2>1. IncidentsTypeOK'
    BY <1>2 DEF IInv, IncidentsTypeOK, DeliverVoid
  <2>2. TasksFollowReports' /\ LevelsRise'
    BY <1>2 DEF IInv, TasksFollowReports, LevelsRise, TaskRises, DeliveryRises, OperatorRises, DeliverVoid, Busy
  <2>3. t.incident \in Reports /\ ~Needs(t.incident)
    BY <1>2 DEF IInv, IncidentsTypeOK, TaskRecords, TasksSucceed, DeliverVoid, Void, Needs, Unattended
  <2>4. TasksSucceed'
    BY <1>2, <2>3 DEF IInv, TasksSucceed, DeliverVoid, Busy, Needs, Unattended, Tasked
  <2>5. NeverForgotten'
    BY <1>2, <2>3 DEF IInv, NeverForgotten, DeliverVoid, Needs, Unattended, Tasked
  <2> QED
    BY <2>1, <2>2, <2>4, <2>5 DEF IInv
<1> QED
  BY <1>1, <1>2

(* A delivery starts. *)
LEMMA Starts ==
  ASSUME IInv, NEW d \in Deliveries, NEW t \in tasks, DeliverRead(d, t)
  PROVE  IInv'
<1> DEFINE new == [task |-> t, level |-> incident[t.incident].level, pc |-> "read"]
<1>1. /\ new \in DeliveryRecords
      /\ new.task = t /\ new.level = incident[t.incident].level /\ new.pc = "read"
  BY DEF IInv, IncidentsTypeOK, TaskRecords, DeliveryRecords
<1>2. /\ delivery' \in [Deliveries -> DeliveryRecords \cup {NoWork}]
      /\ delivery'[d] = new /\ \A e \in Deliveries : e # d => delivery'[e] = delivery[e]
  BY <1>1 DEF IInv, IncidentsTypeOK, DeliverRead
<1> HIDE DEF new
<1>3. IncidentsTypeOK'
  BY <1>2 DEF IInv, IncidentsTypeOK, DeliverRead
<1>4. TasksFollowReports'
  BY <1>1, <1>2 DEF IInv, TasksFollowReports, DeliverRead, Busy
<1>5. LevelsRise'
  BY <1>1, <1>2 DEF IInv, LevelsRise, TaskRises, DeliveryRises, OperatorRises, DeliverRead, Busy
<1>6. TasksSucceed' /\ NeverForgotten'
  BY <1>1, <1>2 DEF IInv, TasksSucceed, NeverForgotten, DeliverRead, Busy, Needs, Unattended, Tasked
<1> QED
  BY <1>3, <1>4, <1>5, <1>6 DEF IInv

(* A delivery raises the level of its incident. *)
LEMMA Raises ==
  ASSUME IInv, NEW d \in Deliveries, DeliverRaise(d)
  PROVE  IInv'
<1> DEFINE i == delivery[d].task.incident
           level == NextLevel(delivery[d].level)
<1>1. /\ delivery[d] \in DeliveryRecords /\ i \in Reports
      /\ delivery[d].level \in Levels /\ delivery[d].task \in TaskRecords /\ delivery[d].pc = "read"
  BY DEF IInv, IncidentsTypeOK, DeliverRaise, DeliveryRecords, TaskRecords
<1>2. /\ level \in {"TRANSPORT_OFFICER", "PRINCIPAL"} /\ level \in Levels
      /\ level # "PRINCIPAL" => delivery[d].level = "COORDINATOR"
  BY <1>1 DEF NextLevel, Levels
<1>3. /\ incident' \in [Reports -> [status : Statuses \cup {"none"}, level : Levels]]
      /\ topped' \in SUBSET Reports /\ topped \subseteq topped'
      /\ level = "PRINCIPAL" => i \in topped'
      /\ incident'[i].level = level /\ incident'[i].status = incident[i].status
      /\ \A j \in Reports : j # i => incident'[j] = incident[j]
  <2>1. incident[i].status \in Statuses \cup {"none"} /\ IncidentsTypeOK
    BY <1>1 DEF IInv, IncidentsTypeOK
  <2>2. SetLevel(i, level, incident[i].status)
    BY DEF DeliverRaise
  <2> HIDE DEF i, level
  <2> QED
    BY <1>1, <1>2, <2>1, <2>2, LevelSet
<1>4. delivery[d] # NoWork
  BY DEF DeliverRaise
<1>5. /\ delivery' \in [Deliveries -> DeliveryRecords \cup {NoWork}]
      /\ \A e \in Deliveries : e # d => delivery'[e] = delivery[e]
      /\ \/ level = "PRINCIPAL" /\ delivery'[d] = NoWork
         \/ /\ level # "PRINCIPAL" /\ delivery'[d].pc = "raised"
            /\ delivery'[d].task = delivery[d].task /\ delivery'[d].level = delivery[d].level
  <2>1. [delivery[d] EXCEPT !.pc = "raised"] \in DeliveryRecords
    BY <1>1 DEF DeliveryRecords
  <2> QED
    BY <1>1, <2>1 DEF IInv, IncidentsTypeOK, DeliverRaise, DeliveryRecords
<1> HIDE DEF i, level
<1>6. UNCHANGED <<reporting, tasks, operator, untasked, failures>>
  BY DEF DeliverRaise
<1>7. IncidentsTypeOK'
  BY <1>1, <1>3, <1>5, <1>6 DEF IInv, IncidentsTypeOK
<1>8. \A j \in Reports : Needs(j)' => Needs(j) /\ (j = i => level # "PRINCIPAL")
  BY <1>1, <1>3, <1>6 DEF Needs, Unattended, Tasked, IInv, IncidentsTypeOK
<1>9. \A e \in Deliveries : Busy(e)' => /\ Busy(e) /\ delivery'[e].task = delivery[e].task
                                         /\ delivery'[e].level = delivery[e].level
                                         /\ (e # d => delivery'[e] = delivery[e])
                                         /\ (e = d => delivery'[e].pc = "raised" /\ level # "PRINCIPAL")
  BY <1>4, <1>5 DEF Busy
<1>10. /\ \A t \in tasks : t.incident \in Reports
       /\ \A e \in Deliveries : Busy(e) => delivery[e].task.incident \in Reports
       /\ \A o \in Operators : operator[o] # NoWork => operator[o].incident \in Reports
  BY DEF IInv, IncidentsTypeOK, TaskRecords, DeliveryRecords, Busy
<1>11. TasksFollowReports'
  <2>1. \A j \in Reports : incident'[j].status = incident[j].status
    BY <1>3
  <2> QED
    BY <1>6, <1>9, <1>10, <2>1 DEF IInv, TasksFollowReports, Busy
<1>12. LevelsRise'
  <2>1. \A j \in Reports : incident[j].level # "COORDINATOR" => incident'[j].level # "COORDINATOR"
    BY <1>2, <1>3
  <2>2. delivery[d].task.incident = i
    BY DEF i
  <2>3. incident'[i].level # "COORDINATOR" /\ i \in Reports
    BY <1>1, <1>2, <1>3
  <2>4. \A t \in tasks' : TaskRises(t)'
    BY <1>6, <1>10, <2>1 DEF IInv, LevelsRise, TaskRises
  <2>5. \A o \in Operators : OperatorRises(o)'
    BY <1>6, <1>10, <2>1 DEF IInv, LevelsRise, OperatorRises
  <2>6. ASSUME NEW e \in Deliveries PROVE DeliveryRises(e)'
    <3>1. CASE e = d
      BY <1>2, <1>9, <2>2, <2>3, <3>1 DEF IInv, LevelsRise, DeliveryRises
    <3>2. CASE e # d
      BY <1>9, <1>10, <2>1, <3>2 DEF IInv, LevelsRise, DeliveryRises
    <3> QED
      BY <3>1, <3>2
  <2> QED
    BY <2>4, <2>5, <2>6 DEF LevelsRise
<1>13. TasksSucceed'
  <2>1. \A j \in Reports : incident'[j].level = "PRINCIPAL" => j \in topped'
    BY <1>3 DEF IInv, TasksSucceed
  <2>2. ASSUME NEW e \in Deliveries, Busy(e)', delivery'[e].pc = "enqueued",
               Needs(delivery[e].task.incident)'
        PROVE  \E t \in tasks' : /\ t.incident = delivery'[e].task.incident
                                  /\ t.from = "TRANSPORT_OFFICER"
    <3>1. /\ e # d /\ Busy(e) /\ delivery'[e] = delivery[e]
          /\ Needs(delivery[e].task.incident)
      BY <1>8, <1>9, <1>10, <2>2 DEF Busy, Needs, Unattended, Tasked
    <3> QED
      BY <1>6, <2>2, <3>1 DEF IInv, TasksSucceed
  <2> QED
    BY <2>1, <2>2 DEF TasksSucceed, Busy, Needs, Unattended, Tasked
<1>14. NeverForgotten'
  BY <1>6, <1>8 DEF IInv, NeverForgotten, Needs
<1> QED
  BY <1>7, <1>11, <1>12, <1>13, <1>14 DEF IInv

(* A delivery creates the next task. *)
LEMMA Continues ==
  ASSUME IInv, NEW d \in Deliveries, DeliverEnqueue(d)
  PROVE  IInv'
<1> DEFINE i == delivery[d].task.incident
<1>1. /\ delivery[d] \in DeliveryRecords /\ i \in Reports /\ Busy(d)
      /\ delivery[d].level = "COORDINATOR" /\ delivery[d].task.from = "COORDINATOR"
      /\ incident[i].level # "COORDINATOR" /\ reporting[i] = "done"
  BY DEF IInv, IncidentsTypeOK, LevelsRise, TaskRises, DeliveryRises, OperatorRises, TasksFollowReports, DeliverEnqueue, DeliveryRecords, TaskRecords, Busy
<1>2. NextLevel(delivery[d].level) = "TRANSPORT_OFFICER"
  BY <1>1 DEF NextLevel
<1>3. /\ tasks' \in SUBSET TaskRecords /\ untasked' \in SUBSET Reports
      /\ tasks \subseteq tasks' /\ untasked \subseteq untasked'
      /\ i \in untasked' \/ \E t \in tasks' : t.incident = i /\ t.from = "TRANSPORT_OFFICER"
      /\ \A t \in tasks' : t \notin tasks => t.incident = i /\ t.from = "TRANSPORT_OFFICER"
  BY <1>1, <1>2, Enqueued DEF IInv, DeliverEnqueue, Levels
<1>4. /\ delivery' \in [Deliveries -> DeliveryRecords \cup {NoWork}]
      /\ \A e \in Deliveries : e # d => delivery'[e] = delivery[e]
      /\ delivery'[d].pc = "enqueued" /\ delivery'[d].task = delivery[d].task
      /\ delivery'[d].level = delivery[d].level
  <2>1. [delivery[d] EXCEPT !.pc = "enqueued"] \in DeliveryRecords
    BY <1>1 DEF DeliveryRecords
  <2> QED
    BY <1>1, <2>1 DEF IInv, IncidentsTypeOK, DeliverEnqueue, DeliveryRecords
<1>5. i = delivery[d].task.incident
  OBVIOUS
<1> HIDE DEF i
<1>6. UNCHANGED <<incident, reporting, operator, topped, failures>>
  BY DEF DeliverEnqueue
<1>7. \A e \in Deliveries : /\ Busy(e)' => Busy(e)
                             /\ delivery'[e].task = delivery[e].task /\ delivery'[e].level = delivery[e].level
  BY <1>1, <1>4 DEF Busy
<1>8. \A j \in Reports : Needs(j)' => Needs(j)
  BY <1>3, <1>6 DEF Needs, Unattended, Tasked
<1>9. IncidentsTypeOK'
  BY <1>3, <1>4, <1>6 DEF IInv, IncidentsTypeOK
<1>10. TasksFollowReports'
  BY <1>1, <1>3, <1>6, <1>7 DEF IInv, TasksFollowReports
<1>11. LevelsRise'
  BY <1>1, <1>3, <1>4, <1>5, <1>6, <1>7 DEF IInv, LevelsRise, TaskRises, DeliveryRises, OperatorRises
<1>12. TasksSucceed'
  <2>1. \A e \in Deliveries : Busy(e) => delivery[e].task.incident \in Reports
    BY DEF IInv, IncidentsTypeOK, TaskRecords, DeliveryRecords, Busy
  <2>2. \A j \in Reports : incident'[j].level = "PRINCIPAL" => j \in topped'
    BY <1>6 DEF IInv, TasksSucceed
  <2>3. ASSUME NEW e \in Deliveries, Busy(e)', delivery'[e].pc = "enqueued",
               Needs(delivery[e].task.incident)'
        PROVE  \E t \in tasks' : /\ t.incident = delivery'[e].task.incident
                                  /\ t.from = "TRANSPORT_OFFICER"
    <3>1. CASE e = d
      BY <1>3, <1>4, <1>5, <2>3, <3>1 DEF Needs, Tasked
    <3>2. CASE e # d
      <4>1. Busy(e) /\ delivery'[e] = delivery[e] /\ Needs(delivery[e].task.incident)
        BY <1>4, <1>7, <1>8, <2>1, <2>3, <3>2 DEF Busy, Needs, Unattended, Tasked
      <4> QED
        BY <1>3, <2>3, <4>1 DEF IInv, TasksSucceed
    <3> QED
      BY <3>1, <3>2
  <2> QED
    BY <2>2, <2>3 DEF TasksSucceed, Busy, Needs, Unattended, Tasked
<1>13. NeverForgotten'
  BY <1>3, <1>6, <1>8 DEF IInv, NeverForgotten, Needs
<1> QED
  BY <1>9, <1>10, <1>11, <1>12, <1>13 DEF IInv

(* A delivery is acknowledged, or fails. *)
LEMMA Ends ==
  ASSUME IInv, NEW d \in Deliveries, DeliverAck(d) \/ DeliverFails(d)
  PROVE  IInv'
<1>1. /\ delivery' \in [Deliveries -> DeliveryRecords \cup {NoWork}]
      /\ \A e \in Deliveries : Busy(e)' => Busy(e) /\ delivery'[e] = delivery[e]
      /\ failures' \in 0..MaxFailures
      /\ UNCHANGED <<incident, reporting, operator, topped, untasked>>
      /\ tasks' \subseteq tasks
  BY IncidentsConstants DEF IInv, IncidentsTypeOK, DeliverAck, DeliverFails, Busy
<1>2. \A t \in tasks : t \notin tasks' =>
        /\ t = delivery[d].task /\ t.from = "COORDINATOR"
        /\ Busy(d) /\ delivery[d].pc = "enqueued"
  BY DEF IInv, LevelsRise, TaskRises, DeliveryRises, OperatorRises, DeliverAck, DeliverFails, Busy
<1>3. IncidentsTypeOK'
  BY <1>1 DEF IInv, IncidentsTypeOK
<1>4. TasksFollowReports' /\ LevelsRise'
  BY <1>1 DEF IInv, TasksFollowReports, LevelsRise, TaskRises, DeliveryRises, OperatorRises
<1>5. \A j : Needs(j)' <=> Needs(j)
  BY <1>1 DEF Needs, Unattended, Tasked
<1>6. TasksSucceed'
  BY <1>1, <1>2, <1>5 DEF IInv, TasksSucceed
<1>7. NeverForgotten'
  <2> SUFFICES ASSUME NEW i \in Reports, Needs(i) PROVE \E t \in tasks' : t.incident = i
    BY <1>5 DEF NeverForgotten, Needs
  <2>1. PICK t \in tasks : t.incident = i
    BY DEF IInv, NeverForgotten, Needs
  <2>2. CASE t \in tasks'
    BY <2>1, <2>2
  <2>3. CASE t \notin tasks'
    <3>1. PICK u \in tasks : u.incident = i /\ u.from = "TRANSPORT_OFFICER"
      BY <1>2, <2>1, <2>3 DEF IInv, TasksSucceed
    <3> QED
      BY <1>2, <3>1
  <2> QED
    BY <2>2, <2>3
<1> QED
  BY <1>3, <1>4, <1>6, <1>7 DEF IInv

(* An operator escalates. *)
LEMMA Escalates ==
  ASSUME IInv, NEW o \in Operators, OperatorEscalate(o)
  PROVE  IInv'
<1> DEFINE i == operator[o].incident
           level == NextLevel(operator[o].level)
<1>1. i \in Reports /\ operator[o].level \in Levels
  BY DEF IInv, IncidentsTypeOK, OperatorEscalate
<1>2. level \in {"TRANSPORT_OFFICER", "PRINCIPAL"} /\ level \in Levels
  BY <1>1 DEF NextLevel, Levels
<1>3. /\ incident' \in [Reports -> [status : Statuses \cup {"none"}, level : Levels]]
      /\ topped' \in SUBSET Reports /\ topped \subseteq topped'
      /\ level = "PRINCIPAL" => i \in topped'
      /\ incident'[i].level = level /\ incident'[i].status = "ASSIGNED"
      /\ \A j \in Reports : j # i => incident'[j] = incident[j]
  <2>1. SetLevel(i, level, "ASSIGNED") /\ IncidentsTypeOK
    BY DEF OperatorEscalate, IInv
  <2> HIDE DEF i, level
  <2> QED
    BY <1>1, <1>2, <2>1, LevelSet DEF Statuses
<1>4. /\ operator' \in [Operators -> [incident : Reports, level : Levels] \cup {NoWork}]
      /\ \A q \in Operators : operator'[q] # NoWork => operator'[q] = operator[q]
      /\ UNCHANGED <<reporting, tasks, delivery, untasked, failures>>
  BY DEF IInv, IncidentsTypeOK, OperatorEscalate
<1>5. incident[i].status # "none"
  BY DEF IInv, TasksFollowReports, OperatorEscalate
<1> HIDE DEF i, level
<1>6. IncidentsTypeOK'
  BY <1>1, <1>3, <1>4, <1>5 DEF IInv, IncidentsTypeOK, Statuses
<1>7. \A j \in Reports : Needs(j)' => Needs(j) /\ j # i
  BY <1>1, <1>3, <1>4 DEF Needs, Unattended, Tasked
<1>8. \A j \in Reports : /\ (incident[j].level # "COORDINATOR" => incident'[j].level # "COORDINATOR")
                          /\ (incident[j].status # "none" => incident'[j].status # "none")
  BY <1>2, <1>3
<1>9. /\ \A t \in tasks : t.incident \in Reports
      /\ \A e \in Deliveries : Busy(e) => delivery[e].task.incident \in Reports
      /\ \A q \in Operators : operator[q] # NoWork => operator[q].incident \in Reports
  BY DEF IInv, IncidentsTypeOK, TaskRecords, DeliveryRecords, Busy
<1>10. TasksFollowReports' /\ LevelsRise'
  <2>1. TasksFollowReports'
    BY <1>4, <1>8, <1>9 DEF IInv, TasksFollowReports, Busy
  <2>2. \A t \in tasks' : TaskRises(t)'
    BY <1>4, <1>8, <1>9 DEF IInv, LevelsRise, TaskRises
  <2>3. \A q \in Operators : OperatorRises(q)'
    BY <1>4, <1>8, <1>9 DEF IInv, LevelsRise, OperatorRises
  <2>4. \A d \in Deliveries : DeliveryRises(d)'
    BY <1>4, <1>8, <1>9 DEF IInv, LevelsRise, DeliveryRises, Busy
  <2> QED
    BY <2>1, <2>2, <2>3, <2>4 DEF LevelsRise
<1>11. TasksSucceed'
  BY <1>3, <1>4, <1>7, <1>9 DEF IInv, TasksSucceed, Busy
<1>12. NeverForgotten'
  BY <1>4, <1>7 DEF IInv, NeverForgotten, Needs
<1> QED
  BY <1>6, <1>10, <1>11, <1>12 DEF IInv

LEMMA Inductive == IInv /\ [IncidentsNext]_incidentsVars => IInv'
<1> SUFFICES ASSUME IInv, [IncidentsNext]_incidentsVars PROVE IInv'
  OBVIOUS
<1>1. CASE UNCHANGED incidentsVars
  BY <1>1 DEF IInv, incidentsVars, IncidentsTypeOK, TasksFollowReports, LevelsRise, TaskRises, DeliveryRises, OperatorRises, TasksSucceed,
     NeverForgotten, Busy, Needs, Unattended, Tasked
<1>2. ASSUME NEW i \in Reports, ResolveIncident(i) \/ AssignSubstitute(i) PROVE IInv'
  BY <1>2, Attended DEF ResolveIncident, AssignSubstitute
<1> QED
  BY <1>1, <1>2, Reported, Enqueues, Reads, Starts, Raises, Continues, Ends, Escalates DEF IncidentsNext

LEMMA Invariant == IncidentsSpec => []IInv
  BY Started, Inductive, PTL DEF IncidentsSpec

(* The types of incidents, tasks, deliveries and requests are invariant. *)
THEOREM TypeCorrect == IncidentsSpec => []IncidentsTypeOK
<1>1. IInv => IncidentsTypeOK
  BY DEF IInv
<1> QED
  BY <1>1, Invariant, PTL

(* However deliveries and operators overlap, die and are repeated, an incident  *)
(* that nobody attended keeps a task (incidents.service.ts:83-165).           *)
THEOREM Remembered == IncidentsSpec => []NeverForgotten
<1>1. IInv => NeverForgotten
  BY DEF IInv
<1> QED
  BY <1>1, Invariant, PTL

(* No stale delivery or request passes the transport officers over             *)
(* (incidents.service.ts:151, admin.service.ts:1672-1683).                    *)
THEOREM InOrder == IncidentsSpec => OfficersFirst
<1> DEFINE step == \A i \in Reports : incident[i].level = "COORDINATOR" => incident'[i].level # "PRINCIPAL"
<1>1. ASSUME IInv, [IncidentsNext]_incidentsVars PROVE step \/ UNCHANGED incidentsVars
  <2> SUFFICES ASSUME NEW j \in Reports, incident[j].level = "COORDINATOR",
                      incident'[j].level = "PRINCIPAL", IncidentsNext PROVE FALSE
    BY <1>1
  <2>1. incident'[j].level # incident[j].level
    OBVIOUS
  <2>2. ASSUME NEW i \in Reports, ReportCreate(i) \/ ResolveIncident(i) \/ AssignSubstitute(i) PROVE FALSE
    BY <1>1, <2>1, <2>2 DEF IInv, IncidentsTypeOK, ReportCreate, ResolveIncident, AssignSubstitute, Attend
  <2>3. ASSUME NEW d \in Deliveries, DeliverRaise(d) PROVE FALSE
    BY <1>1, <2>3 DEF IInv, IncidentsTypeOK, LevelsRise, TaskRises, DeliveryRises, OperatorRises, DeliverRaise, SetLevel, NextLevel, Busy,
       DeliveryRecords, TaskRecords
  <2>4. ASSUME NEW o \in Operators, OperatorEscalate(o) PROVE FALSE
    BY <1>1, <2>4 DEF IInv, IncidentsTypeOK, LevelsRise, TaskRises, DeliveryRises, OperatorRises, OperatorEscalate, SetLevel, NextLevel
  <2>5. ~UNCHANGED incident
    BY <2>1
  <2> QED
    BY <2>2, <2>3, <2>4, <2>5 DEF IncidentsNext, ReportFails, ReportEnqueue, OperatorRead, DeliverVoid,
       DeliverRead, DeliverEnqueue, DeliverAck, DeliverFails
<1>2. IInv /\ [IncidentsNext]_incidentsVars => [step]_incidentsVars
  BY <1>1
<1> HIDE DEF step
<1>3. IncidentsSpec => [][step]_incidentsVars
  BY <1>2, Invariant, PTL DEF IncidentsSpec
<1> QED
  BY <1>3 DEF OfficersFirst, step

-----------------------------------------------------------------------------
(* Notifications.  A notification has a job from the moment Redis took it,   *)
(* and a row exactly if its dispatch said so; a job has been through the      *)
(* channels before the next one, and ends only when these or its chances are  *)
(* used up.                                                                 *)
Placed(s) ==
  /\ sending[s] \in {"idle", "alerting", "recording", "adding", "inFlight", "dropped", "thrown"}
       => job[s].state = "none"
  /\ sending[s] \in {"replying", "enqueued"} => job[s].state # "none"
  /\ s \in drops <=> sending[s] = "dropped"
  /\ sending[s] \in {"recording", "dropped"} => s \notin CriticalSenders

Served(j) ==
  /\ j.next # "IN_APP" => "IN_APP" \in j.told
  /\ j.next = "SMS" => "PUSH" \in j.told \cup j.unheard
  /\ j.state = "completed" => "IN_APP" \in j.told /\ j.told \cup j.unheard = Channels
  /\ j.state = "failed" => j.failed = Attempts \/ j.stalled = 2
  /\ j.state # "failed" => j.failed < Attempts /\ j.stalled < 2

TellInv ==
  /\ NotificationsTypes
  /\ \A s \in Senders : Placed(s)
  /\ \A s \in Senders : Served(job[s])

Jobs == [state : Queued \cup Ended, failed : 0..Attempts, stalled : 0..2,
         told : SUBSET Channels, unheard : SUBSET Channels, next : Channels]

LEMMA Altered ==
  ASSUME NEW j \in Jobs, NEW state \in Queued \cup Ended, NEW told \in SUBSET Channels,
         NEW unheard \in SUBSET Channels, NEW next \in Channels
  PROVE  /\ [j EXCEPT !.state = state] \in Jobs
         /\ [j EXCEPT !.state = state, !.next = next] \in Jobs
         /\ [j EXCEPT !.told = told, !.unheard = unheard, !.next = next, !.state = state] \in Jobs
BY DEF Jobs

(* A worker's step on one job.                                                *)
LEMMA JobChanges ==
  ASSUME TellInv, NEW s \in Senders, job[s].state \in Queued,
         NEW rec \in Jobs, job' = [job EXCEPT ![s] = rec], rec.state # "none", Served(rec),
         UNCHANGED <<sending, drops, breaker>>, mishaps' \in 0..MaxMishaps
  PROVE  TellInv'
<1> USE DEF TellInv, NotificationsTypes
<1>1. job'[s] = rec /\ \A t \in Senders : t # s => job'[t] = job[t]
  OBVIOUS
<1>2. job' \in [Senders -> Jobs]
  BY DEF Jobs
<1>3. \A t \in Senders : Placed(t)'
  BY <1>1 DEF Placed, Queued
<1>4. \A t \in Senders : Served(job[t])'
  BY <1>1 DEF Served
<1> QED
  BY <1>2, <1>3, <1>4 DEF Jobs

LEMMA TellInvInit == NotificationsInit => TellInv
BY NotificationsConstants DEF NotificationsInit, TellInv, NotificationsTypes, Placed, Served, NoJob,
   ClosedBreaker, Places, Answers, Queued, Ended, Channels

LEMMA TellInvStep == TellInv /\ [NotificationsNext]_notificationsVars => TellInv'
<1> SUFFICES ASSUME TellInv, [NotificationsNext]_notificationsVars PROVE TellInv'
  OBVIOUS
<1> USE NotificationsConstants DEF TellInv, NotificationsTypes, Placed, Served, Places, Answers,
        Queued, Ended, Goes, Mishap
<1>1. ASSUME NEW s \in Senders, Dispatch(s) PROVE TellInv'
  <2>1. PICK n \in 0..Others :
          sending' = [sending EXCEPT ![s] = AfterDepth(s, Depth + n)]
    BY <1>1 DEF Dispatch
  <2>2. /\ AfterDepth(s, Depth + n) \in {"alerting", "recording", "adding"}
        /\ AfterDepth(s, Depth + n) = "recording" => s \notin CriticalSenders
    BY DEF AfterDepth, Spared
  <2> QED
    BY <1>1, <2>1, <2>2 DEF Dispatch, NoJob, Channels
<1>2. ASSUME NEW s \in Senders, Alert(s) \/ RecordDrop(s) \/ Throws(s) PROVE TellInv'
  BY <1>2 DEF Alert, RecordDrop, Throws
<1>3. ASSUME NEW s \in Senders, Refuse(s) \/ StartAdd(s) \/ Added(s) PROVE TellInv'
  BY <1>3 DEF Refuse, StartAdd, Added, Fallback
<1>4. ASSUME NEW s \in Senders, AddSucceeds(s) PROVE TellInv'
  BY <1>4 DEF AddSucceeds, ClosedBreaker
<1>5. ASSUME NEW s \in Senders, AddFails(s) PROVE TellInv'
  <2>1. breaker' \in [state : {"closed", "open", "half_open"}, failures : 0..Threshold, cooled : BOOLEAN]
    <3>1. CASE breaker.failures + 1 >= Threshold
      BY <1>5, <3>1 DEF AddFails
    <3>2. CASE ~(breaker.failures + 1 >= Threshold)
      <4>1. breaker' = [state |-> breaker.state, failures |-> breaker.failures + 1, cooled |-> breaker.cooled]
        BY <1>5, <3>2 DEF AddFails
      <4> QED
        BY <3>2, <4>1
    <3> QED
      BY <3>1, <3>2
  <2> QED
    BY <1>5, <2>1 DEF AddFails, Fallback
<1>6. ASSUME NEW s \in Senders, Take(s) \/ BackoffEnds(s) PROVE TellInv'
  <2>1. CASE Take(s)
    <3>1. job' = [job EXCEPT ![s] = [job[s] EXCEPT !.state = "active", !.next = "IN_APP"]]
      BY <2>1 DEF Take
    <3>2. [job[s] EXCEPT !.state = "active", !.next = "IN_APP"] \in Jobs
      <4>1. job[s] \in Jobs /\ "IN_APP" \in Channels /\ "active" \in Queued \cup Ended
        BY DEF Jobs, Channels
      <4>2. job[s].told \in SUBSET Channels /\ job[s].unheard \in SUBSET Channels
        BY <4>1 DEF Jobs
      <4> QED
        BY <4>1, <4>2, Altered
    <3> QED
      BY <2>1, <3>1, <3>2, JobChanges DEF Take
  <2>2. CASE BackoffEnds(s)
    <3>1. job' = [job EXCEPT ![s] = [job[s] EXCEPT !.state = "waiting"]]
      BY <2>2 DEF BackoffEnds
    <3>2. [job[s] EXCEPT !.state = "waiting"] \in Jobs
      BY DEF Jobs
    <3> QED
      BY <2>2, <3>1, <3>2, JobChanges DEF BackoffEnds
  <2> QED
    BY <1>6, <2>1, <2>2
<1>7. ASSUME NEW s \in Senders, Serve(s) \/ Unheard(s) PROVE TellInv'
  <2>1. PICK told \in SUBSET Channels, unheard \in SUBSET Channels :
          /\ Passes(s, told, unheard) /\ told \cup unheard = {job[s].next}
          /\ job[s].next = "IN_APP" => "IN_APP" \in told
    <3>1. CASE Serve(s)
      <4>1. {job[s].next} \in SUBSET Channels /\ {} \in SUBSET Channels
        OBVIOUS
      <4>2. Passes(s, {job[s].next}, {})
        BY <3>1 DEF Serve
      <4> QED
        BY <4>1, <4>2
    <3>2. CASE Unheard(s)
      <4>1. {job[s].next} \in SUBSET Channels /\ {} \in SUBSET Channels
        OBVIOUS
      <4>2. Passes(s, {}, {job[s].next}) /\ job[s].next # "IN_APP"
        BY <3>2 DEF Unheard
      <4>3. {} \cup {job[s].next} = {job[s].next}
        OBVIOUS
      <4> HIDE DEF TellInv
      <4> QED
        BY <4>1, <4>2, <4>3
    <3> QED
      BY <1>7, <3>1, <3>2
  <2> DEFINE passed == [job[s] EXCEPT !.told = job[s].told \cup told,
                                      !.unheard = job[s].unheard \cup unheard,
                                      !.next = NextChannel(job[s].next),
                                      !.state = IF job[s].next = "SMS" THEN "completed" ELSE job[s].state]
  <2>2. /\ job' = [job EXCEPT ![s] = passed] /\ job[s].state = "active"
        /\ UNCHANGED <<sending, drops, breaker>>
    BY <2>1 DEF Passes
  <2>3. mishaps' \in 0..MaxMishaps
    BY <1>7 DEF Serve, Unheard
  <2>4. passed \in Jobs /\ passed.state \in {"active", "completed"} /\ Served(passed)
    <3>1. /\ passed.state = (IF job[s].next = "SMS" THEN "completed" ELSE "active")
          /\ passed.failed = job[s].failed /\ passed.stalled = job[s].stalled
          /\ passed.told = job[s].told \cup told /\ passed.unheard = job[s].unheard \cup unheard
          /\ passed.next = (IF job[s].next = "IN_APP" THEN "PUSH" ELSE "SMS")
      BY <2>2 DEF NextChannel
    <3>2. passed \in Jobs
      <4>1. /\ (IF job[s].next = "SMS" THEN "completed" ELSE job[s].state) \in Queued \cup Ended
            /\ NextChannel(job[s].next) \in Channels
            /\ job[s].told \cup told \in SUBSET Channels /\ job[s].unheard \cup unheard \in SUBSET Channels
        BY <2>1 DEF NextChannel, Channels
      <4>2. job[s] \in Jobs
        BY DEF Jobs
      <4> HIDE DEF TellInv
      <4> QED
        BY <4>1, <4>2, Altered
    <3>3. job[s].next \in {"IN_APP", "PUSH", "SMS"} /\ Served(job[s])
      BY DEF Channels
    <3>4. "IN_APP" \in passed.told
      BY <2>1, <3>1, <3>3
    <3>5. passed.next = "SMS" => "PUSH" \in passed.told \cup passed.unheard
      BY <2>1, <3>1, <3>3
    <3>6. passed.state = "completed" => passed.told \cup passed.unheard = Channels
      BY <2>1, <3>1, <3>3 DEF Channels
    <3> HIDE DEF passed
    <3> QED
      BY <2>2, <3>1, <3>2, <3>3, <3>4, <3>5, <3>6
  <2> HIDE DEF passed
  <2> QED
    BY <2>2, <2>3, <2>4, JobChanges
<1>8. ASSUME NEW s \in Senders, AttemptFails(s) \/ Stalled(s) PROVE TellInv'
  <2> DEFINE failing == IF job[s].failed + 1 < Attempts THEN "delayed" ELSE "failed"
             stalling == IF job[s].stalled = 0 THEN "waiting" ELSE "failed"
  <2>1. CASE AttemptFails(s)
    <3>1. job' = [job EXCEPT ![s] = [job[s] EXCEPT !.failed = job[s].failed + 1, !.state = failing]]
      BY <2>1 DEF AttemptFails
    <3>2. job[s].failed + 1 \in 0..Attempts /\ (failing = "failed" => job[s].failed + 1 = Attempts)
      BY <2>1 DEF AttemptFails
    <3> QED
      BY <2>1, <3>1, <3>2 DEF AttemptFails
  <2>2. CASE Stalled(s)
    <3>1. job' = [job EXCEPT ![s] = [job[s] EXCEPT !.stalled = job[s].stalled + 1, !.state = stalling]]
      BY <2>2 DEF Stalled
    <3>2. job[s].stalled + 1 \in 0..2 /\ (stalling = "failed" => job[s].stalled + 1 = 2)
      BY <2>2 DEF Stalled
    <3> QED
      BY <2>2, <3>1, <3>2 DEF Stalled
  <2> QED
    BY <1>8, <2>1, <2>2
<1>9. ASSUME CoolDown PROVE TellInv'
  BY <1>9 DEF CoolDown, IsOpen
<1>10. ASSUME Dies PROVE TellInv'
  BY <1>10 DEF Dies, ClosedBreaker
<1>11. ASSUME UNCHANGED notificationsVars PROVE TellInv'
  BY <1>11 DEF notificationsVars
<1> QED
  BY <1>1, <1>2, <1>3, <1>4, <1>5, <1>6, <1>7, <1>8, <1>9, <1>10, <1>11
     DEF NotificationsNext, SenderStep, JobStep

THEOREM TellInvariant == NotificationsSpec => []TellInv
BY TellInvInit, TellInvStep, PTL DEF NotificationsSpec

(* The types of dispatches, jobs and breaker are invariant, for any senders   *)
(* (queue.ts:145-216, redis-circuit.ts:8-49).                                *)
THEOREM NotificationTypes == NotificationsSpec => []NotificationsTypes
BY TellInvariant, PTL DEF TellInv

(* A notification whose dispatch was answered is in the queue, was told on    *)
(* every channel whose refusal is not swallowed, was given up after all its  *)
(* chances, or has a row                                                    *)
(* (queue.ts:164-216, notification.worker.ts:218-315).                       *)
THEOREM Accounted == NotificationsSpec => []NothingVanishes
<1>1. TellInv => NothingVanishes
  BY DEF TellInv, NotificationsTypes, Placed, Served, NothingVanishes, Queued, Ended
<1> QED
  BY <1>1, TellInvariant, PTL

(* The breaker: a call in flight makes of a breaker that is being tried a closed *)
(* or an open one, and so does every other call that ends meanwhile.           *)
LEMMA BreakerStep ==
  ASSUME NotificationsTypes, BreakerIsTried, [NotificationsNext]_notificationsVars
  PROVE  BreakerIsTried'
<1> USE NotificationsConstants DEF BreakerIsTried, NotificationsTypes
<1> DEFINE Trying(s) == sending[s] \in {"inFlight", "replying"}
<1>1. ASSUME breaker' = breaker, \A s \in Senders : Trying(s) => Trying(s)' PROVE BreakerIsTried'
  BY <1>1
<1>2. ASSUME NEW s \in Senders, Dispatch(s) \/ Alert(s) \/ RecordDrop(s) \/ Throws(s) \/ Refuse(s) \/ Added(s)
      PROVE  BreakerIsTried'
  <2>1. /\ breaker' = breaker
        /\ \/ sending[s] \in Answers \cup {"idle", "alerting", "recording", "adding"}
           \/ sending'[s] = "replying"
        /\ \A t \in Senders : t # s => sending'[t] = sending[t]
    BY <1>2 DEF Dispatch, Alert, RecordDrop, Throws, Refuse, Added, Goes
  <2>2. \A t \in Senders : Trying(t) => Trying(t)'
    BY <2>1 DEF Answers
  <2> QED
    BY <1>1, <2>1, <2>2
<1>3. ASSUME NEW s \in Senders, StartAdd(s) PROVE BreakerIsTried'
  <2>1. /\ sending'[s] = "inFlight"
        /\ breaker' = [breaker EXCEPT !.state = IF breaker.state = "open" THEN "half_open" ELSE breaker.state]
    BY <1>3 DEF StartAdd, Goes
  <2>2. /\ breaker'.state = (IF breaker.state = "open" THEN "half_open" ELSE breaker.state)
        /\ breaker'.failures = breaker.failures /\ breaker'.cooled = breaker.cooled
    BY <2>1
  <2> QED
    BY <2>1, <2>2
<1>4. ASSUME breaker' = ClosedBreaker PROVE BreakerIsTried'
  BY <1>4 DEF ClosedBreaker
<1>5. ASSUME NEW s \in Senders, AddSucceeds(s) PROVE BreakerIsTried'
  BY <1>4, <1>5 DEF AddSucceeds
<1>6. ASSUME NEW s \in Senders, AddFails(s) PROVE BreakerIsTried'
  <2>1. CASE breaker.failures + 1 >= Threshold
    <3>1. breaker' = [state |-> "open", failures |-> Threshold, cooled |-> FALSE]
      BY <1>6, <2>1 DEF AddFails
    <3> QED
      BY <3>1
  <2>2. CASE ~(breaker.failures + 1 >= Threshold)
    <3>1. breaker' = [breaker EXCEPT !.failures = breaker.failures + 1]
      BY <1>6, <2>2 DEF AddFails
    <3>2. breaker.state = "closed" /\ ~breaker.cooled
      BY <2>2
    <3>3. breaker'.state = "closed" /\ breaker'.failures = breaker.failures + 1 /\ ~breaker'.cooled
      BY <3>1, <3>2
    <3> QED
      BY <2>2, <3>3
  <2> QED
    BY <2>1, <2>2
<1>7. CASE CoolDown
  <2>1. /\ breaker'.state = "open" /\ breaker.state = "open" /\ breaker'.failures = breaker.failures
        /\ sending' = sending
    BY <1>7 DEF CoolDown, IsOpen
  <2> QED
    BY <2>1
<1>8. CASE Dies
  BY <1>4, <1>8 DEF Dies
<1>9. ASSUME NEW s \in Senders, JobStep(s) \/ Unheard(s) \/ AttemptFails(s) PROVE BreakerIsTried'
  BY <1>1, <1>9 DEF JobStep, Take, Serve, Unheard, Passes, BackoffEnds, Stalled, AttemptFails
<1>10. CASE UNCHANGED notificationsVars
  BY <1>1, <1>10 DEF notificationsVars
<1> QED
  BY <1>2, <1>3, <1>5, <1>6, <1>7, <1>8, <1>9, <1>10 DEF NotificationsNext, SenderStep

(* For any senders, thresholds and mishaps: a breaker that is being tried has a  *)
(* call whose outcome will close or open it.                                  *)
THEOREM Tried == NotificationsSpec => []BreakerIsTried
<1>1. NotificationsInit => BreakerIsTried
  BY NotificationsConstants DEF NotificationsInit, BreakerIsTried, ClosedBreaker
<1> QED
  BY <1>1, BreakerStep, NotificationTypes, PTL DEF NotificationsSpec
=============================================================================
