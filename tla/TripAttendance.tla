--------------------------- MODULE TripAttendance ---------------------------
(***************************************************************************)
(* The attendance of one trip: every handler that writes the trip's        *)
(* attendance_logs rows or its boardedCount, cut at its awaits.            *)
(*                                                                         *)
(*   modules/attendance/attendance.service.ts   checkIn, coordinator       *)
(*                                              override                   *)
(*   modules/trips/trips.{service,repository}.ts  startTrip, manualMark,   *)
(*                                              endTrip                     *)
(*   modules/trips/delegate.service.ts          sets gpsOutageStart        *)
(*   jobs/mark-absent.job.ts, jobs/gps-outage-absent.job.ts                *)
(*                                                                         *)
(* A step is one Redis command, one SQL statement or one $transaction; the *)
(* handlers interleave between them.  A crash, a rejected promise and an   *)
(* early throw are the same thing to the rows: the rest of the handler is  *)
(* not run (the ...Abort actions).                                         *)
(***************************************************************************)
EXTENDS Naturals, FiniteSets

CONSTANTS
  Students,     \* students assigned to the trip's route
  Nonces,       \* nonces of the QR tokens the kiosk shows during the trip
  Scanners,     \* concurrent POST /attendance/checkin handlers
  Markers,      \* concurrent POST /trips/:id/mark handlers
  Enders,       \* concurrent POST /trips/:id/end handlers
  EventActors,  \* actor ids outside users that attendance_events.actorId accepts
  MaxStarts,    \* bound: POST /trips/:id/start handlers in flight at once
  MaxBoarded,   \* bound: boardings counted in one trip
  MaxCrashes    \* bound: job deliveries that die half way

ASSUME StudentsFinite == IsFiniteSet(Students)
ASSUME BoundsNat == MaxStarts \in Nat /\ MaxBoarded \in Nat /\ MaxCrashes \in Nat
(* event_actor_fk references users(id); neither 'system' nor an admin id is  *)
(* a row of users unless a deployment adds one.                             *)
ASSUME ActorsKnown == EventActors \subseteq {"system", "admin"}

VARIABLES
  trip,      \* the trips row: status, boardedCount, gpsOutageStart set or not
  log,       \* attendance_logs, keyed by (userId, tripId)
  lastEvent, \* newStatus of the student's latest attendance_events row
  nonce,     \* qr:nonce:{n}
  scan, mark, override, ender, delegate,  \* handlers in flight
  starting,  \* how many startTrip handlers have read SCHEDULED and not updated yet
  tasks,     \* Cloud Tasks: the task each endTrip created, "none" once acknowledged
  job,       \* the delivery in progress of each of these tasks
  crashes,   \* job deliveries that have died half way
  admitted,  \* history: check-ins committed with each nonce
  boarders,  \* history: students a commit has ever shown on board
  unaudited, \* history: students whose event was lost after the commit
  taskLost,  \* history: an endTrip died between its update and createTask
  reopened   \* history: a late start made a COMPLETED trip ACTIVE again

rowVars  == <<trip, log, lastEvent>>
jobVars  == <<tasks, job, crashes>>
histVars == <<admitted, boarders, unaudited, taskLost, reopened>>
vars == <<rowVars, nonce, scan, mark, override, ender, delegate, starting, jobVars, histVars>>

Present  == {"PRESENT", "LATE_BOARD"}
OnBoard  == Present \cup {"MANUAL"}
Statuses == OnBoard \cup {"PENDING", "ABSENT"}
Methods  == {"QR_SCAN", "MANUAL_DRIVER", "MANUAL_ADMIN", "SYSTEM_AUTO"}
Fences   == Present \cup {"FAIL"}
NoLog    == [status |-> "NONE", method |-> "NONE"]
Logs     == [status : Statuses, method : Methods] \cup {NoLog}
Idle     == [pc |-> "idle"]

Scans     ==      [pc : {"burn", "validate", "existing"}, student : Students, nonce : Nonces]
             \cup [pc : {"write"}, student : Students, nonce : Nonces, fence : Fences]
             \cup [pc : {"event"}, student : Students, nonce : Nonces, fence : Present]
Marks     == [pc : {"write", "event"}, student : Students]
Overrides == [pc : {"write", "events"}, targets : SUBSET Students]
Jobs      == [pc : {"deferred", "update", "select"}] \cup [pc : {"events", "finalise"}, targets : SUBSET Students]
TaskKinds == {"mark-absent", "gps-outage-absent"}

TypeOK ==
  /\ trip \in [status : {"SCHEDULED", "ACTIVE", "COMPLETED"}, boarded : 0..MaxBoarded, outage : BOOLEAN]
  /\ log \in [Students -> Logs]
  /\ lastEvent \in [Students -> Statuses \cup {"NONE"}]
  /\ nonce \in [Nonces -> {"unissued", "live", "gone"}]
  /\ scan \in [Scanners -> Scans \cup {Idle}]
  /\ mark \in [Markers -> Marks \cup {Idle}]
  /\ override \in Overrides \cup {Idle}
  /\ ender \in [Enders -> {"idle", "update"} \cup TaskKinds]
  /\ delegate \in {"idle", "activating", "done"}
  /\ starting \in 0..MaxStarts
  /\ tasks \in [Enders -> TaskKinds \cup {"none"}]
  /\ job \in [Enders -> Jobs \cup {Idle}]
  /\ crashes \in 0..MaxCrashes
  /\ admitted \in [Nonces -> Nat]
  /\ boarders \subseteq Students
  /\ unaudited \subseteq Students
  /\ taskLost \in BOOLEAN
  /\ reopened \in BOOLEAN

(* The trip as the daily job creates it: SCHEDULED, nobody on board, no log  *)
(* rows (nothing creates PENDING rows, then or when the trip starts).        *)
Init ==
  /\ trip = [status |-> "SCHEDULED", boarded |-> 0, outage |-> FALSE]
  /\ log = [s \in Students |-> NoLog]
  /\ lastEvent = [s \in Students |-> "NONE"]
  /\ nonce = [n \in Nonces |-> "unissued"]
  /\ scan = [r \in Scanners |-> Idle]
  /\ mark = [m \in Markers |-> Idle]
  /\ override = Idle
  /\ ender = [e \in Enders |-> "idle"]
  /\ delegate = "idle"
  /\ starting = 0
  /\ tasks = [e \in Enders |-> "none"]
  /\ job = [e \in Enders |-> Idle]
  /\ crashes = 0
  /\ admitted = [n \in Nonces |-> 0]
  /\ boarders = {}
  /\ unaudited = {}
  /\ taskLost = FALSE
  /\ reopened = FALSE

-----------------------------------------------------------------------------
(* Row writes shared by the handlers                                        *)

PendingLogs == {s \in Students : log[s].status = "PENDING"}

(* Mutants of the WHERE: no status filter; ABSENT counted again; only logs   *)
(* of a scan.                                                               *)
LosesStatusFilter == {s \in Students : log[s] # NoLog}
CountsAbsentAgain == {s \in Students : log[s].status \in {"PENDING", "ABSENT"}}
OnlyScannedLogs   == {s \in PendingLogs : log[s].method = "QR_SCAN"}

(* The WHERE of mark-absent's updateMany. *)
ToMarkAbsent == PendingLogs

(* attendanceLog.upsert of a geofence failure: the method of an existing     *)
(* row is left alone.                                                       *)
FailedAttempt(old) ==
  [status |-> "PENDING", method |-> IF old = NoLog THEN "SYSTEM_AUTO" ELSE old.method]

(* Mutant: the log is written without the boardedCount half of the tx. *)
BoardUncounted(s, status, method) ==
  /\ log' = [log EXCEPT ![s] = [status |-> status, method |-> method]]
  /\ boarders' = boarders \cup {s}
  /\ UNCHANGED trip

(* $transaction [upsert the log, boardedCount + 1].                         *)
Board(s, status, method) ==
  /\ trip.boarded < MaxBoarded
  /\ log' = [log EXCEPT ![s] = [status |-> status, method |-> method]]
  /\ trip' = [trip EXCEPT !.boarded = @ + 1]
  /\ boarders' = boarders \cup {s}

-----------------------------------------------------------------------------
(* QR nonces: generateToken stores one per token; Redis expires it.         *)

IssueNonce(n) ==
  /\ nonce[n] = "unissued"
  /\ nonce' = [nonce EXCEPT ![n] = "live"]
  /\ UNCHANGED <<rowVars, scan, mark, override, ender, delegate, starting, jobVars, histVars>>

ExpireNonce(n) ==
  /\ nonce[n] = "live"
  /\ nonce' = [nonce EXCEPT ![n] = "gone"]
  /\ UNCHANGED <<rowVars, scan, mark, override, ender, delegate, starting, jobVars, histVars>>

-----------------------------------------------------------------------------
(* checkIn                                                                  *)

(* A request with a token shown at some time: fresh, used or expired, from   *)
(* this student or a friend, first try, retry or offline replay.            *)
ScanStart(r, s, n) ==
  /\ scan[r] = Idle
  /\ nonce[n] # "unissued"
  /\ scan' = [scan EXCEPT ![r] = [pc |-> "burn", student |-> s, nonce |-> n]]
  /\ UNCHANGED <<rowVars, nonce, mark, override, ender, delegate, starting, jobVars, histVars>>

(* Mutant: GET now, DEL later - the nonce survives the step that admits. *)
GetWithoutDel(n) == UNCHANGED nonce

(* GETDEL: the value is read and the key deleted in one command.            *)
GetDel(n) == nonce' = [nonce EXCEPT ![n] = "gone"]

ScanBurn(r) ==
  /\ scan[r].pc = "burn"
  /\ nonce[scan[r].nonce] = "live"
  /\ GetDel(scan[r].nonce)
  /\ scan' = [scan EXCEPT ![r].pc = "validate"]
  /\ UNCHANGED <<rowVars, mark, override, ender, delegate, starting, jobVars, histVars>>

(* QR_ALREADY_USED; or Redis fails, before or after it ran GETDEL: 503.      *)
ScanRefused(r) ==
  /\ scan[r].pc = "burn"
  /\ \/ UNCHANGED nonce
     \/ nonce[scan[r].nonce] = "live" /\ GetDel(scan[r].nonce)
  /\ scan' = [scan EXCEPT ![r] = Idle]
  /\ UNCHANGED <<rowVars, mark, override, ender, delegate, starting, jobVars, histVars>>

(* Signature, user, device, the trip row (ACTIVE now?), route assignment.    *)
ScanValidate(r) ==
  /\ scan[r].pc = "validate"
  /\ trip.status = "ACTIVE"
  /\ scan' = [scan EXCEPT ![r].pc = "existing"]
  /\ UNCHANGED <<rowVars, nonce, mark, override, ender, delegate, starting, jobVars, histVars>>

(* evaluateCheckin, then findExistingLog: ALREADY_CHECKED_IN, the geofence   *)
(* failure, or go on to board.  The answer is not looked at again.          *)
ScanExisting(r, fence) ==
  /\ scan[r].pc = "existing"
  /\ scan' = [scan EXCEPT ![r] =
       IF log[scan[r].student].status \in Present THEN Idle
       ELSE [pc |-> "write", student |-> @.student, nonce |-> @.nonce, fence |-> fence]]
  /\ UNCHANGED <<rowVars, nonce, mark, override, ender, delegate, starting, jobVars, histVars>>

(* TOO_FAR: the attempt is kept as PENDING, whatever the row says by now.    *)
ScanFail(r) ==
  /\ scan[r].pc = "write"
  /\ scan[r].fence = "FAIL"
  /\ log' = [log EXCEPT ![scan[r].student] = FailedAttempt(@)]
  /\ scan' = [scan EXCEPT ![r] = Idle]
  /\ UNCHANGED <<trip, lastEvent, nonce, mark, override, ender, delegate, starting, jobVars, histVars>>

(* Mutant: the event insert is left out. *)
CommitWithoutEvent(r) ==
  /\ scan[r].pc = "write"
  /\ scan[r].fence \in Present
  /\ Board(scan[r].student, scan[r].fence, "QR_SCAN")
  /\ admitted' = [admitted EXCEPT ![scan[r].nonce] = @ + 1]
  /\ scan' = [scan EXCEPT ![r] = Idle]
  /\ UNCHANGED <<lastEvent, nonce, mark, override, ender, delegate, starting, jobVars, unaudited, taskLost, reopened>>

ScanCommit(r) ==
  /\ scan[r].pc = "write"
  /\ scan[r].fence \in Present
  /\ Board(scan[r].student, scan[r].fence, "QR_SCAN")
  /\ admitted' = [admitted EXCEPT ![scan[r].nonce] = @ + 1]
  /\ scan' = [scan EXCEPT ![r].pc = "event"]
  /\ UNCHANGED <<lastEvent, nonce, mark, override, ender, delegate, starting, jobVars, unaudited, taskLost, reopened>>

ScanEvent(r) ==
  /\ scan[r].pc = "event"
  /\ lastEvent' = [lastEvent EXCEPT ![scan[r].student] = scan[r].fence]
  /\ scan' = [scan EXCEPT ![r] = Idle]
  /\ UNCHANGED <<trip, log, nonce, mark, override, ender, delegate, starting, jobVars, histVars>>

(* A rejection, an error or a crash after the nonce is gone.  Past the       *)
(* commit it is an hincrby, the event insert or the process that fails: the  *)
(* log stays, the event is never written.                                   *)
ScanAbort(r) ==
  /\ scan[r].pc \in {"validate", "existing", "write", "event"}
  /\ unaudited' = IF scan[r].pc = "event" THEN unaudited \cup {scan[r].student} ELSE unaudited
  /\ scan' = [scan EXCEPT ![r] = Idle]
  /\ UNCHANGED <<rowVars, nonce, mark, override, ender, delegate, starting, jobVars, admitted, boarders, taskLost, reopened>>

-----------------------------------------------------------------------------
(* manualMarkAttendance                                                     *)

MarkStart(m, s) ==
  /\ mark[m] = Idle
  /\ trip.status = "ACTIVE"
  /\ mark' = [mark EXCEPT ![m] = [pc |-> "write", student |-> s]]
  /\ UNCHANGED <<rowVars, nonce, scan, override, ender, delegate, starting, jobVars, histVars>>

MarkWrite(m) ==
  /\ mark[m].pc = "write"
  /\ Board(mark[m].student, "MANUAL", "MANUAL_DRIVER")
  /\ mark' = [mark EXCEPT ![m].pc = "event"]
  /\ UNCHANGED <<lastEvent, nonce, scan, override, ender, delegate, starting, jobVars, admitted, unaudited, taskLost, reopened>>

MarkEvent(m) ==
  /\ mark[m].pc = "event"
  /\ lastEvent' = [lastEvent EXCEPT ![mark[m].student] = "MANUAL"]
  /\ mark' = [mark EXCEPT ![m] = Idle]
  /\ UNCHANGED <<trip, log, nonce, scan, override, ender, delegate, starting, jobVars, histVars>>

MarkAbort(m) ==
  /\ mark[m] # Idle
  /\ unaudited' = IF mark[m].pc = "event" THEN unaudited \cup {mark[m].student} ELSE unaudited
  /\ mark' = [mark EXCEPT ![m] = Idle]
  /\ UNCHANGED <<rowVars, nonce, scan, override, ender, delegate, starting, jobVars, admitted, boarders, taskLost, reopened>>

-----------------------------------------------------------------------------
(* coordinatorMarkAllPresent, at any trip status                            *)

(* Everyone assigned whose log is not PRESENT or MANUAL: LATE_BOARD is       *)
(* overwritten too.                                                         *)
OverrideStart ==
  LET targets == {s \in Students : log[s].status \notin {"PRESENT", "MANUAL"}} IN
  /\ override = Idle
  /\ targets # {}
  /\ override' = [pc |-> "write", targets |-> targets]
  /\ UNCHANGED <<rowVars, nonce, scan, mark, ender, delegate, starting, jobVars, histVars>>

OverrideWrite ==
  /\ override.pc = "write"
  /\ log' = [s \in Students |-> IF s \in override.targets
                                THEN [status |-> "MANUAL", method |-> "MANUAL_ADMIN"] ELSE log[s]]
  /\ boarders' = boarders \cup override.targets
  /\ override' = [override EXCEPT !.pc = "events"]
  /\ UNCHANGED <<trip, lastEvent, nonce, scan, mark, ender, delegate, starting, jobVars, admitted, unaudited, taskLost, reopened>>

(* The events' tx: refused by the foreign key unless the admin is a user.    *)
OverrideEvents ==
  /\ override.pc = "events"
  /\ "admin" \in EventActors
  /\ lastEvent' = [s \in Students |-> IF s \in override.targets THEN "MANUAL" ELSE lastEvent[s]]
  /\ override' = Idle
  /\ UNCHANGED <<trip, log, nonce, scan, mark, ender, delegate, starting, jobVars, histVars>>

OverrideAbort ==
  /\ override # Idle
  /\ unaudited' = IF override.pc = "events" THEN unaudited \cup override.targets ELSE unaudited
  /\ override' = Idle
  /\ UNCHANGED <<rowVars, nonce, scan, mark, ender, delegate, starting, jobVars, admitted, boarders, taskLost, reopened>>

-----------------------------------------------------------------------------
(* activateDelegation, as far as this trip row is concerned: the status is   *)
(* read first and gpsOutageStart written later, without looking again.      *)

DelegateStart ==
  /\ delegate = "idle"
  /\ trip.status = "ACTIVE"
  /\ delegate' = "activating"
  /\ UNCHANGED <<rowVars, nonce, scan, mark, override, ender, starting, jobVars, histVars>>

DelegateActivate ==
  /\ delegate = "activating"
  /\ trip' = [trip EXCEPT !.outage = TRUE]
  /\ delegate' = "done"
  /\ UNCHANGED <<log, lastEvent, nonce, scan, mark, override, ender, starting, jobVars, histVars>>

-----------------------------------------------------------------------------
(* startTrip: the status is read first, the update does not look at it       *)
(* again: a start that was overtaken by another start and the end of the     *)
(* trip makes the COMPLETED trip ACTIVE again.                               *)

StartRead ==
  /\ trip.status = "SCHEDULED"
  /\ starting < MaxStarts
  /\ starting' = starting + 1
  /\ UNCHANGED <<rowVars, nonce, scan, mark, override, ender, delegate, jobVars, histVars>>

StartUpdate ==
  /\ starting > 0
  /\ starting' = starting - 1
  /\ trip' = [trip EXCEPT !.status = "ACTIVE"]
  /\ reopened' = (reopened \/ trip.status = "COMPLETED")
  /\ UNCHANGED <<log, lastEvent, nonce, scan, mark, override, ender, delegate, jobVars,
                 admitted, boarders, unaudited, taskLost>>

StartAbort ==
  /\ starting > 0
  /\ starting' = starting - 1
  /\ UNCHANGED <<rowVars, nonce, scan, mark, override, ender, delegate, jobVars, histVars>>

-----------------------------------------------------------------------------
(* endTrip.  e stands for one call and its task; a call that is made again   *)
(* once a trip was reopened is another e unless that task is done with.      *)

EndStart(e) ==
  /\ ender[e] = "idle"
  /\ tasks[e] = "none"
  /\ trip.status = "ACTIVE"
  /\ ender' = [ender EXCEPT ![e] = "update"]
  /\ UNCHANGED <<rowVars, nonce, scan, mark, override, delegate, starting, jobVars, histVars>>

(* The update is unconditional; the row it returns picks the task.           *)
EndUpdate(e) ==
  /\ ender[e] = "update"
  /\ trip' = [trip EXCEPT !.status = "COMPLETED"]
  /\ ender' = [ender EXCEPT ![e] = IF trip.outage THEN "gps-outage-absent" ELSE "mark-absent"]
  /\ UNCHANGED <<log, lastEvent, nonce, scan, mark, override, delegate, starting, jobVars, histVars>>

(* The task has no name: two ends of a trip create two.                     *)
CreateTask(e) ==
  /\ ender[e] \in TaskKinds
  /\ tasks' = [tasks EXCEPT ![e] = ender[e]]
  /\ ender' = [ender EXCEPT ![e] = "idle"]

EndSchedule(e) ==
  /\ CreateTask(e)
  /\ UNCHANGED <<rowVars, nonce, scan, mark, override, delegate, starting, job, crashes, histVars>>

(* createTask or the process fails.  A repeated call finds the trip          *)
(* COMPLETED and returns: the task is never created.                        *)
EndAbort(e) ==
  /\ ender[e] # "idle"
  /\ taskLost' = (taskLost \/ ender[e] # "update")
  /\ ender' = [ender EXCEPT ![e] = "idle"]
  /\ UNCHANGED <<rowVars, nonce, scan, mark, override, delegate, starting, jobVars, admitted, boarders, unaudited, reopened>>

-----------------------------------------------------------------------------
(* The deliveries of the task of e: the next is made once the last has       *)
(* answered or died.                                                        *)

Answer(e) == job' = [job EXCEPT ![e] = Idle]
Acknowledge(e) == Answer(e) /\ tasks' = [tasks EXCEPT ![e] = "none"]
(* Mutant: the route answers 200 to a delivery that failed. *)
FailAcknowledged(e) == Answer(e) /\ tasks' = [tasks EXCEPT ![e] = "none"]
Fail(e) == Answer(e) /\ UNCHANGED tasks

(* mark-absent: nothing to do unless the trip is COMPLETED. *)
JobStart(e) ==
  /\ tasks[e] = "mark-absent"
  /\ job[e] = Idle
  /\ IF trip.status # "COMPLETED" THEN Acknowledge(e)
     ELSE /\ job' = [job EXCEPT ![e] = [pc |-> IF trip.outage THEN "deferred" ELSE "update"]]
          /\ UNCHANGED tasks
  /\ UNCHANGED <<rowVars, nonce, scan, mark, override, ender, delegate, starting, crashes, histVars>>

(* Outage branch: with PENDING logs the GPS_OUTAGE_DEFERRED insert throws    *)
(* (no such enum value) and the task stays queued; without, the dispatch of  *)
(* gps-outage-absent is a no-op (lib/queue exports no queueJob) and the task *)
(* is acknowledged.                                                         *)
JobDefer(e) ==
  /\ job[e].pc = "deferred"
  /\ IF PendingLogs = {} THEN Acknowledge(e) ELSE Fail(e)
  /\ UNCHANGED <<rowVars, nonce, scan, mark, override, ender, delegate, starting, crashes, histVars>>

(* updateMany PENDING -> ABSENT; a count of 0 ends the job. *)
JobUpdate(e) ==
  /\ job[e].pc = "update"
  /\ log' = [s \in Students |-> IF s \in ToMarkAbsent
                                THEN [log[s] EXCEPT !.status = "ABSENT"] ELSE log[s]]
  /\ IF ToMarkAbsent = {} THEN Acknowledge(e)
     ELSE job' = [job EXCEPT ![e] = [pc |-> "select"]] /\ UNCHANGED tasks
  /\ UNCHANGED <<trip, lastEvent, nonce, scan, mark, override, ender, delegate, starting, crashes, histVars>>

JobSelect(e) ==
  /\ job[e].pc = "select"
  /\ job' = [job EXCEPT ![e] = [pc |-> "events", targets |-> {s \in Students : log[s].status = "ABSENT"}]]
  /\ UNCHANGED <<rowVars, nonce, scan, mark, override, ender, delegate, starting, tasks, crashes, histVars>>

(* createMany TRIP_END_ABSENT by actor 'system': accepted, or refused by the *)
(* foreign key, the delivery fails and is tried again.                      *)
JobEvents(e) ==
  /\ job[e].pc = "events"
  /\ IF "system" \in EventActors
     THEN /\ lastEvent' = [s \in Students |-> IF s \in job[e].targets THEN "ABSENT" ELSE lastEvent[s]]
          /\ Acknowledge(e)
     ELSE Fail(e) /\ UNCHANGED lastEvent
  /\ UNCHANGED <<trip, log, nonce, scan, mark, override, ender, delegate, starting, crashes, histVars>>

(* gps-outage-absent takes a snapshot of what is PENDING.                   *)
OutageStart(e) ==
  /\ tasks[e] = "gps-outage-absent"
  /\ job[e] = Idle
  /\ IF PendingLogs = {} THEN Acknowledge(e)
     ELSE job' = [job EXCEPT ![e] = [pc |-> "finalise", targets |-> PendingLogs]] /\ UNCHANGED tasks
  /\ UNCHANGED <<rowVars, nonce, scan, mark, override, ender, delegate, starting, crashes, histVars>>

(* One tx per log of the snapshot, in any order, by id: ABSENT and two       *)
(* events.  The status is not looked at again.                              *)
OutageFinalise(e, s) ==
  /\ job[e].pc = "finalise"
  /\ s \in job[e].targets
  /\ log' = [log EXCEPT ![s] = [status |-> "ABSENT", method |-> "SYSTEM_AUTO"]]
  /\ lastEvent' = [lastEvent EXCEPT ![s] = "ABSENT"]
  /\ job' = [job EXCEPT ![e] = [pc |-> "finalise", targets |-> job[e].targets \ {s}]]
  /\ UNCHANGED <<trip, nonce, scan, mark, override, ender, delegate, starting, tasks, crashes, histVars>>

OutageDone(e) ==
  /\ job[e].pc = "finalise"
  /\ job[e].targets = {}
  /\ Acknowledge(e)
  /\ UNCHANGED <<rowVars, nonce, scan, mark, override, ender, delegate, starting, crashes, histVars>>

JobCrash(e) ==
  /\ job[e] # Idle
  /\ crashes < MaxCrashes
  /\ crashes' = crashes + 1
  /\ Fail(e)
  /\ UNCHANGED <<rowVars, nonce, scan, mark, override, ender, delegate, starting, histVars>>

-----------------------------------------------------------------------------
ScanStep(r) ==
  \/ ScanBurn(r) \/ ScanRefused(r) \/ ScanValidate(r)
  \/ \E fence \in Fences : ScanExisting(r, fence)
  \/ ScanFail(r) \/ ScanCommit(r) \/ ScanEvent(r) \/ ScanAbort(r)
MarkStep(m) == MarkWrite(m) \/ MarkEvent(m) \/ MarkAbort(m)
OverrideStep == OverrideWrite \/ OverrideEvents \/ OverrideAbort
StartStep == StartUpdate \/ StartAbort
EndStep(e) == EndUpdate(e) \/ EndSchedule(e) \/ EndAbort(e)
JobStep(e) ==
  \/ JobStart(e) \/ JobDefer(e) \/ JobUpdate(e) \/ JobSelect(e) \/ JobEvents(e)
  \/ OutageStart(e) \/ (\E s \in Students : OutageFinalise(e, s)) \/ OutageDone(e)

Next ==
  \/ \E n \in Nonces : IssueNonce(n) \/ ExpireNonce(n)
  \/ \E r \in Scanners, s \in Students, n \in Nonces : ScanStart(r, s, n)
  \/ \E r \in Scanners : ScanStep(r)
  \/ \E m \in Markers, s \in Students : MarkStart(m, s)
  \/ \E m \in Markers : MarkStep(m)
  \/ OverrideStart \/ OverrideStep
  \/ DelegateStart \/ DelegateActivate
  \/ StartRead \/ StartStep
  \/ \E e \in Enders : EndStart(e) \/ EndStep(e) \/ JobStep(e) \/ JobCrash(e)

Spec == Init /\ [][Next]_vars

(* A handler that has started is run by the event loop until it returns or   *)
(* throws; a queued task is delivered until it is acknowledged.  Nobody is   *)
(* obliged to scan, mark, override, delegate, start or end.                 *)
Fairness ==
  /\ \A r \in Scanners : WF_vars(ScanStep(r))
  /\ \A m \in Markers : WF_vars(MarkStep(m))
  /\ \A e \in Enders : WF_vars(EndStep(e)) /\ WF_vars(JobStep(e))
  /\ WF_vars(OverrideStep) /\ WF_vars(StartStep)

FairSpec == Spec /\ Fairness

-----------------------------------------------------------------------------
(* Properties                                                               *)

(* A QR token admits at most one check-in, whatever the order of concurrent  *)
(* scans, retries, offline replays, expiry and Redis failures (checkIn's     *)
(* GETDEL of the nonce, step [3]).                                          *)
NonceAdmitsOnce == \A n \in Nonces : admitted[n] <= 1

(* boardedCount never falls behind the logs that a scan or the driver wrote: *)
(* each such log was written together with an increment, and no later write  *)
(* of the log undoes one.                                                   *)
BoardedCoversLogs ==
  Cardinality({s \in Students : log[s].method \in {"QR_SCAN", "MANUAL_DRIVER"}}) <= trip.boarded

(* Nobody is recorded ABSENT before the trip was over, even though           *)
(* gps-outage-absent never reads its status.  (Over is not for ever: a late  *)
(* start may have reopened the trip since, trips.repository.ts:40-43, and    *)
(* the absent then stand on a running one.)                                 *)
Over == trip.status = "COMPLETED" \/ reopened
AbsentOnlyAfterEnd == (\E s \in Students : log[s].status = "ABSENT") => Over

(* A student whose log shows them on board has an attendance event, unless   *)
(* the event is still to be written by a handler in flight or its write was  *)
(* lost after the commit.                                                   *)
EventInFlight(s) ==
  \/ \E r \in Scanners : scan[r] # Idle /\ scan[r].pc = "event" /\ scan[r].student = s
  \/ \E m \in Markers : mark[m] # Idle /\ mark[m].pc = "event" /\ mark[m].student = s
  \/ override # Idle /\ override.pc = "events" /\ s \in override.targets
BoardingsAudited ==
  \A s \in Students :
    log[s].status \in OnBoard => lastEvent[s] # "NONE" \/ s \in unaudited \/ EventInFlight(s)

(* On a trip without a GPS outage no write ever turns a log that shows the   *)
(* student on board into ABSENT: a check-in landing between the job's steps  *)
(* or between its retries is safe from updateMany's status filter.          *)
MarkAbsentSparesBoarded ==
  [][\A s \in Students :
       log[s].status \in OnBoard /\ log'[s].status = "ABSENT" => trip.outage]_vars

(* A log that is PENDING when an end of the trip has its task still to       *)
(* create, or a task has a delivery still to come, is finalised (or the      *)
(* student boards after all), through crashes, failed deliveries and two     *)
(* deliveries at once - unless createTask fails, or a late start makes the   *)
(* trip ACTIVE again: mark-absent then skips it.  Where an outage was        *)
(* recorded in time, gps-outage-absent does it, whatever the status.        *)
Coming(e, kind) == ender[e] = kind \/ (tasks[e] = kind /\ job[e] = Idle)
NeverCreated(e) == taskLost /\ tasks[e] = "none"
PendingIsFinalised ==
  \A s \in Students, e \in Enders :
    /\ (Coming(e, "mark-absent") /\ ~trip.outage /\ log[s].status = "PENDING")
         ~> (log[s].status # "PENDING" \/ trip.outage \/ NeverCreated(e) \/ trip.status = "ACTIVE")
    /\ (Coming(e, "gps-outage-absent") /\ log[s].status = "PENDING")
         ~> (log[s].status # "PENDING" \/ NeverCreated(e))

(* A finalisation task is acknowledged in the end although its events insert *)
(* fails every time: the second delivery finds nothing PENDING.  (An outage  *)
(* that starts meanwhile leaves mark-absent retried for ever.)              *)
TasksAreAcknowledged ==
  \A e \in Enders :
    /\ (tasks[e] = "mark-absent") ~> (tasks[e] = "none" \/ trip.outage)
    /\ (tasks[e] = "gps-outage-absent") ~> (tasks[e] = "none")

(* The same promise step by step: a PENDING log that an end of the trip, its *)
(* task or the task's delivery still covers stays covered until it is        *)
(* finalised or boards, whatever crashes, is delivered again or interleaves; *)
(* only a createTask that fails abandons it, or a delivery of mark-absent    *)
(* that finds the trip reopened.                                            *)
Covers(e, s) ==
  \/ ender[e] \in TaskKinds
  \/ /\ tasks[e] # "none"
     /\ \/ job[e] = Idle
        \/ job[e].pc \in {"deferred", "update"}
        \/ job[e].pc = "finalise" /\ s \in job[e].targets
NoneAbandoned ==
  [][\A s \in Students, e \in Enders :
       log[s].status = "PENDING" /\ Covers(e, s) =>
         \/ log'[s].status # "PENDING" \/ Covers(e, s)'
         \/ ender[e] \in TaskKinds /\ tasks'[e] = "none"
         \/ tasks[e] = "mark-absent" /\ job[e] = Idle /\ trip.status = "ACTIVE"]_vars

(* What TasksAreAcknowledged rests on, step by step: once the trip is over   *)
(* and no start is under way that could reopen it, it stays over, scans      *)
(* that validated before are only used up, a log becomes PENDING only  *)
(* by one of them, and what a delivery of gps-outage-absent set out to       *)
(* finalise only shrinks until it has answered - so that in the end a        *)
(* delivery finds nothing to do (mark-absent.job.ts:16-97,                   *)
(* gps-outage-absent.job.ts:4-81).                                           *)
Latecomers == {r \in Scanners : scan[r].pc \in {"existing", "write"}}
PendingDwindles ==
  [][trip.status = "COMPLETED" /\ starting = 0 =>
       /\ trip'.status = "COMPLETED" /\ starting' = 0
       /\ Latecomers' \subseteq Latecomers
       /\ PendingLogs' \subseteq PendingLogs \/ Latecomers' # Latecomers
       /\ \A e \in Enders : job[e].pc = "finalise" =>
            \/ job'[e] = Idle
            \/ job'[e].pc = "finalise" /\ job'[e].targets \subseteq job[e].targets]_vars

(* The handlers and jobs together implement the abstract attendance.        *)
Standing(s) ==
  CASE log[s].status \in OnBoard -> "onBoard"
    [] log[s].status = "PENDING" -> "pending"
    [] log[s].status = "ABSENT"  -> "absent"
    [] OTHER -> "none"
Phase == CASE trip.status = "SCHEDULED" -> "scheduled"
           [] trip.status = "ACTIVE" -> "running"
           [] trip.status = "COMPLETED" -> "over"
Abstract == INSTANCE Attendance WITH
  Tokens <- Nonces,
  phase <- Phase,
  starting <- starting > 0,
  ended <- Over,
  outage <- trip.outage,
  standing <- [s \in Students |-> Standing(s)],
  counted <- trip.boarded,
  used <- {n \in Nonces : admitted[n] > 0}
ImplementsAttendance == Abstract!Spec
=============================================================================
