--------------------------- MODULE Notifications ---------------------------
(***************************************************************************)
(* lib/queue.ts dispatchWithBackpressure, the breaker of lib/redis-circuit   *)
(* around its queue.add, and jobs/notification.worker.ts, which runs in the  *)
(* same process.                                                            *)
(*                                                                         *)
(* A sender dispatches one notification after another, of one priority, and *)
(* is followed until the job of the last one has ended.  BullMQ (external)  *)
(* keeps the jobs in Redis, tries a job that throws again up to Attempts    *)
(* times, and gives the job of a dead worker to another one once.           *)
(***************************************************************************)
EXTENDS Integers, FiniteSets

CONSTANTS
  Senders,         \* callers of dispatch whose notifications are followed
  CriticalSenders, \* the senders of priority CRITICAL,
  HighSenders,     \* HIGH
  BatchSenders,    \* and BATCH; the others send with NORMAL
  DropAt,          \* BACKPRESSURE_DROP, _DEGRADE and _CRISIS
  DegradeAt,
  CrisisAt,
  Others,          \* bound: jobs in the queue that are not followed
  Threshold,       \* failures that open the breaker
  Attempts,        \* attempts of a job
  MaxMishaps       \* bound: commands, writes, pushes and processes that fail

ASSUME NotificationsConstants ==
  /\ CriticalSenders \subseteq Senders /\ HighSenders \subseteq Senders /\ BatchSenders \subseteq Senders
  /\ CriticalSenders \cap (HighSenders \cup BatchSenders) = {} /\ HighSenders \cap BatchSenders = {}
  /\ {DropAt, DegradeAt, CrisisAt, Others, MaxMishaps} \subseteq Nat
  /\ {Threshold, Attempts} \subseteq Nat \ {0}
  /\ DropAt =< DegradeAt /\ DegradeAt =< CrisisAt

Channels == {"IN_APP", "PUSH", "SMS"}

VARIABLES
  sending,  \* sender -> place in dispatchWithBackpressure, or how it ended
  drops,    \* senders whose notification has a NotificationDrop row
  job,      \* sender -> the job of its notification
  breaker,  \* the breaker 'notification-queue-add' of this process
  mishaps

notificationsVars == <<sending, drops, job, breaker, mishaps>>

(* A job knows its channels told; those in unheard were refused, and nobody    *)
(* was told (a history).                                                    *)
NoJob == [state |-> "none", failed |-> 0, stalled |-> 0, told |-> {}, unheard |-> {}, next |-> "IN_APP"]
ClosedBreaker == [state |-> "closed", failures |-> 0, cooled |-> FALSE]
Answers == {"enqueued", "dropped", "thrown", "killed"}
Places == Answers \cup {"idle", "alerting", "recording", "adding", "inFlight", "replying"}
Queued == {"waiting", "active", "delayed", "orphan"}
Ended == {"none", "completed", "failed"}

NotificationsTypes ==
  /\ sending \in [Senders -> Places]
  /\ drops \subseteq Senders
  /\ job \in [Senders -> [state : Queued \cup Ended, failed : 0..Attempts, stalled : 0..2,
                          told : SUBSET Channels, unheard : SUBSET Channels, next : Channels]]
  /\ breaker \in [state : {"closed", "open", "half_open"}, failures : 0..Threshold,
                  cooled : BOOLEAN]
  /\ mishaps \in 0..MaxMishaps

NotificationsInit ==
  /\ sending = [s \in Senders |-> "idle"]
  /\ drops = {}
  /\ job = [s \in Senders |-> NoJob]
  /\ breaker = ClosedBreaker
  /\ mishaps = 0

Mishap == mishaps < MaxMishaps /\ mishaps' = mishaps + 1
Goes(s, from, to) == sending[s] = from /\ sending' = [sending EXCEPT ![s] = to]

-----------------------------------------------------------------------------
(* dispatchWithBackpressure                                                *)

(* getQueueDepth: active, waiting, prioritized and delayed.                  *)
Depth == Cardinality({s \in Senders : job[s].state \in Queued})

(* The two rules below the crisis.                                           *)
Spared(s, backlog) ==
  \/ backlog > DegradeAt /\ s \notin CriticalSenders \cup HighSenders
  \/ backlog > DropAt /\ s \in BatchSenders

AfterDepth(s, backlog) ==
  IF backlog > CrisisAt THEN "alerting"
  ELSE IF Spared(s, backlog) THEN "recording" ELSE "adding"

(* The sender's next notification; the depth is read before anything else.   *)
(* (A depth that cannot be read throws with nothing done: left out.)         *)
Dispatch(s) ==
  /\ sending[s] \in Answers \cup {"idle"} /\ job[s].state \in Ended
  /\ \E n \in 0..Others :
       sending' = [sending EXCEPT ![s] = AfterDepth(s, Depth + n)]
  /\ job' = [job EXCEPT ![s] = NoJob]
  /\ drops' = drops \ {s}
  /\ UNCHANGED <<breaker, mishaps>>

(* alertOps, awaited before the notification is dropped, or added if it is  *)
(* CRITICAL.                                                                *)
Alert(s) ==
  /\ Goes(s, "alerting", IF s \in CriticalSenders THEN "adding" ELSE "recording")
  /\ UNCHANGED <<drops, job, breaker, mishaps>>

RecordDrop(s) ==
  /\ Goes(s, "recording", "dropped")
  /\ drops' = drops \cup {s}
  /\ UNCHANGED <<job, breaker, mishaps>>

(* What throws before an answer: the zadd of the alert, the insertion of the *)
(* drop.                                                                    *)
Throws(s) ==
  /\ Mishap
  /\ sending[s] \in {"alerting", "recording"}
  /\ sending' = [sending EXCEPT ![s] = "thrown"]
  /\ UNCHANGED <<drops, job, breaker>>

-----------------------------------------------------------------------------
(* circuitExecute around queue.add                                         *)

(* Mutant: the other notifications are dropped without a row.                *)
FallbackSilent(s) == IF s \in CriticalSenders THEN "thrown" ELSE "dropped"

(* executeFallback: fail_hard for CRITICAL, else the fallback that records.  *)
Fallback(s) == IF s \in CriticalSenders THEN "thrown" ELSE "recording"

(* Mutant: the cool-down is forgotten.                                       *)
IsOpenForGood == breaker.state = "open"

(* isOpen; in the same step the operation starts, or the fallback does.      *)
IsOpen == breaker.state = "open" /\ ~breaker.cooled

Refuse(s) ==
  /\ IsOpen
  /\ Goes(s, "adding", Fallback(s))
  /\ UNCHANGED <<drops, job, breaker, mishaps>>

StartAdd(s) ==
  /\ ~IsOpen
  /\ Goes(s, "adding", "inFlight")
  /\ breaker' = [breaker EXCEPT !.state = IF @ = "open" THEN "half_open" ELSE @]
  /\ UNCHANGED <<drops, job, mishaps>>

(* queue.add at Redis; workers see the job before its sender has the reply.   *)
Added(s) ==
  /\ Goes(s, "inFlight", "replying")
  /\ job' = [job EXCEPT ![s].state = "waiting"]
  /\ UNCHANGED <<drops, breaker, mishaps>>

(* recordSuccess, whatever the breaker has become meanwhile.                 *)
AddSucceeds(s) ==
  /\ Goes(s, "replying", "enqueued")
  /\ breaker' = ClosedBreaker
  /\ UNCHANGED <<drops, job, mishaps>>

(* recordFailure; a failure that comes late restarts the cool-down.  The     *)
(* count is only compared with the threshold, and stays there.              *)
AddFails(s) ==
  /\ Mishap
  /\ Goes(s, "inFlight", Fallback(s))
  /\ breaker' =
       IF breaker.failures + 1 >= Threshold
       THEN [state |-> "open", failures |-> Threshold, cooled |-> FALSE]
       ELSE [breaker EXCEPT !.failures = @ + 1]
  /\ UNCHANGED <<drops, job>>

(* cooldownMs have passed since openedAt.                                    *)
CoolDown ==
  /\ IsOpen
  /\ breaker' = [breaker EXCEPT !.cooled = TRUE]
  /\ UNCHANGED <<sending, drops, job, mishaps>>

-----------------------------------------------------------------------------
(* processNotificationJob, for a notification on all channels              *)

Take(s) ==
  /\ job[s].state = "waiting"
  /\ job' = [job EXCEPT ![s].state = "active", ![s].next = "IN_APP"]
  /\ UNCHANGED <<sending, drops, breaker, mishaps>>

NextChannel(channel) == IF channel = "IN_APP" THEN "PUSH" ELSE "SMS"
Passes(s, told, unheard) ==
  /\ job[s].state = "active"
  /\ job' = [job EXCEPT ![s].told = @ \cup told,
                        ![s].unheard = @ \cup unheard,
                        ![s].next = NextChannel(@),
                        ![s].state = IF job[s].next = "SMS" THEN "completed" ELSE @]
  /\ UNCHANGED <<sending, drops, breaker>>

(* createMany, the pushes, and the SMS: with these the job is complete.      *)
Serve(s) == Passes(s, {job[s].next}, {}) /\ UNCHANGED mishaps

(* An SMS throws into Promise.allSettled, or the push service answers and     *)
(* refuses a token, which is logged: the job goes on as if it were told.    *)
Unheard(s) ==
  /\ Mishap
  /\ job[s].next # "IN_APP"
  /\ Passes(s, {}, {job[s].next})

(* A query or the request of the pushes throws: the channels after it are not tried, and the    *)
(* next attempt starts from the first.                                      *)
AttemptFails(s) ==
  /\ Mishap
  /\ job[s].state = "active"
  /\ job' = [job EXCEPT ![s].failed = @ + 1,
                        ![s].state = IF job[s].failed + 1 < Attempts THEN "delayed" ELSE "failed"]
  /\ UNCHANGED <<sending, drops, breaker>>

BackoffEnds(s) ==
  /\ job[s].state = "delayed"
  /\ job' = [job EXCEPT ![s].state = "waiting"]
  /\ UNCHANGED <<sending, drops, breaker, mishaps>>

(* BullMQ finds that the lock of an active job has lapsed.                   *)
Stalled(s) ==
  /\ job[s].state = "orphan"
  /\ job' = [job EXCEPT ![s].stalled = @ + 1,
                        ![s].state = IF job[s].stalled = 0 THEN "waiting" ELSE "failed"]
  /\ UNCHANGED <<sending, drops, breaker, mishaps>>

(* The process ends, with its dispatches, its breaker and its worker.        *)
Dies ==
  /\ Mishap
  /\ sending' = [s \in Senders |->
       IF sending[s] \in Answers \cup {"idle"} THEN sending[s] ELSE "killed"]
  /\ job' = [s \in Senders |->
       IF job[s].state = "active" THEN [job[s] EXCEPT !.state = "orphan"] ELSE job[s]]
  /\ breaker' = ClosedBreaker
  /\ UNCHANGED drops

-----------------------------------------------------------------------------
SenderStep(s) ==
  \/ Dispatch(s) \/ Alert(s) \/ RecordDrop(s)
  \/ Refuse(s) \/ StartAdd(s) \/ Added(s) \/ AddSucceeds(s)
JobStep(s) == Take(s) \/ Serve(s) \/ BackoffEnds(s) \/ Stalled(s)

NotificationsNext ==
  \/ \E s \in Senders : SenderStep(s) \/ JobStep(s) \/ Throws(s) \/ AddFails(s)
                       \/ Unheard(s) \/ AttemptFails(s)
  \/ CoolDown \/ Dies

(* Notifications keep coming, what Redis and the database do not refuse they *)
(* answer, and a worker runs.                                               *)
NotificationsFairness ==
  /\ \A s \in Senders : WF_notificationsVars(SenderStep(s) \/ JobStep(s))
  /\ WF_notificationsVars(CoolDown)

NotificationsSpec ==
  NotificationsInit /\ [][NotificationsNext]_notificationsVars /\ NotificationsFairness

-----------------------------------------------------------------------------
(* A notification whose dispatch was answered is somewhere: enqueued, it is  *)
(* in the queue, was told in the app and on every channel whose refusal the  *)
(* worker does not swallow, or was given up after all its attempts or a      *)
(* second dead worker; dropped, it has a row and no job.  A CRITICAL one is   *)
(* never dropped: it is enqueued or its dispatch throws.                     *)
NothingVanishes ==
  \A s \in Senders :
    /\ sending[s] = "enqueued" =>
         \/ job[s].state \in Queued
         \/ /\ job[s].state = "completed" /\ "IN_APP" \in job[s].told
            /\ job[s].told \cup job[s].unheard = Channels
         \/ job[s].state = "failed" /\ (job[s].failed = Attempts \/ job[s].stalled = 2)
    /\ sending[s] = "dropped" =>
         s \in drops /\ job[s].state = "none" /\ s \notin CriticalSenders
    /\ sending[s] = "thrown" => job[s].state = "none" /\ s \notin drops

(* Once Redis takes jobs again the breaker closes and stays closed: an open  *)
(* one is tried again after its cool-down by a CRITICAL notification, which  *)
(* no backlog spares, however late the failures of earlier calls come in.    *)
BreakerRecovers == CriticalSenders # {} => <>[](breaker.state = "closed")

(* What that rests on, in every state: a breaker that is not closed has        *)
(* counted enough failures, one that is being tried has a call in flight or   *)
(* answered whose outcome will close or open it, and only an open one is      *)
(* cooling down; whatever calls overlap (redis-circuit.ts:19-81).              *)
BreakerIsTried ==
  /\ breaker.state = "closed" <=> breaker.failures < Threshold
  /\ breaker.state = "half_open" => \E s \in Senders : sending[s] \in {"inFlight", "replying"}
  /\ breaker.cooled => breaker.state # "closed"
=============================================================================
