------------------------------ MODULE Delegation ------------------------------
(***************************************************************************)
(* Delegation of a trip's GPS to a member of staff while the bus's own is   *)
(* offline (modules/trips/delegate.service.ts), its monitor                 *)
(* (jobs/gps-delegate-heartbeat.job.ts) and the return of the driver        *)
(* (modules/gps/gps.service.ts), for one trip.                              *)
(*                                                                         *)
(* An activation holds trip:delegate:activate for 10 s, prolonged to 12 h   *)
(* when it succeeds, and publishes trip:delegate for 12 h.  A trip is over  *)
(* sooner: the 12 h do not lapse here.  /gps/ping lets drivers only pass,   *)
(* so no delegate's heartbeat is ever written and the monitor takes each    *)
(* delegate for silent at its first scan.                                   *)
(***************************************************************************)
EXTENDS Integers

CONSTANTS
  Activations, NoOne,       \* requests to activate, each of its own member of staff
  Closers, Monitors,        \* who ends: a ping of the driver or /delegate/end; scans
  MaxDelegationFaults       \* bound: failing calls and crashes

ASSUME DelegationConstants ==
  /\ MaxDelegationFaults \in Nat
  /\ NoOne \notin Activations
  /\ Activations \cap (Closers \cup Monitors) = {}
  /\ Closers \cap Monitors = {}

Endings == Closers \cup Monitors

VARIABLES
  ongoing,   \* the trip is ACTIVE
  delegate,   \* trip.delegateId
  row,        \* activation -> its trip_delegates row
  key,        \* trip:delegate
  lock, life,  \* trip:delegate:activate and the life it has left
  health,     \* trip:delegate:health is ENDED
  judged,     \* history: the published delegate for whom it was set, or NoOne
  returns,    \* trip:driver:return: pings of the driver, perhaps one before
  at,         \* activation or ending -> its place
  seen,       \* ending -> the delegate it read
  troubled,   \* history: an activation outlived its lock, a lock was deleted
              \* by somebody else, a call failed between the row and its key,
              \* or two endings overlapped
  slips

judgement == <<health, judged>>
delegationVars == <<ongoing, delegate, row, key, lock, life, judgement,
                    returns, at, seen, troubled, slips>>

Activating == {"locked", "timed", "bus", "checked", "created", "committed", "keyed"}
Ending == {"read", "closed", "unkeyed"}

DelegationTypeOK ==
  /\ ongoing \in BOOLEAN /\ health \in BOOLEAN /\ judged \in Activations \cup {NoOne}
  /\ delegate \in Activations \cup {NoOne} /\ key \in Activations \cup {NoOne}
  /\ row \in [Activations -> {"NONE", "PENDING", "ACTIVE", "FAILED", "ENDED"}]
  /\ lock \in Activations \cup {NoOne}
  /\ life \in (IF lock = NoOne THEN {"none"} ELSE {"forever", "short", "long"})
  /\ returns \in Nat
  /\ at \in [Activations \cup Endings ->
               Activating \cup Ending \cup {"idle", "scanned", "last", "asked", "done"}]
  /\ seen \in [Endings -> Activations \cup {NoOne}]
  /\ troubled \in BOOLEAN /\ slips \in 0..MaxDelegationFaults

DelegationInit ==
  /\ ongoing = TRUE
  /\ delegate = NoOne /\ row = [a \in Activations |-> "NONE"]
  /\ key = NoOne /\ lock = NoOne /\ life = "none"
  /\ health = FALSE /\ judged = NoOne /\ returns \in 0..1
  /\ at = [p \in Activations \cup Endings |-> "idle"]
  /\ seen = [e \in Endings |-> NoOne]
  /\ troubled = FALSE /\ slips = 0

From(p, here, there) == at[p] = here /\ at' = [at EXCEPT ![p] = there]

-----------------------------------------------------------------------------
(* activateDelegation.                                                      *)
TakeLock(a) ==
  /\ From(a, "idle", IF lock = NoOne THEN "locked" ELSE "done")
  /\ IF lock = NoOne THEN lock' = a /\ life' = "forever" ELSE UNCHANGED <<lock, life>>
  /\ UNCHANGED <<ongoing, delegate, row, key, judgement, returns, seen, troubled, slips>>

TimeLock(a) ==
  /\ From(a, "locked", "timed")
  /\ life' = IF lock = NoOne THEN life ELSE "short"
  /\ UNCHANGED <<ongoing, delegate, row, key, lock, judgement, returns, seen,
                 troubled, slips>>

(* A check that fails throws, and the handler deletes the lock.             *)
Check(a, here, holds, there) ==
  /\ From(a, here, IF holds THEN there ELSE "done")
  /\ IF holds THEN UNCHANGED <<lock, life>> ELSE lock' = NoOne /\ life' = "none"
  /\ UNCHANGED <<ongoing, delegate, row, key, judgement, returns, seen,
                 troubled, slips>>

(* The trip, and whether gps:status of its bus is OFFLINE (or the applicant   *)
(* far from it), which may be either.                                       *)
CheckTrip(a) == \E offline \in BOOLEAN : Check(a, "timed", ongoing /\ offline, "bus")
(* Mutant: the delegate published is not looked at.                         *)
CheckNoKey(a) == Check(a, "bus", TRUE, "checked")

CheckKey(a) == Check(a, "bus", key = NoOne, "checked")

CreateRow(a) ==
  /\ From(a, "checked", "created") /\ row' = [row EXCEPT ![a] = "PENDING"]
  /\ UNCHANGED <<ongoing, delegate, key, lock, life, judgement, returns, seen,
                 troubled, slips>>

(* The transaction: a trip that has a delegate already keeps it, and nobody  *)
(* looks at the number of rows updated.                                     *)
CommitDelegation(a) ==
  /\ From(a, "created", "committed")
  /\ delegate' = IF delegate = NoOne THEN a ELSE delegate
  /\ row' = [row EXCEPT ![a] = "ACTIVE"]
  /\ UNCHANGED <<ongoing, key, lock, life, judgement, returns, seen, troubled, slips>>

Publish(a) ==
  /\ From(a, "committed", "keyed") /\ key' = a
  /\ UNCHANGED <<ongoing, delegate, row, lock, life, judgement, returns, seen,
                 troubled, slips>>

Prolong(a) ==
  /\ From(a, "keyed", "done")
  /\ life' = IF lock = NoOne THEN life ELSE "long"
  /\ UNCHANGED <<ongoing, delegate, row, key, lock, judgement, returns, seen,
                 troubled, slips>>

(* A call fails: the lock is deleted, whoever holds it by now; before the    *)
(* lock has a life, and in a crash, it stays.  A transaction that fails      *)
(* marks its row.                                                           *)
ActivationFails(a) ==
  /\ at[a] \in Activating /\ slips < MaxDelegationFaults
  /\ slips' = slips + 1 /\ at' = [at EXCEPT ![a] = "done"]
  /\ \/ UNCHANGED <<lock, life, row>>
     \/ /\ at[a] # "locked" /\ lock' = NoOne /\ life' = "none"
        /\ row' = [row EXCEPT ![a] = IF at[a] = "created" THEN "FAILED" ELSE @]
  /\ troubled' = (troubled \/ at[a] = "committed" \/ (lock' # lock /\ lock # a))
  /\ UNCHANGED <<ongoing, delegate, key, judgement, returns, seen>>

LockLapses ==
  /\ life = "short" /\ lock' = NoOne /\ life' = "none"
  /\ troubled' = (troubled \/ at[lock] \in Activating)
  /\ UNCHANGED <<ongoing, delegate, row, key, judgement, returns, at, seen, slips>>

-----------------------------------------------------------------------------
(* The driver's ping: the second within 15 s ends the delegation.            *)
PingCounts(p) ==
  /\ From(p, "idle", IF key = NoOne \/ returns = 0 THEN "done" ELSE "last")
  /\ returns' = IF key = NoOne THEN returns ELSE returns + 1
  /\ UNCHANGED <<ongoing, delegate, row, key, lock, life, judgement, seen, troubled,
                 slips>>

PingResets(p) ==
  /\ From(p, "last", "asked") /\ returns' = 0
  /\ UNCHANGED <<ongoing, delegate, row, key, lock, life, judgement, seen, troubled,
                 slips>>

ReturnLapses ==
  /\ returns > 0 /\ returns' = 0
  /\ UNCHANGED <<ongoing, delegate, row, key, lock, life, judgement, at, seen,
                 troubled, slips>>

Request(e) ==
  /\ From(e, "idle", "asked")
  /\ UNCHANGED <<ongoing, delegate, row, key, lock, life, judgement, returns, seen,
                 troubled, slips>>

(* Mutant: a scan that finds nothing, as of ACTIVE trips of another day.       *)
ScanNothing(m) == FALSE /\ From(m, "idle", "scanned")

(* The monitor's scan, and its verdict on a delegate without a heartbeat: a  *)
(* health that is ENDED already is left alone.                              *)
Scan(m) ==
  /\ ongoing /\ delegate # NoOne /\ From(m, "idle", "scanned")
  /\ UNCHANGED <<ongoing, delegate, row, key, lock, life, judgement, returns, seen,
                 troubled, slips>>

Judging ==
  health' = TRUE /\ judged' = IF health THEN judged ELSE key

Verdict(m) ==
  /\ From(m, "scanned", IF health THEN "idle" ELSE "asked") /\ Judging
  /\ UNCHANGED <<ongoing, delegate, row, key, lock, life, returns, seen, troubled, slips>>

-----------------------------------------------------------------------------
(* endDelegation.                                                           *)
After(e) == IF e \in Monitors THEN "idle" ELSE "done"

EndReads(e) ==
  /\ From(e, "asked", IF key = NoOne THEN After(e) ELSE "read")
  /\ seen' = [seen EXCEPT ![e] = key]
  /\ troubled' = (troubled \/ (key # NoOne /\ \E f \in Endings : at[f] \in Ending))
  /\ UNCHANGED <<ongoing, delegate, row, key, lock, life, judgement, returns, slips>>

CloseRows(e) ==
  /\ From(e, "read", "closed")
  /\ row' = [a \in Activations |->
               IF row[a] = "ACTIVE" /\ a = seen[e] THEN "ENDED" ELSE row[a]]
  /\ delegate' = NoOne
  /\ UNCHANGED <<ongoing, key, lock, life, judgement, returns, seen, troubled, slips>>

Unpublish(e) ==
  /\ From(e, "closed", "unkeyed") /\ key' = NoOne
  /\ UNCHANGED <<ongoing, delegate, row, lock, life, judgement, returns, seen,
                 troubled, slips>>

FreeLock(e) ==
  /\ From(e, "unkeyed", After(e)) /\ seen' = [seen EXCEPT ![e] = NoOne]
  /\ lock' = NoOne /\ life' = "none"
  /\ troubled' = (troubled \/ lock \notin {NoOne, seen[e]})
  /\ UNCHANGED <<ongoing, delegate, row, key, judgement, returns, slips>>

EndFails(e) ==
  /\ at[e] \in Ending \cup {"asked"} /\ slips < MaxDelegationFaults
  /\ slips' = slips + 1 /\ at' = [at EXCEPT ![e] = After(e)]
  /\ seen' = [seen EXCEPT ![e] = NoOne]
  /\ UNCHANGED <<ongoing, delegate, row, key, lock, life, judgement, returns, troubled>>

-----------------------------------------------------------------------------
(* endTrip leaves the delegation as it is.                                   *)
TripEnds ==
  /\ ongoing /\ ongoing' = FALSE
  /\ UNCHANGED <<delegate, row, key, lock, life, judgement, returns, at, seen,
                 troubled, slips>>

ActivationStep(a) ==
  \/ TimeLock(a) \/ CheckTrip(a) \/ CheckKey(a) \/ CreateRow(a)
  \/ CommitDelegation(a) \/ Publish(a) \/ Prolong(a)
EndingStep(e) ==
  \/ e \in Closers /\ PingResets(e)
  \/ e \in Monitors /\ (Scan(e) \/ Verdict(e))
  \/ EndReads(e) \/ CloseRows(e) \/ Unpublish(e) \/ FreeLock(e)

DelegationNext ==
  \/ \E a \in Activations : ActivationStep(a) \/ ActivationFails(a) \/ TakeLock(a)
  \/ \E e \in Closers : PingCounts(e) \/ Request(e)
  \/ \E e \in Endings : EndingStep(e) \/ EndFails(e)
  \/ LockLapses \/ ReturnLapses \/ TripEnds

DelegationSpec == DelegationInit /\ [][DelegationNext]_delegationVars

(* Calls return, a short lock lapses, and the monitor scans every 10 s.      *)
DelegationFairness ==
  /\ \A a \in Activations : WF_delegationVars(ActivationStep(a))
  /\ \A e \in Endings : WF_delegationVars(EndingStep(e))
  /\ WF_delegationVars(LockLapses)

-----------------------------------------------------------------------------
(* The trip has one delegate, whom its row and the delegation's name alike:  *)
(* unless an activation outlived its lock, a lock was deleted by somebody     *)
(* else, a call failed between the row and its key, or two endings overlapped *)
(* (delegate.service.ts:57-240).                                            *)
OneDelegate ==
  ~troubled =>
    /\ \A a \in Activations : row[a] = "ACTIVE" => delegate = a
    /\ \A a, b \in Activations : row[a] = "ACTIVE" /\ row[b] = "ACTIVE" => a = b

(* However attempts are refused, overlap or are ended half-way through by the *)
(* driver, the monitor or a request, the trip is free for another delegate   *)
(* or has one again and again; and unless a call fails, the delegate on whom *)
(* the monitor passed its verdict does not stay published, and no delegation *)
(* goes on without a verdict (delegate.service.ts:57-232,                    *)
(* gps-delegate-heartbeat.job.ts:15-114).                                   *)
Delegated == ongoing /\ delegate # NoOne /\ key # NoOne

DelegationsEnd ==
  /\ []<>(lock = NoOne \/ key # NoOne \/ slips > 0)
  /\ []<>(~Delegated \/ (health /\ judged # key) \/ slips > 0)

(* What that rests on, in every state as long as no call has failed: a lock   *)
(* is held by an activation under way, goes with a published delegate, or is  *)
(* about to be freed by an ending; and the delegate on whom the monitor       *)
(* passed its verdict stays published only while an ending is on its way     *)
(* (delegate.service.ts:57-232, gps-delegate-heartbeat.job.ts:74-114).        *)
EndingsFollow ==
  slips = 0 =>
    /\ lock # NoOne =>
         at[lock] \in Activating \/ key # NoOne \/ \E e \in Endings : at[e] = "unkeyed"
    /\ key # NoOne /\ health /\ judged = key =>
         \E e \in Endings : at[e] \in {"asked", "read", "closed"}
=============================================================================
