---------------------------- MODULE TripLifecycle ----------------------------
(***************************************************************************)
(* The trips of one bus on one day, and everything Redis remembers of them. *)
(*                                                                         *)
(*   modules/trips/trips.service.ts  startTrip, endTrip                    *)
(*   modules/fleet/fleet.service.ts  deactivateDriver                      *)
(*   lib/cache.ts                    the bus's active-trip cache           *)
(*   jobs/reconcile-dashboard-stats.job.ts                                 *)
(*                                                                         *)
(* startTrip and endTrip check the status in one statement and update it in *)
(* another, then repair four Redis keys one by one.  The Redis helpers of   *)
(* lib/cache.ts swallow errors: a key may silently stay as it was.          *)
(***************************************************************************)
EXTENDS Integers, FiniteSets

CONSTANTS
  Trips,       \* today's trips of the bus
  NoTrip,
  Starters,    \* concurrent startTrip handlers
  Enders,      \* concurrent endTrip handlers
  Readers,     \* concurrent check-ins looking the active trip up
  Deactivations, \* bound: driver deactivations
  MaxLost      \* bound: Redis writes that fail silently

ASSUME TripsKnown == IsFiniteSet(Trips) /\ NoTrip \notin Trips
ASSUME BoundsKnown == Deactivations \in Nat /\ MaxLost \in Nat

VARIABLES
  status,     \* trips.status
  busCache,   \* trip:active:{busId}
  activeSet,  \* active-trips
  dash,       \* dashboard:stats activeTrips
  state,      \* trips with a trip:{id}:state hash
  starter, ender, reader,  \* handlers in flight: what is left to do, for which trip
  reconciler, \* the run of reconcileDashboardStats in progress
  tasks,      \* trips with a finalisation task queued
  finalised,  \* history: trips whose task found them over and did its work
  orphaned,   \* history: trips ended with nobody left to create a task
  deactivated, lost,       \* bounded counters
  undisturbed \* history: the run did not die, and no lifecycle handler has moved
              \* since it began, nor since it ended

redisVars == <<busCache, activeSet, dash, state>>
taskVars == <<tasks, finalised, orphaned>>
vars == <<status, redisVars, starter, ender, reader, reconciler, taskVars, deactivated, lost, undisturbed>>

Active == {t \in Trips : status[t] = "ACTIVE"}
Idle == [todo |-> "nothing", trip |-> NoTrip]
Handler(todos) == [todo : todos, trip : Trips] \cup {Idle}
NoRun == [pc |-> "idle", rows |-> {}]

TypeOK ==
  /\ status \in [Trips -> {"SCHEDULED", "ACTIVE", "COMPLETED"}]
  /\ busCache \in Trips \cup {NoTrip}
  /\ activeSet \subseteq Trips
  /\ dash \in Int
  /\ state \subseteq Trips
  /\ starter \in [Starters -> Handler({"update", "cache", "set", "count", "state"})]
  /\ ender \in [Enders -> Handler({"update", "cache", "set", "count", "state", "task"})]
  /\ reader \in [Readers -> Handler({"fill"})]
  /\ reconciler \in [pc : {"idle", "write"}, rows : SUBSET Trips]
  /\ tasks \subseteq Trips /\ finalised \subseteq Trips /\ orphaned \subseteq Trips
  /\ deactivated \in 0..Deactivations
  /\ lost \in 0..MaxLost
  /\ undisturbed \in BOOLEAN

(* createDailyTrips has run; nothing is cached.                             *)
Init ==
  /\ status = [t \in Trips |-> "SCHEDULED"]
  /\ busCache = NoTrip
  /\ activeSet = {} /\ dash = 0 /\ state = {}
  /\ starter = [h \in Starters |-> Idle]
  /\ ender = [h \in Enders |-> Idle]
  /\ reader = [h \in Readers |-> Idle]
  /\ reconciler = NoRun
  /\ tasks = {} /\ finalised = {} /\ orphaned = {}
  /\ deactivated = 0 /\ lost = 0
  /\ undisturbed = TRUE

-----------------------------------------------------------------------------
(* A Redis write of lib/cache.ts happens, or fails and nobody hears of it.  *)
Swallowing(write, unchanged) ==
  \/ write /\ UNCHANGED lost
  \/ lost < MaxLost /\ lost' = lost + 1 /\ unchanged

Then(handler, h, todo) == [handler EXCEPT ![h].todo = todo]
Done(handler, h) == [handler EXCEPT ![h] = Idle]

(* startTrip: not SCHEDULED is an early return or TRIP_CANNOT_START.        *)
StartCheck(h, t) ==
  /\ starter[h] = Idle
  /\ status[t] = "SCHEDULED"
  /\ starter' = [starter EXCEPT ![h] = [todo |-> "update", trip |-> t]]
  /\ undisturbed' = FALSE
  /\ UNCHANGED <<status, redisVars, ender, reader, reconciler, taskVars, deactivated, lost>>

(* The update names the trip and nothing else: it does not ask for the       *)
(* status the check saw.  A trip it reopens has its end still before it.     *)
StartUpdate(h) ==
  /\ starter[h].todo = "update"
  /\ status' = [status EXCEPT ![starter[h].trip] = "ACTIVE"]
  /\ starter' = Then(starter, h, "cache")
  /\ finalised' = finalised \ {starter[h].trip}
  /\ orphaned' = orphaned \ {starter[h].trip}
  /\ undisturbed' = FALSE
  /\ UNCHANGED <<redisVars, ender, reader, reconciler, tasks, deactivated, lost>>

StartCache(h) ==
  /\ starter[h].todo = "cache"
  /\ Swallowing(busCache' = starter[h].trip, UNCHANGED busCache)
  /\ starter' = Then(starter, h, "set")
  /\ undisturbed' = FALSE
  /\ UNCHANGED <<status, activeSet, dash, state, ender, reader, reconciler, taskVars, deactivated>>

StartSet(h) ==
  /\ starter[h].todo = "set"
  /\ Swallowing(activeSet' = activeSet \cup {starter[h].trip}, UNCHANGED activeSet)
  /\ starter' = Then(starter, h, "count")
  /\ undisturbed' = FALSE
  /\ UNCHANGED <<status, busCache, dash, state, ender, reader, reconciler, taskVars, deactivated>>

StartCount(h) ==
  /\ starter[h].todo = "count"
  /\ Swallowing(dash' = dash + 1, UNCHANGED dash)
  /\ starter' = Then(starter, h, "state")
  /\ undisturbed' = FALSE
  /\ UNCHANGED <<status, busCache, activeSet, state, ender, reader, reconciler, taskVars, deactivated>>

StartState(h) ==
  /\ starter[h].todo = "state"
  /\ Swallowing(state' = state \cup {starter[h].trip}, UNCHANGED state)
  /\ starter' = Done(starter, h)
  /\ undisturbed' = FALSE
  /\ UNCHANGED <<status, busCache, activeSet, dash, ender, reader, reconciler, taskVars, deactivated>>

(* The update throws, or the process dies between any two awaits.            *)
StartAbort(h) ==
  /\ starter[h] # Idle
  /\ starter' = Done(starter, h)
  /\ undisturbed' = FALSE
  /\ UNCHANGED <<status, redisVars, ender, reader, reconciler, taskVars, deactivated, lost>>

-----------------------------------------------------------------------------
(* endTrip                                                                  *)

EndCheck(h, t) ==
  /\ ender[h] = Idle
  /\ status[t] = "ACTIVE"
  /\ ender' = [ender EXCEPT ![h] = [todo |-> "update", trip |-> t]]
  /\ undisturbed' = FALSE
  /\ UNCHANGED <<status, redisVars, starter, reader, reconciler, taskVars, deactivated, lost>>

EndUpdate(h) ==
  /\ ender[h].todo = "update"
  /\ status' = [status EXCEPT ![ender[h].trip] = "COMPLETED"]
  /\ ender' = Then(ender, h, "cache")
  /\ undisturbed' = FALSE
  /\ UNCHANGED <<redisVars, starter, reader, reconciler, taskVars, deactivated, lost>>

EndCache(h) ==
  /\ ender[h].todo = "cache"
  /\ Swallowing(busCache' = NoTrip, UNCHANGED busCache)
  /\ ender' = Then(ender, h, "set")
  /\ undisturbed' = FALSE
  /\ UNCHANGED <<status, activeSet, dash, state, starter, reader, reconciler, taskVars, deactivated>>

EndSet(h) ==
  /\ ender[h].todo = "set"
  /\ Swallowing(activeSet' = activeSet \ {ender[h].trip}, UNCHANGED activeSet)
  /\ ender' = Then(ender, h, "count")
  /\ undisturbed' = FALSE
  /\ UNCHANGED <<status, busCache, dash, state, starter, reader, reconciler, taskVars, deactivated>>

EndCount(h) ==
  /\ ender[h].todo = "count"
  /\ Swallowing(dash' = dash - 1, UNCHANGED dash)
  /\ ender' = Then(ender, h, "state")
  /\ undisturbed' = FALSE
  /\ UNCHANGED <<status, busCache, activeSet, state, starter, reader, reconciler, taskVars, deactivated>>

EndState(h) ==
  /\ ender[h].todo = "state"
  /\ Swallowing(state' = state \ {ender[h].trip}, UNCHANGED state)
  /\ ender' = Then(ender, h, "task")
  /\ undisturbed' = FALSE
  /\ UNCHANGED <<status, busCache, activeSet, dash, starter, reader, reconciler, taskVars, deactivated>>

(* Mutant: the task is skipped for a trip no longer in active-trips. *)
TaskOnlyIfTracked(h) == tasks' = IF ender[h].trip \in activeSet THEN tasks \cup {ender[h].trip} ELSE tasks

CreateTask(h) == tasks' = tasks \cup {ender[h].trip}

EndTask(h) ==
  /\ ender[h].todo = "task"
  /\ CreateTask(h)
  /\ ender' = Done(ender, h)
  /\ undisturbed' = FALSE
  /\ UNCHANGED <<status, redisVars, starter, reader, reconciler, finalised, orphaned, deactivated, lost>>

(* The update or createTask throws, or the process dies.  A repeated call    *)
(* finds the trip COMPLETED and returns.                                    *)
EndAbort(h) ==
  /\ ender[h] # Idle
  /\ orphaned' = IF ender[h].todo = "update" THEN orphaned ELSE orphaned \cup {ender[h].trip}
  /\ ender' = Done(ender, h)
  /\ undisturbed' = FALSE
  /\ UNCHANGED <<status, redisVars, starter, reader, reconciler, tasks, finalised, deactivated, lost>>

(* The task is acknowledged: mark-absent did its work, or it found the trip  *)
(* not COMPLETED and skipped it.  (Its failed deliveries, and                *)
(* gps-outage-absent, are TripAttendance's.)                                *)
Deliver(t) ==
  /\ t \in tasks
  /\ tasks' = tasks \ {t}
  /\ finalised' = IF status[t] = "COMPLETED" THEN finalised \cup {t} ELSE finalised
  /\ UNCHANGED <<status, redisVars, starter, ender, reader, reconciler, orphaned, deactivated, lost, undisturbed>>

-----------------------------------------------------------------------------
(* deactivateDriver: one transaction over the rows; Redis, sockets and the   *)
(* finalisation task are left to nobody.                                    *)
Deactivate(t) ==
  /\ deactivated < Deactivations
  /\ status[t] = "ACTIVE"
  /\ status' = [status EXCEPT ![t] = "COMPLETED"]
  /\ deactivated' = deactivated + 1
  /\ orphaned' = orphaned \cup {t}
  /\ undisturbed' = FALSE
  /\ UNCHANGED <<redisVars, starter, ender, reader, reconciler, tasks, finalised, lost>>

-----------------------------------------------------------------------------
(* getActiveTripCached: on a miss the row is read, then cached.             *)

(* Mutant: the row is read whatever its status. *)
LookupAnyTrip(h, t) ==
  /\ reader[h] = Idle
  /\ busCache = NoTrip
  /\ reader' = [reader EXCEPT ![h] = [todo |-> "fill", trip |-> t]]
  /\ UNCHANGED <<status, redisVars, starter, ender, reconciler, taskVars, deactivated, lost, undisturbed>>

Lookup(h, t) ==
  /\ reader[h] = Idle
  /\ busCache = NoTrip
  /\ status[t] = "ACTIVE"
  /\ reader' = [reader EXCEPT ![h] = [todo |-> "fill", trip |-> t]]
  /\ UNCHANGED <<status, redisVars, starter, ender, reconciler, taskVars, deactivated, lost, undisturbed>>

Fill(h) ==
  /\ reader[h].todo = "fill"
  /\ Swallowing(busCache' = reader[h].trip, UNCHANGED busCache)
  /\ reader' = Done(reader, h)
  /\ UNCHANGED <<status, activeSet, dash, state, starter, ender, reconciler, taskVars, deactivated, undisturbed>>

LookupAbort(h) ==
  /\ reader[h] # Idle
  /\ reader' = Done(reader, h)
  /\ UNCHANGED <<status, redisVars, starter, ender, reconciler, taskVars, deactivated, lost, undisturbed>>

(* CACHE_TTL.ACTIVE_TRIP_SECONDS have passed.                               *)
CacheExpires ==
  /\ busCache # NoTrip
  /\ busCache' = NoTrip
  /\ UNCHANGED <<status, activeSet, dash, state, starter, ender, reader, reconciler, taskVars,
                 deactivated, lost, undisturbed>>

-----------------------------------------------------------------------------
(* reconcileDashboardStats, under its lock: read the rows, then rewrite the  *)
(* counter and the set in one pipeline.                                     *)

InFlight == (\E h \in Starters : starter[h] # Idle) \/ (\E h \in Enders : ender[h] # Idle)

ReconcileRead ==
  /\ reconciler.pc = "idle"
  /\ reconciler' = [pc |-> "write", rows |-> Active]
  /\ undisturbed' = ~InFlight
  /\ UNCHANGED <<status, redisVars, starter, ender, reader, taskVars, deactivated, lost>>

(* Mutant: the set is extended, never cleared. *)
AddOnly(rows) == dash' = Cardinality(rows) /\ activeSet' = activeSet \cup rows

Rewrite(rows) == dash' = Cardinality(rows) /\ activeSet' = rows

ReconcileWrite ==
  /\ reconciler.pc = "write"
  /\ Rewrite(reconciler.rows)
  /\ reconciler' = [pc |-> "idle", rows |-> reconciler.rows]
  /\ UNCHANGED <<status, busCache, state, starter, ender, reader, taskVars, deactivated, lost, undisturbed>>

(* The pipeline fails or the process dies. *)
ReconcileAbort ==
  /\ reconciler.pc = "write"
  /\ reconciler' = NoRun
  /\ undisturbed' = FALSE
  /\ UNCHANGED <<status, redisVars, starter, ender, reader, taskVars, deactivated, lost>>

-----------------------------------------------------------------------------
StartStep(h) == StartUpdate(h) \/ StartCache(h) \/ StartSet(h) \/ StartCount(h) \/ StartState(h)
EndStep(h) == EndUpdate(h) \/ EndCache(h) \/ EndSet(h) \/ EndCount(h) \/ EndState(h) \/ EndTask(h)

Next ==
  \/ \E h \in Starters, t \in Trips : StartCheck(h, t)
  \/ \E h \in Starters : StartStep(h) \/ StartAbort(h)
  \/ \E h \in Enders, t \in Trips : EndCheck(h, t)
  \/ \E h \in Enders : EndStep(h) \/ EndAbort(h)
  \/ \E t \in Trips : Deactivate(t) \/ Deliver(t)
  \/ \E h \in Readers, t \in Trips : Lookup(h, t)
  \/ \E h \in Readers : Fill(h) \/ LookupAbort(h)
  \/ CacheExpires
  \/ ReconcileRead \/ ReconcileWrite \/ ReconcileAbort

Spec == Init /\ [][Next]_vars

-----------------------------------------------------------------------------
(* Properties                                                               *)

(* A reconciliation that no start, end or deactivation overlaps leaves the   *)
(* dashboard's counter and the active-trips set equal to the rows, whatever  *)
(* drift swallowed errors, double starts and deactivations left before, and  *)
(* they stay equal until one of those moves again.                          *)
ReconciliationHeals ==
  undisturbed /\ reconciler.pc = "idle"
    => dash = Cardinality(Active) /\ activeSet = Active

(* What names an ended trip in the bus's cache only fades: the calls that    *)
(* will write its name into the entry are only used up, and the entry comes  *)
(* to name it only by one of them - unless a start that checked before the   *)
(* end is late and reopens the trip, which none does twice.  With the TTL,   *)
(* the check-ins of the bus's next trip are not refused for ever             *)
(* (lib/cache.ts:151-183, trips.service.ts:27-74).                          *)
LateStarters(t) == {h \in Starters : starter[h].trip = t /\ starter[h].todo = "update"}
CacheWriters(t) ==
  {h \in Starters : starter[h].trip = t /\ starter[h].todo \in {"update", "cache"}}
Refillers(t) == {h \in Readers : reader[h].trip = t /\ reader[h].todo = "fill"}
EntriesFade ==
  [][\A t \in Trips : status[t] = "COMPLETED" =>
       /\ LateStarters(t)' \subseteq LateStarters(t)
       /\ CacheWriters(t)' \subseteq CacheWriters(t)
       /\ Refillers(t)' \subseteq Refillers(t)
       /\ status'[t] = "COMPLETED" \/ (status'[t] = "ACTIVE" /\ LateStarters(t)' # LateStarters(t))
       /\ busCache' = t =>
            busCache = t \/ CacheWriters(t)' # CacheWriters(t) \/ Refillers(t)' # Refillers(t)]_vars

(* A trip that is over has its finalisation task queued or done, or an end   *)
(* of it under way that will create it: also when ends overlap, the cache    *)
(* keys are gone, Redis calls fail, or a late start reopened it meanwhile.   *)
(* Only an end that died after its update, or the deactivation of the driver *)
(* leaves it without (trips.service.ts:76-215, fleet.service.ts:192-237).    *)
EndedHasTask ==
  \A t \in Trips : status[t] = "COMPLETED" =>
    \/ t \in tasks \cup finalised \cup orphaned
    \/ \E h \in Enders : ender[h].trip = t /\ ender[h].todo \in {"cache", "set", "count", "state", "task"}
=============================================================================
