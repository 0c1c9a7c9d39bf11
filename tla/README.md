# Verification of Sairus

Sairus runs a college's buses: drivers start and end trips, students board by
scanning a QR token that a kiosk shows, coordinators and administrators watch
and correct, and background jobs settle what is left open. This directory keeps
TLA+ models of the parts where several actors write the same state, the TLC
configurations that check them on small instances, and TLAPS proofs for
instances of any size.

    tlc -workers 2 -config TripAttendance_ends.cfg MCTripAttendance
    tlapm TripAttendance_proofs.tla

Paths below are relative to `src/apps/backend/src` unless they begin with
`docs/`, `mobile/` (`src/apps/mobile`) or `shared/` (`src/packages/shared/src`).

- [1 The system](#1-the-system)
- [2 The modules](#2-the-modules)
- [3 The runs](#3-the-runs)
- [4 Fairness](#4-fairness)
- [5 What is proved](#5-what-is-proved)
- [6 Where the code and its documents differ](#6-where-the-code-and-its-documents-differ)
- [7 What is not modelled](#7-what-is-not-modelled)
- [8 Plan](#8-plan)

## 1 The system

The backend is one Fastify process (or several) over Postgres and Redis.
Postgres statements are atomic one at a time, `$transaction` blocks as a whole,
and every other pair of steps of a handler may have any other handler between
them. Redis holds copies, one-time tokens, counters and locks; most helpers of
`lib/cache.ts` swallow its errors. Cloud Tasks calls the job routes over HTTP
and repeats a call that did not answer 2xx. The mobile app keeps a queue of
check-ins on the phone.

| Component | State | Operations | Hard behaviour |
| --- | --- | --- | --- |
| Attendance (`modules/attendance`, `jobs/mark-absent`, `jobs/gps-outage-absent`) | `attendance_logs` by (user, trip), `attendance_events`, `trips.boardedCount`, `qr:nonce:*` | check-in, manual mark, coordinator override, finalisation after the end | a log is read in one step and written in another; events are written after, and apart from, the row; jobs are repeated |
| Check-in queue (`mobile/lib/checkin-queue.ts`, `hooks/useCheckin.ts`) | the queue in AsyncStorage, requests under way | first attempt, `add`, `flush` in chunks with retries and expiry, logout on 403 | `add` and `flush` read and write the whole queue; answers get lost after the server acted; the app is killed |
| Trip lifecycle (`modules/trips`, `lib/cache.ts`, `jobs/reconcile-dashboard-stats`) | `trips.status`; `trip:active:{bus}`, `active-trips`, `dashboard:stats`, `trip:{id}:state` | `startTrip`, `endTrip`, deactivation of a driver, the cached lookup, reconciliation | checks and updates are separate statements; four Redis keys are repaired one by one and may each silently fail |
| Mobile sessions (`modules/auth`, `lib/auth-cache.ts`, `lib/auth-state-change.ts`) | `users.isActive/sessionVersion/registeredDeviceId`, the 24 h copy in Redis, issued tokens | login, refresh, the check of each request, logout, enabling, disabling, driver deactivation | nothing orders a write of the copy after the update it was read before |
| Distributed lock (`lib/distributed-lock.ts`) | `lock:{resource}` with value and time to live; the renewal timer | `acquireLock`, renewal, `withLock`, release | expiry against a late renewal; release of a lock that is another's by now; process death |
| Bulk import (`modules/import`) | `import_sessions.status`, `import_rows`, the users written from them | execute, retry, edit a row, derive the status | check and mark of the session are apart; a batch read earlier is written later; restarts |
| QR rotation (`websocket/socket.ts`, `modules/qr`, `mobile/hooks/useKioskSocket.ts`, `mobile/lib/socket.ts`) | one interval per socket, rooms, what the client has not sent yet | join, leave, disconnect, reconnect, rotate | an `await` between clearing the old timer and keeping the new; what was kept is sent again at a reconnection |
| Incidents (`modules/incidents`, incident operations of `admin.service.ts`) | incident rows, escalation tasks | report, escalate by task or by hand, assign, resolve | a task repeated, overlapping itself, or racing an operator; no update has a condition |
| Delegation (`modules/trips/delegate.service.ts`, `jobs/gps-delegate-heartbeat.job.ts`) | `trips.delegateId`, delegation rows, four Redis keys | activate, end, the monitor, the driver's return | a lock without an owner; row, key and lock are written apart |
| GPS (`modules/gps`, `jobs/gps-heartbeat.job.ts`) | heartbeats, `gps:status:*`, `dashboard:stats.gpsOffline` | ping, detect, reconcile | runs overlap and die; a count kept by increments |
| Mobile session (`mobile/store/auth.store.ts`, `mobile/lib/api.client.ts`, `mobile/lib/session.ts`, `mobile/app/_layout.tsx`) | the token in the store and in the secure store, three shared promises | requests, refresh, login, logout, profile effect, start of the app | requests wait on the bootstrap, which waits on a request; storing and clearing overlap |
| Admin account (`modules/auth/admin-auth.*`, `admin.routes.ts`) | the row, its copy in Redis, challenge, sessions | login with MFA, setup, enabling, disabling, deactivation, suspension, role change, reset, invitation | tokens issued from rows read earlier; copies on their way |
| Notifications (`lib/queue.ts`, `lib/redis-circuit.ts`, `jobs/notification.worker.ts`) | BullMQ jobs, drop rows, the breaker | dispatch, add, serve, retry | limits, retries, a breaker shared by concurrent calls |
| Corrections, self reports, arrival, skip and wait requests | their rows, other columns of the log | request, review | an approval and its effect are in two transactions |
| Rate limits, idempotency plugin, load balancer | counters in Redis | check, record | INCR and EXPIRE apart |
| Users, fleet, routes, student and driver views, reports | single rows | CRUD, reads | uniqueness is the database's |
| Shared package | none | geofence, percentages, time, policy | rounding and boundaries |
| Admin web app, other mobile screens, seeds, infrastructure, RAG placeholder | - | - | - |

How they meet: a check-in looks the bus's trip up in the lifecycle's cache, burns
a nonce that the rotation stored and writes attendance rows; the end of a trip
creates the Cloud Task that finalises them; a delegation records the outage
that sends the finalisation down another path, and begins where the outage
detection shows a bus OFFLINE; every request passes the session check, the app's
and the administrators' alike; incidents, delegations and outages dispatch
notifications, and a dispatch may throw; deactivating a driver writes session and trip rows at once; the phone's
queue replays check-ins into the same handler. `reconcileDashboardStats` runs
under the distributed lock.

What makes each part correct is stated as its properties, below; `PROJECT.json`
lists, line by line, the hazards they are aimed at.

## 2 The modules

A step is one Redis command, one SQL statement, one `$transaction`, or one HTTP
exchange: exactly what the code awaits. A handler in flight is a record with a
`pc` (or `todo`) and the data it read earlier and will use later; that is where
staleness comes from. A crash, a rejected promise and a thrown error have the
same effect on shared state, and are one `...Abort` or `...Crash` action per
handler. Variables called *history* below exist only for the properties: no
guard reads them. Operators marked `Mutant:` belong to no behaviour: each is a
plausible bug in the definition that follows it, and shows that the property it
is paired with in `PROJECT.json` can fail.

### TripAttendance

One trip, any students. `trip` is the row (status, `boardedCount`, whether
`gpsOutageStart` is set), `log` the rows of `attendance_logs` (status and
method), `lastEvent` the newest event, `nonce` the Redis keys `qr:nonce:*`.

| Code | Actions |
| --- | --- |
| `qr.service.generateToken`, TTL of the nonce | `IssueNonce`, `ExpireNonce` (any order and time: a superset of the rotation) |
| `checkIn` | `ScanStart` (signature, session), `ScanBurn`/`ScanRefused` (GETDEL), `ScanValidate` (trip, route, geofence inputs), `ScanExisting` (reads the log, then the outcome of `evaluateCheckin`), `ScanFail` (upsert of PENDING), `ScanCommit` (transaction), `ScanEvent`, `ScanAbort` |
| `manualMarkAttendance` | `MarkStart`, `MarkWrite`, `MarkEvent`, `MarkAbort` |
| `coordinatorMarkAllPresent` | `OverrideStart`, `OverrideWrite`, `OverrideEvents`, `OverrideAbort` |
| `activateDelegation` (what touches this row) | `DelegateStart`, `DelegateActivate` |
| `startTrip` | `StartRead` (the status), `StartUpdate` (whatever it is by then: a late one reopens a COMPLETED trip; history `reopened`), `StartAbort`; `starting` counts those in between |
| `endTrip` | `EndStart`, `EndUpdate`, `EndSchedule`, `EndAbort`; `tasks[e]` is the (unnamed) task that call `e` created |
| `mark-absent` | `JobStart`, `JobDefer`, `JobUpdate`, `JobSelect`, `JobEvents` |
| `gps-outage-absent` | `OutageStart`, `OutageFinalise` (one transaction per log), `OutageDone` |
| a delivery that dies | `JobCrash`; the task stays queued |

`EventActors` says which of the actors `system` and `admin` the foreign key of
`attendance_events.actorId` accepts: the schema references `users(id)`, and
neither is a row of it unless a deployment adds one. Two details that look odd
are the code's: under an outage `mark-absent` inserts events of a type the enum
lacks, so the delivery fails as long as something is PENDING, and its
`dispatchJob` calls `queueJob`, which `lib/queue` does not export.

Properties: `NonceAdmitsOnce` (a token admits once); `BoardedCoversLogs`
(`boardedCount` never falls behind the rows that scans and marks wrote - it may
run ahead, see section 6); `AbsentOnlyAfterEnd` (nobody is ABSENT on a trip that has
not been over, although `gps-outage-absent` never reads the trip - a late start may
have reopened it since); `BoardingsAudited`
(whoever is on board has an event, or it is in flight, or was lost after the
commit); `MarkAbsentSparesBoarded` (without an outage no step turns on-board
into ABSENT); `ImplementsAttendance` (below); `NoneAbandoned` (two things only take
the task of a PENDING log away before it is final: a failing `createTask`, and a
delivery of mark-absent that finds the trip reopened, skips it and is acknowledged);
`PendingIsFinalised` and `TasksAreAcknowledged` (liveness); `PendingDwindles` (what the
latter rests on, without fairness; proved, not part of a run).

`Attendance` is the abstract specification: the trip's course (scheduled, running or
over, and whether it has been over), per student none, pending, on board or
absent, the count, the tokens used, whether there was an outage. A
token admits once; every boarding by scan or mark counts in the same step, and none
precedes the start; only an end allows absence; only an outage makes someone absent
who was not pending; a trip that is over runs again only by a start that was asked
for before its first one and is still under way, and none can be asked for then.
`ImplementsAttendance` is the refinement, with `standing` read off the rows
(`Standing`), `phase` and `outage` off the trip, `starting` off the starts between
check and update, `ended` is `Over`, `used` the tokens with an admission. Its
`Contest`, pending over anything, is there because the code does it (section 6).

### PhoneQueue and CheckinQueue

`PhoneQueue` is what the queue promises a student: a check-in it accepted stays
until she has been told its outcome (`NoneLost`), one that has left does not come
back unless she was told of it (`NoneReturns`), and she is shown a boarding only
after one. Once two spans from reading to writing the queue overlapped
(`Overlap`), only the last of these remains: the code keeps no more than that.

One student's phone. `stored` is the queue in AsyncStorage, a set of items
(token, id, retries) - its order only decides which items share a chunk.
`call[c]` is a `useCheckin` call, `flush` the flush in progress with the copy it
read (`todo`, `waiting`, `left`), `net` the requests and answers under way. The
server is what `POST /checkin` looks like from the phone: `Serve` boards and
answers ok, refuses, or answers 403; a request that gets no answer may or may
not have boarded (`MayBoard`).

| Code | Actions |
| --- | --- |
| `useCheckin` first attempt | `Scan`, `CallAnswered`, `CallUnanswered` |
| `add` | `AddRead`, `AddSave` |
| `useNetworkStatus` | `Disconnect`, `Reconnect` |
| `flush` | `FlushRead`, `FlushChunk` (with expiry), `ItemAnswered`, `ItemUnanswered`, `FlushSave` |
| 403 logout (`api.client.ts`, `session.ts`) | `ClearSession`, within the two answer actions |
| the app is killed and opened again | `Restart` |

Properties: `QueuedIsKept` (unless two spans from reading to writing the queue
overlapped - history `serial` - an accepted check-in is stored until the student
saw its outcome); `QueueBounded` (limit, one item per token, whatever overlaps);
`ImplementsPhoneQueue` (refinement, with `kept` the keys in the storage, `told`
`settled`, `reliable` `serial`; telling is the alert or toast the code asks for, and
on iOS the toast shows nothing, `checkin-queue.ts:13-17`; `ConfirmedIsOnBoard`, no confirmation without a
boarding, follows and is proved by itself too); `AnswersAwaited` (nobody
awaits an answer that cannot come; proved, not part of a run); `QueueDrains`.

### TripLifecycle

The trips of one bus on one day. `status` are the rows; `busCache`,
`activeSet`, `dash`, `state` the four Redis copies. `starter[h]`/`ender[h]` say
what a handler has left to do, for which trip, so `StartCheck .. StartState`
and `EndCheck .. EndTask` are the statements of `startTrip` and `endTrip` in
order; each Redis write happens or is silently lost (`Swallowing`), and a handler may
throw or die before any statement (`StartAbort`, `EndAbort`; an end that goes after
its update, `createTask` failing included, leaves the trip in the history
`orphaned`, since a repeated call returns early). `Deactivate`
is the transaction of `deactivateDriver`, which touches rows only. `Deliver` is the
task's last delivery: it finishes its work (history `finalised`) or finds the trip
reopened and skips it. `Lookup`, `Fill` and `LookupAbort` are `getActiveTripCached` on
a miss, `CacheExpires` its TTL, `ReconcileRead`, `ReconcileWrite` and
`ReconcileAbort` the job.

Properties: `ReconciliationHeals` (a reconciliation no lifecycle handler
overlapped leaves counter and set equal to the rows, whatever the drift, until
one moves again - history `undisturbed`); `EntriesFade` (what names an ended trip in
the bus's cache is only used up: a step names it anew only by spending a start or a
lookup that began before the end); `EndedHasTask` (a trip that is over has its task,
had it done, has an end under way that will create it, or is `orphaned`: overlapping
ends, lost Redis writes and late starts take no task away).

### KioskQr

The screen that shows the codes and the server's rotation of them. `open`, `conn`
and `unsent` are the client (a socket that keeps what it cannot send), `wire` what
travels, `rotation` and `registered` the intervals of the server and the one a
socket's entry of `qrTimers` would clear. A rotation is `issuing` while
`startQrRotation` awaits its first code.

| Code | Actions |
| --- | --- |
| `useKioskSocket` effect and its clean-up | `OpenKiosk`, `CloseKiosk` |
| `lib/socket.ts` connect handler; the network (external) | `Connect` (what was kept, then the rooms anew); `LoseConnection` |
| the handshake's middleware answers with an error | `ConnectRefused`: socket.io-client does not try again by itself (`refused`) until the screen is opened anew or the token changes |
| the store's subscriber, on a new token | `TokenChanges` |
| `joinTripRoom`, `leaveTripRoom`, `disconnect` | `HandleJoin`, `HandleLeave`, `HandleDisconnect` |
| `startQrRotation` after its await, the interval | `SetRotation`, `RotationTick` |
| a query or Redis call of `issueQrForSocket` throws | `IssueFails`: nobody catches it, the process ends |
| the trip ends | `KioskTripEnds` |

Properties: `LeakNeedsOverlap` (an interval nobody would clear had its join
overlapped by another event of its socket; history `overlapped`) - that such
intervals do arise, see section 6; `RotationNeverStops` (a kiosk that stays on a
trip under way gets a new code again and again, leaks or not, unless a refused
handshake is the last word); `CodeComes` (its part without fairness).

### AuthSession

One user. `row` is the row, `cache` the copy, `tokens` what clients hold.
`LoginRead, LoginBind, LoginState, LoginWrite` are `mobileLogin`'s statements (the
token carries the version read first, the copy what is read last), `Refresh`
`mobileRefresh`; `AskCached`, and `AskMissed, Read, Fill`, are `requireMobileAuth` on a
hit and on a miss - the copy is written without anyone waiting for it;
`RevokeUpdate, RevokeDelete` are `revokeMobileAuthState` (logout, logout-all,
enable/disable); `Deactivate` is `deactivateDriver`'s update; `CacheExpires` the
24 h. `clean` (history) says that no update overtook a copy on its way to Redis
and no repair of the copy was lost.

Properties: `RevocationHolds` and `DeviceHolds` while `clean`; `RevokedStaysOut`
always: whatever was overtaken or lost, a replaced version is let through for a
while at most. `OldCopiesFade`, its part without fairness, is proved, and so is
`ImplementsVersion`.

`SessionVersion` is what a session version promises, to users and administrators
alike: the row has one version at a time, they follow one another, none is let
through before the row has it, and, while `sound`, none after a handler that
replaced it has returned. `ImplementsVersion` maps `current` to the row's version,
`promised` to `revoked`, `passed` to what was let through last, `sound` to `clean`;
`ImplementsAdminVersion` does the same in `AdminAccount`.

### MobileSession

The phone's side of a session. `mtoken`, `hasUser`, `phase`, `gate` are the store,
`kept` the secure store, `shown .. runToken` the effect of `_layout.tsx` and its
runs, `refresh`, `clear`, `signIn` where the three flows that write the token have
got to. `stranded` (history) says that the last run was refused and joined a clearing
that had already reset the store: its promise ends, and nothing resets the token that
a refresh stored in between. Tokens are numbers and the server accepts those above `floor`: what
`AuthSession` does inside is an environment here.

| Code | Actions |
| --- | --- |
| request interceptor (the bootstrap lock) | `ScreenRequests`, `MobileUnlock` |
| response interceptor | `AnswerGood`, `AnswerUnauthorized`, `ProfileUnauthorized`, `AnswerForbidden`, `AnswerFails` |
| the shared refresh | `RefreshAsk`, `RefreshGranted`, `RefreshPersist`, `RefreshSet`, `RefreshFails` |
| `clearMobileSession` | `ClearSignOut`, `ClearDelete` (a deletion that fails is swallowed), `ClearReset` (of the store), `ClearCaches` (the await after it; then the shared promise ends); `MobileLogout` starts it |
| the login screen | `LoginVerify`, `LoginGranted`, `LoginPersist`, `LoginSet`, `LoginSignOut`, `LoginFails` |
| the effect and its runs | `EffectSignedOut`, `EffectFetches`, `RunSucceeds`, `RunRefused`, `RunFails` |
| start of the app; revocations | `AppStarts`; `ServerRevokes` |

Properties: `AppSettles` (nobody waits on everybody: the lock a request waits for is
released by a run whose own request may clear the session, refresh, or be
cancelled; and a bootstrapping phone gets to its screens or to the login unless
`stranded`); `NobodyWaitsInVain` (why: whoever waits has something under way to wait
for, without a circle, and a phone that bootstraps has its next step coming unless
`stranded`); `StoresAgree` (the token in use is the one the next start finds, unless
the last storing met a clear or another storing, or the deletion failed: history
`clash`).

### AdminAccount

One administrator. `account` is the row, `adminCopy` the copy requests are
checked against, `sessions` the tokens handed out (version, second factor),
`adminLogin`, `adminRequest`, `handler` the calls under way.

| Code | Actions |
| --- | --- |
| `adminLogin`, `verifyAdminLoginMfa`, `finalizeAdminLogin` | `LoginPassword`, `LoginCode`, `LoginFinal`, `LoginCopy`, `ChallengeExpires` |
| `requireAdminAuth`, `getAuthAdminState` | `AdminAskCached`, `AdminAskMissed`, `AdminRead`, `AdminFill`, `AdminCopyExpires` |
| the account's own requests | `RequestEnds`, `AdminLogout`, `SetupRead/Write`, `EnableRead/Write`, `DisableRead/Write`, `RequestDelete`, `RequestDies` |
| other administrators' | `DeactivateAdmin`, `ReactivateAdmin`, `Suspend`, `Unsuspend`, `ChangeRole` + `BumpAfterChange`, `HandlerDrop`, `HandlerDies` (also between the role's transaction and the version's update: history `roleHalf`) |
| mailed links | `ResetRead/Write`, `AcceptRead/Write`, `InvitationExpires` |

Properties: `CurrentSession` (a session of the current version is one the row, as
it is now, would give); `AdminDecisionsHold` (while no copy was overtaken and no
deletion lost - history `adminClean` - nothing a returned handler replaced is let
through, whatever died; nor is another role than the row's, but while a change of role
has yet to delete the copy or died before it did: `RoleSettled`);
`ChangesReachSessions` (always, in the end: an account that stays disabled, with MFA
or in a role admits only accordingly, half-done role changes included), with
`OldAdminCopiesFade` for its part without fairness, proved, as is
`ImplementsAdminVersion` (above).

### Mutex and DistributedLock

`Mutex` is what the lock promises: works never overlap before the first failure,
and a failure takes no work back in. `DistributedLock` is `withLock` in discrete
time: `Acquire` (SET NX PX), `Start`, `Fire` (the timer at `max(1 s, ttl/2)`),
`Renew` and `Release` (the two Lua scripts, with the loss of the command as a
fault), `Finish`, `Crash`, `Restart` (of Redis), `Tick`. `MaxDelay` bounds how
late a healthy command runs; anything later counts as a fault.

Properties: `MutualExclusion` (while healthy, and if the time to live exceeds the
renewal interval plus two delays), `ReleaseIsOwn` (no call's release takes
another's lock), `ImplementsMutex` (refinement, with `working` and
`faults > 0` for the two abstract variables), `EndedCallsFree`, `LeftLocksRunDown`
(its part without fairness). The run checks `ImplementsMutex`, of which
`MutualExclusion` is a consequence; both are proved.

### GpsOutage

`checkGpsHeartbeats` over some buses, each on a trip of its own. `driving`, `listed`
and `hashed` are the rows, the set `active-trips` and the hashes of the trips,
`heard` and `silent` the heartbeats and statuses of the buses, `gpsOffline` the
count.

| Code | Actions |
| --- | --- |
| `startTrip`, `endTrip` as far as the job sees them | `TripRow`, `TripRedis`, `TripRedisLost` |
| a ping; the heartbeat's age | `Ping`, `BeatAges` |
| a run of the job | `CheckReads` (the pipeline of reads), `CheckWrites` (of statuses), `CheckCounts` (increment and alert), `CheckDies` |
| `reconcileDashboardStats` as far as it writes these keys | `ReconReads`, `ReconWrites` |

Properties: `CountAgrees` (the count is the number of buses shown OFFLINE unless
runs or a reconciliation overlapped or a run died counting: history
`disturbed`); `StatusFollows` (whatever happened, a bus's status comes to agree with its
pings) and `MisledFade`, its part without fairness, proved.

### ImportSession

One session. `status`, `field` and `content` (a phone and what else is said) are the
import rows, `user` says of each phone from what its user was last written: the code
upserts by phone and refuses no two rows of one phone. `Execute`/`Retry` check the session, `Reset` and `Mark`
are the statements before the batch is read (`ReadPending`), `Commit` or
`RollBack` + `FailRow` the transaction and what follows its failure, `Count` and
`Sync` the derived status, `Edit` + `EditCount` + `EditSync` `updateImportRow`,
`Crash` a restart. Whether a row is valid and whether a transaction succeeds is
left open.

Properties: `RowsTellOutcome` (a row is IMPORTED exactly if a user was written
from what it says now, and that user still says it unless a row of the same phone,
later in the batch or in a later one, was written over it - history `overwritten`;
excepted are rows edited, or read by a second call, while an
execution held them: `contended`); `StatusAgrees`; `ImportingEnds`, and `ImportingIsServed`, its part
without fairness.

### Incidents

Incident rows, the tasks Cloud Tasks holds, deliveries (possibly several of one
task) and operators, each with the level it read. The ten minutes are not
measured: a task may be delivered as soon as it exists.

| Code | Actions |
| --- | --- |
| `reportIncident` | `ReportCreate`, `ReportFails` (the dispatch throws), `ReportEnqueue` |
| `processEscalation` | `DeliverVoid`, `DeliverRead`, `DeliverRaise`, `DeliverEnqueue`, `DeliverAck`, `DeliverFails` |
| `escalateIncident` of the admin service | `OperatorRead`, `OperatorEscalate` |
| `resolveIncident`, `assignSubstitute` | `ResolveIncident`, `AssignSubstitute` |

Properties: `NeverForgotten` (an incident nobody attended has a task until its last
level), `OfficersFirst` (no step passes the transport officers over, though every
writer works from a level it read earlier), `UnattendedEscalates` (liveness).

### Delegation

One trip. `delegate` and `row` are in Postgres, `key`, `lock` (with its `life`), `health`
and `returns` in Redis; `at` says where each activation and each ending has got to.

| Code | Actions |
| --- | --- |
| `activateDelegation` | `TakeLock`, `TimeLock`, `CheckTrip`, `CheckKey`, `CreateRow`, `CommitDelegation`, `Publish`, `Prolong`, `ActivationFails`, `LockLapses` |
| the driver's pings, `/delegate/end` | `PingCounts`, `PingResets`, `ReturnLapses`, `Request` |
| the monitor | `Scan`, `Verdict` |
| `endDelegation` | `EndReads`, `CloseRows`, `Unpublish`, `FreeLock`, `EndFails` |
| `endTrip` | `TripEnds` (it leaves the delegation as it is) |

Properties: `OneDelegate` (the trip has one delegate, whom its row names, unless a
lock, a key or an ending met another activation or ending: history `troubled`);
`DelegationsEnd` (the trip is free for another delegate, or has one, again and again,
and a delegation goes on neither without nor against the monitor's verdict), and
`EndingsFollow`, its part without fairness.

### Notifications

Callers of `dispatchWithBackpressure`, each followed through one notification
after another, the breaker around `queue.add`, and the worker's job.

| Code | Actions |
| --- | --- |
| `dispatchWithBackpressure` | `Dispatch` (the depth decides), `Alert`, `RecordDrop`, `Throws` |
| `circuitExecute` | `Refuse`, `StartAdd`, `Added`, `AddSucceeds`, `AddFails`, `CoolDown` |
| `processNotificationJob`, BullMQ's retries | `Take`, `Serve` (the next channel), `Unheard` (an SMS that throws into `Promise.allSettled`, or a push token the service refuses: the job goes on), `AttemptFails`, `BackoffEnds`, `Stalled` |
| the process ends | `Dies` |

Properties: `NothingVanishes` (what was answered is queued, or told in the app and told
or refused on every other channel, given up after all its chances, or has a row; a
CRITICAL one is never dropped). What the worker swallows is lost to the channel, and the
property says no more of it than that the in-app row is there.
Further: `BreakerRecovers`, and `BreakerIsTried`, its part without fairness.

### The composed instances

`MCTripLifecycle`, `MCPhone`, `MCSessions`, `MCDistributedLock` and `MCBackOffice` check several
machines in one run. They share no state in the models, so a variable `part` is
chosen at first and each behaviour has the steps of one of them: the sum of their
state spaces is explored, not the product, and what is checked is what a run of each
alone would check.

## 3 The runs

`-workers 2`; states are distinct states. All bounds are CONSTANTS that appear in
guards (or in the number of handlers) and are named in the modules.

| Run | Instance | States | Shows |
| --- | --- | --- | --- |
| `TripAttendance_boardings` | 2 students, 2 tokens, 2 scans, 1 mark, override, 1 start; symmetric | 3.2 M, 1.5 min | NonceAdmitsOnce, BoardingsAudited, BoardedCoversLogs |
| `TripAttendance_ends` | 1 student, 1 token, 1 scan, override, delegation, 2 starts, 2 ends, 1 crash | 187 k, 2.0 min | PendingIsFinalised, TasksAreAcknowledged, NoneAbandoned, ImplementsAttendance (hence AbsentOnlyAfterEnd, MarkAbsentSparesBoarded) |
| `Phone` (`CheckinQueue`, `MobileSession`) | queue: 2 tokens, 2 calls, limit 2, 1 retry, chunks of 1, 3 attempts, 1 restart; session: 1 screen request, 2 effect runs, 2 tokens, 1 failure | 1.0 M, 2.4 min | QueuedIsKept, QueueBounded, QueueDrains, ImplementsPhoneQueue (hence ConfirmedIsOnBoard), StoresAgree, NobodyWaitsInVain, AppSettles |
| `TripLifecycle` (with `KioskQr`) | 1 trip, 2 starts, 1 end, 1 lookup, 1 deactivation, 1 lost write; kiosk opened (or its token changed) twice, 2 connections, 1 error | 981 k, 1.5 min | ReconciliationHeals, EntriesFade, EndedHasTask, LeakNeedsOverlap, RotationNeverStops |
| `AuthSession_races` | 2 devices, 2 logins, 1 request, 1 revoker, versions to 1, 1 lost call; symmetric | 614 k, 0.3 min | RevocationHolds, DeviceHolds |
| `AuthSession_live` (`AuthSession`, `AdminAccount`) | 1 device, login, request, revoker, versions to 2, 1 lost call; account: 2 roles, 1 login, 1 own request, 1 handler, versions to 2, 1 lost call or handler | 1.5 M, 3.2 min | RevokedStaysOut, CurrentSession, AdminDecisionsHold, ChangesReachSessions |
| `DistributedLock` (with `GpsOutage`) | 3 calls, time to live 5, second 1, delay 1, 1 fault; 2 buses, 2 runs, 1 reconciliation, 1 failure | 1.0 M, 1.6 min | ReleaseIsOwn, ImplementsMutex (hence MutualExclusion), EndedCallsFree, CountAgrees, StatusFollows |
| `ImportSession_calls` (`ImportSession`, `Incidents`, `Delegation`, `Notifications`) | 2 rows, 2 phones, 2 things said, 2 executors, 1 editor, 1 crash; 1 incident, 3 tasks, 2 deliveries, 1 operator, 1 failure; 2 activations, 1 closer, 1 monitor, 1 failure; 1 CRITICAL and 1 BATCH sender, 3 mishaps | 909 k, 2.1 min | RowsTellOutcome, StatusAgrees, ImportingEnds, NeverForgotten, OfficersFirst, UnattendedEscalates, OneDelegate, DelegationsEnd, NothingVanishes, BreakerRecovers |
| `TripAttendance_claim_noshow` | 1 student, 2 tokens, 2 scans, 1 mark, 1 end | violated | OnlyNoShowsAbsent |
| `CheckinQueue_claim_replayed` | 1 call, 2 tokens | violated | QueuedIsReplayed |
| `AuthSession_claim_old` | 1 device, 1 login, 1 request, 1 revoker | violated | OldVersionRejected |
| `ImportSession_claim_disjoint` | 1 row, 2 executors | violated | ExecutionsDisjoint |

Every module's type invariant is proved (section 5) and not checked again by a run.

Why the bounds are enough to be interesting:

- Every race named in the hazards needs two handlers on one row; each run has two
  of the kind that matters, and one of everything else that writes the row.
  Two students let the override's set of rows differ from the one row a scan writes;
  two tokens let one student be admitted twice.
- `TripAttendance` is checked in two halves because the product is out of reach:
  `_boardings` has all who write a log before the end and no end; `_ends` has a
  single student and scan but two starts, of which one may come late, and two ends,
  so two tasks whose deliveries overlap. Its fairness speaks of every handler and
  every task, which puts a second student out of reach: the
  invariants, the action properties and the refinement are proved for any number
  of each (section 5), and the liveness is about each student by herself.
  In `_ends` `EventActors = {}`: the events are refused, the case in which a delivery
  fails after its update. `MaxStarts` bounds the starts between check and update,
  not their number: after a start that gave up another may follow.
- `MaxBoarded = 3` in `_boardings` leaves room for both tokens and a mark, or for
  three marks of one student, while only two students can be counted.
- In the queue of `Phone` two tokens with a limit of two fill the queue, one retry gives
  both branches of the retry test, chunks of one make a flush yield between any
  two items, and three attempts exceed the limit. `MaxLost = 0`: an
  unanswered request needs the network to be down, which it may be at any time.
- In `AuthSession_races` no version beyond 1 is needed: a revocation leaves two
  versions apart, which is all the comparison can see. `_live` goes to 2.
- In `DistributedLock` the interval is 2, so 2 + 2*1 < 5 satisfies `Healthy`; after
  the fault expiry, late release and overlapping works all occur. One fault is
  one lost command or one restart of Redis; crashes of calls count too.
- `KioskQr`: two openings (or an opening and a new token) and two connections give a join sent twice on one
  connection, a leave overtaken by a join, and a loss with messages kept; the last
  connection lasts, as `RotationNeverStops` is about a network that comes back.
  Handshakes are refused any number of times.
- `MobileSession`: two runs let a cancelled one end after the one that replaced it,
  two tokens let a refresh and a login store different ones, and the one screen
  request meets the lock, the refresh and the clearing.
- `AdminAccount`: one login, one own request and one handler are each at an await
  while another writes; two versions let a token be older than the copy it meets, and
  the one failure may fall between a role's transaction and its version.
- `ImportSession`: two rows of one phone or of two (`FewContents`: only one phone has
  two things said of it, and the first row is fixed, phones and contents being
  interchangeable).
- `GpsOutage`: two buses of which one may be listed without a hash, two runs that
  read the same change; once runs or a reconciliation have overlapped they take
  turns (`MayOverlap`), since the count is then disturbed for good.
- `Incidents`: three tasks are one per level and one in hand, two deliveries may be of
  one task. `Delegation`: two activations and two endings; what three activations
  add was found by the proof (section 6).
- `Notifications`: thresholds of 0, 1 and 2 for the code's 10 000, 25 000 and 50 000, with
  up to three jobs besides, make every branch of the backlog reachable; two failures
  open the breaker. The code's three failures and three attempts with four
  mishaps were checked by itself: 146 k states, the same result.
- `CHECK_DEADLOCK FALSE` everywhere: handlers and attempts are finite in number, so
  each system stops when all have returned.
- `SYMMETRY` is used only in runs without temporal properties.

Each violated run checks one sentence of the documents or comments; section 6 says
what it shows.

## 4 Fairness

Liveness is checked under weak fairness of exactly these steps:

- **A handler that has started runs on**: its awaits are answered or reject, and
  the event loop resumes it (`ScanStep`, `StartStep`, `LoginStep`, `ExecutorStep`, ...;
  aborts are among the steps where the code can throw). Nobody is obliged to
  scan, mark, start, end, log in, edit or reconcile.
- **Cloud Tasks delivers a task again until it is acknowledged** (`JobStep(e)`). The
  number of deliveries that die half way is bounded by `MaxCrashes`; deliveries
  that fail by the code's own doing (a refused insert) are not bounded.
- **Redis time to live**: `CacheExpires` of `AuthSession`, and `Tick` in `DistributedLock`. An entry is
  gone when its time has passed whatever else happens.
- **The phone's requests are answered or time out** (`Serve`, `CallStep`, `FlushStep`).
  That the network keeps coming back is not assumed but the premise of
  `QueueDrains`: `[]<>connected /\ []<>~connected`. Both are needed: the flush
  is triggered by the transition, so a network that stays up retries nothing.

- **A kiosk's client reconnects** (within its 50 attempts) unless the server's
  middleware refused its last handshake (`Connect` asks for `~refused`; it is then
  fair only once the screen or the token changes, which nobody owes), messages
  arrive, a lost connection is noticed and intervals fire.
- **The app's requests are answered or time out** after the client's timeout
  (`api.client.ts:68`), React runs the effect of what it rendered, its retry timer
  fires. Of the refresh's own request, which has no timeout, it is assumed that the
  network ends it.
- **The scheduler starts checks and scans again and again** (`CheckReads`, `Scan`), whatever became of the earlier ones. A reconciliation that
  read goes on to write.
- **Cloud Tasks delivers each task by itself** (`IncidentsDelivered(id)`); operators
  and drivers owe nothing.
- **Copies of an account expire** after 8 h (`AdminCopyExpires`).
- **Notifications keep coming** and a worker runs. This is an assumption about
  load rather than about scheduling: an open breaker is tried only by a dispatch, so
  without one it stays open, and nobody is harmed.

Where the code cannot deliver, the property says so: `PendingIsFinalised` excepts a
task that was never created because `createTask` failed, and a trip that a late start
made ACTIVE again; `TasksAreAcknowledged` an
outage that begins after `mark-absent` was queued; `RotationNeverStops` a refused
handshake that is the last word; `AppSettles` a phone that is `stranded`;
`ImportingEnds` a restart.

## 5 What is proved

For every value of the constants, from the named assumptions of the modules
(finite sets of students and trips, bounds in `Nat`, markers such as `NoTrip`
outside the sets they mark, `EventActors` a subset of the two actors,
`TimesKnown`):

| Module | Theorem | Establishes | By |
| --- | --- | --- | --- |
| `TripAttendance_proofs` | `TypeCorrect` | TypeOK | inductive itself |
| | `NonceOnce` | NonceAdmitsOnce | `NonceInv`: a scan past GETDEL is its nonce's only owner, the nonce is gone and has admitted nobody yet |
| | `AbsentAfterEnd` | AbsentOnlyAfterEnd | `FinalisationInv`: a task, a delivery, or a handler about to create a task exists only once the trip has been over (`Over`: it is COMPLETED or was reopened); what leads to `gps-outage-absent` only after an outage |
| | `BoardedSpared` | MarkAbsentSparesBoarded | the same invariant: the only write that ignores the log's status is `gps-outage-absent`'s |
| | `BoardingsAreAudited` | BoardingsAudited | inductive itself |
| | `BoardedCovers` | BoardedCoversLogs | cardinalities: a boarding adds at most one counted row and one to the counter |
| | `AttendanceImplemented` | ImplementsAttendance | each action is a step of `Attendance` or leaves it unchanged, under `NonceInv`, `FinalisationInv` and `SnapshotInv` (an outage's list names only students who have a log); whoever writes by scan, mark, end or delegation does so after the first start |
| | `NobodyAbandoned` | NoneAbandoned | `OneTaskInv`: a call of `endTrip` that is still running has created no task, and a delivery has its task, so no covered log loses its task to another; the branch in which mark-absent meets a reopened trip is one of the two the property names |
| | `Dwindles` | PendingDwindles | inductive itself: past the end, with no start between check and update, the trip stays over, no scan passes the check of the status, only one that had makes a log PENDING, and a snapshot only loses names |
| `CheckinQueue_proofs` | `TypeCorrect` | TypeOK | inductive |
| | `KeptWhenSerial` | QueuedIsKept | `Keeping`: whoever is between reading and writing the queue holds, or has settled, all that is stored (`Kept`, `HeldByAdd`, `HeldByFlush`) |
| | `Bounded` | QueueBounded | `Shape`: every copy a writer holds is itself within the limit with one item per token, even when stale (`Tidy`, `AddTidy`, `FlushTidy`) |
| | `Confirmed` | ConfirmedIsOnBoard | `Truthful`: an "ok" under way tells of a boarding |
| | `PhoneQueueImplemented` | ImplementsPhoneQueue | each action is a step of `PhoneQueue` or leaves it unchanged, under `Keeping`, `Named`, `Truthful` and `HeldOnly`: while serial, whoever is between reading and writing the queue holds nothing that left the storage unless it was told of |
| | `AllAreAnswered` | AnswersAwaited | `Named`: a key is the name of one check-in, in the storage, in stale copies and in the flush, and none is above `saved`; `OneAnswer`: to each who waits there is one message |
| `TripLifecycle_proofs` | `TypeCorrect` | TypeOK | inductive |
| | `Heals` | ReconciliationHeals | `HealInv`: while undisturbed, the run in progress holds the rows as they are, and a finished one has written them |
| | `EndedTasked` | EndedHasTask | inductive itself: an end that reached the row goes on to its task or is counted as `orphaned`, and a task goes only into `finalised` or because a late start made the trip ACTIVE |
| | `EntriesOnlyFade` | EntriesFade | no invariant beyond the types: new writers are of trips that are SCHEDULED or ACTIVE |
| | `KioskTypes` | KioskTypeOK | inductive, with: a registered rotation is a running one of its socket |
| | `LeaksOverlapped` | LeakNeedsOverlap | `KioskInv`: a rotation is its socket's only one, and the socket is up, unless an event overlapped an issuing |
| | `RotationsCome` | CodeComes | with `KioskInv`: a join's rotation is the one its socket's events clear, and every leave or late disconnection is handled before the join that follows it; the property is about a client that has a connection |
| `AuthSession_proofs` | `TypeCorrect` | TypeOK | inductive |
| | `Revocation`, `DeviceBinding` | RevocationHolds, DeviceHolds | `SessionInv`: versions only grow (`VersionsBelow`), while clean every copy in flight equals the row in what matters (`FlightsCurrent`), hence the stored copy too (`CacheCurrent`); `Grants` carries it to what was let through |
| | `OldFade` | OldCopiesFade | no invariant beyond the types: versions only grow, and a copy is taken from the row as it is |
| | `VersionImplemented` | ImplementsVersion | each action is a step of `SessionVersion`, under `SessionInv` and `IssuedBelow` (no token, issued or about to be, is of a version to come); that nothing replaced is let through is `RevocationHolds` of the next state |
| | `MobileTypes` | MobileTypeOK | inductive, with: authenticated only with user and token |
| | `StoresMeet` | StoresAgree | `StoreInv`: short of a clash, which a deletion that fails is too, between the two writes of a storing or a clear the secure store has what it put there |
| | `NoWaitInVain` | NobodyWaitsInVain | `WaitInv`: a token still to be stored is one the app has not seen (`TokensInv`), and the run not cancelled is one for the token last shown, which has not been synced (`RunInv`), so that no answer, refresh or login takes the next step of a bootstrap away; a refused run that joins a clearing past its reset is what `stranded` records |
| | `AdminTypes` | AdminTypeOK | inductive |
| | `SessionsCurrent` | CurrentSession | `SessionsGood`: tokens handed out and tokens of logins under way are of an older version, or what the row would give |
| | `Decisions` | AdminDecisionsHold | `CopiesFresh`: while clean, copies on their way equal the row, and the stored one is of no older version than what a returned handler replaced, and of the row's role once role changes are settled |
| | `OldAdminFade` | OldAdminCopiesFade | the same for an administrator's copy, over all the changes of the account (`Changed`) |
| | `AdminVersionImplemented` | ImplementsAdminVersion | as above: a step lets nothing through and replaces one version or returns (`Quiet`), or is a decision, for which `SessionsGood` and `AdminDecisionsHold` answer |
| `Gps_proofs` | `GpsTypes` | GpsTypeOK | inductive |
| | `Counts` | CountAgrees | `CountInv`: while runs took turns, what a run has left to count is the difference between the count and `silent` (cardinalities) |
| | `RunsFollow` | MisledFade | no invariant beyond the types: a look at the keys finds exactly the buses whose status differs (`LooksRight`) |
| | `DelegationTypes` | DelegationTypeOK | inductive |
| | `Delegates` | OneDelegate | `Orderly`: untroubled, an activation short of its key holds the lock, nobody is published from its look at the key on, and one ending at most is under way, of the delegate published |
| | `EndingsComplete` | EndingsFollow | short of a failure, a lock has somebody who will free it or goes with a published delegate (`LockHeld`), a verdict has its ending (`VerdictRuns`), and names published or judged are those of activations that came far enough to publish them (`NamesArePublished`) |
| `DistributedLock_proofs` | `TypeCorrect` | TypeOK | inductive |
| | `Excludes` | MutualExclusion | `LockInv`: a working call holds the key with enough time left for the renewal that is due or under way (`HoldsKey`) |
| | `ReleaseOwn` | ReleaseIsOwn | the scripts compare before they write |
| | `Implements` | ImplementsMutex | initial states map to initial states, each step to `Enter`, `Leave`, `Fail` or a stutter |
| | `LeftRunDown` | LeftLocksRunDown | `LockInv`: a renewal under way belongs to a call that works or releases |
| `ImportSession_proofs` | `TypeCorrect` | TypeOK | inductive |
| | `StatusTells` | StatusAgrees | `StatusInv`: while no calls overlapped and none crashed, one is in flight, and what it is about to write is what the rows give |
| | `RowsTell` | RowsTellOutcome | `RowInv`: of a row nobody disturbed, one execution holds the content it read, and that is what the row still says (`Holds`); a transaction writes each phone's user from its last row, which alone is then not `overwritten` |
| | `Served` | ImportingIsServed | `ServedInv`: besides, no call or edit is about to write a derived status of IMPORTING |
| `Incidents_proofs` | `TypeCorrect` | IncidentsTypeOK | inductive |
| | `Remembered` | NeverForgotten | `IInv`: of a delivery about to be acknowledged, the task that it created is held as long as the incident needs it (`TasksSucceed`) |
| | `InOrder` | OfficersFirst | nobody holds a level from beyond the row's (`LevelsRise`, of the same `IInv`) |
| | `NotificationTypes` | NotificationsTypes | inductive |
| | `Accounted` | NothingVanishes | the place of a dispatch and the state of its job determine each other, and a job past a channel has it told or unheard (`TellInv`) |
| | `Tried` | BreakerIsTried | inductive itself: every call that ends closes the breaker or opens it, and one is let through for each trial |

The invariants are needed because the properties alone are not inductive: from a
state that satisfies, say, `NonceAdmitsOnce` but in which two scans past GETDEL
carry the same token, one step breaks it. `Implements` has a premise of its own,
`RenewalInterval + 2 * MaxDelay < TTL`; without it the lock does not exclude (at a
time to live of a second or less the first renewal comes too late), and
`MutualExclusion` is stated under the same condition.

Each theorem speaks of its machine's own specification, for instance `KioskSpec`;
the runs check the same formulas on the composed instances.

Liveness is out of the prover's reach, its reason mostly is not: what is to happen
has somebody who will do it, whatever the others do. For each of the
liveness properties that reason is an invariant or an action property, and proved:

| Liveness | What it rests on |
| --- | --- |
| `PendingIsFinalised`, `TasksAreAcknowledged` | `NoneAbandoned`, `PendingDwindles` |
| `QueueDrains` | `AnswersAwaited` |
| `RotationNeverStops` | `CodeComes` |
| `RevokedStaysOut` | `OldCopiesFade` |
| `AppSettles` | `NobodyWaitsInVain` |
| `ChangesReachSessions` | `CurrentSession` and `OldAdminCopiesFade` |
| `EndedCallsFree`, `StatusFollows` | `LeftLocksRunDown`, `MisledFade` |
| `ImportingEnds` | `ImportingIsServed` |
| `UnattendedEscalates` | `NeverForgotten` |
| `DelegationsEnd` | `EndingsFollow` |
| `BreakerRecovers` | `BreakerIsTried` |

(`EntriesFade` and `EndedHasTask` of `TripLifecycle` are of the same kind and stand by
themselves: that the entry then goes is Redis's time to live, and that the task is
reached a handler that neither throws nor dies.)
With each, what is left to TLC is that the somebody is a step the fairness covers,
and that what is used up ends. `NoneAbandoned`, `NobodyWaitsInVain`, `CurrentSession`
and `NeverForgotten` are also checked by the runs; the others were checked by TLC on
the instances of section 3, of the one component, before they were proved
(`AnswersAwaited` also with chunks of two, and with four attempts and a lost answer;
`PendingDwindles` also with two scans and a mark). So were `ImplementsVersion` and
`ImplementsAdminVersion`, with versions to 2.

Only model-checked: all liveness (`PendingIsFinalised`, `TasksAreAcknowledged`,
`QueueDrains`, `RotationNeverStops`,
`RevokedStaysOut`, `AppSettles`, `ChangesReachSessions`, `EndedCallsFree`,
`StatusFollows`, `ImportingEnds`, `UnattendedEscalates`, `DelegationsEnd`,
`BreakerRecovers`), because fairness is beyond the prover. The refuted claims are
TLC's counterexamples.

## 6 Where the code and its documents differ

Refuted by a run:

1. **A student who boarded is recorded ABSENT** (`OnlyNoShowsAbsent`).
   `docs/ARCHITECTURE.md:227` says of mark-absent "Finalizes ABSENT for no-shows".
   A scan outside the geofence upserts PENDING over whatever the log says by then
   (`attendance.service.ts:185`): a manual mark, or a boarding that committed after
   this scan read the log. `mark-absent` then sees PENDING. The job itself spares
   boarded rows (`MarkAbsentSparesBoarded` is proved); the row was overwritten earlier.
2. **A queued check-in is lost** (`QueuedIsReplayed`).
   `docs/STABILIZATION.md:441`: "queue replays or surfaces a clear failure". `flush`
   saves what is left of the queue it read (`mobile/lib/checkin-queue.ts:177`) over
   an item `add` stored meanwhile; `isFlushing` guards flush against itself only.
3. **A revoked version passes again** (`OldVersionRejected`). `docs/ARCHITECTURE.md:171`
   and `auth.middleware.ts:63` say it never does. A copy read before the revocation
   is written after its deletion (`lib/auth-cache.ts:117`, `:76`), and passes until it
   expires - which it does (`RevokedStaysOut`).
4. **Two executions of one import** (`ExecutionsDisjoint`). `import.service.ts:111`
   calls the early mark a fix for concurrent executions; the check reads the status
   in one statement and the mark writes it in another, unconditionally, and
   `retryFailedRows` checks none.

Seen while modelling, without a run of their own:

- Marking a student twice counts twice in `boardedCount` (`trips.repository.ts:163`;
  `docs/module-audits/TRIPS_MODULE_AUDIT.md:431` says once).
- A student who never scans has no log row, so none becomes ABSENT
  (`mark-absent.job.ts:64`; `docs/STABILIZATION.md:338` says they do).
- The check-in's comment promises log, counter and event in one transaction
  (`attendance.repository.ts:640`); the event is a later step. A FAIL upsert and
  mark-absent's refused insert change a row without an event (`:187` "Every state
  change").
- `startTrip`'s update has no status condition (`trips.repository.ts:42`): a slow
  start after an end reopens a COMPLETED trip (`TRIPS_MODULE_AUDIT.md:1303` says
  unidirectional). Absent logs then stand on a running trip, scans pass again, and a
  delivery of mark-absent skips the trip and answers 200 (`mark-absent.job.ts:24`): what is
  PENDING waits for the trip to be ended once more.
- An end that dies after its update, or whose `createTask` throws, leaves the trip
  without a finalisation task: a repeated call finds it COMPLETED and returns
  (`trips.service.ts:101`, `:130`).
- `deactivateDriver` completes a trip with no finalisation task
  (`fleet.service.ts:204`; `docs/ARCHITECTURE.md:225-227`) and bumps the version
  without deleting the copy (`:225` "Revoke JWT").
- Login does not bump `sessionVersion` (`mobile-auth.service.ts:230`;
  `docs/ARCHITECTURE.md:161` says so).
- The idempotency plugin and `checkRateLimit` look for `app.redis`, which nothing
  decorates: both pass everything. What works is check-in's own key in Redis, for
  300 s. As a first attempt carries no key, its replay after a lost answer is
  refused `QR_ALREADY_USED` and shown as failed although the student is on board.
- A 403 during a flush clears the stored queue and the flush then writes its rest
  back (`checkin-queue.ts:177`); items left after a flush wait for the next
  transition to connected.
- `dispatchJob` in several jobs calls `lib/queue.queueJob`, which does not exist, so
  the escalation of an outage and the next check are never dispatched; activation of
  a delegation looks an admin's id up among users.
- *Corrections.* Both review paths write the administrator's id to `reviewedById`, a
  foreign key to users, where administrators are not: every review's first update
  is refused. `openCorrections` is only ever decremented and reconciled.
- *Kiosk.* A first connection sends the join twice (what was kept, then the rooms
  anew), so one of two overlapping starts leaves its interval running in ordinary
  use. An `issueQrForSocket` that throws is caught by nobody. The handshake's middleware
  answers with an error when Redis or Postgres fail or the check takes too long
  (`socket.ts:157-172`), and socket.io-client does not try again after a server's error:
  an open kiosk stays without codes until it is opened anew or the token changes.
- *Mobile.* `/v1/auth/me` counts as an authentication URL, so the profile's 401 never
  refreshes. Login signs Firebase out at once; from then on a refresh fails and each
  401 ends the session, unless that sign-out failed. The `finally` of a cancelled
  run resets the promise of the run that replaced it, and requests pass the lock
  early. A refresh that completes after a clear puts the token back into the stores.
  A deletion of the kept token that fails is swallowed (`session-storage.ts:77`): the next
  start logs in with it. The clear's promise outlives its reset of the store by an await
  (`session.ts:19`): a run refused in that window joins it, nothing resets the token a
  refresh stored meanwhile, and the phone stays bootstrapping until a login or a start.
- *Admin.* An overlapping enable and disable leave `mfaEnabled` without a secret, and
  the login answers 500; a setup under way undoes an enable; two suspensions and one
  unsuspension leave an open suspension row; an invitation accepted late
  re-activates a deactivated account. A role is committed before the version is bumped and
  the copy deleted (`admin.routes.ts:264`): a failure between them lets the copy admit
  the old role for up to 8 h.
- *Incidents.* A dispatch that throws in a report leaves an incident without a task
  (`incidents.service.ts:38`). "If incident is still in the expected status" is
  checked on the row as read, and the update has no condition. A redelivery
  escalates at once, without the ten minutes. An operator with a stale row reopens a
  RESOLVED incident. The role PRINCIPAL is missing from the schema's enum, so the
  last level's handler fails each time, after writing.
- *Delegation.* `/gps/ping` lets only drivers pass (its comment says delegates too), so
  the monitor takes every delegate for silent at its first scan. The health key is
  never reset: later delegations are never ended by the monitor. A scan between the
  transaction and the key marks the health and ends nothing. A key that could not
  be written leaves an ACTIVE row that nothing closes, beside which another may
  become ACTIVE. A late failure of one activation deletes the lock of the next (the
  proof needed a third activation to show it). A crash between SETNX and EXPIRE
  blocks the trip's delegation for good (`delegate.service.ts:62`).
- *GPS.* Pings of a bus that does not move are rejected as implausible, so it goes
  OFFLINE. In `gps-heartbeat.job.ts` the lists of buses and of trips run apart when a
  listed trip has no hash. `attendance.service.ts:233` recreates an expired hash
  without its bus. Overlapping runs, and a reconciliation, lose or double counts.
- *Notifications.* Each retry writes the in-app rows again (`skipDuplicates` without a
  unique key to find them by); a push that throws keeps the SMS from being sent on
  every attempt; in a crisis an alert that throws keeps even a CRITICAL
  notification out. The depth is read outside the breaker, and waits without limit
  while Redis is down.
- *Notifications, swallowed.* An SMS that throws is collected by `Promise.allSettled`
  (`notification.worker.ts:317`, `msg91.ts:32-39`) and a push token the service refuses is
  logged: the job completes, and the channel is neither retried nor recorded.
- *Imports.* Nothing refuses two rows of one phone: both become IMPORTED, and the user is
  what the later one says (`import.repository.ts:157-158`).
- *Provisioning.* The batch may write ACTIVE over DISABLED; `isActive` still refuses.

## 7 What is not modelled

Per component, with the reason, in `PROJECT.json`. In short: user interfaces and
reads (no shared state), single-row CRUD (the database's constraints are the
whole argument), cryptography and OTP delivery (outside), BullMQ and Socket.IO
themselves (external), trigonometry of the geofence and percentages (real
numbers: the three outcomes of the geofence are an input of `ScanExisting`),
anomaly scores and fingerprints (computed from single requests), rate limits and
idempotency (inert as the code stands), the daily trips (one insert), provisioning
(see section 6), corrections (no review gets past its first update).

Not wired to the server, and left out for that reason: `admin-auth-service-v2.ts`,
`admin-auth-routes.ts`, `admin-auth-types.ts`, `lib/admin-audit-logger.ts`,
`lib/admin-rate-limiter.ts`, `lib/auth-revocation.ts`.

Within modelled components: arrival verification, skip-today and wait requests; the
other counters of the dashboard; rate limits and OTP of the login; trusted devices,
step-up tokens and backup codes of administrators; the plausibility of pings and the
position buffer; errors of single commands in the pipelines of `gps-heartbeat.job.ts:77`,
which do not throw (the pipeline succeeds or fails as a whole); the warnings of the delegation's monitor and `checkEligibility`;
route assignments of imported users, which belong to the transaction that the
model commits or rolls back as a whole. A task of `endTrip` is delivered one at a time;
that Cloud Tasks may, rarely, deliver one twice at once is covered by the two tasks of
two ends, and in `Incidents` by deliveries of one task that overlap.

Most of the repository is user interface, queries and CRUD, so the mapped lines are a
small part of it: they are those that keep state several actors write.

## 8 Plan

Done: the inventory; the models above with their runs; every safety invariant and
action property that a passing run checks is proved, five refinements
(`ImplementsMutex`, `ImplementsAttendance`, `ImplementsVersion`,
`ImplementsAdminVersion`, `ImplementsPhoneQueue`), and for each of the liveness
properties the invariant or action property it rests on.

Left, in order of what matters to the system:

1. Composition of `TripLifecycle` and `TripAttendance`, which both have `startTrip`,
   `endTrip` and its task: one of each with its Redis steps, and check-ins that look the trip up in the cache; an abstract
   trip that both refine, as `TripAttendance` refines `Attendance`.
2. `KioskQr` issuing the nonces of `TripAttendance`, with the 35 s of a code.
3. The app against the server: `MobileSession` with `AuthSession` for its environment.
4. Arrival, skip-today and wait requests as further writers of the log's row.
5. Larger instances: two screen requests with a failure in `MobileSession`, three
   activations in `Delegation`, two incidents.
