-------------------------- MODULE MCDistributedLock --------------------------
(***************************************************************************)
(* Model checking the jobs' lock and two jobs in one run: DistributedLock,   *)
(* and GpsOutage, whose reconciliation runs under it and whose detection     *)
(* under none.  GpsOutage takes from the lock that reconciliations exclude   *)
(* each other, and no state is shared, so each behaviour has the steps of    *)
(* one of them, the part chosen at first: what is checked is what a run of   *)
(* each would check.                                                        *)
(***************************************************************************)
EXTENDS DistributedLock, GpsOutage

VARIABLE part
jobMachines == <<vars, gpsVars, part>>

Locking(A) == part = "lock" /\ A /\ UNCHANGED <<gpsVars, part>>
Gps(A) == part = "gps" /\ A /\ UNCHANGED <<vars, part>>

JobsInit ==
  /\ part \in {"lock", "gps"}
  /\ Init /\ GpsInit

JobsNext ==
  \/ \E c \in Calls :
       \/ Locking(Acquire(c)) \/ Locking(Start(c)) \/ Locking(Fire(c)) \/ Locking(Renew(c))
       \/ Locking(Release(c)) \/ Locking(Finish(c)) \/ Locking(Crash(c))
  \/ Locking(Restart) \/ Locking(Tick)
  \/ \E b \in Buses :
       \/ Gps(TripRow(b)) \/ Gps(TripRedis(b)) \/ Gps(TripRedisLost(b))
       \/ Gps(Ping(b)) \/ Gps(BeatAges(b))
  \/ \E r \in Checks :
       Gps(CheckReads(r)) \/ Gps(CheckWrites(r)) \/ Gps(CheckCounts(r)) \/ Gps(CheckDies(r))
  \/ Gps(ReconReads) \/ Gps(ReconWrites)

(* Time passes in the first machine only while it is the one that moves.     *)
JobsSpec ==
  /\ JobsInit /\ [][JobsNext]_jobMachines
  /\ WF_vars(part = "lock" /\ Tick)
  /\ \A c \in Calls : WF_vars(Step(c))
  /\ GpsFairness

=============================================================================
