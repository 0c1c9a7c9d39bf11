------------------------------ MODULE GpsOutage ------------------------------
(***************************************************************************)
(* The detection of buses whose GPS is silent: the pings of drivers         *)
(* (modules/gps/gps.service.ts), the runs of checkGpsHeartbeats             *)
(* (jobs/gps-heartbeat.job.ts), the number of silent buses on the dashboard *)
(* and its reconciliation (jobs/reconcile-dashboard-stats.job.ts).          *)
(*                                                                         *)
(* Each trip here has its own bus, named as the trip.  LIVE and STALE are   *)
(* one: only OFFLINE is counted and alerted.  The scheduler may start a run *)
(* while another is under way; reconciliations exclude each other.          *)
(***************************************************************************)
EXTENDS Integers, FiniteSets

CONSTANTS
  Buses,
  Checks,         \* runs of checkGpsHeartbeats at once
  MaxGpsFaults    \* bound: lost Redis calls and runs that die

ASSUME GpsConstants == MaxGpsFaults \in Nat /\ IsFiniteSet(Buses)

VARIABLES
  driving,    \* trips that are ACTIVE in their rows
  listed,     \* active-trips
  hashed,     \* trips whose trip:<id>:state names the bus
  heard,      \* buses whose gps:heartbeat is younger than 60 s
  silent,     \* buses whose gps:status is OFFLINE
  gpsOffline, \* dashboard:stats gpsOffline
  check,      \* run -> its place, what it read and what it has left to do
  recon,      \* the reconciliation in progress
  trip,       \* bus -> where its trip's start or end has got to
  disturbed,  \* history: runs or a reconciliation overlapped, or a run died
  gpsFaults

tripVars == <<driving, listed, hashed, trip>>
gpsVars == <<tripVars, heard, silent, gpsOffline, check, recon, disturbed,
             gpsFaults>>

Transitions == [bus : Buses, off : BOOLEAN]
IdleCheck == [pc |-> "idle", left |-> {}]
IdleRecon == [pc |-> "idle", rows |-> {}, count |-> 0]
Resting(r) == check[r].pc = "idle"
AllIdle == (\A r \in Checks : Resting(r)) /\ recon.pc # "write"

GpsTypeOK ==
  /\ driving \subseteq Buses /\ listed \subseteq Buses /\ hashed \subseteq Buses
  /\ heard \subseteq Buses /\ silent \subseteq Buses
  /\ gpsOffline \in Int
  /\ check \in [Checks -> [pc : {"idle", "write", "count"}, left : SUBSET Transitions]]
  /\ \A r \in Checks : Resting(r) <=> check[r].left = {}
  /\ recon \in [pc : {"idle", "write", "done"}, rows : SUBSET Buses, count : Int]
  /\ trip \in [Buses -> {"scheduled", "started", "listing", "active", "ended", "unlisted", "over"}]
  /\ disturbed \in BOOLEAN
  /\ gpsFaults \in 0..MaxGpsFaults

GpsInit ==
  /\ driving = {} /\ listed = {} /\ hashed = {}
  /\ heard = {} /\ silent = {}
  /\ gpsOffline = 0 /\ check = [r \in Checks |-> IdleCheck] /\ recon = IdleRecon
  /\ trip = [b \in Buses |-> "scheduled"]
  /\ disturbed = FALSE /\ gpsFaults = 0

gpsRest == <<silent, gpsOffline, check, recon, disturbed>>

-----------------------------------------------------------------------------
(* startTrip and endTrip; their Redis writes may be lost, unnoticed.         *)
TripRow(b) ==
  /\ \/ trip[b] = "scheduled" /\ trip' = [trip EXCEPT ![b] = "started"] /\ driving' = driving \cup {b}
     \/ trip[b] = "active" /\ trip' = [trip EXCEPT ![b] = "ended"] /\ driving' = driving \ {b}
  /\ UNCHANGED <<listed, hashed, heard, gpsRest, gpsFaults>>

Stepped(b) ==
  trip' = [trip EXCEPT ![b] = CASE @ = "started" -> "listing" [] @ = "listing" -> "active"
                                [] @ = "ended" -> "unlisted" [] @ = "unlisted" -> "over"]

TripRedis(b) ==
  /\ trip[b] \in {"started", "listing", "ended", "unlisted"} /\ Stepped(b)
  /\ listed' = CASE trip[b] = "started" -> listed \cup {b}
                 [] trip[b] = "ended" -> listed \ {b} [] OTHER -> listed
  /\ hashed' = CASE trip[b] = "listing" -> hashed \cup {b}
                 [] trip[b] = "unlisted" -> hashed \ {b} [] OTHER -> hashed
  /\ UNCHANGED <<driving, heard, gpsRest, gpsFaults>>

TripRedisLost(b) ==
  /\ trip[b] \in {"started", "listing", "ended", "unlisted"} /\ Stepped(b)
  /\ gpsFaults < MaxGpsFaults /\ gpsFaults' = gpsFaults + 1
  /\ UNCHANGED <<driving, listed, hashed, heard, gpsRest>>

(* A ping of a driver who has moved 5 m; a minute without one.               *)
Ping(b) ==
  /\ b \in driving /\ b \notin heard /\ heard' = heard \cup {b}
  /\ UNCHANGED <<tripVars, gpsRest, gpsFaults>>
BeatAges(b) ==
  /\ b \in heard /\ heard' = heard \ {b}
  /\ UNCHANGED <<tripVars, gpsRest, gpsFaults>>

-----------------------------------------------------------------------------
(* Mutant: a recovery is no transition.                                     *)
Outages ==
  {[bus |-> b, off |-> TRUE] : b \in {c \in listed \cap hashed : c \notin heard /\ c \notin silent}}

(* checkGpsHeartbeats: a listed trip without a hash has no bus to look at.   *)
Changes ==
  {[bus |-> b, off |-> b \notin heard] :
     b \in {c \in listed \cap hashed : (c \notin heard) # (c \in silent)}}

(* Bound: once runs or a reconciliation have overlapped they take turns.     *)
MayOverlap == AllIdle \/ ~disturbed

CheckReads(r) ==
  /\ Resting(r) /\ listed # {} /\ MayOverlap
  /\ check' = [check EXCEPT ![r] =
       [pc |-> IF Changes = {} THEN "idle" ELSE "write", left |-> Changes]]
  /\ disturbed' = (disturbed \/ ~AllIdle)
  /\ UNCHANGED <<tripVars, heard, silent, gpsOffline, recon, gpsFaults>>

CheckWrites(r) ==
  /\ check[r].pc = "write" /\ check' = [check EXCEPT ![r].pc = "count"]
  /\ silent' = {b \in silent : \A x \in check[r].left : x.bus = b => x.off}
               \cup {x.bus : x \in {y \in check[r].left : y.off}}
  /\ UNCHANGED <<tripVars, heard, gpsOffline, recon, disturbed, gpsFaults>>

(* Mutant: a recovery is not counted.                                       *)
CheckCountsOutages(r) ==
  /\ check[r].pc = "count"
  /\ \E x \in check[r].left :
       /\ gpsOffline' = IF x.off THEN gpsOffline + 1 ELSE gpsOffline
       /\ check' = [check EXCEPT ![r] =
            IF check[r].left = {x} THEN IdleCheck ELSE [pc |-> "count", left |-> check[r].left \ {x}]]
  /\ UNCHANGED <<tripVars, heard, silent, recon, disturbed, gpsFaults>>

(* One transition after another: the count, and an alert of a new outage.    *)
CheckCounts(r) ==
  /\ check[r].pc = "count"
  /\ \E x \in check[r].left :
       /\ gpsOffline' = IF x.off THEN gpsOffline + 1 ELSE gpsOffline - 1
       /\ check' = [check EXCEPT ![r] =
            IF check[r].left = {x} THEN IdleCheck ELSE [pc |-> "count", left |-> check[r].left \ {x}]]
  /\ UNCHANGED <<tripVars, heard, silent, recon, disturbed, gpsFaults>>

(* A Redis or Firebase call throws, or the process ends.                     *)
CheckDies(r) ==
  /\ ~Resting(r) /\ gpsFaults < MaxGpsFaults /\ gpsFaults' = gpsFaults + 1
  /\ check' = [check EXCEPT ![r] = IdleCheck]
  /\ disturbed' = (disturbed \/ check[r].pc = "count")
  /\ UNCHANGED <<tripVars, heard, silent, gpsOffline, recon>>

-----------------------------------------------------------------------------
(* reconcileDashboardStats writes back the count it read (bound: once).       *)
ReconReads ==
  /\ recon.pc = "idle" /\ MayOverlap
  /\ recon' = [pc |-> "write", rows |-> driving, count |-> gpsOffline]
  /\ disturbed' = (disturbed \/ ~AllIdle)
  /\ UNCHANGED <<tripVars, heard, silent, gpsOffline, check, gpsFaults>>

ReconWrites ==
  /\ recon.pc = "write" /\ recon' = [IdleRecon EXCEPT !.pc = "done"]
  /\ gpsOffline' = recon.count /\ listed' = recon.rows
  /\ UNCHANGED <<driving, hashed, trip, heard, silent, check, disturbed, gpsFaults>>

-----------------------------------------------------------------------------
CheckStep(r) == CheckReads(r) \/ CheckWrites(r) \/ CheckCounts(r)

GpsNext ==
  \/ \E b \in Buses : TripRow(b) \/ TripRedis(b) \/ TripRedisLost(b) \/ Ping(b) \/ BeatAges(b)
  \/ \E r \in Checks : CheckStep(r) \/ CheckDies(r)
  \/ ReconReads \/ ReconWrites

GpsSpec == GpsInit /\ [][GpsNext]_gpsVars

(* The scheduler starts a run again and again, and runs go on.               *)
GpsFairness == (\A r \in Checks : WF_gpsVars(CheckStep(r))) /\ WF_gpsVars(ReconWrites)

-----------------------------------------------------------------------------
(* The dashboard counts the buses shown as OFFLINE, of trips that are over   *)
(* too, unless runs or a reconciliation overlapped or a run died counting   *)
(* (gps-heartbeat.job.ts:63-108, reconcile-dashboard-stats.job.ts:31-48).   *)
CountAgrees ==
  ~disturbed /\ AllIdle => gpsOffline = Cardinality(silent)

(* Whatever runs overlapped or died before, the status of a bus on a trip    *)
(* comes to agree with its pings (gps-heartbeat.job.ts:21-76).              *)
StatusFollows ==
  \A b \in Buses :
    /\ <>[](b \in listed \cap hashed \cap heard) => <>[](b \notin silent)
    /\ <>[](b \in (listed \cap hashed) \ heard) => <>[](b \in silent)

(* What StatusFollows rests on, step by step: runs that hold a change of a   *)
(* bus against its pings are only used up, its status turns against them    *)
(* only by one of those, and whichever run starts while status and pings    *)
(* differ holds the change that corrects it (gps-heartbeat.job.ts:21-76).    *)
Holding(b, off) == {r \in Checks : check[r].pc = "write" /\ [bus |-> b, off |-> off] \in check[r].left}
MisledFade ==
  [][\A b \in Buses, against \in BOOLEAN : (against <=> b \in heard) =>
       /\ Holding(b, against)' \subseteq Holding(b, against)
       /\ (b \in silent' <=> against) =>
            (b \in silent <=> against) \/ Holding(b, against)' # Holding(b, against)
       /\ \A r \in Checks :
            Resting(r) /\ ~Resting(r)' /\ b \in listed \cap hashed /\ (b \in silent <=> against)
              => r \in Holding(b, ~against)']_gpsVars
=============================================================================
