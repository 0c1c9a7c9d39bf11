--------------------------- MODULE DistributedLock ---------------------------
(***************************************************************************)
(* lib/distributed-lock.ts: withLock on one resource, in discrete time.     *)
(*                                                                         *)
(* A call sets lock:{resource} with its own random value and a time to live,*)
(* renews it from a timer at half that time while the work runs, and        *)
(* deletes it at the end; renewal and deletion are Lua scripts that compare *)
(* the value first.  Nothing stops the work when the lock is lost: the loss *)
(* is thrown after the work.                                                *)
(*                                                                         *)
(* MaxDelay bounds the time from a command's being due to its execution     *)
(* (event loop and network); what is later than that is a fault.            *)
(***************************************************************************)
EXTENDS Integers, FiniteSets

CONSTANTS
  Calls,      \* calls of withLock, each with its own value
  NoCall,
  TTL,        \* ttlMs, in ticks
  Second,     \* the 1 000 ms floor of the renewal interval, in ticks
  MaxDelay,   \* ticks a healthy command may take
  MaxFaults   \* bound: lost commands, Redis restarts

Larger(m, n) == IF m > n THEN m ELSE n
RenewalInterval == Larger(Second, TTL \div 2)

ASSUME CallsKnown == NoCall \notin Calls
ASSUME TimesKnown ==
  /\ TTL \in Nat \ {0} /\ Second \in Nat \ {0}
  /\ MaxDelay \in Nat /\ MaxDelay <= RenewalInterval
  /\ MaxFaults \in Nat

VARIABLES
  owner,   \* the call whose value is in the key, or NoCall
  ttl,     \* ticks the key has left
  pc,      \* call -> new, reply, working, releasing, skipped, done, dead
  waited,  \* call -> ticks since the command under way was due
  due,     \* call -> ticks to the next renewal
  renewing,\* calls with a renewal under way
  lost,    \* calls that know they lost the lock
  faults   \* bounded counter

vars == <<owner, ttl, pc, waited, due, renewing, lost, faults>>

TypeOK ==
  /\ owner \in Calls \cup {NoCall}
  /\ ttl \in 0..TTL
  /\ pc \in [Calls -> {"new", "reply", "working", "releasing", "skipped", "done", "dead"}]
  /\ waited \in [Calls -> 0..MaxDelay]
  /\ due \in [Calls -> 0..RenewalInterval]
  /\ renewing \in SUBSET Calls
  /\ lost \in SUBSET Calls
  /\ faults \in 0..MaxFaults
  /\ owner = NoCall <=> ttl = 0

Init ==
  /\ owner = NoCall /\ ttl = 0
  /\ pc = [c \in Calls |-> "new"]
  /\ waited = [c \in Calls |-> 0]
  /\ due = [c \in Calls |-> 0]
  /\ renewing = {} /\ lost = {}
  /\ faults = 0

Fault == faults < MaxFaults /\ faults' = faults + 1
Free == owner' = NoCall /\ ttl' = 0

-----------------------------------------------------------------------------
(* acquireLock: SET PX NX; the loser's withLock answers false.              *)
Acquire(c) ==
  /\ pc[c] = "new"
  /\ IF owner = NoCall
     THEN owner' = c /\ ttl' = TTL /\ pc' = [pc EXCEPT ![c] = "reply"]
     ELSE pc' = [pc EXCEPT ![c] = "skipped"] /\ UNCHANGED <<owner, ttl>>
  /\ waited' = [waited EXCEPT ![c] = 0]
  /\ UNCHANGED <<due, renewing, lost, faults>>

(* The reply arrives: the timer starts, and the work.                       *)
Start(c) ==
  /\ pc[c] = "reply"
  /\ pc' = [pc EXCEPT ![c] = "working"]
  /\ due' = [due EXCEPT ![c] = RenewalInterval]
  /\ UNCHANGED <<owner, ttl, waited, renewing, lost, faults>>

Fire(c) ==
  /\ pc[c] = "working" /\ due[c] = 0 /\ c \notin renewing
  /\ renewing' = renewing \cup {c}
  /\ due' = [due EXCEPT ![c] = RenewalInterval]
  /\ waited' = [waited EXCEPT ![c] = 0]
  /\ UNCHANGED <<owner, ttl, pc, lost, faults>>

(* Mutant: a script that compares and does not extend.                       *)
CompareOnly(c) ==
  /\ c \in renewing
  /\ lost' = IF owner = c THEN lost ELSE lost \cup {c}
  /\ renewing' = renewing \ {c}
  /\ UNCHANGED <<owner, ttl, pc, waited, due, faults>>

(* renewScript; a renewal that fails leaves the key and reports a loss.     *)
Renew(c) ==
  /\ c \in renewing
  /\ \/ /\ owner = c
        /\ ttl' = TTL
        /\ UNCHANGED <<lost, faults>>
     \/ /\ owner # c
        /\ lost' = lost \cup {c}
        /\ UNCHANGED <<ttl, faults>>
     \/ /\ Fault
        /\ lost' = lost \cup {c}
        /\ UNCHANGED ttl
  /\ renewing' = renewing \ {c}
  /\ UNCHANGED <<owner, pc, waited, due>>

(* The work returns: clearInterval, then the release is sent.               *)
Finish(c) ==
  /\ pc[c] = "working"
  /\ pc' = [pc EXCEPT ![c] = "releasing"]
  /\ UNCHANGED <<owner, ttl, waited, due, renewing, lost, faults>>

(* Mutant: a release that does not compare the value.                       *)
ReleaseAny(c) ==
  /\ pc[c] = "releasing" /\ c \notin renewing
  /\ Free
  /\ pc' = [pc EXCEPT ![c] = "done"]
  /\ UNCHANGED <<waited, due, renewing, lost, faults>>

(* releaseScript, behind a renewal on the same connection; its failure is   *)
(* swallowed.                                                              *)
Release(c) ==
  /\ pc[c] = "releasing" /\ c \notin renewing
  /\ \/ owner = c /\ Free /\ UNCHANGED faults
     \/ owner # c /\ UNCHANGED <<owner, ttl, faults>>
     \/ Fault /\ UNCHANGED <<owner, ttl>>
  /\ pc' = [pc EXCEPT ![c] = "done"]
  /\ UNCHANGED <<waited, due, renewing, lost>>

(* The process of a call dies; what it had sent is not answered.            *)
Crash(c) ==
  /\ pc[c] \in {"reply", "working", "releasing"}
  /\ Fault
  /\ pc' = [pc EXCEPT ![c] = "dead"]
  /\ renewing' = renewing \ {c}
  /\ UNCHANGED <<owner, ttl, waited, due, lost>>

(* A restart of Redis loses the lock.                                       *)
Restart ==
  /\ owner # NoCall
  /\ Fault
  /\ Free
  /\ UNCHANGED <<pc, waited, due, renewing, lost>>

(* A tick passes: nothing healthy is later than MaxDelay, timers fire when  *)
(* due, keys expire.                                                       *)
Waiting == renewing \cup {c \in Calls : pc[c] = "reply"}
Timed == {c \in Calls : pc[c] = "working"}

(* Mutant: a key set without PX.                                            *)
NoExpiry == UNCHANGED <<owner, ttl>>
Expire ==
  /\ ttl' = Larger(ttl - 1, 0)
  /\ owner' = IF ttl <= 1 THEN NoCall ELSE owner

Tick ==
  /\ \A c \in Waiting : waited[c] < MaxDelay
  /\ \A c \in Timed : due[c] > 0
  /\ waited' = [c \in Calls |-> IF c \in Waiting THEN waited[c] + 1 ELSE waited[c]]
  /\ due' = [c \in Calls |-> IF c \in Timed THEN due[c] - 1 ELSE due[c]]
  /\ Expire
  /\ UNCHANGED <<pc, renewing, lost, faults>>

-----------------------------------------------------------------------------
Step(c) == Start(c) \/ Fire(c) \/ Renew(c) \/ Release(c)

Next ==
  \/ \E c \in Calls : Acquire(c) \/ Step(c) \/ Finish(c) \/ Crash(c)
  \/ Restart
  \/ Tick

Spec == Init /\ [][Next]_vars
(* Commands under way are executed and time passes; the work may run for    *)
(* ever.                                                                   *)
FairSpec == Spec /\ WF_vars(Tick) /\ \A c \in Calls : WF_vars(Step(c))

-----------------------------------------------------------------------------
(* Mutual exclusion as long as Redis, the network and the processes are     *)
(* healthy and the time to live leaves room for a renewal.                  *)
Healthy == faults = 0 /\ RenewalInterval + 2 * MaxDelay < TTL
Working == {c \in Calls : pc[c] = "working"}
MutualExclusion ==
  Healthy => \A c, d \in Working : c = d

(* A lock is lost by its call's release, its expiry or a fault: never by    *)
(* the release of a call that had lost it.                                  *)
ReleaseIsOwn ==
  [][\A c \in Calls : owner = c /\ owner' # c =>
       pc[c] = "releasing" \/ ttl = 1 \/ faults' > faults]_vars

(* A call that has ended, even by a crash or with its release lost, does    *)
(* not keep the lock.                                                       *)
EndedCallsFree ==
  \A c \in Calls : []<>~(pc[c] \in {"done", "dead"} /\ owner = c)

(* What that rests on: no step of anybody gives the lock back to a call that *)
(* has ended, or prolongs the lock it left behind.                          *)
LeftLocksRunDown ==
  [][\A c \in Calls : pc[c] \in {"skipped", "done", "dead"} /\ owner' = c =>
       owner = c /\ ttl' =< ttl]_vars

(* withLock is the abstract lock: until something fails its works exclude     *)
(* each other, and a failure takes none back in.                            *)
Abstract == INSTANCE Mutex WITH working <- Working, failed <- faults > 0
ImplementsMutex == Abstract!Spec
=============================================================================
