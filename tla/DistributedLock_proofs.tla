----------------------- MODULE DistributedLock_proofs -----------------------
(* Mutual exclusion of withLock for any number of calls and any times that   *)
(* leave room for a renewal, and the abstract lock it implements.            *)
EXTENDS DistributedLock, TLAPS

LEMMA IntervalPositive == RenewalInterval \in Nat \ {0}
<1>1. TTL \div 2 \in Nat
  BY TimesKnown
<1> QED
  BY <1>1, TimesKnown DEF RenewalInterval, Larger

LEMMA TypeInductive == TypeOK /\ [Next]_vars => TypeOK'
<1> USE CallsKnown, TimesKnown, IntervalPositive DEF TypeOK
<1> SUFFICES ASSUME TypeOK, [Next]_vars PROVE TypeOK'
  OBVIOUS
<1>1. ASSUME NEW c \in Calls, Acquire(c) PROVE TypeOK'
  BY <1>1 DEF Acquire
<1>2. ASSUME NEW c \in Calls, Start(c) PROVE TypeOK'
  BY <1>2 DEF Start
<1>3. ASSUME NEW c \in Calls, Fire(c) PROVE TypeOK'
  BY <1>3 DEF Fire
<1>4. ASSUME NEW c \in Calls, Renew(c) PROVE TypeOK'
  BY <1>4 DEF Renew, Fault
<1>5. ASSUME NEW c \in Calls, Finish(c) PROVE TypeOK'
  BY <1>5 DEF Finish
<1>6. ASSUME NEW c \in Calls, Release(c) PROVE TypeOK'
  BY <1>6 DEF Release, Free, Fault
<1>7. ASSUME NEW c \in Calls, Crash(c) PROVE TypeOK'
  BY <1>7 DEF Crash, Fault
<1>8. ASSUME Restart PROVE TypeOK'
  BY <1>8 DEF Restart, Free, Fault
<1>9. ASSUME Tick PROVE TypeOK'
  BY <1>9 DEF Tick, Waiting, Timed, Expire, Larger
<1>10. CASE UNCHANGED vars
  BY <1>10 DEF vars
<1> QED
  BY <1>1, <1>2, <1>3, <1>4, <1>5, <1>6, <1>7, <1>8, <1>9, <1>10 DEF Next, Step

(* The types are invariant. *)
THEOREM TypeCorrect == Spec => []TypeOK
<1>1. Init => TypeOK
  BY TimesKnown, IntervalPositive DEF Init, TypeOK
<1> QED
  BY <1>1, TypeInductive, PTL DEF Spec

(* While nothing has failed, a call that works, or is about to, owns the key,*)
(* which has at least the time left that the next renewal may take.          *)
HoldsKey(c) ==
  /\ pc[c] = "reply" => owner = c /\ c \notin renewing /\ ttl >= TTL - waited[c]
  /\ pc[c] = "working" =>
       /\ owner = c
       /\ c \notin renewing => ttl >= TTL - MaxDelay - RenewalInterval + due[c]
       /\ c \in renewing => /\ due[c] = RenewalInterval - waited[c]
                            /\ ttl >= TTL - MaxDelay - RenewalInterval - waited[c]
LockInv ==
  /\ \A c \in renewing : pc[c] \in {"working", "releasing"}
  /\ Healthy => \A c \in Calls : HoldsKey(c)

LEMMA LockInductive == TypeOK /\ LockInv /\ [Next]_vars => LockInv'
<1> USE CallsKnown, TimesKnown, IntervalPositive DEF TypeOK, LockInv, HoldsKey, Healthy
<1> SUFFICES ASSUME TypeOK, LockInv, [Next]_vars PROVE LockInv'
  OBVIOUS
<1>1. ASSUME NEW c \in Calls, Acquire(c) PROVE LockInv'
  BY <1>1 DEF Acquire
<1>2. ASSUME NEW c \in Calls, Start(c) PROVE LockInv'
  BY <1>2 DEF Start
<1>3. ASSUME NEW c \in Calls, Fire(c) PROVE LockInv'
  BY <1>3 DEF Fire
<1>4. ASSUME NEW c \in Calls, Renew(c) PROVE LockInv'
  BY <1>4 DEF Renew, Fault
<1>5. ASSUME NEW c \in Calls, Finish(c) PROVE LockInv'
  BY <1>5 DEF Finish
<1>6. ASSUME NEW c \in Calls, Release(c) PROVE LockInv'
  BY <1>6 DEF Release, Free, Fault
<1>7. ASSUME NEW c \in Calls, Crash(c) PROVE LockInv'
  BY <1>7 DEF Crash, Fault
<1>8. ASSUME Restart PROVE LockInv'
  BY <1>8 DEF Restart, Free, Fault
<1>9. ASSUME Tick PROVE LockInv'
  BY <1>9 DEF Tick, Waiting, Timed, Expire, Larger
<1>10. CASE UNCHANGED vars
  BY <1>10 DEF vars
<1> QED
  BY <1>1, <1>2, <1>3, <1>4, <1>5, <1>6, <1>7, <1>8, <1>9, <1>10 DEF Next, Step

THEOREM LockInvariant == Spec => []LockInv
<1>1. Init => LockInv
  BY DEF Init, LockInv, HoldsKey
<1> QED
  BY <1>1, LockInductive, TypeCorrect, PTL DEF Spec

LEMMA LockExcludes == LockInv => MutualExclusion
  BY DEF LockInv, HoldsKey, MutualExclusion, Working

(* Two calls never work at once. *)
THEOREM Excludes == Spec => []MutualExclusion
  BY LockInvariant, LockExcludes, PTL

(* No call's release takes another call's lock away. *)
THEOREM ReleaseOwn == Spec => ReleaseIsOwn
<1> DEFINE Own == \A c \in Calls : owner = c /\ owner' # c =>
                    pc[c] = "releasing" \/ ttl = 1 \/ faults' > faults
<1>1. TypeOK /\ [Next]_vars => [Own]_vars
  <2> SUFFICES ASSUME TypeOK, Next PROVE Own
    BY DEF vars
  <2> USE CallsKnown, TimesKnown DEF TypeOK
  <2>1. ASSUME NEW c \in Calls, Acquire(c) PROVE Own
    BY <2>1 DEF Acquire
  <2>2. ASSUME NEW c \in Calls, Step(c) \/ Finish(c) PROVE Own
    BY <2>2 DEF Step, Start, Fire, Renew, Release, Free, Fault, Finish
  <2>3. ASSUME NEW c \in Calls, Crash(c) PROVE Own
    BY <2>3 DEF Crash
  <2>4. ASSUME Restart PROVE Own
    BY <2>4 DEF Restart, Fault
  <2>5. ASSUME Tick PROVE Own
    BY <2>5 DEF Tick, Expire
  <2> QED
    BY <2>1, <2>2, <2>3, <2>4, <2>5 DEF Next
<1> QED
  BY <1>1, TypeCorrect, PTL DEF Spec, ReleaseIsOwn

(* A call that has ended gets no lock and keeps none beyond its time: its last    *)
(* renewal was answered before it released, or died with its process.          *)
THEOREM LeftRunDown == Spec => LeftLocksRunDown
<1> DEFINE RunDown == \A c \in Calls : pc[c] \in {"skipped", "done", "dead"} /\ owner' = c =>
                        owner = c /\ ttl' =< ttl
<1>1. TypeOK /\ LockInv /\ [Next]_vars => [RunDown]_vars
  <2> SUFFICES ASSUME TypeOK, LockInv, Next PROVE RunDown
    BY DEF vars
  <2> USE CallsKnown, TimesKnown DEF TypeOK
  <2>1. ASSUME NEW c \in Calls, Acquire(c) PROVE RunDown
    BY <2>1 DEF Acquire
  <2>2. ASSUME NEW c \in Calls, Renew(c) PROVE RunDown
    BY <2>2 DEF Renew, LockInv
  <2>3. ASSUME NEW c \in Calls, Start(c) \/ Fire(c) \/ Finish(c) \/ Crash(c) PROVE RunDown
    BY <2>3 DEF Start, Fire, Finish, Crash
  <2>4. ASSUME NEW c \in Calls, Release(c) PROVE RunDown
    BY <2>4 DEF Release, Free
  <2>5. CASE Restart
    BY <2>5 DEF Restart, Free
  <2>6. CASE Tick
    BY <2>6 DEF Tick, Expire, Larger
  <2> QED
    BY <2>1, <2>2, <2>3, <2>4, <2>5, <2>6 DEF Next, Step
<1> QED
  BY <1>1, TypeCorrect, LockInvariant, PTL DEF Spec, LeftLocksRunDown

(* With room for a renewal in the time to live, withLock implements Mutex.   *)
THEOREM Implements ==
  ASSUME RenewalInterval + 2 * MaxDelay < TTL
  PROVE  Spec => ImplementsMutex
<1>1. Init => Abstract!Init
  BY DEF Init, Abstract!Init, Working
<1>2. TypeOK /\ TypeOK' /\ LockInv /\ LockInv' /\ [Next]_vars => [Abstract!Next]_(Abstract!vars)
  <2> SUFFICES ASSUME TypeOK, TypeOK', LockInv, LockInv', [Next]_vars
               PROVE  Abstract!Next \/ UNCHANGED <<Working, faults > 0>>
    BY DEF Abstract!vars
  <2>1. faults \in Nat /\ faults' \in Nat
    BY TimesKnown DEF TypeOK
  <2>2. faults' = 0 => \A c, d \in Working' : c = d
    BY DEF LockInv, HoldsKey, Healthy, Working
  <2>3. ASSUME NEW c \in Calls, Start(c) PROVE Abstract!Enter(c)
    <3>1. Working' = Working \cup {c} /\ c \notin Working /\ faults' = faults
      BY <2>3 DEF Start, Working, TypeOK
    <3>2. Working = {} \/ faults > 0
      BY <3>1, <2>1, <2>2
    <3> QED
      BY <3>1, <3>2 DEF Abstract!Enter
  <2>4. ASSUME NEW c \in Calls, Finish(c) PROVE Abstract!Leave(c)
    <3>1. c \in Working /\ Working' = Working \ {c} /\ faults' = faults
      BY <2>4 DEF Finish, Working, TypeOK
    <3> QED
      BY <3>1 DEF Abstract!Leave
  <2>5. ASSUME Working' \subseteq Working, Fault PROVE Abstract!Fail
    <3>1. (faults > 0)' = TRUE
      BY <2>1, <2>5 DEF Fault
    <3> QED
      BY <3>1, <2>5 DEF Abstract!Fail
  <2>6. ASSUME Working' = Working, faults' = faults PROVE UNCHANGED <<Working, faults > 0>>
    BY <2>6
  <2>7. ASSUME NEW c \in Calls, Acquire(c) PROVE Working' = Working /\ faults' = faults
    BY <2>7 DEF Acquire, Working, TypeOK
  <2>8. ASSUME NEW c \in Calls, Fire(c) \/ Renew(c)
        PROVE  Working' = Working /\ (faults' = faults \/ Fault)
    BY <2>8 DEF Fire, Renew, Working
  <2>9. ASSUME NEW c \in Calls, Release(c)
        PROVE  Working' = Working /\ (faults' = faults \/ Fault)
    BY <2>9 DEF Release, Working, TypeOK
  <2>10. ASSUME NEW c \in Calls, Crash(c) PROVE Working' \subseteq Working /\ Fault
    BY <2>10 DEF Crash, Working, TypeOK
  <2>11. ASSUME Restart PROVE Working' = Working /\ Fault
    BY <2>11 DEF Restart, Working
  <2>12. ASSUME Tick \/ UNCHANGED vars PROVE Working' = Working /\ faults' = faults
    BY <2>12 DEF Tick, vars, Working
  <2> QED
    BY <2>3, <2>4, <2>5, <2>6, <2>7, <2>8, <2>9, <2>10, <2>11, <2>12 DEF Next, Step, Abstract!Next
<1> QED
  BY <1>1, <1>2, TypeCorrect, LockInvariant, PTL DEF Spec, ImplementsMutex, Abstract!Spec
=============================================================================
