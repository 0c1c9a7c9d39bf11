------------------------ MODULE TripLifecycle_proofs ------------------------
(* A reconciliation heals whatever drift it finds, for any number of trips   *)
(* and handlers; and what leaks a rotation of the kiosk's codes.            *)
EXTENDS TripLifecycle, KioskQr, FiniteSetTheorems, SequenceTheorems, TLAPS

LEMMA HandlerTyped ==
  ASSUME NEW H, NEW todos, NEW f \in [H -> Handler(todos)], NEW h \in H
  PROVE  /\ Done(f, h) \in [H -> Handler(todos)]
         /\ \A todo \in todos : f[h] # Idle => Then(f, h, todo) \in [H -> Handler(todos)]
         /\ f[h].todo # "nothing" => f[h] # Idle /\ f[h].trip \in Trips
         /\ \A t \in Trips, todo \in todos : [f EXCEPT ![h] = [todo |-> todo, trip |-> t]] \in [H -> Handler(todos)]
<1>1. Done(f, h) \in [H -> Handler(todos)]
  BY DEF Done, Handler
<1>2. ASSUME NEW todo \in todos, f[h] # Idle PROVE Then(f, h, todo) \in [H -> Handler(todos)]
  <2>1. f[h] \in [todo : todos, trip : Trips]
    BY <1>2 DEF Handler
  <2>2. [f[h] EXCEPT !.todo = todo] \in Handler(todos)
    BY <2>1 DEF Handler
  <2>3. Then(f, h, todo) = [f EXCEPT ![h] = [f[h] EXCEPT !.todo = todo]]
    BY DEF Then
  <2> QED
    BY <2>2, <2>3
<1>3. f[h].todo # "nothing" => f[h] # Idle /\ f[h].trip \in Trips
  BY DEF Handler, Idle
<1>4. \A t \in Trips, todo \in todos : [f EXCEPT ![h] = [todo |-> todo, trip |-> t]] \in [H -> Handler(todos)]
  BY DEF Handler
<1> QED
  BY <1>1, <1>2, <1>3, <1>4

(* The types of rows, Redis keys and handlers are invariant. *)
THEOREM TypeCorrect == Spec => []TypeOK
<1>1. Init => TypeOK
  BY BoundsKnown DEF Init, TypeOK, Handler, Idle, NoRun
<1>2. TypeOK /\ [Next]_vars => TypeOK'
  <2> SUFFICES ASSUME TypeOK, [Next]_vars PROVE TypeOK'
    OBVIOUS
  <2> DEFINE S == {"update", "cache", "set", "count", "state"}
             E == {"update", "cache", "set", "count", "state", "task"}
  <2>s. starter \in [Starters -> Handler(S)] /\ ender \in [Enders -> Handler(E)] /\ reader \in [Readers -> Handler({"fill"})]
    BY DEF TypeOK
  <2> USE DEF redisVars, taskVars
  <2>1. ASSUME NEW h \in Starters, NEW t \in Trips, StartCheck(h, t) PROVE TypeOK'
    <3>1. starter' \in [Starters -> Handler(S)]
      BY <2>1, <2>s, HandlerTyped DEF StartCheck
    <3> QED
      BY <2>1, <3>1 DEF StartCheck, TypeOK
  <2>2. ASSUME NEW h \in Starters, StartStep(h) PROVE TypeOK'
    <3>1. starter[h] # Idle /\ starter[h].trip \in Trips
      BY <2>2, <2>s, HandlerTyped DEF StartStep, StartUpdate, StartCache, StartSet, StartCount, StartState
    <3>2. starter' \in [Starters -> Handler(S)]
      <4>1. Done(starter, h) \in [Starters -> Handler(S)]
        BY <2>s, HandlerTyped
      <4>2. \A todo \in S : Then(starter, h, todo) \in [Starters -> Handler(S)]
        BY <2>s, <3>1, HandlerTyped
      <4>3. starter' = Done(starter, h) \/ \E todo \in S : starter' = Then(starter, h, todo)
        BY <2>2 DEF StartStep, StartUpdate, StartCache, StartSet, StartCount, StartState
      <4> QED
        BY <4>1, <4>2, <4>3
    <3>3. CASE StartUpdate(h)
      BY <3>1, <3>2, <3>3 DEF StartUpdate, TypeOK
    <3>4. CASE StartCache(h)
      <4>1. lost' \in 0..MaxLost
        BY <3>4, BoundsKnown DEF StartCache, Swallowing, TypeOK
      <4>2. busCache' \in Trips \cup {NoTrip}
        BY <3>1, <3>4 DEF StartCache, Swallowing, TypeOK
      <4> QED
        BY <3>2, <3>4, <4>1, <4>2 DEF StartCache, TypeOK
    <3>5. CASE StartSet(h)
      <4>1. lost' \in 0..MaxLost
        BY <3>5, BoundsKnown DEF StartSet, Swallowing, TypeOK
      <4>2. activeSet' \in SUBSET Trips
        BY <3>1, <3>5 DEF StartSet, Swallowing, TypeOK
      <4> QED
        BY <3>2, <3>5, <4>1, <4>2 DEF StartSet, TypeOK
    <3>6. CASE StartCount(h)
      <4>1. lost' \in 0..MaxLost
        BY <3>6, BoundsKnown DEF StartCount, Swallowing, TypeOK
      <4>2. dash' \in Int
        BY <3>1, <3>6 DEF StartCount, Swallowing, TypeOK
      <4> QED
        BY <3>2, <3>6, <4>1, <4>2 DEF StartCount, TypeOK
    <3>7. CASE StartState(h)
      <4>1. lost' \in 0..MaxLost
        BY <3>7, BoundsKnown DEF StartState, Swallowing, TypeOK
      <4>2. state' \in SUBSET Trips
        BY <3>1, <3>7 DEF StartState, Swallowing, TypeOK
      <4> QED
        BY <3>2, <3>7, <4>1, <4>2 DEF StartState, TypeOK
    <3> QED
      BY <2>2, <3>3, <3>4, <3>5, <3>6, <3>7 DEF StartStep
  <2>3. ASSUME NEW h \in Enders, NEW t \in Trips, EndCheck(h, t) PROVE TypeOK'
    <3>1. ender' \in [Enders -> Handler(E)]
      BY <2>3, <2>s, HandlerTyped DEF EndCheck
    <3> QED
      BY <2>3, <3>1 DEF EndCheck, TypeOK
  <2>4. ASSUME NEW h \in Enders, EndStep(h) PROVE TypeOK'
    <3>1. ender[h] # Idle /\ ender[h].trip \in Trips
      BY <2>4, <2>s, HandlerTyped DEF EndStep, EndUpdate, EndCache, EndSet, EndCount, EndState, EndTask
    <3>2. ender' \in [Enders -> Handler(E)]
      <4>1. Done(ender, h) \in [Enders -> Handler(E)]
        BY <2>s, HandlerTyped
      <4>2. \A todo \in E : Then(ender, h, todo) \in [Enders -> Handler(E)]
        BY <2>s, <3>1, HandlerTyped
      <4>3. ender' = Done(ender, h) \/ \E todo \in E : ender' = Then(ender, h, todo)
        BY <2>4 DEF EndStep, EndUpdate, EndCache, EndSet, EndCount, EndState, EndTask
      <4> QED
        BY <4>1, <4>2, <4>3
    <3>3. CASE EndUpdate(h)
      BY <3>1, <3>2, <3>3 DEF EndUpdate, TypeOK
    <3>4. CASE EndCache(h)
      <4>1. lost' \in 0..MaxLost
        BY <3>4, BoundsKnown DEF EndCache, Swallowing, TypeOK
      <4>2. busCache' \in Trips \cup {NoTrip}
        BY <3>1, <3>4 DEF EndCache, Swallowing, TypeOK
      <4> QED
        BY <3>2, <3>4, <4>1, <4>2 DEF EndCache, TypeOK
    <3>5. CASE EndSet(h)
      <4>1. lost' \in 0..MaxLost
        BY <3>5, BoundsKnown DEF EndSet, Swallowing, TypeOK
      <4>2. activeSet' \in SUBSET Trips
        BY <3>1, <3>5 DEF EndSet, Swallowing, TypeOK
      <4> QED
        BY <3>2, <3>5, <4>1, <4>2 DEF EndSet, TypeOK
    <3>6. CASE EndCount(h)
      <4>1. lost' \in 0..MaxLost
        BY <3>6, BoundsKnown DEF EndCount, Swallowing, TypeOK
      <4>2. dash' \in Int
        BY <3>1, <3>6 DEF EndCount, Swallowing, TypeOK
      <4> QED
        BY <3>2, <3>6, <4>1, <4>2 DEF EndCount, TypeOK
    <3>7. CASE EndState(h)
      <4>1. lost' \in 0..MaxLost
        BY <3>7, BoundsKnown DEF EndState, Swallowing, TypeOK
      <4>2. state' \in SUBSET Trips
        BY <3>1, <3>7 DEF EndState, Swallowing, TypeOK
      <4> QED
        BY <3>2, <3>7, <4>1, <4>2 DEF EndState, TypeOK
    <3>8. CASE EndTask(h)
      BY <3>1, <3>2, <3>8 DEF EndTask, CreateTask, TypeOK
    <3> QED
      BY <2>4, <3>3, <3>4, <3>5, <3>6, <3>7, <3>8 DEF EndStep
  <2>5. ASSUME NEW t \in Trips, Deactivate(t) PROVE TypeOK'
    <3>1. status' \in [Trips -> {"SCHEDULED", "ACTIVE", "COMPLETED"}]
      BY <2>5 DEF Deactivate, TypeOK
    <3>2. deactivated' \in 0..Deactivations
      BY <2>5, BoundsKnown DEF Deactivate, TypeOK
    <3> QED
      BY <2>5, <3>1, <3>2 DEF Deactivate, TypeOK
  <2>6. ASSUME NEW h \in Readers, NEW t \in Trips, Lookup(h, t) PROVE TypeOK'
    BY <2>6, <2>s, HandlerTyped DEF Lookup, TypeOK
  <2>7. ASSUME NEW h \in Readers, Fill(h) PROVE TypeOK'
    <3>1. reader[h].trip \in Trips /\ reader' \in [Readers -> Handler({"fill"})]
      BY <2>7, <2>s, HandlerTyped DEF Fill
    <3> QED
      <4>1. lost' \in 0..MaxLost
        BY <2>7, BoundsKnown DEF Fill, Swallowing, TypeOK
      <4>2. busCache' \in Trips \cup {NoTrip}
        BY <2>7, <3>1 DEF Fill, Swallowing, TypeOK
      <4> QED
        BY <2>7, <3>1, <4>1, <4>2 DEF Fill, TypeOK
  <2>8. CASE CacheExpires
    BY <2>8 DEF CacheExpires, TypeOK
  <2>9. CASE ReconcileRead
    BY <2>9 DEF ReconcileRead, TypeOK, Active
  <2>10. CASE ReconcileWrite
    <3>1. IsFiniteSet(reconciler.rows) /\ Cardinality(reconciler.rows) \in Nat
      BY TripsKnown, FS_Subset, FS_CardinalityType DEF TypeOK
    <3> QED
      BY <2>10, <3>1 DEF ReconcileWrite, Rewrite, TypeOK
  <2>11. CASE UNCHANGED vars
    BY <2>11 DEF vars, TypeOK
  <2>12. ASSUME NEW h \in Starters, StartAbort(h) PROVE TypeOK'
    <3>1. starter' \in [Starters -> Handler(S)]
      BY <2>12, <2>s, HandlerTyped DEF StartAbort
    <3> QED
      BY <2>12, <3>1 DEF StartAbort, TypeOK
  <2>13. ASSUME NEW h \in Enders, EndAbort(h) PROVE TypeOK'
    <3>1. ender' \in [Enders -> Handler(E)]
      BY <2>13, <2>s, HandlerTyped DEF EndAbort
    <3>2. ender[h].trip \in Trips
      BY <2>13, <2>s DEF EndAbort, Handler
    <3>3. orphaned' \subseteq Trips
      BY <2>13, <3>2 DEF EndAbort, TypeOK
    <3> QED
      BY <2>13, <3>1, <3>3 DEF EndAbort, TypeOK
  <2>14. ASSUME NEW t \in Trips, Deliver(t) PROVE TypeOK'
    <3>1. tasks' \subseteq Trips /\ finalised' \subseteq Trips
      BY <2>14 DEF Deliver, TypeOK
    <3> QED
      BY <2>14, <3>1 DEF Deliver, TypeOK
  <2>15. ASSUME NEW h \in Readers, LookupAbort(h) PROVE TypeOK'
    <3>1. reader' \in [Readers -> Handler({"fill"})]
      BY <2>15, <2>s, HandlerTyped DEF LookupAbort
    <3> QED
      BY <2>15, <3>1 DEF LookupAbort, TypeOK
  <2>16. CASE ReconcileAbort
    BY <2>16 DEF ReconcileAbort, NoRun, TypeOK
  <2> QED
    BY <2>1, <2>2, <2>3, <2>4, <2>5, <2>6, <2>7, <2>8, <2>9, <2>10, <2>11, <2>12, <2>13, <2>14,
       <2>15, <2>16 DEF Next
<1> QED
  BY <1>1, <1>2, PTL DEF Spec

-----------------------------------------------------------------------------
(* While nothing has disturbed it, a run in progress holds the rows as they  *)
(* still are, and a finished one has made Redis agree with them.             *)
HealInv ==
  undisturbed => /\ ~InFlight
                 /\ reconciler.pc = "write" => reconciler.rows = Active
                 /\ reconciler.pc # "write" => dash = Cardinality(Active) /\ activeSet = Active

LEMMA HandlersDisturb ==
  ASSUME \/ \E h \in Starters, t \in Trips : StartCheck(h, t)
         \/ \E h \in Starters : StartStep(h) \/ StartAbort(h)
         \/ \E h \in Enders, t \in Trips : EndCheck(h, t)
         \/ \E h \in Enders : EndStep(h) \/ EndAbort(h)
         \/ \E t \in Trips : Deactivate(t)
         \/ ReconcileAbort
  PROVE  undisturbed' = FALSE
<1>1. ASSUME NEW h \in Starters, NEW t \in Trips, StartCheck(h, t) PROVE undisturbed' = FALSE
  BY <1>1 DEF StartCheck
<1>2. ASSUME NEW h \in Starters, StartStep(h) PROVE undisturbed' = FALSE
  BY <1>2 DEF StartStep, StartUpdate, StartCache, StartSet, StartCount, StartState
<1>3. ASSUME NEW h \in Enders, NEW t \in Trips, EndCheck(h, t) PROVE undisturbed' = FALSE
  BY <1>3 DEF EndCheck
<1>4. ASSUME NEW h \in Enders, EndStep(h) PROVE undisturbed' = FALSE
  BY <1>4 DEF EndStep, EndUpdate, EndCache, EndSet, EndCount, EndState, EndTask
<1>5. ASSUME NEW t \in Trips, Deactivate(t) PROVE undisturbed' = FALSE
  BY <1>5 DEF Deactivate
<1>6. ASSUME NEW h, StartAbort(h) \/ EndAbort(h) PROVE undisturbed' = FALSE
  BY <1>6 DEF StartAbort, EndAbort
<1>7. CASE ReconcileAbort
  BY <1>7 DEF ReconcileAbort
<1> QED
  BY <1>1, <1>2, <1>3, <1>4, <1>5, <1>6, <1>7

(* Reconciliation heals the counter and the set. *)
THEOREM Heals == Spec => []ReconciliationHeals
<1>1. Init => HealInv
  <2> SUFFICES ASSUME Init PROVE HealInv
    OBVIOUS
  <2>1. Active = {}
    BY DEF Init, Active
  <2>2. Cardinality(Active) = 0
    BY <2>1, FS_EmptySet
  <2> QED
    BY <2>1, <2>2 DEF Init, HealInv, InFlight, NoRun
<1>2. HealInv /\ [Next]_vars => HealInv'
  <2> SUFFICES ASSUME HealInv, [Next]_vars PROVE HealInv'
    OBVIOUS
  <2>1. ASSUME undisturbed' = FALSE PROVE HealInv'
    BY <2>1 DEF HealInv
  <2>2. ASSUME UNCHANGED <<status, activeSet, dash, starter, ender, reconciler, undisturbed>>
        PROVE  HealInv'
    BY <2>2 DEF HealInv, InFlight, Active
  <2>3. ASSUME NEW h \in Readers, NEW t \in Trips, Lookup(h, t) PROVE HealInv'
    BY <2>3, <2>2 DEF Lookup, redisVars
  <2>4. ASSUME NEW h \in Readers, Fill(h) PROVE HealInv'
    BY <2>4, <2>2 DEF Fill, Swallowing
  <2>5. ASSUME CacheExpires PROVE HealInv'
    BY <2>5, <2>2 DEF CacheExpires
  <2>6. ASSUME ReconcileRead PROVE HealInv'
    BY <2>6 DEF ReconcileRead, HealInv, InFlight, Active, redisVars
  <2>7. ASSUME ReconcileWrite PROVE HealInv'
    BY <2>7 DEF ReconcileWrite, Rewrite, HealInv, InFlight, Active
  <2>8. CASE UNCHANGED vars
    BY <2>8, <2>2 DEF vars, redisVars
  <2>9. ASSUME NEW t \in Trips, Deliver(t) PROVE HealInv'
    BY <2>9, <2>2 DEF Deliver, redisVars
  <2>10. ASSUME NEW h \in Readers, LookupAbort(h) PROVE HealInv'
    BY <2>10, <2>2 DEF LookupAbort, redisVars
  <2> QED
    BY <2>1, <2>3, <2>4, <2>5, <2>6, <2>7, <2>8, <2>9, <2>10, HandlersDisturb DEF Next
<1>3. HealInv => ReconciliationHeals
  BY DEF HealInv, ReconciliationHeals
<1> QED
  BY <1>1, <1>2, <1>3, PTL DEF Spec

-----------------------------------------------------------------------------
(* What a handler's step leaves of the handlers' records. *)
LEMMA HandlerMoves ==
  ASSUME NEW H, NEW todos, NEW f \in [H -> Handler(todos)], NEW h \in H
  PROVE  /\ Done(f, h)[h] = Idle /\ \A g \in H : g # h => Done(f, h)[g] = f[g]
         /\ \A todo : /\ f[h].todo # "nothing" => Then(f, h, todo)[h].todo = todo /\ Then(f, h, todo)[h].trip = f[h].trip
                      /\ \A g \in H : g # h => Then(f, h, todo)[g] = f[g]
<1>1. Done(f, h)[h] = Idle /\ \A g \in H : g # h => Done(f, h)[g] = f[g]
  BY DEF Done
<1>2. ASSUME NEW todo
      PROVE  /\ f[h].todo # "nothing" => Then(f, h, todo)[h].todo = todo /\ Then(f, h, todo)[h].trip = f[h].trip
             /\ \A g \in H : g # h => Then(f, h, todo)[g] = f[g]
  <2>1. Then(f, h, todo) = [f EXCEPT ![h] = [f[h] EXCEPT !.todo = todo]]
    BY DEF Then
  <2>2. f[h].todo # "nothing" =>
          [f[h] EXCEPT !.todo = todo].todo = todo /\ [f[h] EXCEPT !.todo = todo].trip = f[h].trip
    BY DEF Handler, Idle
  <2> HIDE DEF Then
  <2> QED
    BY <2>1, <2>2
<1> QED
  BY <1>1, <1>2

(* The steps of a starter, and of an ender, by what they leave to do. *)
LEMMA StarterMoves ==
  ASSUME TypeOK, NEW h \in Starters, StartStep(h)
  PROVE  /\ starter[h].trip \in Trips /\ starter[h].todo # "nothing"
         /\ \A g \in Starters : g # h => starter'[g] = starter[g]
         /\ \/ /\ starter[h].todo = "update" /\ starter'[h].todo = "cache" /\ starter'[h].trip = starter[h].trip
               /\ status' = [status EXCEPT ![starter[h].trip] = "ACTIVE"] /\ UNCHANGED busCache
               /\ finalised' = finalised \ {starter[h].trip} /\ orphaned' = orphaned \ {starter[h].trip}
            \/ /\ starter[h].todo = "cache" /\ starter'[h].todo = "set" /\ starter'[h].trip = starter[h].trip
               /\ UNCHANGED <<status, finalised, orphaned>> /\ busCache' \in {busCache, starter[h].trip}
            \/ /\ starter[h].todo \notin {"update", "cache"} /\ starter'[h].todo \notin {"update", "cache"}
               /\ UNCHANGED <<status, finalised, orphaned, busCache>>
         /\ UNCHANGED <<ender, reader, tasks>>
<1> DEFINE S == {"update", "cache", "set", "count", "state"}
<1>0. starter \in [Starters -> Handler(S)]
  BY DEF TypeOK
<1>1. starter[h].todo # "nothing"
  BY DEF StartStep, StartUpdate, StartCache, StartSet, StartCount, StartState
<1>2. starter[h].trip \in Trips
  BY <1>0, <1>1, HandlerTyped
<1>3. \A g \in Starters : g # h => Done(starter, h)[g] = starter[g] /\ \A todo : Then(starter, h, todo)[g] = starter[g]
  BY <1>0, HandlerMoves
<1>4. /\ Done(starter, h)[h].todo = "nothing"
      /\ \A todo : Then(starter, h, todo)[h].todo = todo /\ Then(starter, h, todo)[h].trip = starter[h].trip
  BY <1>0, <1>1, HandlerMoves DEF Idle
<1>5. starter' = Done(starter, h) \/ \E todo \in S : starter' = Then(starter, h, todo)
  BY DEF StartStep, StartUpdate, StartCache, StartSet, StartCount, StartState
<1>6. UNCHANGED <<ender, reader, tasks>>
  BY DEF StartStep, StartUpdate, StartCache, StartSet, StartCount, StartState, redisVars, taskVars
<1> HIDE DEF S
<1> USE DEF taskVars
<1>7. CASE StartUpdate(h)
  BY <1>1, <1>2, <1>3, <1>4, <1>6, <1>7 DEF StartUpdate, redisVars
<1>8. CASE StartCache(h)
  BY <1>1, <1>2, <1>3, <1>4, <1>6, <1>8 DEF StartCache, Swallowing
<1>9. CASE StartSet(h)
  BY <1>1, <1>2, <1>3, <1>4, <1>6, <1>9 DEF StartSet
<1>10. CASE StartCount(h)
  BY <1>1, <1>2, <1>3, <1>4, <1>6, <1>10 DEF StartCount
<1>11. CASE StartState(h)
  BY <1>1, <1>2, <1>3, <1>4, <1>6, <1>11 DEF StartState
<1> QED
  BY <1>7, <1>8, <1>9, <1>10, <1>11 DEF StartStep

EndTodos == {"cache", "set", "count", "state", "task"}

LEMMA EnderMoves ==
  ASSUME TypeOK, NEW h \in Enders, EndStep(h)
  PROVE  /\ ender[h].trip \in Trips
         /\ \A g \in Enders : g # h => ender'[g] = ender[g]
         /\ \/ /\ ender[h].todo = "update" /\ ender'[h].todo = "cache" /\ ender'[h].trip = ender[h].trip
               /\ status' = [status EXCEPT ![ender[h].trip] = "COMPLETED"] /\ UNCHANGED <<busCache, tasks>>
            \/ /\ ender[h].todo \in EndTodos /\ ender'[h].todo \in EndTodos /\ ender'[h].trip = ender[h].trip
               /\ UNCHANGED <<status, tasks>> /\ busCache' \in {busCache, NoTrip}
            \/ /\ ender[h].todo = "task" /\ tasks' = tasks \cup {ender[h].trip}
               /\ UNCHANGED <<status, busCache>>
         /\ UNCHANGED <<starter, reader, finalised, orphaned>>
<1> DEFINE E == {"update", "cache", "set", "count", "state", "task"}
<1>0. ender \in [Enders -> Handler(E)]
  BY DEF TypeOK
<1>1. ender[h].todo # "nothing"
  BY DEF EndStep, EndUpdate, EndCache, EndSet, EndCount, EndState, EndTask
<1>2. ender[h].trip \in Trips
  BY <1>0, <1>1, HandlerTyped
<1>3. \A g \in Enders : g # h => Done(ender, h)[g] = ender[g] /\ \A todo : Then(ender, h, todo)[g] = ender[g]
  BY <1>0, HandlerMoves
<1>4. \A todo : Then(ender, h, todo)[h].todo = todo /\ Then(ender, h, todo)[h].trip = ender[h].trip
  BY <1>0, <1>1, HandlerMoves
<1>5. UNCHANGED <<starter, reader, finalised, orphaned>>
  BY DEF EndStep, EndUpdate, EndCache, EndSet, EndCount, EndState, EndTask, redisVars, taskVars
<1> HIDE DEF E
<1> USE DEF taskVars
<1>7. CASE EndUpdate(h)
  BY <1>2, <1>3, <1>4, <1>5, <1>7 DEF EndUpdate, redisVars
<1>8. CASE EndCache(h)
  BY <1>2, <1>3, <1>4, <1>5, <1>8 DEF EndCache, Swallowing, EndTodos
<1>9. CASE EndSet(h)
  BY <1>2, <1>3, <1>4, <1>5, <1>9 DEF EndSet, EndTodos
<1>10. CASE EndCount(h)
  BY <1>2, <1>3, <1>4, <1>5, <1>10 DEF EndCount, EndTodos
<1>11. CASE EndState(h)
  BY <1>2, <1>3, <1>4, <1>5, <1>11 DEF EndState, EndTodos
<1>12. CASE EndTask(h)
  BY <1>2, <1>3, <1>5, <1>12 DEF EndTask, CreateTask, redisVars
<1> QED
  BY <1>7, <1>8, <1>9, <1>10, <1>11, <1>12 DEF EndStep

(* For any number of trips and handlers: a trip that is over has its task    *)
(* queued or done, or an end under way that creates it, unless its end died  *)
(* after the update or a driver was deactivated.                            *)
THEOREM EndedTasked == Spec => []EndedHasTask
<1>1. Init => EndedHasTask
  BY DEF Init, EndedHasTask
<1>2. TypeOK /\ EndedHasTask /\ [Next]_vars => EndedHasTask'
  <2> SUFFICES ASSUME TypeOK, EndedHasTask, [Next]_vars PROVE EndedHasTask'
    OBVIOUS
  <2> USE DEF redisVars, taskVars
  <2> DEFINE Ending(t) == \E h \in Enders : ender[h].trip = t /\ ender[h].todo \in EndTodos
  <2>h. \A t \in Trips : status[t] = "COMPLETED" => t \in tasks \cup finalised \cup orphaned \/ Ending(t)
    BY DEF EndedHasTask, EndTodos
  <2>b. SUFFICES ASSUME NEW t \in Trips, status'[t] = "COMPLETED"
                 PROVE  t \in tasks' \cup finalised' \cup orphaned' \/ Ending(t)'
    BY DEF EndedHasTask, EndTodos
  <2>c. ASSUME UNCHANGED <<status, ender, taskVars>> PROVE t \in tasks' \cup finalised' \cup orphaned' \/ Ending(t)'
    BY <2>h, <2>b, <2>c
  <2>1. ASSUME NEW h \in Starters, StartStep(h)
        PROVE  t \in tasks' \cup finalised' \cup orphaned' \/ Ending(t)'
    <3>1. /\ UNCHANGED <<ender, tasks>>
          /\ \/ UNCHANGED <<status, finalised, orphaned>>
             \/ /\ status' = [status EXCEPT ![starter[h].trip] = "ACTIVE"]
                /\ finalised' = finalised \ {starter[h].trip} /\ orphaned' = orphaned \ {starter[h].trip}
      BY <2>1, StarterMoves
    <3>2. status[t] = "COMPLETED" /\ (UNCHANGED <<finalised, orphaned>> \/ t # starter[h].trip)
      BY <2>b, <3>1 DEF TypeOK
    <3> QED
      BY <2>h, <3>1, <3>2
  <2>2. ASSUME NEW h \in Enders, NEW s \in Trips, EndCheck(h, s)
        PROVE  t \in tasks' \cup finalised' \cup orphaned' \/ Ending(t)'
    <3>1. ender[h].todo \notin EndTodos /\ \A g \in Enders : g # h => ender'[g] = ender[g]
      BY <2>2 DEF EndCheck, Idle, TypeOK, EndTodos
    <3>2. UNCHANGED <<status, taskVars>>
      BY <2>2 DEF EndCheck
    <3> QED
      BY <2>b, <2>h, <3>1, <3>2
  <2>3. ASSUME NEW h \in Enders, EndStep(h)
        PROVE  t \in tasks' \cup finalised' \cup orphaned' \/ Ending(t)'
    <3>1. /\ \A g \in Enders : g # h => ender'[g] = ender[g]
          /\ UNCHANGED <<finalised, orphaned>>
      BY <2>3, EnderMoves
    <3>2. CASE /\ ender[h].todo = "update" /\ ender'[h].todo = "cache" /\ ender'[h].trip = ender[h].trip
               /\ status' = [status EXCEPT ![ender[h].trip] = "COMPLETED"] /\ UNCHANGED <<busCache, tasks>>
      <4>1. t = ender[h].trip \/ status[t] = "COMPLETED"
        BY <2>b, <3>2 DEF TypeOK
      <4> QED
        BY <2>h, <3>1, <3>2, <4>1 DEF EndTodos
    <3>3. CASE /\ ender[h].todo \in EndTodos /\ ender'[h].todo \in EndTodos /\ ender'[h].trip = ender[h].trip
               /\ UNCHANGED <<status, tasks>> /\ busCache' \in {busCache, NoTrip}
      BY <2>b, <2>h, <3>1, <3>3
    <3>4. CASE /\ ender[h].todo = "task" /\ tasks' = tasks \cup {ender[h].trip}
               /\ UNCHANGED <<status, busCache>>
      BY <2>b, <2>h, <3>1, <3>4
    <3> QED
      BY <2>3, <3>2, <3>3, <3>4, EnderMoves
  <2>4. ASSUME NEW s \in Trips, Deactivate(s)
        PROVE  t \in tasks' \cup finalised' \cup orphaned' \/ Ending(t)'
    <3>1. UNCHANGED <<ender, tasks, finalised>> /\ orphaned' = orphaned \cup {s}
          /\ (t = s \/ status[t] = "COMPLETED")
      BY <2>b, <2>4 DEF Deactivate, TypeOK
    <3> QED
      BY <2>h, <3>1
  <2>5. ASSUME NEW h \in Enders, EndAbort(h)
        PROVE  t \in tasks' \cup finalised' \cup orphaned' \/ Ending(t)'
    <3>1. /\ \A g \in Enders : g # h => ender'[g] = ender[g]
          /\ UNCHANGED <<status, tasks, finalised>> /\ orphaned \subseteq orphaned'
          /\ ender[h].todo \in EndTodos => ender[h].trip \in orphaned'
      BY <2>5 DEF EndAbort, Done, TypeOK, EndTodos
    <3> QED
      BY <2>b, <2>h, <3>1
  <2>6. ASSUME NEW s \in Trips, Deliver(s)
        PROVE  t \in tasks' \cup finalised' \cup orphaned' \/ Ending(t)'
    <3>1. /\ UNCHANGED <<status, ender, orphaned>> /\ tasks' = tasks \ {s} /\ finalised \subseteq finalised'
          /\ t = s => s \in finalised'
      BY <2>b, <2>6 DEF Deliver
    <3> QED
      BY <2>b, <2>h, <3>1
  <2>7. ASSUME NEW h, NEW s, \/ StartCheck(h, s) \/ StartAbort(h) \/ Lookup(h, s) \/ Fill(h) \/ LookupAbort(h)
                             \/ CacheExpires \/ ReconcileRead \/ ReconcileWrite \/ ReconcileAbort \/ UNCHANGED vars
        PROVE  t \in tasks' \cup finalised' \cup orphaned' \/ Ending(t)'
    <3>1. UNCHANGED <<status, ender, taskVars>>
      BY <2>7 DEF StartCheck, StartAbort, Lookup, Fill, LookupAbort, CacheExpires, ReconcileRead, ReconcileWrite,
                  ReconcileAbort, vars
    <3> QED
      BY <2>c, <3>1
  <2> QED
    BY <2>1, <2>2, <2>3, <2>4, <2>5, <2>6, <2>7 DEF Next
<1> QED
  BY <1>1, <1>2, TypeCorrect, PTL DEF Spec

TripFades(t) ==
  /\ LateStarters(t)' \subseteq LateStarters(t)
  /\ CacheWriters(t)' \subseteq CacheWriters(t)
  /\ Refillers(t)' \subseteq Refillers(t)
  /\ status'[t] = "COMPLETED" \/ (status'[t] = "ACTIVE" /\ LateStarters(t)' # LateStarters(t))
  /\ busCache' = t => busCache = t \/ CacheWriters(t)' # CacheWriters(t) \/ Refillers(t)' # Refillers(t)

(* For any number of trips and handlers, and whatever Redis loses: nothing   *)
(* names an ended trip in the cache but the writers there were at its end.   *)
THEOREM EntriesOnlyFade == Spec => EntriesFade
<1>1. TypeOK /\ [Next]_vars => [\A t \in Trips : status[t] = "COMPLETED" => TripFades(t)]_vars
  <2> SUFFICES ASSUME TypeOK, Next, NEW t \in Trips, status[t] = "COMPLETED" PROVE TripFades(t)
    OBVIOUS
  <2> USE DEF redisVars, taskVars
  <2>0. t # NoTrip
    BY TripsKnown
  <2>a. ASSUME UNCHANGED <<starter, reader>>, busCache' \in {busCache, NoTrip}, status'[t] = "COMPLETED"
        PROVE  TripFades(t)
    <3>1. UNCHANGED <<LateStarters(t), CacheWriters(t), Refillers(t)>>
      BY <2>a DEF LateStarters, CacheWriters, Refillers
    <3> QED
      BY <2>0, <2>a, <3>1 DEF TripFades
  <2>1. ASSUME NEW h \in Starters, StartStep(h) PROVE TripFades(t)
    <3>1. /\ \A g \in Starters : g # h => starter'[g] = starter[g]
          /\ Refillers(t)' = Refillers(t)
      BY <2>1, StarterMoves DEF Refillers
    <3>2. CASE /\ starter[h].todo = "update" /\ starter'[h].todo = "cache" /\ starter'[h].trip = starter[h].trip
               /\ status' = [status EXCEPT ![starter[h].trip] = "ACTIVE"] /\ UNCHANGED busCache
               /\ finalised' = finalised \ {starter[h].trip} /\ orphaned' = orphaned \ {starter[h].trip}
      <4>1. LateStarters(t)' = LateStarters(t) \ {h} /\ CacheWriters(t)' = CacheWriters(t)
        BY <3>1, <3>2 DEF LateStarters, CacheWriters
      <4>2. status'[t] = "COMPLETED" \/ (status'[t] = "ACTIVE" /\ h \in LateStarters(t))
        BY <3>2 DEF LateStarters, TypeOK
      <4> QED
        BY <3>1, <3>2, <4>1, <4>2 DEF TripFades
    <3>3. CASE /\ starter[h].todo = "cache" /\ starter'[h].todo = "set" /\ starter'[h].trip = starter[h].trip
               /\ UNCHANGED <<status, finalised, orphaned>> /\ busCache' \in {busCache, starter[h].trip}
      <4>1. LateStarters(t)' = LateStarters(t) /\ CacheWriters(t)' = CacheWriters(t) \ {h}
        BY <3>1, <3>3 DEF LateStarters, CacheWriters
      <4>2. busCache' = t => busCache = t \/ h \in CacheWriters(t)
        BY <3>3 DEF CacheWriters
      <4> QED
        BY <3>1, <3>3, <4>1, <4>2 DEF TripFades
    <3>4. CASE /\ starter[h].todo \notin {"update", "cache"} /\ starter'[h].todo \notin {"update", "cache"}
               /\ UNCHANGED <<status, finalised, orphaned, busCache>>
      <4>1. LateStarters(t)' = LateStarters(t) /\ CacheWriters(t)' = CacheWriters(t)
        BY <3>1, <3>4 DEF LateStarters, CacheWriters
      <4> QED
        BY <3>1, <3>4, <4>1 DEF TripFades
    <3> QED
      BY <2>1, <3>2, <3>3, <3>4, StarterMoves
  <2>2. ASSUME NEW h \in Starters, NEW s \in Trips, StartCheck(h, s) PROVE TripFades(t)
    <3>1. /\ s # t /\ starter[h].todo = "nothing" /\ starter'[h].trip = s
          /\ \A g \in Starters : g # h => starter'[g] = starter[g]
          /\ UNCHANGED <<status, busCache, reader>>
      BY <2>2 DEF StartCheck, Idle, TypeOK
    <3>2. UNCHANGED <<LateStarters(t), CacheWriters(t), Refillers(t)>>
      BY <3>1 DEF LateStarters, CacheWriters, Refillers
    <3> QED
      BY <3>1, <3>2 DEF TripFades
  <2>3. ASSUME NEW h \in Readers, NEW s \in Trips, Lookup(h, s) PROVE TripFades(t)
    <3>1. /\ s # t /\ reader[h].todo = "nothing" /\ reader'[h].trip = s
          /\ \A g \in Readers : g # h => reader'[g] = reader[g]
          /\ UNCHANGED <<status, busCache, starter>>
      BY <2>3 DEF Lookup, Idle, TypeOK
    <3>2. UNCHANGED <<LateStarters(t), CacheWriters(t), Refillers(t)>>
      BY <3>1 DEF LateStarters, CacheWriters, Refillers
    <3> QED
      BY <3>1, <3>2 DEF TripFades
  <2>4. ASSUME NEW h \in Readers, Fill(h) PROVE TripFades(t)
    <3>1. /\ reader'[h].todo = "nothing" /\ \A g \in Readers : g # h => reader'[g] = reader[g]
          /\ UNCHANGED <<status, starter>>
          /\ busCache' \in {busCache, reader[h].trip} /\ reader[h].todo = "fill"
      BY <2>4, HandlerMoves DEF Fill, Swallowing, Done, Idle, TypeOK
    <3>2. UNCHANGED <<LateStarters(t), CacheWriters(t)>> /\ Refillers(t)' = Refillers(t) \ {h}
      BY <3>1 DEF LateStarters, CacheWriters, Refillers
    <3>3. busCache' = t => busCache = t \/ h \in Refillers(t)
      BY <3>1 DEF Refillers
    <3> QED
      BY <3>1, <3>2, <3>3 DEF TripFades
  <2>5. ASSUME NEW h \in Enders, EndStep(h) PROVE TripFades(t)
    <3>1. UNCHANGED <<starter, reader>> /\ busCache' \in {busCache, NoTrip}
      BY <2>5, EnderMoves
    <3>2. UNCHANGED status \/ status' = [status EXCEPT ![ender[h].trip] = "COMPLETED"]
      BY <2>5, EnderMoves
    <3>3. status'[t] = "COMPLETED"
      BY <3>2 DEF TypeOK
    <3> QED
      BY <2>a, <3>1, <3>3
  <2>6. ASSUME NEW h \in Enders, NEW s \in Trips, EndCheck(h, s) PROVE TripFades(t)
    BY <2>6, <2>a DEF EndCheck
  <2>7. ASSUME NEW s \in Trips, Deactivate(s) PROVE TripFades(t)
    <3>1. status'[t] = "COMPLETED"
      BY <2>7 DEF Deactivate, TypeOK
    <3> QED
      BY <2>7, <2>a, <3>1 DEF Deactivate
  <2>8. CASE CacheExpires \/ ReconcileRead \/ ReconcileWrite
    BY <2>8, <2>a DEF CacheExpires, ReconcileRead, ReconcileWrite
  <2>9. ASSUME NEW h \in Starters, StartAbort(h) PROVE TripFades(t)
    <3>1. /\ starter'[h].todo = "nothing" /\ \A g \in Starters : g # h => starter'[g] = starter[g]
          /\ UNCHANGED <<status, busCache, reader>>
      BY <2>9, HandlerMoves DEF StartAbort, Done, Idle, TypeOK
    <3>2. /\ LateStarters(t)' = LateStarters(t) \ {h} /\ CacheWriters(t)' = CacheWriters(t) \ {h}
          /\ UNCHANGED Refillers(t)
      BY <3>1 DEF LateStarters, CacheWriters, Refillers
    <3> QED
      BY <3>1, <3>2 DEF TripFades
  <2>10. ASSUME NEW h \in Readers, LookupAbort(h) PROVE TripFades(t)
    <3>1. /\ reader'[h].todo = "nothing" /\ \A g \in Readers : g # h => reader'[g] = reader[g]
          /\ UNCHANGED <<status, busCache, starter>>
      BY <2>10, HandlerMoves DEF LookupAbort, Done, Idle, TypeOK
    <3>2. UNCHANGED <<LateStarters(t), CacheWriters(t)>> /\ Refillers(t)' = Refillers(t) \ {h}
      BY <3>1 DEF LateStarters, CacheWriters, Refillers
    <3> QED
      BY <3>1, <3>2 DEF TripFades
  <2>11. ASSUME NEW h, EndAbort(h) PROVE TripFades(t)
    BY <2>11, <2>a DEF EndAbort
  <2>12. ASSUME NEW s \in Trips, Deliver(s) PROVE TripFades(t)
    BY <2>12, <2>a DEF Deliver
  <2>13. CASE ReconcileAbort
    BY <2>13, <2>a DEF ReconcileAbort
  <2> QED
    BY <2>1, <2>2, <2>3, <2>4, <2>5, <2>6, <2>7, <2>8, <2>9, <2>10, <2>11, <2>12, <2>13 DEF Next
<1> QED
  BY <1>1, TypeCorrect, PTL DEF Spec, EntriesFade, TripFades

-----------------------------------------------------------------------------
(* The kiosk (KioskQr).                                                     *)
LEMMA NoConnKnown == NoConn \notin Conns /\ Unused \in RotationRecords /\ Unused.pc = "none"
  BY KioskConstants DEF NoConn, Conns, Unused, RotationRecords

LEMMA SentTyped ==
  ASSUME NEW s \in Seq(Messages), NEW m \in Messages
  PROVE  Append(s, m) \in Seq(Messages) /\ s \o <<m>> \in Seq(Messages) /\ s \o <<>> \in Seq(Messages)
  BY ConcatProperties, AppendProperties, EmptySeq DEF Messages

LEMMA RestTyped ==
  ASSUME NEW s \in Seq(Messages), s # <<>>
  PROVE  Tail(s) \in Seq(Messages) /\ Head(s) \in Messages /\ Head(s).trip \in KioskTrips
<1>1. Tail(s) \in Seq(Messages) /\ Head(s) \in Messages
  BY HeadTailProperties
<1> QED
  BY <1>1 DEF Messages

(* A rotation of a socket is known to the socket, or the first code of an       *)
(* earlier join of it was being issued when an event came; and only then has   *)
(* a socket two rotations.                                                   *)
KioskInv ==
  /\ \A n \in Rotations : rotation[n].pc # "none" => rotation[n].conn \in alive \cup overlapped
  /\ \A n, m \in Rotations :
       n # m /\ rotation[n].pc # "none" /\ rotation[m].pc # "none" /\ rotation[n].conn = rotation[m].conn
         => rotation[n].conn \in overlapped
  /\ LeakNeedsOverlap

(* What an event at a socket leaves of its rotations.                          *)
LEMMA ClearedLeaves ==
  ASSUME KioskTypeOK, KioskInv, NEW c \in Conns, Noticed(c)
  PROVE  /\ Cleared(c) \in [Rotations -> RotationRecords]
         /\ \A n \in Rotations : Cleared(c)[n] \in {rotation[n], Unused}
         /\ \A n \in Rotations : rotation[n].conn # c => Cleared(c)[n] = rotation[n]
         /\ \A n \in Rotations : n = registered[c] => Cleared(c)[n] = Unused
         /\ \A n \in Rotations : Cleared(c)[n].pc # "none" /\ Cleared(c)[n].conn = c => c \in overlapped'
         /\ overlapped \subseteq overlapped' /\ overlapped' \subseteq Conns
<1>1. /\ Cleared(c) \in [Rotations -> RotationRecords]
      /\ \A n \in Rotations : Cleared(c)[n] \in {rotation[n], Unused}
      /\ \A n \in Rotations : rotation[n].conn # c => Cleared(c)[n] = rotation[n]
      /\ \A n \in Rotations : n = registered[c] => Cleared(c)[n] = Unused
      /\ \A n \in Rotations : n # registered[c] => Cleared(c)[n] = rotation[n]
  <2>1. CASE registered[c] = NoRotation
    BY <2>1, KioskConstants DEF Cleared, KioskTypeOK
  <2>2. CASE registered[c] # NoRotation
    BY <2>2, NoConnKnown DEF Cleared, KioskTypeOK
  <2> QED
    BY <2>1, <2>2
<1>2. overlapped \subseteq overlapped' /\ overlapped' \subseteq Conns
  BY DEF Noticed, KioskTypeOK
<1>3. ASSUME NEW n \in Rotations, Cleared(c)[n].pc # "none", Cleared(c)[n].conn = c PROVE c \in overlapped'
  <2>1. Cleared(c)[n] = rotation[n] /\ n # registered[c] /\ rotation[n].conn = c
    BY <1>1, <1>3, NoConnKnown
  <2>2. CASE rotation[n].pc = "issuing"
    BY <2>1, <2>2 DEF Noticed
  <2>3. CASE rotation[n].pc = "running"
    BY <1>2, <2>1, <2>3 DEF KioskInv, LeakNeedsOverlap
  <2> QED
    BY <1>3, <2>1, <2>2, <2>3 DEF KioskTypeOK, RotationRecords
<1> QED
  BY <1>1, <1>2, <1>3

LEMMA EmitTyped ==
  ASSUME KioskTypeOK, NEW m \in Messages, Emit(m)
  PROVE  unsent' \in Seq(Messages) /\ wire' \in [Conns -> Seq(Messages)]
<1>1. CASE conn = NoConn
  BY <1>1, SentTyped DEF Emit, KioskTypeOK
<1>2. CASE conn # NoConn
  <2>1. conn \in Conns
    BY <1>2, KioskConstants DEF KioskTypeOK, Conns, NoConn
  <2>2. wire' = [wire EXCEPT ![conn] = Append(wire[conn], m)] /\ unsent' = unsent
    BY <1>2 DEF Emit
  <2> QED
    BY <2>1, <2>2, SentTyped DEF KioskTypeOK
<1> QED
  BY <1>1, <1>2

(* Steps of the client leave the server's state.                               *)
LEMMA ServerKept ==
  ASSUME KioskTypeOK, KioskInv, alive \subseteq alive', alive' \subseteq Conns,
         UNCHANGED <<rotation, registered, overlapped>>
  PROVE  KioskInv'
  BY DEF KioskInv, LeakNeedsOverlap

LEMMA ClientSteps ==
  ASSUME KioskTypeOK, KioskInv,
         \/ \E t \in KioskTrips : OpenKiosk(t) \/ KioskTripEnds(t)
         \/ CloseKiosk \/ TokenChanges \/ Connect \/ ConnectRefused \/ LoseConnection
  PROVE  KioskTypeOK' /\ KioskInv'
<1> USE DEF clientVars, serverState
<1>1. ASSUME NEW t \in KioskTrips, OpenKiosk(t) PROVE KioskTypeOK' /\ KioskInv'
  <2>1. Join(t) \in Messages
    BY DEF Join, Messages
  <2>2. unsent' \in Seq(Messages) /\ wire' \in [Conns -> Seq(Messages)]
    BY <1>1, <2>1, EmitTyped DEF OpenKiosk
  <2>3. opens' \in 0..MaxOpens
    BY <1>1, KioskConstants DEF OpenKiosk, KioskTypeOK
  <2> QED
    BY <1>1, <2>2, <2>3, ServerKept DEF OpenKiosk, KioskTypeOK
<1>2. CASE CloseKiosk
  <2>1. Leave(open) \in Messages
    BY <1>2 DEF Leave, Messages, CloseKiosk, KioskTypeOK
  <2>2. unsent' \in Seq(Messages) /\ wire' \in [Conns -> Seq(Messages)]
    BY <1>2, <2>1, EmitTyped DEF CloseKiosk
  <2> QED
    BY <1>2, <2>2, ServerKept DEF CloseKiosk, KioskTypeOK
<1>3. CASE Connect
  <2> DEFINE all == unsent \o (IF open = NoKioskTrip THEN <<>> ELSE <<Join(open)>>)
  <2>1. conns' \in 1..MaxConns /\ conns' = conns + 1 /\ conn' = conns + 1
    BY <1>3, KioskConstants DEF Connect, KioskTypeOK
  <2>2. conn' \in 0..conns' /\ conns + 1 \in Conns
    BY <2>1 DEF Conns
  <2>3. all \in Seq(Messages)
    <3>1. CASE open = NoKioskTrip
      BY <3>1, SentTyped DEF KioskTypeOK
    <3>2. CASE open # NoKioskTrip
      <4>1. Join(open) \in Messages
        BY <3>2 DEF KioskTypeOK, Join, Messages
      <4> QED
        BY <3>2, <4>1, SentTyped DEF KioskTypeOK
    <3> QED
      BY <3>1, <3>2
  <2>4. wire' = [wire EXCEPT ![conns + 1] = all]
    BY <1>3 DEF Connect
  <2> HIDE DEF all
  <2>5. wire' \in [Conns -> Seq(Messages)] /\ unsent' \in Seq(Messages)
    BY <1>3, <2>3, <2>4, EmptySeq DEF Connect, KioskTypeOK
  <2>6. alive' = alive \cup {conns + 1} /\ alive' \subseteq Conns
    BY <1>3, <2>2 DEF Connect, KioskTypeOK
  <2> QED
    BY <1>3, <2>1, <2>2, <2>5, <2>6, ServerKept DEF Connect, KioskTypeOK
<1>4. CASE LoseConnection
  BY <1>4, ServerKept, KioskConstants DEF LoseConnection, KioskTypeOK, NoConn
<1>5. ASSUME NEW t \in KioskTrips, KioskTripEnds(t) PROVE KioskTypeOK' /\ KioskInv'
  BY <1>5, ServerKept DEF KioskTripEnds, KioskTypeOK
<1>6. CASE TokenChanges
  <2> DEFINE renewed == Append(Append(unsent, Leave(open)), Join(open))
  <2>1. open # NoKioskTrip => Leave(open) \in Messages /\ Join(open) \in Messages
    BY DEF KioskTypeOK, Leave, Join, Messages
  <2>2. open # NoKioskTrip => renewed \in Seq(Messages)
    BY <2>1, SentTyped DEF KioskTypeOK
  <2>3. unsent' = IF open = NoKioskTrip THEN unsent ELSE renewed
    BY <1>6 DEF TokenChanges
  <2> HIDE DEF renewed
  <2>4. unsent' \in Seq(Messages)
    BY <2>2, <2>3 DEF KioskTypeOK
  <2>5. conn' \in 0..conns' /\ opens' \in 0..MaxOpens
    BY <1>6, KioskConstants DEF TokenChanges, KioskTypeOK, NoConn
  <2> QED
    BY <1>6, <2>4, <2>5, ServerKept DEF TokenChanges, KioskTypeOK
<1>7. CASE ConnectRefused
  BY <1>7, ServerKept DEF ConnectRefused, KioskTypeOK
<1> QED
  BY <1>1, <1>2, <1>3, <1>4, <1>5, <1>6, <1>7

LEMMA EventSteps ==
  ASSUME KioskTypeOK, KioskInv, NEW c \in Conns, ServerHandles(c)
  PROVE  KioskTypeOK' /\ KioskInv'
<1> USE DEF clientVars
<1>1. Noticed(c)
  BY DEF ServerHandles, HandleJoin, HandleLeave, HandleDisconnect
<1>2. /\ Cleared(c) \in [Rotations -> RotationRecords]
      /\ \A n \in Rotations : Cleared(c)[n] \in {rotation[n], Unused}
      /\ \A n \in Rotations : rotation[n].conn # c => Cleared(c)[n] = rotation[n]
      /\ \A n \in Rotations : Cleared(c)[n].pc # "none" /\ Cleared(c)[n].conn = c => c \in overlapped'
      /\ overlapped \subseteq overlapped' /\ overlapped' \subseteq Conns
  BY <1>1, ClearedLeaves
<1>3. /\ registered' = [registered EXCEPT ![c] = NoRotation]
      /\ registered' \in [Conns -> Rotations \cup {NoRotation}]
      /\ \A d \in Conns : d # c => registered'[d] = registered[d]
      /\ registered'[c] = NoRotation
  BY DEF ServerHandles, HandleJoin, HandleLeave, HandleDisconnect, KioskTypeOK
<1>4. wire' \in [Conns -> Seq(Messages)]
  <2>1. \/ wire[c] # <<>> /\ wire' = [wire EXCEPT ![c] = Tail(wire[c])]
        \/ wire' = [wire EXCEPT ![c] = <<>>]
    BY DEF ServerHandles, HandleJoin, HandleLeave, HandleDisconnect
  <2>2. wire \in [Conns -> Seq(Messages)]
    BY DEF KioskTypeOK
  <2>3. wire[c] # <<>> => Tail(wire[c]) \in Seq(Messages)
    BY <2>2, RestTyped
  <2> QED
    BY <2>1, <2>2, <2>3, EmptySeq
<1>5. /\ UNCHANGED <<open, conn, conns, refused, unsent, underway, opens, errors>>
      /\ code' = NoKioskTrip /\ alive' \subseteq alive /\ alive \ {c} \subseteq alive'
  BY DEF ServerHandles, HandleJoin, HandleLeave, HandleDisconnect
<1>6. CASE HandleLeave(c) \/ HandleDisconnect(c)
  <2>1. rotation' = Cleared(c)
    BY <1>6 DEF HandleLeave, HandleDisconnect
  <2>2. \A d \in Conns : registered'[d] # NoRotation =>
          rotation'[registered'[d]].pc = "running" /\ rotation'[registered'[d]].conn = d
    BY <1>2, <1>3, <2>1 DEF KioskTypeOK
  <2>3. KioskTypeOK'
    BY <1>2, <1>3, <1>4, <1>5, <2>1, <2>2 DEF KioskTypeOK
  <2>4. \A n \in Rotations : rotation'[n].pc # "none" => rotation'[n] = rotation[n]
    BY <1>2, <2>1, NoConnKnown
  <2>5. \A n \in Rotations : rotation'[n].pc # "none" /\ rotation'[n].conn = c => c \in overlapped'
    BY <1>2, <2>1
  <2>6. \A n \in Rotations : rotation'[n].pc # "none" => rotation'[n].conn \in Conns
    BY <2>4 DEF KioskInv, KioskTypeOK
  <2>7. KioskInv'
    BY <1>2, <1>3, <1>5, <2>4, <2>5, <2>6 DEF KioskInv, LeakNeedsOverlap
  <2> QED
    BY <2>3, <2>7
<1>7. CASE HandleJoin(c)
  <2> DEFINE n == FreeRotation
             new == [conn |-> c, trip |-> Head(wire[c]).trip, pc |-> "issuing"]
  <2>1. n \in Rotations /\ rotation[n] = Unused
    BY <1>7 DEF HandleJoin, FreeRotation
  <2>2. new \in RotationRecords /\ new.conn = c /\ new.pc = "issuing"
    BY <1>7, RestTyped DEF HandleJoin, KioskTypeOK, RotationRecords
  <2>3. rotation' = [Cleared(c) EXCEPT ![n] = new] /\ c \in alive /\ alive' = alive
    BY <1>7 DEF HandleJoin
  <2> HIDE DEF n, new
  <2>4. /\ rotation' \in [Rotations -> RotationRecords] /\ rotation'[n] = new
        /\ \A m \in Rotations : m # n => rotation'[m] = Cleared(c)[m]
    BY <1>2, <2>1, <2>2, <2>3
  <2>5. \A d \in Conns : registered'[d] # NoRotation =>
          rotation'[registered'[d]].pc = "running" /\ rotation'[registered'[d]].conn = d
    <3> SUFFICES ASSUME NEW d \in Conns, registered'[d] # NoRotation
                 PROVE  rotation'[registered'[d]].pc = "running" /\ rotation'[registered'[d]].conn = d
      OBVIOUS
    <3>1. d # c /\ registered'[d] = registered[d] /\ registered[d] \in Rotations
      BY <1>3 DEF KioskTypeOK
    <3>2. rotation[registered[d]].pc = "running" /\ rotation[registered[d]].conn = d
      BY <3>1 DEF KioskTypeOK
    <3>3. registered[d] # n /\ Cleared(c)[registered[d]] = rotation[registered[d]]
      BY <1>2, <2>1, <3>1, <3>2, NoConnKnown
    <3> QED
      BY <2>4, <3>1, <3>2, <3>3
  <2>6. KioskTypeOK'
    BY <1>2, <1>3, <1>4, <1>5, <2>4, <2>5 DEF KioskTypeOK
  <2>7. \A m \in Rotations : m # n /\ rotation'[m].pc # "none" => rotation'[m] = rotation[m]
    BY <1>2, <2>4, NoConnKnown
  <2>8. \A m \in Rotations : m # n /\ rotation'[m].pc # "none" /\ rotation'[m].conn = c => c \in overlapped'
    BY <1>2, <2>4
  <2>9. \A m \in Rotations : m # n /\ rotation'[m].pc # "none" => rotation'[m].conn \in Conns
    BY <2>7 DEF KioskInv, KioskTypeOK
  <2>10. KioskInv'
    BY <1>2, <1>3, <2>1, <2>2, <2>3, <2>4, <2>7, <2>8, <2>9 DEF KioskInv, LeakNeedsOverlap
  <2> QED
    BY <2>6, <2>10
<1> QED
  BY <1>6, <1>7 DEF ServerHandles

LEMMA TimerSteps ==
  ASSUME KioskTypeOK, KioskInv, NEW n \in Rotations, RotationSteps(n) \/ IssueFails(n)
  PROVE  KioskTypeOK' /\ KioskInv'
<1> USE DEF clientVars, serverState
<1>1. rotation[n] \in RotationRecords
  BY DEF KioskTypeOK
<1>2. CASE SetRotation(n)
  <2> DEFINE c == rotation[n].conn
  <2>1. /\ rotation[n].pc = "issuing" /\ rotation' = [rotation EXCEPT ![n] = [rotation[n] EXCEPT !.pc = "running"]]
        /\ registered' = [registered EXCEPT ![c] = n]
        /\ UNCHANGED <<open, conn, conns, refused, unsent, wire, alive, underway, overlapped, opens, errors>>
    BY <1>2 DEF SetRotation
  <2>2. c \in Conns /\ c \in alive \cup overlapped
    BY <2>1 DEF KioskInv, KioskTypeOK
  <2>3. code' \in KioskTrips \cup {NoKioskTrip}
    BY <1>1, <1>2 DEF SetRotation, Issue, RotationRecords
  <2>4. /\ rotation' \in [Rotations -> RotationRecords]
        /\ rotation'[n].pc = "running" /\ rotation'[n].conn = c
        /\ \A m \in Rotations : m # n => rotation'[m] = rotation[m]
    BY <1>1, <2>1 DEF RotationRecords, KioskTypeOK
  <2>5. /\ registered' \in [Conns -> Rotations \cup {NoRotation}] /\ registered'[c] = n
        /\ \A d \in Conns : d # c => registered'[d] = registered[d]
    BY <2>1, <2>2 DEF KioskTypeOK
  <2> HIDE DEF c
  <2>6. \A d \in Conns : registered'[d] # NoRotation =>
          rotation'[registered'[d]].pc = "running" /\ rotation'[registered'[d]].conn = d
    BY <2>1, <2>4, <2>5 DEF KioskTypeOK
  <2>7. KioskTypeOK'
    BY <2>1, <2>3, <2>4, <2>5, <2>6 DEF KioskTypeOK
  <2>8. \A m \in Rotations : m # n /\ rotation[m].pc # "none" /\ rotation[m].conn = c => c \in overlapped
    BY <2>1 DEF KioskInv, c
  <2>9. \A m \in Rotations : rotation[m].pc # "none" => rotation[m].conn \in Conns
    BY DEF KioskInv, KioskTypeOK
  <2>10. /\ \A m \in Rotations : rotation'[m].pc # "none" => rotation'[m].conn \in alive' \cup overlapped'
         /\ \A m, k \in Rotations :
              m # k /\ rotation'[m].pc # "none" /\ rotation'[k].pc # "none" /\ rotation'[m].conn = rotation'[k].conn
                => rotation'[m].conn \in overlapped'
    BY <2>1, <2>2, <2>4, <2>8 DEF KioskInv
  <2>11. LeakNeedsOverlap'
    BY <2>1, <2>2, <2>4, <2>5, <2>8, <2>9 DEF KioskInv, LeakNeedsOverlap
  <2> QED
    BY <2>7, <2>10, <2>11 DEF KioskInv
<1>3. CASE RotationTick(n)
  <2>1. code' \in KioskTrips \cup {NoKioskTrip}
    BY <1>1, <1>3 DEF RotationTick, Issue, RotationRecords
  <2> QED
    BY <1>3, <2>1, ServerKept DEF RotationTick, KioskTypeOK
<1>4. CASE IssueFails(n)
  <2>1. errors' \in 0..MaxErrors
    BY <1>4, KioskConstants DEF IssueFails, KioskTypeOK
  <2>2. /\ rotation' = [m \in Rotations |-> Unused] /\ registered' = [c \in Conns |-> NoRotation]
        /\ wire' = [c \in Conns |-> <<>>] /\ alive' = {} /\ conn' = NoConn /\ code' = NoKioskTrip
        /\ UNCHANGED <<open, conns, refused, unsent, underway, overlapped, opens>>
    BY <1>4 DEF IssueFails
  <2>3. conn' \in 0..conns'
    BY <2>2 DEF KioskTypeOK, NoConn
  <2>4. KioskTypeOK'
    BY <2>1, <2>2, <2>3, NoConnKnown, EmptySeq DEF KioskTypeOK
  <2>5. KioskInv'
    BY <2>2, NoConnKnown DEF KioskInv, LeakNeedsOverlap
  <2> QED
    BY <2>4, <2>5
<1> QED
  BY <1>2, <1>3, <1>4 DEF RotationSteps

LEMMA KioskInvariant == KioskSpec => [](KioskTypeOK /\ KioskInv)
<1>1. KioskInit => KioskTypeOK /\ KioskInv
  <2> SUFFICES ASSUME KioskInit PROVE KioskTypeOK /\ KioskInv
    OBVIOUS
  <2>1. conns \in 0..MaxConns /\ conn \in 0..conns /\ opens \in 0..MaxOpens /\ errors \in 0..MaxErrors
    BY KioskConstants DEF KioskInit, NoConn
  <2>2. unsent \in Seq(Messages) /\ wire \in [Conns -> Seq(Messages)]
    BY EmptySeq DEF KioskInit
  <2> QED
    BY <2>1, <2>2, NoConnKnown DEF KioskInit, KioskTypeOK, KioskInv, LeakNeedsOverlap
<1>2. KioskTypeOK /\ KioskInv /\ [KioskNext]_kioskVars => KioskTypeOK' /\ KioskInv'
  <2>1. KioskTypeOK /\ KioskInv /\ UNCHANGED kioskVars => KioskTypeOK' /\ KioskInv'
    BY DEF kioskVars, clientVars, serverState, KioskTypeOK, KioskInv, LeakNeedsOverlap
  <2> SUFFICES ASSUME KioskTypeOK, KioskInv, KioskNext PROVE KioskTypeOK' /\ KioskInv'
    BY <2>1
  <2>2. CASE \/ \E t \in KioskTrips : OpenKiosk(t) \/ KioskTripEnds(t)
             \/ CloseKiosk \/ TokenChanges \/ Connect \/ ConnectRefused \/ LoseConnection
    BY <2>2, ClientSteps
  <2>3. CASE \E c \in Conns : ServerHandles(c)
    BY <2>3, EventSteps
  <2>4. CASE \E n \in Rotations : RotationSteps(n) \/ IssueFails(n)
    BY <2>4, TimerSteps
  <2> QED
    BY <2>2, <2>3, <2>4 DEF KioskNext
<1> QED
  BY <1>1, <1>2, PTL DEF KioskSpec

(* The screen, the socket, what is on its way and the rotations keep their      *)
(* types, and qrTimers names a rotation of its own socket.                    *)
THEOREM KioskTypes == KioskSpec => []KioskTypeOK
  BY KioskInvariant, PTL

(* For any number of trips, connections, openings and rotations: a rotation     *)
(* that nothing would clear had its join overlapped by another event.         *)
THEOREM LeaksOverlapped == KioskSpec => []LeakNeedsOverlap
<1>1. KioskInv => LeakNeedsOverlap
  BY DEF KioskInv
<1> QED
  BY <1>1, KioskInvariant, PTL

(* What is the last of a sequence that grows at its end or loses its first.     *)
LEMMA LastOnes ==
  ASSUME NEW s \in Seq(Messages), NEW m \in Messages
  PROVE  /\ Append(s, m) # <<>> /\ Append(s, m)[Len(Append(s, m))] = m
         /\ s \o <<m>> # <<>> /\ (s \o <<m>>)[Len(s \o <<m>>)] = m
         /\ s # <<>> /\ Tail(s) = <<>> => Head(s) = s[Len(s)]
         /\ s # <<>> /\ Tail(s) # <<>> => Tail(s)[Len(Tail(s))] = s[Len(s)]
<1>1. Append(s, m) # <<>> /\ Append(s, m)[Len(Append(s, m))] = m
  BY AppendProperties
<1>2. s \o <<m>> # <<>> /\ (s \o <<m>>)[Len(s \o <<m>>)] = m
  BY DEF Messages
<1>3. ASSUME s # <<>> PROVE Len(s) \in Nat \ {0} /\ Len(Tail(s)) = Len(s) - 1
  BY <1>3, HeadTailProperties, LenProperties, EmptySeq
<1>4. ASSUME s # <<>>, Tail(s) = <<>> PROVE Head(s) = s[Len(s)]
  <2>1. Len(s) \in Nat \ {0} /\ Len(<<>>) = Len(s) - 1
    BY <1>3, <1>4, Zenon
  <2>2. Len(s) = 1
    BY <2>1, EmptySeq
  <2> QED
    BY <1>4, <2>2, HeadTailProperties
<1>5. ASSUME s # <<>>, Tail(s) # <<>> PROVE Tail(s)[Len(Tail(s))] = s[Len(s)]
  <2>1. Len(Tail(s)) \in Nat \ {0}
    BY <1>5, HeadTailProperties, EmptySeq, LenProperties
  <2> QED
    BY <1>3, <1>5, <2>1, HeadTailProperties
<1> QED
  BY <1>1, <1>2, <1>4, <1>5

(* The client's steps, the handling of a message, the timers.                  *)
LEMMA ClientAsks ==
  ASSUME KioskTypeOK, CodeComes,
         \/ \E t \in KioskTrips : OpenKiosk(t) \/ KioskTripEnds(t)
         \/ CloseKiosk \/ TokenChanges \/ Connect \/ ConnectRefused \/ LoseConnection
  PROVE  CodeComes'
<1> USE DEF CodeComes, Rotating, clientVars, serverState
<1>0. conn # NoConn => conn \in Conns
  BY KioskConstants DEF KioskTypeOK, Conns, NoConn
<1>1. ASSUME NEW t \in KioskTrips, OpenKiosk(t) PROVE CodeComes'
  <2>1. Join(t) \in Messages
    BY DEF Join, Messages
  <2>2. conn # NoConn => wire'[conn] = Append(wire[conn], Join(t))
    BY <1>0, <1>1 DEF OpenKiosk, Emit, KioskTypeOK
  <2>3. conn # NoConn => wire'[conn] # <<>> /\ wire'[conn][Len(wire'[conn])] = Join(t)
    BY <1>0, <2>1, <2>2, LastOnes DEF KioskTypeOK
  <2> QED
    BY <1>1, <2>3 DEF OpenKiosk
<1>2. CASE CloseKiosk
  BY <1>2 DEF CloseKiosk
<1>3. CASE Connect
  <2>1. /\ open' = open /\ conn' = conns + 1 /\ conn' \in alive' /\ conns + 1 \in Conns
        /\ wire' = [wire EXCEPT ![conns + 1] = unsent \o (IF open = NoKioskTrip THEN <<>> ELSE <<Join(open)>>)]
    BY <1>3, KioskConstants DEF Connect, KioskTypeOK, Conns
  <2>2. open # NoKioskTrip => wire'[conn'] = unsent \o <<Join(open)>>
    BY <2>1 DEF KioskTypeOK
  <2>3. open # NoKioskTrip => Join(open) \in Messages
    BY DEF KioskTypeOK, Join, Messages
  <2>4. open # NoKioskTrip => wire'[conn'] # <<>> /\ wire'[conn'][Len(wire'[conn'])] = Join(open)
    BY <2>2, <2>3, LastOnes DEF KioskTypeOK
  <2> QED
    BY <2>1, <2>4
<1>4. CASE LoseConnection
  BY <1>4 DEF LoseConnection
<1>5. ASSUME NEW t \in KioskTrips, KioskTripEnds(t) PROVE CodeComes'
  BY <1>5 DEF KioskTripEnds
<1>6. CASE TokenChanges \/ ConnectRefused
  BY <1>6 DEF TokenChanges, ConnectRefused
<1> QED
  BY <1>1, <1>2, <1>3, <1>4, <1>5, <1>6

LEMMA EventsAnswer ==
  ASSUME KioskTypeOK, KioskInv, CodeComes, NEW c \in Conns, ServerHandles(c)
  PROVE  CodeComes'
<1> USE DEF clientVars
<1>1. UNCHANGED <<open, conn>> /\ Noticed(c)
  BY DEF ServerHandles, HandleJoin, HandleLeave, HandleDisconnect
<1>2. \A n \in Rotations : rotation[n].conn # c => Cleared(c)[n] = rotation[n]
  BY <1>1, ClearedLeaves
<1> SUFFICES ASSUME conn # NoConn
             PROVE  /\ conn \in alive'
                    /\ open # NoKioskTrip =>
                         IF wire'[conn] = <<>> THEN Rotating(open)' ELSE wire'[conn][Len(wire'[conn])] = Join(open)
  BY <1>1 DEF CodeComes
<1>3. conn \in Conns /\ conn \in alive /\ conn \in alive'
  BY KioskConstants DEF CodeComes, KioskTypeOK, Conns, NoConn, ServerHandles, HandleJoin, HandleLeave, HandleDisconnect
<1> SUFFICES ASSUME open # NoKioskTrip
             PROVE  IF wire'[conn] = <<>> THEN Rotating(open)' ELSE wire'[conn][Len(wire'[conn])] = Join(open)
  BY <1>3
<1>4. CASE c # conn
  <2>1. wire'[conn] = wire[conn]
    BY <1>3, <1>4 DEF ServerHandles, HandleJoin, HandleLeave, HandleDisconnect, KioskTypeOK
  <2>2. ASSUME NEW n \in Rotations, rotation[n].pc # "none", rotation[n].conn = conn PROVE rotation'[n] = rotation[n]
    <3>1. Cleared(c)[n] = rotation[n] /\ rotation[n] # Unused
      BY <1>2, <1>4, <2>2, NoConnKnown
    <3>2. HandleJoin(c) => FreeRotation \in Rotations /\ rotation[FreeRotation] = Unused
      BY DEF HandleJoin, FreeRotation
    <3> DEFINE new == [conn |-> c, trip |-> Head(wire[c]).trip, pc |-> "issuing"]
    <3>3. rotation' = Cleared(c) \/ (rotation' = [Cleared(c) EXCEPT ![FreeRotation] = new] /\ HandleJoin(c))
      BY DEF ServerHandles, HandleJoin, HandleLeave, HandleDisconnect
    <3> HIDE DEF new
    <3>4. Cleared(c) \in [Rotations -> RotationRecords]
      BY <1>1, ClearedLeaves
    <3> QED
      BY <3>1, <3>2, <3>3, <3>4
  <2> QED
    BY <1>1, <1>3, <2>1, <2>2 DEF CodeComes, Rotating
<1>5. CASE c = conn
  <2>1. /\ HandleJoin(c) \/ HandleLeave(c)
        /\ wire[c] # <<>> /\ wire[c] \in Seq(Messages)
        /\ wire'[c] = Tail(wire[c])
        /\ wire[c][Len(wire[c])] = Join(open)
    BY <1>3, <1>5 DEF ServerHandles, HandleJoin, HandleLeave, HandleDisconnect, KioskTypeOK, CodeComes
  <2>2. open \in KioskTrips /\ Join(open) \in Messages /\ Join(open).trip = open /\ Join(open).op = "join"
    BY DEF KioskTypeOK, Join, Messages
  <2>3. CASE Tail(wire[c]) # <<>>
    BY <1>5, <2>1, <2>2, <2>3, LastOnes
  <2>4. CASE Tail(wire[c]) = <<>>
    <3>1. Head(wire[c]) = Join(open)
      BY <2>1, <2>2, <2>4, LastOnes
    <3>2. HandleJoin(c)
      BY <2>1, <2>2, <3>1 DEF HandleLeave
    <3>3. FreeRotation \in Rotations
      BY <3>2 DEF HandleJoin, FreeRotation
    <3>4. rotation'[FreeRotation] = [conn |-> c, trip |-> open, pc |-> "issuing"]
      BY <1>1, <2>2, <3>1, <3>2, <3>3, ClearedLeaves DEF HandleJoin
    <3> QED
      BY <1>1, <1>5, <2>1, <2>4, <3>3, <3>4 DEF Rotating
  <2> QED
    BY <2>3, <2>4
<1> QED
  BY <1>4, <1>5

LEMMA TimersKeepOn ==
  ASSUME KioskTypeOK, CodeComes, NEW n \in Rotations, RotationSteps(n) \/ IssueFails(n)
  PROVE  CodeComes'
<1> USE DEF clientVars, serverState
<1>1. CASE SetRotation(n)
  <2> DEFINE rec == [rotation[n] EXCEPT !.pc = "running"]
  <2>1. /\ rotation' = [rotation EXCEPT ![n] = rec]
        /\ rotation \in [Rotations -> RotationRecords]
        /\ UNCHANGED <<open, conn, wire, alive>>
    BY <1>1 DEF SetRotation, KioskTypeOK
  <2>2. rec.pc = "running" /\ rec.conn = rotation[n].conn /\ rec.trip = rotation[n].trip
    BY <2>1 DEF RotationRecords
  <2> HIDE DEF rec
  <2> QED
    BY <2>1, <2>2 DEF CodeComes, Rotating
<1>2. CASE RotationTick(n)
  BY <1>2 DEF RotationTick, CodeComes, Rotating
<1>3. CASE IssueFails(n)
  BY <1>3 DEF IssueFails, CodeComes
<1> QED
  BY <1>1, <1>2, <1>3 DEF RotationSteps

(* For any number of trips, connections, rotations and errors: a connected     *)
(* kiosk has a join of its trip on its way behind everything else it sent, or  *)
(* a rotation for that trip on its own connection.                            *)
THEOREM RotationsCome == KioskSpec => []CodeComes
<1>1. KioskInit => CodeComes
  BY DEF KioskInit, CodeComes
<1>2. KioskTypeOK /\ KioskInv /\ CodeComes /\ [KioskNext]_kioskVars => CodeComes'
  <2>1. CodeComes /\ UNCHANGED kioskVars => CodeComes'
    BY DEF kioskVars, clientVars, serverState, CodeComes, Rotating
  <2> QED
    BY <2>1, ClientAsks, EventsAnswer, TimersKeepOn DEF KioskNext
<1> QED
  BY <1>1, <1>2, KioskInvariant, PTL DEF KioskSpec
=============================================================================
