----------------------------- MODULE Gps_proofs -----------------------------
(* The loss of a bus's GPS: the delegation of a trip, and the number of      *)
(* silent buses, for any members of staff, endings, buses, runs and faults.  *)
EXTENDS Delegation, GpsOutage, FiniteSetTheorems, TLAPS

-----------------------------------------------------------------------------
(* Delegation.                                                              *)
Places == Activating \cup Ending \cup {"idle", "scanned", "last", "asked", "done"}

LEMMA FromTyped ==
  ASSUME DelegationTypeOK, NEW p \in Activations \cup Endings, NEW here, NEW there \in Places,
         From(p, here, there)
  PROVE  /\ at' \in [Activations \cup Endings -> Places]
         /\ at[p] = here /\ at'[p] = there
         /\ \A q \in Activations \cup Endings : q # p => at'[q] = at[q]
  BY DEF DelegationTypeOK, From, Places

(* The types are invariant. *)
LEMMA DelegationTyped == DelegationTypeOK /\ [DelegationNext]_delegationVars => DelegationTypeOK'
<1> SUFFICES ASSUME DelegationTypeOK, [DelegationNext]_delegationVars PROVE DelegationTypeOK'
  OBVIOUS
<1> USE DelegationConstants DEF DelegationTypeOK, judgement
<1>1. CASE UNCHANGED delegationVars
  BY <1>1 DEF delegationVars
<1>2. ASSUME NEW a \in Activations, ActivationStep(a) \/ ActivationFails(a) \/ TakeLock(a)
      PROVE  DelegationTypeOK'
  <2> USE DEF From, Activating
  <2>1. CASE TakeLock(a)
    BY <2>1 DEF TakeLock
  <2>2. CASE TimeLock(a)
    BY <2>2 DEF TimeLock
  <2>3. ASSUME NEW here, NEW holds, NEW there \in {"bus", "checked"}, Check(a, here, holds, there)
        PROVE  DelegationTypeOK'
    BY <2>3 DEF Check
  <2>4. CASE CheckTrip(a) \/ CheckKey(a)
    BY <2>3, <2>4 DEF CheckTrip, CheckKey
  <2>5. CASE CreateRow(a)
    BY <2>5 DEF CreateRow
  <2>6. CASE CommitDelegation(a)
    BY <2>6 DEF CommitDelegation
  <2>7. CASE Publish(a)
    BY <2>7 DEF Publish
  <2>8. CASE Prolong(a)
    BY <2>8 DEF Prolong
  <2>9. CASE ActivationFails(a)
    BY <2>9 DEF ActivationFails
  <2> QED
    BY <1>2, <2>1, <2>2, <2>4, <2>5, <2>6, <2>7, <2>8, <2>9 DEF ActivationStep
<1>3. ASSUME NEW e \in Endings, EndingStep(e) \/ EndFails(e) \/ (e \in Closers /\ (PingCounts(e) \/ Request(e)))
      PROVE  DelegationTypeOK'
  <2> USE DEF From, Ending, After
  <2>1. CASE e \in Closers /\ (PingCounts(e) \/ Request(e) \/ PingResets(e))
    BY <2>1 DEF PingCounts, Request, PingResets
  <2>2. CASE e \in Monitors /\ (Scan(e) \/ Verdict(e))
    BY <2>2 DEF Scan, Verdict, Judging
  <2>3. CASE EndReads(e)
    BY <2>3 DEF EndReads
  <2>4. CASE CloseRows(e)
    BY <2>4 DEF CloseRows
  <2>5. CASE Unpublish(e)
    BY <2>5 DEF Unpublish
  <2>6. CASE FreeLock(e)
    BY <2>6 DEF FreeLock
  <2>7. CASE EndFails(e)
    BY <2>7 DEF EndFails
  <2> QED
    BY <1>3, <2>1, <2>2, <2>3, <2>4, <2>5, <2>6, <2>7 DEF EndingStep
<1>4. CASE LockLapses \/ ReturnLapses \/ TripEnds
  <2>1. CASE LockLapses
    <3>1. troubled' \in BOOLEAN
      BY Zenon, <2>1 DEF LockLapses
    <3> QED
      BY <2>1, <3>1 DEF LockLapses
  <2>2. CASE ReturnLapses
    BY <2>2 DEF ReturnLapses
  <2>3. CASE TripEnds
    BY <2>3 DEF TripEnds
  <2> QED
    BY <1>4, <2>1, <2>2, <2>3
<1> QED
  BY <1>1, <1>2, <1>3, <1>4 DEF DelegationNext, Endings

LEMMA DelegationInitial == DelegationInit => DelegationTypeOK
<1> SUFFICES ASSUME DelegationInit PROVE DelegationTypeOK
  OBVIOUS
<1>1. at \in [Activations \cup Endings -> Places]
  BY DEF DelegationInit, Places
<1>2. life \in (IF lock = NoOne THEN {"none"} ELSE {"forever", "short", "long"})
  BY DEF DelegationInit
<1>3. returns \in Nat /\ slips \in 0..MaxDelegationFaults
  BY DelegationConstants DEF DelegationInit
<1> QED
  BY <1>1, <1>2, <1>3 DEF DelegationInit, DelegationTypeOK, Places

(* The types of the delegation, its keys and whoever works on it are invariant. *)
THEOREM DelegationTypes == DelegationSpec => []DelegationTypeOK
  BY DelegationInitial, DelegationTyped, PTL DEF DelegationSpec

(* While nothing was troubled: an activation short of its name has the lock to *)
(* itself, from its look at the name to its writing nobody is named, a row is  *)
(* ACTIVE and the trip has a delegate only from the transaction on, and one    *)
(* ending at most is under way, of the delegate who is named until it unnames. *)
Early == {"locked", "timed", "bus", "checked", "created", "committed"}

Locked(a) == at[a] \in Early => lock = a
Cleared(a) ==
  /\ at[a] \in {"checked", "created", "committed"} => key = NoOne
  /\ at[a] \in {"checked", "created"} => delegate = NoOne
Closing(e) ==
  at[e] \in Ending =>
    /\ seen[e] \in Activations /\ at[seen[e]] \in {"keyed", "done"}
    /\ at[e] \in {"read", "closed"} => key = seen[e]
    /\ at[e] = "closed" => delegate = NoOne

Orderly ==
  /\ \A a \in Activations : Locked(a) /\ Cleared(a)
  /\ key # NoOne => at[key] \in {"keyed", "done"}
  /\ delegate # NoOne => at[delegate] = "committed" \/ key = delegate
  /\ \A a \in Activations : row[a] = "ACTIVE" => delegate = a
  /\ \A e \in Endings : Closing(e)
  /\ \A e, f \in Endings : at[e] \in Ending /\ at[f] \in Ending => e = f

DelegationInv == DelegationTypeOK /\ (troubled \/ Orderly)

LEMMA DelegationStarted == DelegationInit => Orderly
  BY DEF DelegationInit, Orderly, Locked, Cleared, Closing, Early, Ending

LEMMA Names ==
  ASSUME DelegationTypeOK
  PROVE  /\ delegate \in Activations \cup {NoOne} /\ key \in Activations \cup {NoOne}
         /\ lock \in Activations \cup {NoOne} /\ NoOne \notin Activations
         /\ \A a \in Activations : a \notin Endings
         /\ \A e \in Endings : seen[e] \in Activations \cup {NoOne}
  BY DelegationConstants DEF DelegationTypeOK, Endings

(* A step of an ending that leaves the delegation alone. *)
LEMMA EndingMoves ==
  ASSUME DelegationTypeOK, Orderly, NEW e \in Endings, NEW here, NEW there \in Places \ Ending,
         From(e, here, there),
         UNCHANGED <<delegate, row, key, lock>>, \A f \in Endings : f # e => seen'[f] = seen[f]
  PROVE  Orderly'
<1> USE Names DEF Places
<1>1. /\ at'[e] = there /\ \A q \in Activations \cup Endings : q # e => at'[q] = at[q]
  BY FromTyped
<1>2. \A a \in Activations : at'[a] = at[a]
  BY <1>1
<1>3. \A a \in Activations : Locked(a)' /\ Cleared(a)'
  BY <1>2 DEF Orderly, Locked, Cleared
<1>4. /\ key' # NoOne => at'[key'] \in {"keyed", "done"}
      /\ delegate' # NoOne => at'[delegate'] = "committed" \/ key' = delegate'
      /\ \A a \in Activations : row'[a] = "ACTIVE" => delegate' = a
  BY <1>2 DEF Orderly
<1>5. \A f \in Endings : at'[f] \in Ending => f # e /\ at'[f] = at[f] /\ seen'[f] = seen[f]
  BY <1>1
<1>6. \A f \in Endings : Closing(f)'
  BY <1>2, <1>5 DEF Orderly, Closing
<1> QED
  BY <1>3, <1>4, <1>5, <1>6 DEF Orderly

(* A step of an activation: what it must leave for the rest to hold. *)
LEMMA ActivationMoves ==
  ASSUME DelegationTypeOK, Orderly, NEW a \in Activations, NEW here, NEW there \in Places,
         From(a, here, there), UNCHANGED seen,
         here \notin {"keyed", "done"} \/ there = "done",
         \A b \in Activations : at[b] \in Early /\ b # a => lock' = b,
         \A b \in Activations : at[b] \in {"checked", "created", "committed"} /\ b # a => key' = NoOne,
         \A b \in Activations : at[b] \in {"checked", "created"} /\ b # a => delegate' = NoOne,
         there \in Early => lock' = a,
         there \in {"checked", "created", "committed"} => key' = NoOne,
         there \in {"checked", "created"} => delegate' = NoOne,
         key' # NoOne => key' \in Activations /\ ((key' = a /\ there = "keyed") \/ key' = key),
         \A e \in Endings : at[e] \in {"read", "closed"} => key' = key /\ delegate' = delegate,
         delegate' # NoOne =>
           \/ delegate' = a /\ (there = "committed" \/ key' = a)
           \/ delegate' # a /\ delegate' = delegate /\ key' = key
           \/ delegate' = a /\ delegate = a /\ here # "committed" /\ key' = key,
         \A b \in Activations : row'[b] = "ACTIVE" => delegate' = b
  PROVE  Orderly'
<1> USE Names
<1>1. /\ at[a] = here /\ at'[a] = there
      /\ \A q \in Activations \cup Endings : q # a => at'[q] = at[q]
  BY FromTyped
<1>2. \A b \in Activations : Locked(b)' /\ Cleared(b)'
  BY <1>1 DEF Orderly, Locked, Cleared
<1>3. \A b \in Activations : at[b] \in {"keyed", "done"} => at'[b] \in {"keyed", "done"}
  BY <1>1
<1>4. key' # NoOne => at'[key'] \in {"keyed", "done"}
  BY <1>1, <1>3 DEF Orderly
<1>5. delegate' # NoOne => at'[delegate'] = "committed" \/ key' = delegate'
  BY <1>1 DEF Orderly
<1>6. \A e \in Endings : at'[e] = at[e]
  BY <1>1
<1>7. \A e \in Endings : Closing(e)'
  BY <1>3, <1>6 DEF Orderly, Closing
<1> QED
  BY <1>2, <1>4, <1>5, <1>6, <1>7 DEF Orderly

(* An early activation has the trip to itself, except for an ending that is to  *)
(* delete the lock of whom it unnamed.                                        *)
LEMMA Alone ==
  ASSUME DelegationTypeOK, Orderly, NEW a \in Activations, at[a] \in Early
  PROVE  /\ lock = a
         /\ \A b \in Activations : at[b] \in Early => b = a
         /\ at[a] \in {"checked", "created", "committed"} =>
              /\ key = NoOne
              /\ delegate # NoOne => at[a] = "committed" /\ delegate = a
              /\ \A e \in Endings : at[e] \notin {"read", "closed"}
<1> USE Names
<1>1. lock = a /\ \A b \in Activations : at[b] \in Early => b = a
  BY DEF Orderly, Locked
<1>2. ASSUME at[a] \in {"checked", "created", "committed"}
      PROVE  /\ key = NoOne
             /\ delegate # NoOne => at[a] = "committed" /\ delegate = a
             /\ \A e \in Endings : at[e] \notin {"read", "closed"}
  <2>1. key = NoOne
    BY <1>2 DEF Orderly, Cleared
  <2>2. delegate # NoOne => delegate \in Activations /\ at[delegate] = "committed"
    BY <2>1 DEF Orderly
  <2>3. delegate # NoOne => at[a] = "committed" /\ delegate = a
    BY <1>1, <2>2 DEF Early
  <2>4. \A e \in Endings : at[e] \notin {"read", "closed"}
    BY <2>1 DEF Orderly, Closing, Ending
  <2> QED
    BY <2>1, <2>3, <2>4
<1> QED
  BY <1>1, <1>2

LEMMA ActivationKeeps ==
  ASSUME DelegationTypeOK, Orderly, NEW a \in Activations, ~troubled',
         TakeLock(a) \/ ActivationStep(a) \/ ActivationFails(a)
  PROVE  Orderly'
<1> USE Names DEF Places, Activating, Early
<1>1. CASE TakeLock(a)
  <2>1. \A b \in Activations : at[b] \in Early => lock = b
    BY DEF Orderly, Locked
  <2> QED
    BY <1>1, <2>1, ActivationMoves DEF TakeLock, Orderly, Cleared
<1>2. CASE TimeLock(a) \/ CreateRow(a)
  <2>1. at[a] \in {"locked", "checked"} /\ lock' = lock /\ key' = key /\ delegate' = delegate
    BY <1>2 DEF TimeLock, CreateRow, From
  <2>2. \A b \in Activations : row'[b] = "ACTIVE" => row[b] = "ACTIVE"
    BY <1>2 DEF TimeLock, CreateRow, DelegationTypeOK
  <2>3. lock = a /\ (at[a] = "checked" => key = NoOne /\ delegate = NoOne)
    BY <2>1, Alone DEF Early
  <2>4. \A b \in Activations : at[b] \in Early => b = a
    BY <2>1, Alone
  <2>5. \E there \in Places : From(a, at[a], there) /\ there \in {"timed", "created"}
                              /\ (there = "created" => at[a] = "checked")
    BY <1>2 DEF TimeLock, CreateRow, From
  <2>6. UNCHANGED seen
    BY <1>2 DEF TimeLock, CreateRow
  <2> QED
    BY <2>1, <2>2, <2>3, <2>4, <2>5, <2>6, ActivationMoves DEF Orderly
<1>3. ASSUME NEW here \in {"timed", "bus"}, NEW holds, NEW there \in {"bus", "checked"},
             Check(a, here, holds, there), there = "checked" => here = "bus" /\ (holds <=> key = NoOne)
      PROVE  Orderly'
  <2>1. at[a] = here /\ key' = key /\ delegate' = delegate /\ row' = row
    BY <1>3 DEF Check, From
  <2>2. lock = a /\ \A b \in Activations : at[b] \in Early => b = a
    BY <2>1, Alone
  <2>3. key = NoOne => delegate = NoOne
    BY <2>1, <2>2 DEF Orderly
  <2>4. CASE holds
    BY <1>3, <2>1, <2>2, <2>3, <2>4, ActivationMoves DEF Check, Orderly
  <2>5. CASE ~holds
    BY <1>3, <2>1, <2>2, <2>3, <2>5, ActivationMoves DEF Check, Orderly
  <2> QED
    BY <2>4, <2>5
<1>4. CASE CheckTrip(a) \/ CheckKey(a)
  BY <1>3, <1>4 DEF CheckTrip, CheckKey
<1>5. CASE CommitDelegation(a)
  <2>1. at[a] = "created" /\ delegate' = a /\ key = NoOne /\ delegate = NoOne /\ lock = a
    BY <1>5, Alone DEF CommitDelegation, From
  <2>2. \A b \in Activations : row'[b] = "ACTIVE" => b = a
    BY <1>5, <2>1 DEF CommitDelegation, Orderly, DelegationTypeOK
  <2>3. \A b \in Activations : at[b] \in Early => b = a
    BY <2>1, Alone
  <2>4. \A e \in Endings : at[e] \notin {"read", "closed"}
    BY <2>1, Alone
  <2> QED
    BY <1>5, <2>1, <2>2, <2>3, <2>4, ActivationMoves DEF CommitDelegation
<1>6. CASE Publish(a)
  <2>1. at[a] = "committed" /\ lock = a /\ (delegate # NoOne => delegate = a)
    BY <1>6, Alone DEF Publish, From
  <2>2. \A b \in Activations : at[b] \in Early => b = a
    BY <2>1, Alone
  <2>3. \A e \in Endings : at[e] \notin {"read", "closed"}
    BY <2>1, Alone
  <2> QED
    BY <1>6, <2>1, <2>2, <2>3, ActivationMoves DEF Publish, Orderly
<1>7. CASE Prolong(a)
  BY <1>7, ActivationMoves DEF Prolong, Orderly, Locked, Cleared, From
<1>8. CASE ActivationFails(a)
  <2>1. /\ at[a] \in Activating /\ at[a] # "committed" /\ (lock' # lock => lock = a)
        /\ at' = [at EXCEPT ![a] = "done"] /\ UNCHANGED <<key, delegate, seen>>
    BY <1>8 DEF ActivationFails
  <2>2. \A b \in Activations : row'[b] = "ACTIVE" => row[b] = "ACTIVE"
    BY <1>8 DEF ActivationFails, DelegationTypeOK
  <2>3. \A b \in Activations : at[b] \in Early /\ b # a => lock' = b
    BY <1>8, <2>1 DEF Orderly, Locked
  <2>4. From(a, at[a], "done")
    BY <2>1 DEF From
  <2> QED
    BY <2>1, <2>2, <2>3, <2>4, ActivationMoves DEF Orderly, Cleared
<1> QED
  BY <1>1, <1>2, <1>4, <1>5, <1>6, <1>7, <1>8 DEF ActivationStep

LEMMA EndingKeeps ==
  ASSUME DelegationTypeOK, Orderly, NEW e \in Endings, ~troubled',
         EndingStep(e) \/ EndFails(e) \/ (e \in Closers /\ (PingCounts(e) \/ Request(e)))
  PROVE  Orderly'
<1> USE Names DEF Places, Ending, After
<1>1. CASE \/ e \in Closers /\ (PingCounts(e) \/ Request(e) \/ PingResets(e))
           \/ e \in Monitors /\ (Scan(e) \/ Verdict(e))
  BY <1>1, EndingMoves DEF PingCounts, Request, PingResets, Scan, Verdict
<1>2. CASE EndFails(e)
  <2>1. From(e, at[e], After(e)) /\ After(e) \in Places \ Ending
    BY <1>2 DEF EndFails, From
  <2>2. \A f \in Endings : f # e => seen'[f] = seen[f]
    BY <1>2 DEF EndFails
  <2> QED
    BY <1>2, <2>1, <2>2, EndingMoves DEF EndFails
<1> DEFINE moved == /\ \A q \in Activations : at'[q] = at[q]
                    /\ \A f \in Endings : f # e => at'[f] = at[f]
<1>3. CASE EndReads(e)
  <2>1. CASE key = NoOne
    <3>1. From(e, "asked", After(e)) /\ After(e) \in Places \ Ending
      BY <1>3, <2>1 DEF EndReads
    <3>2. \A f \in Endings : f # e => seen'[f] = seen[f]
      BY <1>3 DEF EndReads
    <3> QED
      BY <1>3, <3>1, <3>2, EndingMoves DEF EndReads
  <2>2. CASE key # NoOne
    <3>1. moved /\ at'[e] = "read" /\ at[e] = "asked"
      BY <1>3, <2>2, FromTyped DEF EndReads
    <3>2. \A f \in Endings : at[f] \notin Ending
      BY <1>3, <2>2 DEF EndReads
    <3>3. seen'[e] = key /\ UNCHANGED <<delegate, row, key, lock>>
      BY <1>3 DEF EndReads, DelegationTypeOK
    <3>4. \A f \in Endings : at'[f] \in Ending => f = e
      BY <3>1, <3>2
    <3>5. \A f \in Endings : Closing(f)'
      BY <2>2, <3>1, <3>3, <3>4 DEF Orderly, Closing
    <3>6. \A a \in Activations : Locked(a)' /\ Cleared(a)'
      BY <3>1, <3>3 DEF Orderly, Locked, Cleared
    <3> HIDE DEF moved
    <3>7. /\ key' # NoOne => at'[key'] \in {"keyed", "done"}
          /\ delegate' # NoOne => at'[delegate'] = "committed" \/ key' = delegate'
          /\ \A a \in Activations : row'[a] = "ACTIVE" => delegate' = a
      BY <3>1, <3>3 DEF Orderly, moved
    <3> QED
      BY <3>4, <3>5, <3>6, <3>7 DEF Orderly
  <2> QED
    BY <2>1, <2>2
<1>4. CASE CloseRows(e) \/ Unpublish(e)
  <2>1. moved /\ at'[e] \in Ending /\ at[e] \in Ending
    <3>1. CASE CloseRows(e)
      BY <3>1, FromTyped DEF CloseRows
    <3>2. CASE Unpublish(e)
      BY <3>2, FromTyped DEF Unpublish
    <3> QED
      BY <1>4, <3>1, <3>2
  <2>2. /\ UNCHANGED <<seen, lock>> /\ delegate' \in {delegate, NoOne} /\ key' \in {key, NoOne}
        /\ at[e] = "read" => at'[e] = "closed" /\ delegate' = NoOne /\ key' = key
        /\ at[e] = "closed" => at'[e] = "unkeyed" /\ delegate' = delegate /\ row' = row /\ key' = NoOne
        /\ at[e] \in {"read", "closed"}
    <3>1. CASE CloseRows(e)
      BY <3>1, FromTyped DEF CloseRows, From
    <3>2. CASE Unpublish(e)
      BY <3>2, FromTyped DEF Unpublish, From
    <3> QED
      BY <1>4, <3>1, <3>2
  <2>3. /\ seen[e] = key /\ key # NoOne /\ at[key] \in {"keyed", "done"}
        /\ at[e] = "closed" => delegate = NoOne
    BY <2>1, <2>2 DEF Orderly, Closing
  <2>4. \A a \in Activations : row'[a] = "ACTIVE" => delegate' = a
    <3>1. CASE Unpublish(e)
      BY <3>1 DEF Unpublish, Orderly
    <3>2. CASE CloseRows(e)
      <4> SUFFICES ASSUME NEW a \in Activations, row'[a] = "ACTIVE" PROVE FALSE
        OBVIOUS
      <4>1. row[a] = "ACTIVE" /\ a # seen[e]
        BY <3>2 DEF CloseRows, DelegationTypeOK
      <4>2. delegate = a /\ at[a] = "committed"
        BY <2>3, <4>1 DEF Orderly
      <4> QED
        BY <2>3, <4>2, Alone DEF Early
    <3> QED
      BY <1>4, <3>1, <3>2
  <2>5. \A f \in Endings : at'[f] \in Ending => f = e
    BY <2>1 DEF Orderly
  <2>6. \A f \in Endings : Closing(f)'
    <3> HIDE DEF moved
    <3>1. Closing(e)'
      BY <2>1, <2>2, <2>3 DEF Orderly, Closing, moved
    <3> QED
      BY <2>5, <3>1 DEF Closing
  <2>7. \A a \in Activations : Locked(a)' /\ Cleared(a)'
    BY <2>1, <2>2 DEF Orderly, Locked, Cleared
  <2>8. /\ key' # NoOne => at'[key'] \in {"keyed", "done"}
        /\ delegate' # NoOne => at'[delegate'] = "committed" \/ key' = delegate'
    BY <2>1, <2>2, <2>3 DEF Orderly
  <2> QED
    BY <2>4, <2>5, <2>6, <2>7, <2>8 DEF Orderly
<1>5. CASE FreeLock(e)
  <2>1. moved /\ at'[e] \notin Ending /\ at[e] \in Ending
    BY <1>5, FromTyped DEF FreeLock
  <2>2. /\ UNCHANGED <<delegate, row, key>> /\ \A f \in Endings : f # e => seen'[f] = seen[f]
        /\ lock \in {NoOne, seen[e]}
    <3>1. lock \in {NoOne, seen[e]}
      BY Zenon, <1>5 DEF FreeLock
    <3> QED
      BY <1>5, <3>1 DEF FreeLock, DelegationTypeOK
  <2>3. \A a \in Activations : at[a] \notin Early
    <3>1. at[seen[e]] \in {"keyed", "done"} /\ seen[e] \in Activations
      BY <2>1 DEF Orderly, Closing
    <3> QED
      BY <2>2, <3>1 DEF Orderly, Locked, Early
  <2>4. \A a \in Activations : Locked(a)' /\ Cleared(a)'
    BY <2>1, <2>2, <2>3 DEF Locked, Cleared, Early
  <2>5. \A f \in Endings : at'[f] \notin Ending
    BY <2>1 DEF Orderly
  <2>6. \A f \in Endings : Closing(f)'
    BY <2>5 DEF Closing
  <2>7. /\ key' # NoOne => at'[key'] \in {"keyed", "done"}
        /\ delegate' # NoOne => at'[delegate'] = "committed" \/ key' = delegate'
        /\ \A a \in Activations : row'[a] = "ACTIVE" => delegate' = a
    BY <2>1, <2>2 DEF Orderly
  <2> QED
    BY <2>4, <2>5, <2>6, <2>7 DEF Orderly
<1> QED
  BY <1>1, <1>2, <1>3, <1>4, <1>5 DEF EndingStep

LEMMA DelegationKeeps == DelegationInv /\ [DelegationNext]_delegationVars => DelegationInv'
<1> SUFFICES ASSUME DelegationInv, [DelegationNext]_delegationVars, ~troubled' PROVE Orderly'
  BY DelegationTyped DEF DelegationInv
<1>1. ~troubled
  BY DEF DelegationNext, TakeLock, ActivationStep, TimeLock, CheckTrip, CheckKey, Check, CreateRow,
     CommitDelegation, Publish, Prolong, ActivationFails, PingCounts, Request, EndingStep, PingResets,
     Scan, Verdict, EndReads, CloseRows, Unpublish, FreeLock, EndFails, LockLapses, ReturnLapses,
     TripEnds, delegationVars
<1>2. DelegationTypeOK /\ Orderly
  BY <1>1 DEF DelegationInv
<1>3. CASE UNCHANGED delegationVars
  BY <1>2, <1>3 DEF delegationVars, Orderly, Locked, Cleared, Closing
<1>4. CASE LockLapses
  <2>1. /\ UNCHANGED <<delegate, row, key, at, seen>> /\ at[lock] \notin Activating
        /\ lock \in Activations
    BY <1>2, <1>4 DEF LockLapses, DelegationTypeOK
  <2>2. \A a \in Activations : at[a] \notin Early
    BY <1>2, <2>1 DEF Orderly, Locked, Early, Activating
  <2> QED
    BY <1>2, <2>1, <2>2 DEF Orderly, Locked, Cleared, Closing, Early
<1>5. CASE ReturnLapses \/ TripEnds
  BY <1>2, <1>5 DEF ReturnLapses, TripEnds, Orderly, Locked, Cleared, Closing
<1> QED
  BY <1>2, <1>3, <1>4, <1>5, ActivationKeeps, EndingKeeps DEF DelegationNext, Endings

(* A trip has one delegate, whom its row and trip_delegates name alike, however *)
(* activations, pings, requests and scans overlap and fail: unless an          *)
(* activation outlived its lock, a lock was deleted by somebody else, a call   *)
(* failed between the row and its key, or two endings overlapped               *)
(* (delegate.service.ts:57-240).                                              *)
THEOREM Delegates == DelegationSpec => []OneDelegate
<1>1. DelegationInit => DelegationInv
  BY DelegationStarted, DelegationInitial DEF DelegationInv
<1>2. DelegationSpec => []DelegationInv
  BY <1>1, DelegationKeeps, PTL DEF DelegationSpec
<1>3. DelegationInv => OneDelegate
  BY DEF DelegationInv, Orderly, OneDelegate
<1> QED
  BY <1>2, <1>3, PTL

(* As long as no call has failed: a lock belongs to an activation short of its *)
(* name, to a published delegate or to one an ending has just unnamed; a       *)
(* delegate who was judged is being ended.  Names and verdicts are of          *)
(* activations that came far enough to publish them, and none publishes twice. *)
LockHeld ==
  lock # NoOne => at[lock] \in Early \/ key # NoOne \/ \E e \in Endings : at[e] = "unkeyed"
VerdictRuns ==
  key # NoOne /\ health /\ judged = key => \E e \in Endings : at[e] \in {"asked", "read", "closed"}
NamesArePublished ==
  /\ key # NoOne => at[key] \in {"keyed", "done"}
  /\ judged # NoOne => at[judged] \in {"keyed", "done"}
Follows == NamesArePublished /\ (slips = 0 => LockHeld /\ VerdictRuns)

LEMMA ActivationsFollow ==
  ASSUME DelegationTypeOK, Follows, NEW a \in Activations,
         TakeLock(a) \/ ActivationStep(a) \/ ActivationFails(a)
  PROVE  Follows'
<1> USE Names DEF Follows, LockHeld, VerdictRuns, NamesArePublished, judgement
<1>0. judged \in Activations \cup {NoOne}
  BY DEF DelegationTypeOK
<1>1. CASE TakeLock(a)
  <2>1. PICK there \in {"locked", "done"} :
          /\ From(a, "idle", there)
          /\ UNCHANGED <<key, judgement, slips>>
          /\ lock' = lock \/ (lock' = a /\ there = "locked")
    BY <1>1 DEF TakeLock
  <2>2. /\ at[a] = "idle" /\ at'[a] = there
        /\ \A q \in Activations \cup Endings : q # a => at'[q] = at[q]
    BY <2>1, FromTyped DEF Places, Activating
  <2> QED
    BY <1>0, <2>1, <2>2 DEF Early
<1>2. ASSUME NEW here \in Early, NEW there \in Early \cup {"done"}, From(a, here, there),
             UNCHANGED <<key, judgement, slips>>,
             lock' \in {lock, NoOne}, there = "done" => lock' = NoOne
      PROVE  Follows'
  <2>1. /\ at[a] = here /\ at'[a] = there
        /\ \A q \in Activations \cup Endings : q # a => at'[q] = at[q]
    BY <1>2, FromTyped DEF Places, Activating, Early
  <2> QED
    BY <1>0, <1>2, <2>1 DEF Early
<1>3. CASE TimeLock(a) \/ CreateRow(a) \/ CommitDelegation(a)
  BY <1>2, <1>3 DEF TimeLock, CreateRow, CommitDelegation, Early
<1>4. ASSUME NEW here \in {"timed", "bus"}, NEW holds, NEW on \in {"bus", "checked"}, Check(a, here, holds, on)
      PROVE  Follows'
  BY <1>2, <1>4 DEF Check, Early
<1>5. CASE CheckTrip(a) \/ CheckKey(a)
  BY <1>4, <1>5 DEF CheckTrip, CheckKey
<1>6. CASE Publish(a)
  <2>1. From(a, "committed", "keyed") /\ key' = a /\ UNCHANGED <<lock, judgement, slips>>
    BY <1>6 DEF Publish
  <2>2. /\ at[a] = "committed" /\ at'[a] = "keyed"
        /\ \A q \in Activations \cup Endings : q # a => at'[q] = at[q]
    BY <2>1, FromTyped DEF Places, Activating
  <2> QED
    BY <1>0, <2>1, <2>2
<1>7. CASE Prolong(a)
  <2>1. From(a, "keyed", "done") /\ UNCHANGED <<lock, key, judgement, slips>>
    BY <1>7 DEF Prolong
  <2>2. /\ at[a] = "keyed" /\ at'[a] = "done"
        /\ \A q \in Activations \cup Endings : q # a => at'[q] = at[q]
    BY <2>1, FromTyped DEF Places
  <2> QED
    BY <1>0, <2>1, <2>2 DEF Early
<1>8. CASE ActivationFails(a)
  <2>1. slips \in Nat /\ slips' = slips + 1 /\ UNCHANGED <<key, judgement>> /\ From(a, at[a], "done")
    BY <1>8 DEF ActivationFails, DelegationTypeOK, From
  <2>2. at'[a] = "done" /\ \A q \in Activations \cup Endings : q # a => at'[q] = at[q]
    BY <2>1, FromTyped DEF Places
  <2> QED
    BY <1>0, <2>1, <2>2
<1> QED
  BY <1>1, <1>3, <1>5, <1>6, <1>7, <1>8 DEF ActivationStep

LEMMA EndingsKeepOn ==
  ASSUME DelegationTypeOK, Follows, NEW e \in Endings,
         EndingStep(e) \/ EndFails(e) \/ PingCounts(e) \/ Request(e)
  PROVE  Follows'
<1> USE Names DEF Follows, LockHeld, VerdictRuns, NamesArePublished, judgement
<1>0. judged \in Activations \cup {NoOne}
  BY DEF DelegationTypeOK
<1>1. ASSUME NEW here, NEW there \in Places, From(e, here, there)
      PROVE  /\ at[e] = here /\ at'[e] = there
             /\ \A q \in Activations \cup Endings : q # e => at'[q] = at[q]
             /\ \A a \in Activations : at'[a] = at[a]
  <2>1. /\ at[e] = here /\ at'[e] = there
        /\ \A q \in Activations \cup Endings : q # e => at'[q] = at[q]
    BY <1>1, FromTyped
  <2> QED
    BY <2>1
<1>2. CASE PingCounts(e) \/ Request(e) \/ PingResets(e) \/ Scan(e)
  <2>1. PICK here \in {"idle", "last"}, there \in {"done", "last", "asked", "scanned"} :
          From(e, here, there) /\ UNCHANGED <<key, lock, judgement, slips>>
    BY <1>2 DEF PingCounts, Request, PingResets, Scan
  <2>2. there \in Places
    BY <2>1 DEF Places
  <2> QED
    BY <1>0, <1>1, <2>1, <2>2
<1>3. CASE Verdict(e)
  <2>1. PICK there \in {"idle", "asked"} :
          /\ From(e, "scanned", there) /\ UNCHANGED <<key, lock, slips>>
          /\ there = "idle" => UNCHANGED <<health, judged>>
          /\ judged' \in {judged, key}
    BY <1>3 DEF Verdict, Judging, DelegationTypeOK
  <2>2. there \in Places
    BY <2>1 DEF Places
  <2>3. /\ at[e] = "scanned" /\ at'[e] = there
        /\ \A q \in Activations \cup Endings : q # e => at'[q] = at[q]
        /\ \A a \in Activations : at'[a] = at[a]
    BY <1>1, <2>1, <2>2
  <2> QED
    BY <1>0, <2>1, <2>3
<1>4. CASE EndReads(e)
  <2>1. PICK there \in {"idle", "done", "read"} :
          /\ From(e, "asked", there) /\ UNCHANGED <<key, lock, judgement, slips>>
          /\ key # NoOne => there = "read"
    BY <1>4 DEF EndReads, After
  <2>2. there \in Places
    BY <2>1 DEF Places, Ending
  <2>3. /\ at[e] = "asked" /\ at'[e] = there
        /\ \A q \in Activations \cup Endings : q # e => at'[q] = at[q]
        /\ \A a \in Activations : at'[a] = at[a]
    BY <1>1, <2>1, <2>2
  <2> QED
    BY <1>0, <2>1, <2>3
<1>5. CASE CloseRows(e)
  <2>1. From(e, "read", "closed") /\ UNCHANGED <<key, lock, judgement, slips>>
    BY <1>5 DEF CloseRows
  <2>2. /\ at[e] = "read" /\ at'[e] = "closed"
        /\ \A q \in Activations \cup Endings : q # e => at'[q] = at[q]
        /\ \A a \in Activations : at'[a] = at[a]
    BY <1>1, <2>1 DEF Places, Ending
  <2> QED
    BY <1>0, <2>1, <2>2
<1>6. CASE Unpublish(e)
  <2>1. From(e, "closed", "unkeyed") /\ key' = NoOne /\ UNCHANGED <<lock, judgement, slips>>
    BY <1>6 DEF Unpublish
  <2>2. /\ at[e] = "closed" /\ at'[e] = "unkeyed"
        /\ \A a \in Activations : at'[a] = at[a]
    BY <1>1, <2>1 DEF Places, Ending
  <2> QED
    BY <1>0, <2>1, <2>2
<1>7. CASE FreeLock(e)
  <2>1. PICK there \in {"idle", "done"} :
          From(e, "unkeyed", there) /\ lock' = NoOne /\ UNCHANGED <<key, judgement, slips>>
    BY <1>7 DEF FreeLock, After
  <2>2. there \in Places
    BY <2>1 DEF Places
  <2>3. /\ at[e] = "unkeyed"
        /\ \A q \in Activations \cup Endings : q # e => at'[q] = at[q]
        /\ \A a \in Activations : at'[a] = at[a]
    BY <1>1, <2>1, <2>2
  <2> QED
    BY <1>0, <2>1, <2>3
<1>8. CASE EndFails(e)
  <2>1. at' = [at EXCEPT ![e] = After(e)] /\ slips' = slips + 1 /\ UNCHANGED <<key, judgement>>
    BY <1>8 DEF EndFails
  <2>2. slips \in Nat
    BY DEF DelegationTypeOK
  <2>3. \A a \in Activations : at'[a] = at[a]
    BY <2>1 DEF DelegationTypeOK
  <2> QED
    BY <1>0, <2>1, <2>2, <2>3
<1> QED
  BY <1>2, <1>3, <1>4, <1>5, <1>6, <1>7, <1>8 DEF EndingStep

(* For any members of staff, endings and scans: as long as no call has failed,  *)
(* no lock is left without somebody to free it, and the delegate the monitor   *)
(* judged is published only while an ending is on its way.                     *)
THEOREM EndingsComplete == DelegationSpec => []EndingsFollow
<1>1. DelegationInit => Follows
  BY DelegationConstants DEF DelegationInit, Follows, LockHeld, VerdictRuns, NamesArePublished
<1>2. DelegationTypeOK /\ Follows /\ [DelegationNext]_delegationVars => Follows'
  <2> SUFFICES ASSUME DelegationTypeOK, Follows, [DelegationNext]_delegationVars PROVE Follows'
    OBVIOUS
  <2>1. CASE LockLapses \/ ReturnLapses \/ TripEnds \/ UNCHANGED delegationVars
    <3>1. lock' \in {lock, NoOne} /\ UNCHANGED <<at, key, health, judged, slips>>
      BY <2>1 DEF LockLapses, ReturnLapses, TripEnds, delegationVars, judgement
    <3> QED
      BY <3>1, Names DEF Follows, LockHeld, VerdictRuns, NamesArePublished
  <2> QED
    BY <2>1, ActivationsFollow, EndingsKeepOn DEF DelegationNext, Endings
<1>3. Follows => EndingsFollow
  BY DEF Follows, LockHeld, VerdictRuns, EndingsFollow, Early, Activating
<1> QED
  BY <1>1, <1>2, <1>3, DelegationTypes, PTL DEF DelegationSpec

-----------------------------------------------------------------------------
(* The number of silent buses.                                              *)
CheckRecords == [pc : {"idle", "write", "count"}, left : SUBSET Transitions]

LEMMA Rests == IdleCheck \in CheckRecords /\ IdleCheck.pc = "idle" /\ IdleCheck.left = {}
  BY DEF IdleCheck, CheckRecords

LEMMA GpsInitial == GpsInit => GpsTypeOK
<1> SUFFICES ASSUME GpsInit PROVE GpsTypeOK
  OBVIOUS
<1>1. check \in [Checks -> CheckRecords] /\ \A r \in Checks : Resting(r) <=> check[r].left = {}
  BY Rests DEF GpsInit, Resting
<1>2. recon \in [pc : {"idle", "write", "done"}, rows : SUBSET Buses, count : Int]
  BY DEF GpsInit, IdleRecon
<1> QED
  <2>1. /\ driving = {} /\ listed = {} /\ hashed = {} /\ heard = {} /\ silent = {}
        /\ gpsOffline = 0 /\ disturbed = FALSE /\ gpsFaults = 0
        /\ trip \in [Buses -> {"scheduled"}]
    BY DEF GpsInit
  <2>2. gpsFaults \in 0..MaxGpsFaults
    BY <2>1, GpsConstants
  <2>3. trip \in [Buses -> {"scheduled", "started", "listing", "active", "ended", "unlisted", "over"}]
    BY <2>1
  <2>4. /\ driving \subseteq Buses /\ listed \subseteq Buses /\ hashed \subseteq Buses
        /\ heard \subseteq Buses /\ silent \subseteq Buses
        /\ gpsOffline \in Int
    BY <2>1
  <2>5. disturbed \in BOOLEAN
    BY <2>1, Zenon
  <2> QED
    BY <1>1, <1>2, <2>2, <2>3, <2>4, <2>5, Zenon DEF GpsTypeOK, CheckRecords

LEMMA ChangesTyped ==
  ASSUME GpsTypeOK
  PROVE  /\ Changes \subseteq Transitions
         /\ \A x \in Changes : x.off <=> x.bus \notin silent
         /\ \A x, y \in Changes : x.bus = y.bus => x = y
<1>1. \A c : (c \notin heard) \in BOOLEAN
  OBVIOUS
<1>2. listed \subseteq Buses
  BY DEF GpsTypeOK
<1>3. \A b \in listed : [bus |-> b, off |-> b \notin heard] \in Transitions
  BY <1>1, <1>2 DEF Transitions
<1>4. Changes \subseteq Transitions
  BY <1>3 DEF Changes
<1>5. ASSUME NEW x \in Changes PROVE x.off <=> x.bus \notin silent
  <2>1. PICK b \in {c \in listed \cap hashed : (c \notin heard) # (c \in silent)} :
          x = [bus |-> b, off |-> b \notin heard]
    BY <1>5 DEF Changes
  <2>2. x.bus = b /\ (x.off <=> b \notin heard)
    BY <2>1
  <2> QED
    BY <2>1, <2>2
<1>6. ASSUME NEW x \in Changes, NEW y \in Changes, x.bus = y.bus PROVE x = y
  <2>1. PICK b : x = [bus |-> b, off |-> b \notin heard]
    BY <1>6 DEF Changes
  <2>2. PICK c : y = [bus |-> c, off |-> c \notin heard]
    BY <1>6 DEF Changes
  <2>3. x.bus = b /\ y.bus = c
    BY <2>1, <2>2
  <2> QED
    BY <1>6, <2>1, <2>2, <2>3
<1> QED
  BY <1>4, <1>5, <1>6

(* A run's record changes. *)
LEMMA RunMoves ==
  ASSUME GpsTypeOK, NEW r \in Checks, NEW c \in CheckRecords, check' = [check EXCEPT ![r] = c],
         c.pc = "idle" <=> c.left = {}
  PROVE  /\ check'[r] = c /\ \A q \in Checks : q # r => check'[q] = check[q]
         /\ check' \in [Checks -> CheckRecords]
         /\ \A q \in Checks : Resting(q)' <=> check'[q].left = {}
         /\ \A q \in Checks : q # r => (Resting(q)' <=> Resting(q))
         /\ Resting(r)' <=> c.pc = "idle"
  BY DEF GpsTypeOK, CheckRecords, Resting

(* What the steps of a run leave of its record. *)
LEMMA ReadMoves ==
  ASSUME GpsTypeOK, NEW r \in Checks, CheckReads(r)
  PROVE  \E c \in CheckRecords :
           /\ check' = [check EXCEPT ![r] = c] /\ (c.pc = "idle" <=> c.left = {})
           /\ c.left = Changes /\ c.pc \in {"idle", "write"}
<1> DEFINE c == [pc |-> IF Changes = {} THEN "idle" ELSE "write", left |-> Changes]
<1>1. c \in CheckRecords
  BY ChangesTyped DEF CheckRecords
<1>2. /\ check' = [check EXCEPT ![r] = c] /\ (c.pc = "idle" <=> c.left = {})
      /\ c.left = Changes /\ c.pc \in {"idle", "write"}
  BY DEF CheckReads
<1> QED
  BY <1>1, <1>2

LEMMA WriteMoves ==
  ASSUME GpsTypeOK, NEW r \in Checks, CheckWrites(r)
  PROVE  \E c \in CheckRecords :
           /\ check' = [check EXCEPT ![r] = c] /\ (c.pc = "idle" <=> c.left = {})
           /\ c.left = check[r].left /\ c.pc = "count"
<1> DEFINE c == [check[r] EXCEPT !.pc = "count"]
<1>1. check[r] \in CheckRecords /\ check[r].left # {}
  BY DEF GpsTypeOK, CheckRecords, CheckWrites, Resting
<1>2. c \in CheckRecords /\ c.left = check[r].left /\ c.pc = "count"
  BY <1>1 DEF CheckRecords
<1>3. check' = [check EXCEPT ![r] = c]
  BY DEF CheckWrites
<1> QED
  BY <1>1, <1>2, <1>3

LEMMA CountMoves ==
  ASSUME GpsTypeOK, NEW r \in Checks, CheckCounts(r)
  PROVE  \E x \in check[r].left, c \in CheckRecords :
           /\ check' = [check EXCEPT ![r] = c] /\ (c.pc = "idle" <=> c.left = {})
           /\ c.left = check[r].left \ {x} /\ c.pc \in {"idle", "count"}
           /\ gpsOffline' = IF x.off THEN gpsOffline + 1 ELSE gpsOffline - 1
<1>1. PICK x \in check[r].left :
        /\ gpsOffline' = IF x.off THEN gpsOffline + 1 ELSE gpsOffline - 1
        /\ check' = [check EXCEPT ![r] =
             IF check[r].left = {x} THEN IdleCheck
             ELSE [pc |-> "count", left |-> check[r].left \ {x}]]
  BY DEF CheckCounts
<1>2. check[r] \in CheckRecords /\ check[r].pc = "count"
  BY DEF GpsTypeOK, CheckRecords, CheckCounts
<1>3. CASE check[r].left = {x}
  BY <1>1, <1>3, Rests
<1>4. CASE check[r].left # {x}
  <2> DEFINE c == [pc |-> "count", left |-> check[r].left \ {x}]
  <2>1. c \in CheckRecords /\ c.left = check[r].left \ {x} /\ c.pc = "count"
    BY <1>2 DEF CheckRecords
  <2>2. c.left # {}
    BY <1>1, <1>4, <2>1
  <2>3. check' = [check EXCEPT ![r] = c]
    BY <1>1, <1>4
  <2> HIDE DEF c
  <2> QED
    BY <1>1, <2>1, <2>2, <2>3
<1> QED
  BY <1>3, <1>4

LEMMA GpsTyped == GpsTypeOK /\ [GpsNext]_gpsVars => GpsTypeOK'
<1> SUFFICES ASSUME GpsTypeOK, [GpsNext]_gpsVars PROVE GpsTypeOK'
  OBVIOUS
<1> USE GpsConstants
<1>1. CASE UNCHANGED gpsVars
  BY <1>1 DEF gpsVars, tripVars, GpsTypeOK, Resting
<1>2. ASSUME NEW b \in Buses, TripRow(b) \/ TripRedis(b) \/ TripRedisLost(b) \/ Ping(b) \/ BeatAges(b)
      PROVE  GpsTypeOK'
  <2> USE DEF GpsTypeOK, gpsRest, tripVars, Resting
  <2>1. CASE TripRow(b)
    BY <2>1 DEF TripRow
  <2>2. CASE TripRedis(b)
    BY <2>2 DEF TripRedis, Stepped
  <2>3. CASE TripRedisLost(b)
    BY <2>3 DEF TripRedisLost, Stepped
  <2>4. CASE Ping(b) \/ BeatAges(b)
    BY <2>4 DEF Ping, BeatAges
  <2> QED
    BY <1>2, <2>1, <2>2, <2>3, <2>4
<1>3. ASSUME NEW r \in Checks, CheckStep(r) \/ CheckDies(r) PROVE GpsTypeOK'
  <2>1. \E c \in CheckRecords :
          check' = [check EXCEPT ![r] = c] /\ (c.pc = "idle" <=> c.left = {})
    BY <1>3, ReadMoves, WriteMoves, CountMoves, Rests DEF CheckStep, CheckDies
  <2>2. check' \in [Checks -> CheckRecords] /\ \A q \in Checks : Resting(q)' <=> check'[q].left = {}
    BY <2>1, RunMoves
  <2>3. disturbed' \in BOOLEAN
    BY <1>3, Zenon DEF CheckStep, CheckReads, CheckWrites, CheckCounts, CheckDies, GpsTypeOK
  <2>4. gpsOffline' \in Int
    BY <1>3, CountMoves DEF CheckStep, CheckReads, CheckWrites, CheckDies, GpsTypeOK
  <2>5. silent' \subseteq Buses
    BY <1>3 DEF CheckStep, CheckReads, CheckWrites, CheckCounts, CheckDies, GpsTypeOK, Transitions
  <2>6. gpsFaults' \in 0..MaxGpsFaults
    BY <1>3 DEF CheckStep, CheckReads, CheckWrites, CheckCounts, CheckDies, GpsTypeOK
  <2>7. UNCHANGED <<driving, listed, hashed, trip, heard, recon>>
    BY <1>3 DEF CheckStep, CheckReads, CheckWrites, CheckCounts, CheckDies, tripVars
  <2> QED
    BY <2>2, <2>3, <2>4, <2>5, <2>6, <2>7 DEF GpsTypeOK, CheckRecords
<1>4. CASE ReconReads \/ ReconWrites
  <2>1. disturbed' \in BOOLEAN
    BY <1>4, Zenon DEF ReconReads, ReconWrites, GpsTypeOK
  <2> QED
    BY <1>4, <2>1 DEF ReconReads, ReconWrites, GpsTypeOK, tripVars, Resting, IdleRecon
<1> QED
  BY <1>1, <1>2, <1>3, <1>4 DEF GpsNext

(* The types of the detection of silent buses are invariant. *)
THEOREM GpsTypes == GpsSpec => []GpsTypeOK
  BY GpsInitial, GpsTyped, PTL DEF GpsSpec

(* While no run or reconciliation overlapped and none died counting: only one   *)
(* is under way; what a run found is what it will change; and what the number   *)
(* lacks is what the run that counts has left.                                *)
Off(r) == {b \in Buses : [bus |-> b, off |-> TRUE] \in check[r].left}
On(r) == {b \in Buses : [bus |-> b, off |-> FALSE] \in check[r].left}

Alternate ==
  /\ \A r, q \in Checks : ~Resting(r) /\ ~Resting(q) => r = q
  /\ recon.pc = "write" => \A r \in Checks : Resting(r)
Found ==
  \A r \in Checks : check[r].pc = "write" => On(r) \subseteq silent /\ Off(r) \cap silent = {}
Counted ==
  /\ \A r \in Checks : check[r].pc = "count" =>
       gpsOffline = Cardinality(silent) - Cardinality(Off(r)) + Cardinality(On(r))
  /\ (\A r \in Checks : check[r].pc # "count") => gpsOffline = Cardinality(silent)
  /\ recon.pc = "write" => recon.count = gpsOffline

CountInv == GpsTypeOK /\ (disturbed \/ (Alternate /\ Found /\ Counted))

LEMMA Finite ==
  ASSUME GpsTypeOK
  PROVE  /\ IsFiniteSet(silent) /\ Cardinality(silent) \in Nat
         /\ \A r \in Checks : /\ IsFiniteSet(Off(r)) /\ Cardinality(Off(r)) \in Nat
                              /\ IsFiniteSet(On(r)) /\ Cardinality(On(r)) \in Nat
<1>1. ASSUME NEW S, S \subseteq Buses PROVE IsFiniteSet(S) /\ Cardinality(S) \in Nat
  BY <1>1, GpsConstants, FS_Subset, FS_CardinalityType
<1>2. silent \subseteq Buses /\ \A r \in Checks : Off(r) \subseteq Buses /\ On(r) \subseteq Buses
  BY DEF GpsTypeOK, Off, On
<1> QED
  BY <1>1, <1>2

LEMMA GpsStarted == GpsInit => Alternate /\ Found /\ Counted
  BY FS_EmptySet DEF GpsInit, Alternate, Found, Counted, IdleCheck, IdleRecon, Resting

(* Adding the outages a run found and removing its recoveries. *)
LEMMA Written ==
  ASSUME GpsTypeOK, NEW r \in Checks, CheckWrites(r),
         On(r) \subseteq silent, Off(r) \cap silent = {}
  PROVE  Cardinality(silent') = Cardinality(silent) - Cardinality(On(r)) + Cardinality(Off(r))
<1> DEFINE left == check[r].left
           kept == {b \in silent : \A x \in left : x.bus = b => x.off}
           new == {x.bus : x \in {y \in left : y.off}}
<1>1. left \subseteq Transitions /\ silent \subseteq Buses
  BY DEF GpsTypeOK
<1>2. \A x \in left : /\ x.bus \in Buses /\ x.off \in BOOLEAN
                      /\ x = [bus |-> x.bus, off |-> x.off]
  BY <1>1 DEF Transitions
<1>3. kept = silent \ On(r)
  BY <1>1, <1>2 DEF On
<1>4. new = Off(r)
  BY <1>1, <1>2 DEF Off
<1>5. silent' = (silent \ On(r)) \cup Off(r)
  BY <1>3, <1>4 DEF CheckWrites
<1>6. (silent \ On(r)) \cap Off(r) = {} /\ On(r) \cap silent = On(r)
  OBVIOUS
<1>7. /\ IsFiniteSet(silent \ On(r))
      /\ Cardinality(silent \ On(r)) = Cardinality(silent) - Cardinality(silent \cap On(r))
  BY Finite, FS_Difference
<1>8. Cardinality((silent \ On(r)) \cup Off(r)) =
        Cardinality(silent \ On(r)) + Cardinality(Off(r)) - Cardinality((silent \ On(r)) \cap Off(r))
  BY <1>7, Finite, FS_Union
<1>9. silent \cap On(r) = On(r)
  OBVIOUS
<1>10. Cardinality({}) = 0
  BY FS_EmptySet
<1>11. Cardinality(silent') = Cardinality(silent \ On(r)) + Cardinality(Off(r)) - Cardinality({})
  BY <1>5, <1>6, <1>8
<1>12. Cardinality(silent \ On(r)) = Cardinality(silent) - Cardinality(On(r))
  BY <1>7, <1>9
<1> HIDE DEF left, kept, new
<1> QED
  BY <1>10, <1>11, <1>12, Finite

(* One transition is counted. *)
LEMMA CountedOne ==
  ASSUME GpsTypeOK, NEW r \in Checks, NEW x \in check[r].left,
         check'[r].left = check[r].left \ {x}
  PROVE  /\ x.off => /\ Cardinality(Off(r)') = Cardinality(Off(r)) - 1
                     /\ Cardinality(On(r)') = Cardinality(On(r))
         /\ ~x.off => /\ Cardinality(On(r)') = Cardinality(On(r)) - 1
                      /\ Cardinality(Off(r)') = Cardinality(Off(r))
<1>1. x.bus \in Buses /\ x.off \in BOOLEAN /\ x = [bus |-> x.bus, off |-> x.off]
  BY DEF GpsTypeOK, Transitions
<1>2. CASE x.off
  <2>1. x.off = TRUE
    BY <1>1, <1>2
  <2>2. x = [bus |-> x.bus, off |-> TRUE]
    BY <1>1, <2>1
  <2>3. \A b : /\ [bus |-> b, off |-> TRUE] = x <=> b = x.bus
               /\ [bus |-> b, off |-> FALSE] # x
    BY <2>1, <2>2
  <2>4. x.bus \in Off(r) /\ Off(r)' = Off(r) \ {x.bus} /\ On(r)' = On(r)
    BY <1>1, <2>3 DEF Off, On
  <2>5. Cardinality(Off(r) \ {x.bus}) = Cardinality(Off(r)) - 1
    BY <2>4, Finite, FS_RemoveElement
  <2> QED
    BY <1>2, <2>4, <2>5
<1>3. CASE ~x.off
  <2>1. x.off = FALSE
    BY <1>1, <1>3
  <2>2. x = [bus |-> x.bus, off |-> FALSE]
    BY <1>1, <2>1
  <2>3. \A b : /\ [bus |-> b, off |-> FALSE] = x <=> b = x.bus
               /\ [bus |-> b, off |-> TRUE] # x
    BY <2>1, <2>2
  <2>4. x.bus \in On(r) /\ On(r)' = On(r) \ {x.bus} /\ Off(r)' = Off(r)
    BY <1>1, <2>3 DEF Off, On
  <2>5. Cardinality(On(r) \ {x.bus}) = Cardinality(On(r)) - 1
    BY <2>4, Finite, FS_RemoveElement
  <2> QED
    BY <1>3, <2>4, <2>5
<1> QED
  BY <1>2, <1>3

LEMMA Reading ==
  ASSUME GpsTypeOK, Alternate, Found, Counted, NEW r \in Checks, CheckReads(r), ~disturbed'
  PROVE  Alternate' /\ Found' /\ Counted'
<1>1. AllIdle /\ UNCHANGED <<silent, gpsOffline, recon>>
  BY Zenon DEF CheckReads
<1>2. PICK c \in CheckRecords :
        /\ check' = [check EXCEPT ![r] = c] /\ (c.pc = "idle" <=> c.left = {})
        /\ c.left = Changes /\ c.pc \in {"idle", "write"}
  BY ReadMoves
<1>3. /\ check'[r] = c /\ \A q \in Checks : q # r => check'[q] = check[q]
      /\ \A q \in Checks : q # r => (Resting(q)' <=> Resting(q))
  BY <1>2, RunMoves
<1>4. \A q \in Checks : q # r => Resting(q)' /\ check'[q].pc = "idle"
  BY <1>1, <1>3 DEF AllIdle, Resting
<1>5. gpsOffline = Cardinality(silent)
  BY <1>1 DEF AllIdle, Resting, Counted
<1>6. Alternate'
  BY <1>1, <1>4 DEF Alternate, AllIdle
<1>7. On(r)' \subseteq silent /\ Off(r)' \cap silent = {}
  BY <1>2, <1>3, ChangesTyped DEF On, Off
<1>8. Found'
  BY <1>1, <1>4, <1>7 DEF Found
<1>9. \A q \in Checks : check'[q].pc # "count"
  BY <1>2, <1>3, <1>4
<1>10. Counted'
  BY <1>1, <1>5, <1>9 DEF Counted, AllIdle
<1> QED
  BY <1>6, <1>8, <1>10

LEMMA Writing ==
  ASSUME GpsTypeOK, Alternate, Found, Counted, NEW r \in Checks, CheckWrites(r)
  PROVE  Alternate' /\ Found' /\ Counted'
<1>1. PICK c \in CheckRecords :
        /\ check' = [check EXCEPT ![r] = c] /\ (c.pc = "idle" <=> c.left = {})
        /\ c.left = check[r].left /\ c.pc = "count"
  BY WriteMoves
<1>2. /\ check'[r] = c /\ \A q \in Checks : q # r => check'[q] = check[q]
      /\ \A q \in Checks : q # r => (Resting(q)' <=> Resting(q))
  BY <1>1, RunMoves
<1>3. ~Resting(r) /\ check[r].pc = "write" /\ UNCHANGED <<gpsOffline, recon>>
  BY DEF CheckWrites, Resting
<1>4. \A q \in Checks : q # r => Resting(q) /\ Resting(q)' /\ check[q].pc = "idle" /\ check'[q].pc = "idle"
  BY <1>2, <1>3 DEF Alternate, Resting
<1>5. recon.pc # "write"
  BY <1>3 DEF Alternate
<1>6. Alternate'
  BY <1>3, <1>4, <1>5 DEF Alternate
<1>7. Found'
  BY <1>1, <1>2, <1>4 DEF Found
<1>8. gpsOffline = Cardinality(silent)
  BY <1>3, <1>4 DEF Counted
<1>9. Off(r)' = Off(r) /\ On(r)' = On(r)
  BY <1>1, <1>2 DEF Off, On
<1>10. Cardinality(silent') = Cardinality(silent) - Cardinality(On(r)) + Cardinality(Off(r))
  BY <1>3, Written DEF Found
<1>11. gpsOffline' = Cardinality(silent') - Cardinality(Off(r)') + Cardinality(On(r)')
  BY <1>3, <1>8, <1>9, <1>10, Finite
<1>12. Counted'
  BY <1>1, <1>2, <1>3, <1>4, <1>5, <1>11 DEF Counted
<1> QED
  BY <1>6, <1>7, <1>12

LEMMA Counting ==
  ASSUME GpsTypeOK, Alternate, Found, Counted, NEW r \in Checks, CheckCounts(r)
  PROVE  Alternate' /\ Found' /\ Counted'
<1>1. PICK x \in check[r].left, c \in CheckRecords :
        /\ check' = [check EXCEPT ![r] = c] /\ (c.pc = "idle" <=> c.left = {})
        /\ c.left = check[r].left \ {x} /\ c.pc \in {"idle", "count"}
        /\ gpsOffline' = IF x.off THEN gpsOffline + 1 ELSE gpsOffline - 1
  BY CountMoves
<1>2. /\ check'[r] = c /\ \A q \in Checks : q # r => check'[q] = check[q]
      /\ \A q \in Checks : q # r => (Resting(q)' <=> Resting(q))
  BY <1>1, RunMoves
<1>3. ~Resting(r) /\ check[r].pc = "count" /\ UNCHANGED <<silent, recon>>
  BY DEF CheckCounts, Resting
<1>4. \A q \in Checks : q # r => Resting(q) /\ Resting(q)' /\ check[q].pc = "idle" /\ check'[q].pc = "idle"
  BY <1>2, <1>3 DEF Alternate, Resting
<1>5. recon.pc # "write"
  BY <1>3 DEF Alternate
<1>6. Alternate'
  BY <1>3, <1>4, <1>5 DEF Alternate
<1>7. Found'
  BY <1>1, <1>2, <1>4 DEF Found
<1>8. gpsOffline = Cardinality(silent) - Cardinality(Off(r)) + Cardinality(On(r))
  BY <1>3 DEF Counted
<1>9. /\ x.off => /\ Cardinality(Off(r)') = Cardinality(Off(r)) - 1
                  /\ Cardinality(On(r)') = Cardinality(On(r))
      /\ ~x.off => /\ Cardinality(On(r)') = Cardinality(On(r)) - 1
                   /\ Cardinality(Off(r)') = Cardinality(Off(r))
  BY <1>1, <1>2, CountedOne
<1>10. gpsOffline' = Cardinality(silent') - Cardinality(Off(r)') + Cardinality(On(r)')
  BY <1>1, <1>3, <1>8, <1>9, Finite
<1>11. CASE c.pc = "count"
  BY <1>1, <1>2, <1>3, <1>4, <1>5, <1>6, <1>7, <1>10, <1>11 DEF Counted
<1>12. CASE c.pc = "idle"
  <2>1. Off(r)' = {} /\ On(r)' = {}
    BY <1>1, <1>2, <1>12 DEF Off, On
  <2>2. gpsOffline' = Cardinality(silent')
    BY <1>3, <1>10, <2>1, Finite, FS_EmptySet
  <2>3. Counted'
    BY <1>2, <1>3, <1>4, <1>5, <1>12, <2>2 DEF Counted
  <2> QED
    BY <1>6, <1>7, <2>3
<1> QED
  BY <1>1, <1>11, <1>12

LEMMA Reconciling ==
  ASSUME GpsTypeOK, Alternate, Found, Counted, ReconReads \/ ReconWrites, ~disturbed'
  PROVE  Alternate' /\ Found' /\ Counted'
<1>1. check' = check /\ silent' = silent
  BY DEF ReconReads, ReconWrites
<1>2. \A r \in Checks : (Resting(r)' <=> Resting(r)) /\ Off(r)' = Off(r) /\ On(r)' = On(r)
  BY <1>1 DEF Resting, Off, On
<1>3. Found'
  BY <1>1, <1>2 DEF Found
<1>4. \A r \in Checks : Resting(r) /\ check[r].pc = "idle"
  <2>1. CASE ReconReads
    <3>1. AllIdle
      BY Zenon, <2>1 DEF ReconReads
    <3> QED
      BY <3>1 DEF AllIdle, Resting
  <2>2. CASE ReconWrites
    BY <2>2 DEF ReconWrites, Alternate, Resting
  <2> QED
    BY <2>1, <2>2
<1>5. Alternate'
  BY <1>2, <1>4 DEF Alternate
<1>6. gpsOffline = Cardinality(silent)
  BY <1>4 DEF Counted
<1>7. Counted'
  <2>1. CASE ReconReads
    BY <1>1, <1>4, <1>6, <2>1 DEF ReconReads, Counted
  <2>2. CASE ReconWrites
    BY <1>1, <1>4, <1>6, <2>2 DEF ReconWrites, Counted, IdleRecon
  <2> QED
    BY <2>1, <2>2
<1> QED
  BY <1>3, <1>5, <1>7

LEMMA Dying ==
  ASSUME GpsTypeOK, Alternate, Found, Counted, NEW r \in Checks, CheckDies(r), ~disturbed'
  PROVE  Alternate' /\ Found' /\ Counted'
<1>1. check[r].pc # "count"
  BY Zenon DEF CheckDies
<1>2. ~Resting(r) /\ check' = [check EXCEPT ![r] = IdleCheck] /\ UNCHANGED <<silent, gpsOffline, recon>>
  BY DEF CheckDies
<1>3. /\ check'[r] = IdleCheck /\ \A q \in Checks : q # r => check'[q] = check[q]
      /\ \A q \in Checks : q # r => (Resting(q)' <=> Resting(q))
  BY <1>2, RunMoves, Rests
<1>4. \A q \in Checks : q # r => Resting(q) /\ Resting(q)' /\ check[q].pc = "idle" /\ check'[q].pc = "idle"
  BY <1>2, <1>3 DEF Alternate, Resting
<1>5. recon.pc # "write"
  BY <1>2 DEF Alternate
<1>6. Alternate' /\ Found'
  BY <1>2, <1>3, <1>4, <1>5, Rests DEF Alternate, Found
<1>7. gpsOffline = Cardinality(silent)
  BY <1>1, <1>4 DEF Counted
<1>8. Counted'
  BY <1>2, <1>3, <1>4, <1>5, <1>7, Rests DEF Counted
<1> QED
  BY <1>6, <1>8

LEMMA CountKeeps == CountInv /\ [GpsNext]_gpsVars => CountInv'
<1> SUFFICES ASSUME CountInv, [GpsNext]_gpsVars, ~disturbed' PROVE Alternate' /\ Found' /\ Counted'
  BY GpsTyped DEF CountInv
<1>1. ~disturbed
  BY Zenon DEF GpsNext, CheckStep, CheckReads, CheckWrites, CheckCounts, CheckDies, ReconReads, ReconWrites,
     TripRow, TripRedis, TripRedisLost, Ping, BeatAges, gpsRest, gpsVars
<1>2. GpsTypeOK /\ Alternate /\ Found /\ Counted
  BY <1>1 DEF CountInv
<1>3. ASSUME UNCHANGED <<silent, gpsOffline, check, recon>> PROVE Alternate' /\ Found' /\ Counted'
  BY <1>2, <1>3 DEF Alternate, Found, Counted, Resting, Off, On
<1>4. CASE UNCHANGED gpsVars
  BY <1>3, <1>4 DEF gpsVars
<1>5. ASSUME NEW b \in Buses, TripRow(b) \/ TripRedis(b) \/ TripRedisLost(b) \/ Ping(b) \/ BeatAges(b)
      PROVE  Alternate' /\ Found' /\ Counted'
  BY <1>3, <1>5 DEF TripRow, TripRedis, TripRedisLost, Ping, BeatAges, gpsRest
<1> QED
  BY <1>2, <1>4, <1>5, Reading, Writing, Counting, Dying, Reconciling DEF GpsNext, CheckStep

(* The dashboard's number is the number of buses shown as OFFLINE whenever no    *)
(* run is under way, unless runs or a reconciliation overlapped or a run died    *)
(* counting (gps-heartbeat.job.ts:63-108, reconcile-dashboard-stats.job.ts:31-48). *)
THEOREM Counts == GpsSpec => []CountAgrees
<1>1. GpsInit => CountInv
  BY GpsStarted, GpsInitial DEF CountInv
<1>2. GpsSpec => []CountInv
  BY <1>1, CountKeeps, PTL DEF GpsSpec
<1>3. CountInv => CountAgrees
  BY DEF CountInv, Counted, CountAgrees, AllIdle, Resting
<1> QED
  BY <1>2, <1>3, PTL

-----------------------------------------------------------------------------
BusFollows(b, against) ==
  /\ Holding(b, against)' \subseteq Holding(b, against)
  /\ (b \in silent' <=> against) =>
       (b \in silent <=> against) \/ Holding(b, against)' # Holding(b, against)
  /\ \A r \in Checks :
       Resting(r) /\ ~Resting(r)' /\ b \in listed \cap hashed /\ (b \in silent <=> against)
         => r \in Holding(b, ~against)'

(* A run holds after its look what differs by then: nothing against the pings. *)
LEMMA LooksRight ==
  ASSUME NEW b, NEW off \in BOOLEAN
  PROVE  [bus |-> b, off |-> off] \in Changes <=>
           /\ b \in listed \cap hashed /\ (off <=> b \notin heard) /\ (off <=> b \notin silent)
<1>1. \A c, o : [bus |-> c, off |-> o] = [bus |-> b, off |-> off] <=> c = b /\ o = off
  OBVIOUS
<1>2. [bus |-> b, off |-> off] \in Changes <=>
        b \in {c \in listed \cap hashed : (c \notin heard) # (c \in silent)} /\ (off <=> b \notin heard)
  BY <1>1 DEF Changes
<1>3. CASE off
  BY <1>2, <1>3
<1>4. CASE ~off
  BY <1>2, <1>4
<1> QED
  BY <1>3, <1>4

(* For any number of buses, runs and faults: what misleads a bus's status is  *)
(* used up, and whoever looks afresh sets it right.                          *)
THEOREM RunsFollow == GpsSpec => MisledFade
<1>1. GpsTypeOK /\ [GpsNext]_gpsVars =>
        [\A b \in Buses, against \in BOOLEAN : (against <=> b \in heard) => BusFollows(b, against)]_gpsVars
  <2> SUFFICES ASSUME GpsTypeOK, GpsNext, NEW b \in Buses, NEW against \in BOOLEAN, (against <=> b \in heard)
               PROVE  BusFollows(b, against)
    OBVIOUS
  <2>1. ASSUME UNCHANGED <<silent, check>> PROVE BusFollows(b, against)
    BY <2>1 DEF BusFollows, Holding, Resting
  <2>2. ASSUME NEW r \in Checks, CheckReads(r) PROVE BusFollows(b, against)
    <3>1. PICK c \in CheckRecords :
            /\ check' = [check EXCEPT ![r] = c] /\ (c.pc = "idle" <=> c.left = {})
            /\ c.left = Changes /\ c.pc \in {"idle", "write"}
      BY <2>2, ReadMoves
    <3>2. check'[r] = c /\ \A q \in Checks : q # r => check'[q] = check[q] /\ (Resting(q)' <=> Resting(q))
      BY <3>1, RunMoves
    <3>3. silent' = silent /\ check[r].pc = "idle"
      BY <2>2 DEF CheckReads, Resting
    <3>4. [bus |-> b, off |-> against] \notin Changes
      BY LooksRight
    <3>5. Holding(b, against)' = Holding(b, against)
      BY <3>1, <3>2, <3>3, <3>4 DEF Holding
    <3>6. b \in listed \cap hashed /\ (b \in silent <=> against) => [bus |-> b, off |-> ~against] \in Changes
      BY LooksRight
    <3>7. b \in listed \cap hashed /\ (b \in silent <=> against) => c.pc = "write" /\ r \in Holding(b, ~against)'
      BY <3>1, <3>2, <3>6 DEF Holding
    <3> QED
      BY <3>2, <3>3, <3>5, <3>7 DEF BusFollows
  <2>3. ASSUME NEW r \in Checks, CheckWrites(r) PROVE BusFollows(b, against)
    <3>1. PICK c \in CheckRecords :
            /\ check' = [check EXCEPT ![r] = c] /\ (c.pc = "idle" <=> c.left = {})
            /\ c.left = check[r].left /\ c.pc = "count"
      BY <2>3, WriteMoves
    <3>2. check'[r] = c /\ \A q \in Checks : q # r => check'[q] = check[q] /\ (Resting(q)' <=> Resting(q))
      BY <3>1, RunMoves
    <3>3. check[r].pc = "write" /\ ~Resting(r)
      BY <2>3 DEF CheckWrites, Resting
    <3>4. Holding(b, against)' = Holding(b, against) \ {r}
      BY <3>1, <3>2 DEF Holding
    <3>5. (b \in silent' <=> against) =>
            (b \in silent <=> against) \/ [bus |-> b, off |-> against] \in check[r].left
      <4>1. check[r].left \subseteq Transitions
        BY DEF GpsTypeOK
      <4>2. \A x \in check[r].left : x.off \in BOOLEAN /\ x = [bus |-> x.bus, off |-> x.off]
        BY <4>1 DEF Transitions
      <4>3. \A x \in check[r].left : x.bus = b /\ x.off => [bus |-> b, off |-> TRUE] \in check[r].left
        BY <4>2
      <4>4. \A x \in check[r].left : x.bus = b /\ ~x.off => [bus |-> b, off |-> FALSE] \in check[r].left
        BY <4>2
      <4>5. CASE against
        BY <2>3, <4>3, <4>5 DEF CheckWrites
      <4>6. CASE ~against
        <5>1. against = FALSE
          BY <4>6
        <5>2. ASSUME b \in silent, b \notin silent' PROVE \E x \in check[r].left : x.bus = b /\ ~x.off
          BY <2>3, <5>2 DEF CheckWrites
        <5>3. b \in silent /\ b \notin silent' => [bus |-> b, off |-> FALSE] \in check[r].left
          BY <4>4, <5>2
        <5>4. (b \in silent' <=> against) /\ ~((b \in silent <=> against)) => b \in silent /\ b \notin silent'
          BY <5>1
        <5> QED
          BY Zenon, <5>1, <5>3, <5>4
      <4> QED
        BY <4>5, <4>6
    <3>6. [bus |-> b, off |-> against] \in check[r].left => r \in Holding(b, against)
      BY <3>3 DEF Holding
    <3> QED
      BY <3>2, <3>3, <3>4, <3>5, <3>6 DEF BusFollows
  <2>4. ASSUME NEW r \in Checks, NEW c \in CheckRecords, c.pc # "write", check[r].pc # "idle" \/ c.pc = "idle",
               check' = [check EXCEPT ![r] = c], c.pc = "idle" <=> c.left = {}, silent' = silent
        PROVE  BusFollows(b, against)
    <3>1. /\ check'[r] = c /\ \A q \in Checks : q # r => check'[q] = check[q] /\ (Resting(q)' <=> Resting(q))
          /\ Resting(r) => Resting(r)'
      BY <2>4, RunMoves DEF Resting
    <3>2. Holding(b, against)' \subseteq Holding(b, against)
      BY <2>4, <3>1 DEF Holding
    <3> QED
      BY <2>4, <3>1, <3>2 DEF BusFollows
  <2>5. ASSUME NEW r \in Checks, CheckCounts(r) PROVE BusFollows(b, against)
    BY <2>4, <2>5, CountMoves DEF CheckCounts
  <2>6. ASSUME NEW r \in Checks, CheckDies(r) PROVE BusFollows(b, against)
    BY <2>4, <2>6, Rests DEF CheckDies
  <2>7. CASE ReconReads \/ ReconWrites
    BY <2>1, <2>7 DEF ReconReads, ReconWrites
  <2>8. ASSUME NEW c \in Buses, TripRow(c) \/ TripRedis(c) \/ TripRedisLost(c) \/ Ping(c) \/ BeatAges(c)
        PROVE  BusFollows(b, against)
    BY <2>1, <2>8 DEF TripRow, TripRedis, TripRedisLost, Ping, BeatAges, gpsRest
  <2> QED
    BY <2>2, <2>3, <2>5, <2>6, <2>7, <2>8 DEF GpsNext, CheckStep
<1> QED
  BY <1>1, GpsTypes, PTL DEF GpsSpec, MisledFade, BusFollows
=============================================================================
