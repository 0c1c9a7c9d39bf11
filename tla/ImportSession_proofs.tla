------------------------ MODULE ImportSession_proofs ------------------------
(* Rows tell the outcome of their import, for any rows and any calls.        *)
EXTENDS ImportSession, TLAPS

LEMMA DerivedTyped == Derived \in SessionStatus
  BY DEF Derived, SessionStatus

LEMMA BeginTyped ==
  ASSUME TypeOK, Begin
  PROVE  calls' \in 0..MaxCalls /\ alone' \in BOOLEAN
<1>1. calls' \in 0..MaxCalls
  BY BoundsKnown DEF TypeOK, Begin
<1>2. alone' \in BOOLEAN
  BY Zenon DEF TypeOK, Begin
<1> QED
  BY <1>1, <1>2

(* Records of executors: a field changes, the record stays one of them. *)
Records == [pc : {"idle", "reset", "mark", "read", "write", "fail", "count", "sync"},
            batch : [Rows -> Contents \cup {Nothing}],
            todo : SUBSET Rows, next : SessionStatus]

LEMMA ExecutorTyped ==
  ASSUME TypeOK, NEW x \in Executors, NEW e \in Records, executor' = [executor EXCEPT ![x] = e]
  PROVE  executor' \in [Executors -> Records]
  BY DEF TypeOK, Records

LEMMA PcTyped ==
  ASSUME TypeOK, NEW x \in Executors,
         NEW pc \in {"idle", "reset", "mark", "read", "write", "fail", "count", "sync"}, To(x, pc)
  PROVE  executor' \in [Executors -> Records]
<1>1. executor[x] \in Records
  BY DEF TypeOK, Records
<1>2. [executor[x] EXCEPT !.pc = pc] \in Records
  BY <1>1 DEF Records
<1>3. executor' = [executor EXCEPT ![x] = [executor[x] EXCEPT !.pc = pc]]
  BY DEF To
<1> QED
  BY <1>2, <1>3, ExecutorTyped

LEMMA IdleTyped == Idle \in Records
  BY DEF Idle, Records, NoBatch, SessionStatus

(* The last of some rows is one of them.                                     *)
LEMMA LastIsOne ==
  ASSUME NEW S \in SUBSET Rows, S # {}
  PROVE  LastOf(S) \in S
  BY RowsOrdered DEF LastOf

LEMMA CommitWrites ==
  ASSUME TypeOK, NEW x \in Executors, NEW p \in Phones, Writers(x, p) # {}
  PROVE  /\ LastOf(Writers(x, p)) \in Batch(x)
         /\ executor[x].batch[LastOf(Writers(x, p))] \in Contents
  <1>1. Writers(x, p) \subseteq Batch(x) /\ Batch(x) \subseteq Rows
    BY DEF Writers, Batch
  <1>2. LastOf(Writers(x, p)) \in Batch(x)
    BY <1>1, LastIsOne
  <1> QED
    BY <1>1, <1>2 DEF Batch, TypeOK

(* The types are invariant. *)
THEOREM TypeCorrect == Spec => []TypeOK
<1>1. Init => TypeOK
  BY BoundsKnown, IdleTyped DEF Init, SessionStatus, TypeOK, NoBatch, Records
<1> USE BoundsKnown DEF TypeOK, rowVars, histories, Records
<1>2. TypeOK /\ [Next]_vars => TypeOK'
  <2> SUFFICES ASSUME TypeOK, [Next]_vars PROVE TypeOK'
    OBVIOUS
  <2>1. ASSUME NEW x \in Executors, Execute(x) PROVE TypeOK'
    BY <2>1, BeginTyped, PcTyped DEF Execute
  <2>2. ASSUME NEW x \in Executors, Retry(x) PROVE TypeOK'
    BY <2>2, BeginTyped, PcTyped DEF Retry
  <2>3. ASSUME NEW x \in Executors, Reset(x) PROVE TypeOK'
    BY <2>3, PcTyped DEF Reset, Retried, Executing, Batch
  <2>4. ASSUME NEW x \in Executors, Mark(x) PROVE TypeOK'
    BY <2>4, PcTyped DEF Mark, SessionStatus
  <2>5. ASSUME NEW x \in Executors, ReadPending(x) PROVE TypeOK'
    <3> DEFINE rec == [executor[x] EXCEPT !.batch = [r \in Rows |-> IF status[r] = "PENDING" THEN content[r] ELSE Nothing],
                                       !.pc = IF With("PENDING") = {} THEN "count" ELSE "write"]
    <3>1. executor[x] \in Records
      OBVIOUS
    <3>2. rec \in Records
      BY <3>1, <2>5 DEF With
    <3>3. executor' = [executor EXCEPT ![x] = rec]
      BY <2>5 DEF ReadPending
    <3>4. executor' \in [Executors -> Records]
      BY <3>2, <3>3, ExecutorTyped
    <3> HIDE DEF rec
    <3> QED
      BY <2>5, <3>4 DEF ReadPending, With
  <2>6. ASSUME NEW x \in Executors, Commit(x) PROVE TypeOK'
    <3> DEFINE rec == [executor[x] EXCEPT !.pc = "count", !.batch = NoBatch]
    <3>1. executor[x] \in Records
      OBVIOUS
    <3>2. rec \in Records
      BY <3>1, <2>6 DEF Batch, NoBatch
    <3>3. executor' = [executor EXCEPT ![x] = rec]
      BY <2>6 DEF Commit
    <3>4. executor' \in [Executors -> Records]
      BY <3>2, <3>3, ExecutorTyped
    <3> HIDE DEF rec
    <3> QED
      BY <2>6, <3>4, CommitWrites DEF Commit, Batch
  <2>7. ASSUME NEW x \in Executors, RollBack(x) PROVE TypeOK'
    <3> DEFINE rec == [executor[x] EXCEPT !.pc = "fail", !.todo = Batch(x)]
    <3>1. executor[x] \in Records
      OBVIOUS
    <3>2. rec \in Records
      BY <3>1, <2>7 DEF Batch
    <3>3. executor' = [executor EXCEPT ![x] = rec]
      BY <2>7 DEF RollBack
    <3>4. executor' \in [Executors -> Records]
      BY <3>2, <3>3, ExecutorTyped
    <3> HIDE DEF rec
    <3> QED
      BY <2>7, <3>4 DEF RollBack, Batch
  <2>8. ASSUME NEW x \in Executors, NEW r \in Rows, FailRow(x, r) PROVE TypeOK'
    <3> DEFINE rec == [executor[x] EXCEPT !.todo = @ \ {r},
                                       !.pc = IF executor[x].todo = {r} THEN "count" ELSE "fail",
                                       !.batch = IF executor[x].todo = {r} THEN NoBatch ELSE @]
    <3>1. executor[x] \in Records
      OBVIOUS
    <3>2. rec \in Records
      BY <3>1, <2>8 DEF NoBatch
    <3>3. executor' = [executor EXCEPT ![x] = rec]
      BY <2>8 DEF FailRow
    <3>4. executor' \in [Executors -> Records]
      BY <3>2, <3>3, ExecutorTyped
    <3> HIDE DEF rec
    <3> QED
      BY <2>8, <3>4 DEF FailRow, NoBatch
  <2>9. ASSUME NEW x \in Executors, Count(x) PROVE TypeOK'
    <3> DEFINE rec == [executor[x] EXCEPT !.pc = "sync", !.next = Derived]
    <3>1. executor[x] \in Records
      OBVIOUS
    <3>2. rec \in Records
      BY <3>1, <2>9, DerivedTyped DEF SessionStatus
    <3>3. executor' = [executor EXCEPT ![x] = rec]
      BY <2>9 DEF Count
    <3>4. executor' \in [Executors -> Records]
      BY <3>2, <3>3, ExecutorTyped
    <3> HIDE DEF rec
    <3> QED
      BY <2>9, <3>4 DEF Count, SessionStatus
  <2>10. ASSUME NEW x \in Executors, Sync(x) PROVE TypeOK'
    BY <2>10, IdleTyped, ExecutorTyped DEF Sync
  <2>11. ASSUME NEW x \in Executors, Crash(x) PROVE TypeOK'
    <3>1. executor' \in [Executors -> Records]
      BY <2>11, IdleTyped, ExecutorTyped DEF Crash
    <3>2. crashes' \in 0..MaxCrashes
      BY <2>11 DEF Crash
    <3> QED
      BY <2>11, <3>1, <3>2 DEF Crash
  <2>12. ASSUME NEW e \in Editors, NEW r \in Rows, NEW c \in Contents, NEW valid \in BOOLEAN, Edit(e, r, c, valid) PROVE TypeOK'
    BY <2>12, BeginTyped DEF Edit
  <2>13. ASSUME NEW e \in Editors, EditCount(e) PROVE TypeOK'
    BY <2>13, DerivedTyped DEF EditCount
  <2>14. ASSUME NEW e \in Editors, EditSync(e) PROVE TypeOK'
    BY <2>14 DEF EditSync, SessionStatus
  <2>15. CASE UNCHANGED vars
    BY <2>15 DEF vars
  <2> QED
    BY <2>1, <2>2, <2>3, <2>4, <2>5, <2>6, <2>7, <2>8, <2>9, <2>10, <2>11, <2>12, <2>13, <2>14, <2>15 DEF Next, ExecutorStep, EditorStep
<1> QED
  BY <1>1, <1>2, PTL DEF Spec

(* An execution alone on a row, unedited, holds what the row still says; the *)
(* row is pending until the execution commits it or fails it.                *)
Holds(x, r) ==
  executor[x].batch[r] # Nothing =>
    /\ executor[x].pc \in {"write", "fail"}
    /\ executor[x].batch[r] = content[r]
    /\ r \notin committed
    /\ status[r] # "IMPORTED"
    /\ \A y \in Executors : y # x => executor[y].batch[r] = Nothing

RowInv ==
  /\ RowsTellOutcome
  /\ \A r \in Rows \ contended : \A x \in Executors : Holds(x, r)
  /\ \A x \in Executors : \A r \in executor[x].todo :
       executor[x].pc = "fail" /\ executor[x].batch[r] # Nothing

LEMMA ExecutingIs ==
  \A r \in Rows : r \in Executing <=> \E x \in Executors : executor[x].batch[r] # Nothing
  BY DEF Executing, Batch

(* What FailRow makes of its call.                                           *)
LEMMA FailRowCall ==
  ASSUME NEW x \in Executors, NEW r \in Rows, FailRow(x, r)
  PROVE  executor' = [executor EXCEPT ![x] =
           [executor[x] EXCEPT !.todo = executor[x].todo \ {r},
                               !.pc = IF executor[x].todo = {r} THEN "count" ELSE "fail",
                               !.batch = IF executor[x].todo = {r} THEN NoBatch ELSE executor[x].batch]]
BY DEF FailRow

LEMMA RowInductive == TypeOK /\ RowInv /\ [Next]_vars => RowInv'
<1> USE ContentsKnown, BoundsKnown DEF TypeOK, rowVars, histories, NoBatch, RowInv, RowsTellOutcome, Holds
<1> SUFFICES ASSUME TypeOK, RowInv, [Next]_vars PROVE RowInv'
  OBVIOUS
<1>1. ASSUME NEW x \in Executors, Execute(x) PROVE RowInv'
  BY <1>1 DEF Execute, Begin, To, Quiet
<1>2. ASSUME NEW x \in Executors, Retry(x) PROVE RowInv'
  BY <1>2 DEF Retry, Begin, To, Quiet
<1>3. ASSUME NEW x \in Executors, Reset(x) PROVE RowInv'
  BY <1>3, ExecutingIs DEF Reset, To, Retried
<1>4. ASSUME NEW x \in Executors, Mark(x) PROVE RowInv'
  BY <1>4 DEF Mark, To
<1>5. ASSUME NEW x \in Executors, ReadPending(x) PROVE RowInv'
  BY <1>5, ExecutingIs DEF ReadPending, With
<1>6. ASSUME NEW x \in Executors, Commit(x) PROVE RowInv'
  <2> DEFINE W(p) == Writers(x, p)
  <2>1. /\ executor'[x].batch = NoBatch /\ executor'[x].todo = executor[x].todo
        /\ \A y \in Executors : y # x => executor'[y] = executor[y]
        /\ status' = [r \in Rows |-> IF r \in Batch(x) THEN "IMPORTED" ELSE status[r]]
        /\ committed' = committed \cup Batch(x)
        /\ UNCHANGED <<content, contended>>
    BY <1>6 DEF Commit
  <2>2. ASSUME NEW r \in Rows \ contended PROVE status'[r] = "IMPORTED" <=> r \in committed'
    BY <2>1
  <2>3. ASSUME NEW r \in Rows \ contended, r \in committed'
        PROVE  /\ user'[content[r].phone] # Nothing
               /\ r \notin overwritten' => user'[content[r].phone] = content[r]
    <3> DEFINE p == content[r].phone
    <3>1. content[r] \in Contents /\ p \in Phones
      BY DEF Contents
    <3>2. r \in Batch(x) => executor[x].batch[r] = content[r] /\ r \in W(p)
      BY DEF Batch, Writers
    <3>3. user'[p] = (IF W(p) = {} THEN user[p] ELSE executor[x].batch[LastOf(W(p))])
      BY <1>6, <3>1 DEF Commit
    <3>4. r \in overwritten' <=> (IF W(p) = {} THEN r \in overwritten ELSE r # LastOf(W(p)))
      BY <1>6 DEF Commit
    <3>5. CASE W(p) = {}
      BY <2>1, <2>3, <3>2, <3>3, <3>4, <3>5
    <3>6. CASE W(p) # {}
      <4>1. LastOf(W(p)) \in Batch(x) /\ executor[x].batch[LastOf(W(p))] \in Contents
        BY <3>1, <3>6, CommitWrites
      <4>2. user'[p] = executor[x].batch[LastOf(W(p))] /\ (r \notin overwritten' => r = LastOf(W(p)))
        <5> HIDE DEF W, p
        <5> QED
          BY <3>3, <3>4, <3>6
      <4>3. user'[p] # Nothing
        BY <4>1, <4>2
      <4>4. r = LastOf(W(p)) => executor[x].batch[LastOf(W(p))] = content[r]
        BY <3>2, <4>1
      <4> HIDE DEF W
      <4> QED
        BY <4>2, <4>3, <4>4
    <3> QED
      BY <3>5, <3>6
  <2>4. RowsTellOutcome'
    BY <2>1, <2>2, <2>3
  <2>5. ASSUME NEW r \in Rows \ contended, NEW y \in Executors PROVE Holds(y, r)'
    BY <2>1 DEF Batch
  <2>6. ASSUME NEW y \in Executors, NEW r \in executor'[y].todo
        PROVE  executor'[y].pc = "fail" /\ executor'[y].batch[r] # Nothing
    <3>1. executor[x].todo = {}
      BY <1>6 DEF Commit
    <3> QED
      BY <2>1, <3>1
  <2> QED
    BY <2>1, <2>4, <2>5, <2>6
<1>7. ASSUME NEW x \in Executors, RollBack(x) PROVE RowInv'
  BY <1>7 DEF RollBack, Batch
<1>8. ASSUME NEW x \in Executors, NEW r \in Rows, FailRow(x, r) PROVE RowInv'
  <2> DEFINE rec == [executor[x] EXCEPT !.todo = @ \ {r},
                                        !.pc = IF executor[x].todo = {r} THEN "count" ELSE "fail",
                                        !.batch = IF executor[x].todo = {r} THEN NoBatch ELSE @]
  <2>0. executor' = [executor EXCEPT ![x] = rec]
    BY <1>8, FailRowCall
  <2>a. /\ executor'[x] = rec
        /\ \A y \in Executors : y # x => executor'[y] = executor[y]
    BY <2>0
  <2>b. /\ rec.todo = executor[x].todo \ {r}
        /\ \/ rec.batch = executor[x].batch /\ rec.pc = "fail"
           \/ rec.batch = NoBatch /\ executor[x].todo = {r}
    OBVIOUS
  <2>1. /\ executor[x].pc = "fail" /\ r \in executor[x].todo
        /\ \A y \in Executors : y # x => executor'[y] = executor[y]
        /\ executor'[x].todo = executor[x].todo \ {r}
        /\ \/ executor'[x].batch = executor[x].batch /\ executor'[x].pc = "fail"
           \/ executor'[x].batch = NoBatch /\ executor[x].todo = {r}
    <3> HIDE DEF rec
    <3> QED
      BY <1>8, <2>a, <2>b DEF FailRow
  <2>2. /\ status' = [status EXCEPT ![r] = "FAILED"]
        /\ UNCHANGED <<content, user, committed, contended, overwritten>>
    BY <1>8 DEF FailRow
  <2> HIDE DEF rec
  <2>3. RowsTellOutcome'
    BY <2>1, <2>2
  <2>4. ASSUME NEW q \in Rows \ contended', NEW y \in Executors PROVE Holds(y, q)'
    <3>1. CASE y = x
      BY <2>1, <2>2, <3>1
    <3>2. CASE y # x
      <4>1. \A z \in Executors : executor'[z].batch[q] \in {executor[z].batch[q], Nothing}
        BY <2>1
      <4>2. executor'[y] = executor[y] /\ Holds(y, q)
        BY <2>1, <2>2, <3>2
      <4>3. executor[y].batch[q] # Nothing =>
              status'[q] # "IMPORTED" /\ q \notin committed' /\ content'[q] = content[q]
        BY <2>2, <4>2
      <4> QED
        BY <4>1, <4>2, <4>3
    <3> QED
      BY <3>1, <3>2
  <2>5. ASSUME NEW y \in Executors, NEW q \in executor'[y].todo
        PROVE  executor'[y].pc = "fail" /\ executor'[y].batch[q] # Nothing
    BY <2>1
  <2> QED
    BY <2>3, <2>4, <2>5
<1>9. ASSUME NEW x \in Executors, Count(x) PROVE RowInv'
  BY <1>9 DEF Count
<1>10. ASSUME NEW x \in Executors, Sync(x) PROVE RowInv'
  BY <1>10 DEF Sync, Idle
<1>11. ASSUME NEW x \in Executors, Crash(x) PROVE RowInv'
  BY <1>11 DEF Crash, Idle
<1>12. ASSUME NEW e \in Editors, NEW r \in Rows, NEW c \in Contents, NEW valid \in BOOLEAN, Edit(e, r, c, valid) PROVE RowInv'
  BY <1>12, ExecutingIs DEF Edit, Begin
<1>13. ASSUME NEW e \in Editors, EditCount(e) PROVE RowInv'
  BY <1>13 DEF EditCount
<1>14. ASSUME NEW e \in Editors, EditSync(e) PROVE RowInv'
  BY <1>14 DEF EditSync
<1>15. CASE UNCHANGED vars
  BY <1>15 DEF vars
<1> QED
  BY <1>1, <1>2, <1>3, <1>4, <1>5, <1>6, <1>7, <1>8, <1>9, <1>10, <1>11, <1>12, <1>13, <1>14, <1>15 DEF Next, ExecutorStep, EditorStep

THEOREM RowInvariant == Spec => []RowInv
<1>1. Init => RowInv
  BY DEF Init, RowInv, RowsTellOutcome, Holds, Idle, NoBatch
<1> QED
  BY <1>1, RowInductive, TypeCorrect, PTL DEF Spec

(* All or nothing, row by row. *)
THEOREM RowsTell == Spec => []RowsTellOutcome
<1>1. RowInv => RowsTellOutcome
  BY DEF RowInv
<1> QED
  BY <1>1, RowInvariant, PTL

-----------------------------------------------------------------------------
(* While no calls have overlapped and none has crashed, one call at most is in *)
(* flight, and what it is about to write of the rows is what they are.        *)
OneCall ==
  /\ \A x, y \in Executors : executor[x].pc # "idle" /\ executor[y].pc # "idle" => x = y
  /\ \A e, f \in Editors : editor[e].pc # "idle" /\ editor[f].pc # "idle" => e = f
  /\ \A x \in Executors, e \in Editors : executor[x].pc = "idle" \/ editor[e].pc = "idle"

StatusInv ==
  /\ calls \in Nat
  /\ alone => /\ OneCall
              /\ \A x \in Executors : executor[x].pc = "sync" => executor[x].next = Derived
              /\ \A e \in Editors : editor[e].pc = "sync" => editor[e].next = Derived
  /\ StatusAgrees

LEMMA DerivedKept == status' = status => Derived' = Derived
  BY DEF Derived, With

(* A call begins: alone only if it is the first in flight.                     *)
LEMMA BeginAlone ==
  ASSUME StatusInv, Begin
  PROVE  /\ calls' \in Nat /\ calls' > 0
         /\ alone' => /\ alone
                      /\ \A x \in Executors : executor[x].pc = "idle"
                      /\ \A e \in Editors : editor[e].pc = "idle"
<1>1. calls' \in Nat /\ calls' > 0
  BY DEF Begin, StatusInv
<1>2. alone' => alone /\ Quiet
  BY Zenon DEF Begin
<1> QED
  BY <1>1, <1>2 DEF Quiet

(* A call goes on, from a place in flight to another: what it will write was   *)
(* derived in this step or the rows stay as they are.                         *)
LEMMA ExecutorGoesOn ==
  ASSUME TypeOK, StatusInv, NEW x \in Executors, executor[x].pc # "idle",
         NEW rec, executor' = [executor EXCEPT ![x] = rec], rec.pc # "idle",
         rec.pc = "sync" => rec.next = Derived',
         UNCHANGED <<editor, calls, alone>>
  PROVE  StatusInv'
<1>1. executor'[x] = rec /\ \A y \in Executors : y # x => executor'[y] = executor[y]
  BY DEF TypeOK
<1>2. calls' \in Nat
  BY DEF StatusInv
<1>3. ~Quiet'
  BY <1>1 DEF Quiet
<1>4. ASSUME alone' PROVE OneCall' /\ (\A y \in Executors : executor'[y].pc = "sync" => executor'[y].next = Derived')
                          /\ (\A e \in Editors : editor'[e].pc = "sync" => editor'[e].next = Derived')
  <2>1. OneCall
    BY <1>4 DEF StatusInv
  <2>2. /\ \A y \in Executors : y # x => executor[y].pc = "idle"
        /\ \A e \in Editors : editor[e].pc = "idle"
    BY <2>1 DEF OneCall
  <2> QED
    BY <1>1, <2>2 DEF OneCall
<1> QED
  BY <1>2, <1>3, <1>4 DEF StatusInv, StatusAgrees

LEMMA StatusInductive == TypeOK /\ StatusInv /\ [Next]_vars => StatusInv'
<1> SUFFICES ASSUME TypeOK, StatusInv, [Next]_vars PROVE StatusInv'
  OBVIOUS
<1> USE DEF rowVars, histories
<1>1. ASSUME NEW x \in Executors, Execute(x) \/ Retry(x) PROVE StatusInv'
  <2>1. PICK pc \in {"mark", "reset"} : To(x, pc)
    BY <1>1 DEF Execute, Retry
  <2>2. Begin /\ UNCHANGED <<status, editor>>
    BY <1>1 DEF Execute, Retry
  <2>3. executor'[x].pc = pc /\ \A y \in Executors : y # x => executor'[y] = executor[y]
    BY <2>1 DEF To, TypeOK
  <2>4. ~Quiet'
    BY <2>3 DEF Quiet
  <2>5. alone' => /\ \A y \in Executors : y # x => executor'[y].pc = "idle"
                  /\ \A e \in Editors : editor'[e].pc = "idle"
    BY <2>2, <2>3, BeginAlone
  <2> QED
    BY <2>2, <2>3, <2>4, <2>5, BeginAlone DEF StatusInv, StatusAgrees, OneCall
<1>2. ASSUME NEW x \in Executors, Reset(x) \/ Mark(x) \/ ReadPending(x) \/ Commit(x) \/ RollBack(x) \/ Count(x)
             \/ \E r \in Rows : FailRow(x, r)
      PROVE StatusInv'
  <2>0. executor[x] \in Records
    BY DEF TypeOK, Records
  <2>1. executor[x].pc # "idle" /\ UNCHANGED <<editor, calls, alone>>
    BY <1>2 DEF Reset, Mark, ReadPending, Commit, RollBack, Count, FailRow
  <2>2. CASE Reset(x) \/ Mark(x)
    <3>1. PICK pc \in {"mark", "read"} : executor' = [executor EXCEPT ![x] = [executor[x] EXCEPT !.pc = pc]]
      BY <2>2 DEF Reset, Mark, To
    <3>2. [executor[x] EXCEPT !.pc = pc].pc = pc
      BY <2>0 DEF Records
    <3> QED
      BY <2>1, <3>1, <3>2, ExecutorGoesOn
  <2>3. CASE ReadPending(x)
    <3> DEFINE rec == [executor[x] EXCEPT
                         !.batch = [r \in Rows |-> IF status[r] = "PENDING" THEN content[r] ELSE Nothing],
                         !.pc = IF With("PENDING") = {} THEN "count" ELSE "write"]
    <3>1. executor' = [executor EXCEPT ![x] = rec]
      BY <2>3 DEF ReadPending
    <3>2. rec.pc \in {"count", "write"}
      BY <2>0 DEF Records
    <3> HIDE DEF rec
    <3> QED
      BY <2>1, <3>1, <3>2, ExecutorGoesOn
  <2>4. CASE Commit(x)
    <3> DEFINE rec == [executor[x] EXCEPT !.pc = "count", !.batch = NoBatch]
    <3>1. executor' = [executor EXCEPT ![x] = rec]
      BY <2>4 DEF Commit
    <3>2. rec.pc = "count"
      BY <2>0 DEF Records
    <3> HIDE DEF rec
    <3> QED
      BY <2>1, <3>1, <3>2, ExecutorGoesOn
  <2>5. CASE RollBack(x)
    <3> DEFINE rec == [executor[x] EXCEPT !.pc = "fail", !.todo = Batch(x)]
    <3>1. executor' = [executor EXCEPT ![x] = rec]
      BY <2>5 DEF RollBack
    <3>2. rec.pc = "fail"
      BY <2>0 DEF Records
    <3> HIDE DEF rec
    <3> QED
      BY <2>1, <3>1, <3>2, ExecutorGoesOn
  <2>6. CASE Count(x)
    <3> DEFINE rec == [executor[x] EXCEPT !.pc = "sync", !.next = Derived]
    <3>1. executor' = [executor EXCEPT ![x] = rec] /\ status' = status
      BY <2>6 DEF Count
    <3>2. rec.pc = "sync" /\ rec.next = Derived
      BY <2>0 DEF Records
    <3>3. Derived' = Derived
      BY <3>1, DerivedKept
    <3> HIDE DEF rec
    <3> QED
      BY <2>1, <3>1, <3>2, <3>3, ExecutorGoesOn
  <2>7. ASSUME NEW r \in Rows, FailRow(x, r) PROVE StatusInv'
    <3> DEFINE rec == [executor[x] EXCEPT !.todo = executor[x].todo \ {r},
                                          !.pc = IF executor[x].todo = {r} THEN "count" ELSE "fail",
                                          !.batch = IF executor[x].todo = {r} THEN NoBatch ELSE executor[x].batch]
    <3>1. executor' = [executor EXCEPT ![x] = rec]
      BY <2>7 DEF FailRow
    <3>2. rec.pc \in {"count", "fail"}
      BY <2>0 DEF Records
    <3> HIDE DEF rec
    <3> QED
      BY <2>1, <3>1, <3>2, ExecutorGoesOn
  <2> QED
    BY <1>2, <2>2, <2>3, <2>4, <2>5, <2>6, <2>7
<1>3. ASSUME NEW x \in Executors, Sync(x) PROVE StatusInv'
  <2>1. /\ executor'[x].pc = "idle" /\ \A y \in Executors : y # x => executor'[y] = executor[y]
        /\ executor[x].pc = "sync" /\ session' = executor[x].next
        /\ UNCHANGED <<status, editor, calls, alone>>
    BY <1>3 DEF Sync, Idle, TypeOK
  <2>2. Derived' = Derived
    BY <2>1, DerivedKept
  <2>3. alone => session' = Derived'
    BY <2>1, <2>2 DEF StatusInv
  <2> QED
    BY <2>1, <2>2, <2>3 DEF StatusInv, StatusAgrees, OneCall
<1>4. ASSUME NEW x \in Executors, Crash(x) PROVE StatusInv'
  BY <1>4 DEF Crash, StatusInv, StatusAgrees
<1>5. ASSUME NEW e \in Editors, NEW r \in Rows, NEW c \in Contents, NEW valid \in BOOLEAN, Edit(e, r, c, valid)
      PROVE StatusInv'
  <2>1. /\ Begin /\ executor' = executor /\ editor'[e].pc = "count"
        /\ \A f \in Editors : f # e => editor'[f] = editor[f]
    BY <1>5 DEF Edit, TypeOK
  <2>2. ~Quiet'
    BY <2>1 DEF Quiet
  <2>3. alone' => /\ \A x \in Executors : executor'[x].pc = "idle"
                  /\ \A f \in Editors : f # e => editor'[f].pc = "idle"
    BY <2>1, BeginAlone
  <2> QED
    BY <2>1, <2>2, <2>3, BeginAlone DEF StatusInv, StatusAgrees, OneCall
<1>6. ASSUME NEW e \in Editors, EditCount(e) PROVE StatusInv'
  <2>1. /\ editor'[e] = [pc |-> "sync", next |-> Derived] /\ editor[e].pc = "count"
        /\ \A f \in Editors : f # e => editor'[f] = editor[f]
        /\ UNCHANGED <<status, executor, calls, alone>>
    BY <1>6 DEF EditCount, TypeOK
  <2>2. Derived' = Derived
    BY <2>1, DerivedKept
  <2>3. ~Quiet'
    BY <2>1 DEF Quiet
  <2> QED
    BY <2>1, <2>2, <2>3 DEF StatusInv, StatusAgrees, OneCall
<1>7. ASSUME NEW e \in Editors, EditSync(e) PROVE StatusInv'
  <2>1. /\ editor'[e].pc = "idle" /\ editor[e].pc = "sync" /\ session' = editor[e].next
        /\ \A f \in Editors : f # e => editor'[f] = editor[f]
        /\ UNCHANGED <<status, executor, calls, alone>>
    BY <1>7 DEF EditSync, TypeOK
  <2>2. Derived' = Derived
    BY <2>1, DerivedKept
  <2>3. alone => session' = Derived'
    BY <2>1, <2>2 DEF StatusInv
  <2> QED
    BY <2>1, <2>2, <2>3 DEF StatusInv, StatusAgrees, OneCall
<1>8. CASE UNCHANGED vars
  BY <1>8 DEF vars, StatusInv, StatusAgrees, OneCall, Derived, With, Quiet
<1> QED
  BY <1>1, <1>2, <1>3, <1>4, <1>5, <1>6, <1>7, <1>8 DEF Next, ExecutorStep, EditorStep

(* Once a first call has ended, calls that never overlapped or crashed have     *)
(* left the session with the status its rows call for.                        *)
THEOREM StatusTells == Spec => []StatusAgrees
<1>1. Init => StatusInv
  BY DEF Init, StatusInv, StatusAgrees, OneCall, Idle
<1>2. StatusInv => StatusAgrees
  BY DEF StatusInv
<1> QED
  BY <1>1, <1>2, StatusInductive, TypeCorrect, PTL DEF Spec

-----------------------------------------------------------------------------
(* No call writes IMPORTING at its end, so only a call on its way makes it so. *)
ServedInv ==
  /\ ImportingIsServed
  /\ \A x \in Executors : executor[x].pc = "sync" => executor[x].next # "IMPORTING"
  /\ \A e \in Editors : editor[e].pc = "sync" => editor[e].next # "IMPORTING"

LEMMA DerivedIsFinal == Derived # "IMPORTING"
  BY DEF Derived

(* A call goes on to one of its later places.                                  *)
LEMMA CallGoesOn ==
  ASSUME TypeOK, ServedInv, NEW x \in Executors, executor[x].pc # "idle",
         NEW rec, executor' = [executor EXCEPT ![x] = rec], UNCHANGED <<editor, crashes>>,
         \/ session' = session /\ (executor[x].pc \in Serving => rec.pc \in Serving)
         \/ session' = "IMPORTING" /\ rec.pc \in Serving
         \/ session' # "IMPORTING",
         rec.pc = "write" => \E r \in Rows : rec.batch[r] # Nothing,
         rec.pc = "fail" => \E r \in Rows : r \in rec.todo,
         rec.pc = "sync" => rec.next # "IMPORTING"
  PROVE  ServedInv'
<1>1. executor'[x] = rec /\ \A y \in Executors : y # x => executor'[y] = executor[y]
  BY DEF TypeOK
<1>2. session' = "IMPORTING" /\ crashes' = 0 => \E y \in Executors : executor'[y].pc \in Serving
  BY <1>1 DEF ServedInv, ImportingIsServed
<1> QED
  BY <1>1, <1>2 DEF ServedInv, ImportingIsServed, Batch

LEMMA ServedKept ==
  ASSUME TypeOK, ServedInv, [Next]_vars
  PROVE  ServedInv'
<1> USE DEF rowVars, histories
<1>1. ASSUME NEW x \in Executors, Execute(x) \/ Retry(x) PROVE ServedInv'
  <2>1. PICK pc \in {"mark", "reset"} : To(x, pc)
    BY <1>1 DEF Execute, Retry
  <2>2. /\ executor[x].pc = "idle" /\ executor'[x].pc = pc
        /\ \A y \in Executors : y # x => executor'[y] = executor[y]
    BY <1>1, <2>1 DEF To, TypeOK, Execute, Retry
  <2>3. UNCHANGED <<session, editor, crashes>>
    BY <1>1 DEF Execute, Retry
  <2> QED
    BY <2>2, <2>3 DEF ServedInv, ImportingIsServed, Serving, Batch
<1>2. ASSUME NEW x \in Executors, ExecutorStep(x) PROVE ServedInv'
  <2>0. executor[x] \in Records /\ executor[x].pc # "idle" /\ UNCHANGED <<editor, crashes>>
    <3>1. executor[x] \in Records
      BY DEF TypeOK, Records
    <3>2. CASE Reset(x) \/ Mark(x) \/ ReadPending(x) \/ Commit(x) \/ RollBack(x) \/ Count(x)
               \/ \E r \in Rows : FailRow(x, r)
      <4>1. executor[x].pc # "idle" /\ UNCHANGED <<editor, crashes>>
        BY <3>2 DEF Reset, Mark, ReadPending, Commit, RollBack, Count, FailRow
      <4> QED
        BY <3>1, <4>1
    <3>3. CASE Sync(x)
      BY <3>1, <3>3 DEF Sync
    <3> QED
      BY <1>2, <3>2, <3>3 DEF ExecutorStep
  <2>1. CASE Reset(x) \/ Mark(x)
    <3>1. PICK pc \in {"mark", "read"} :
            /\ executor' = [executor EXCEPT ![x] = [executor[x] EXCEPT !.pc = pc]]
            /\ \/ pc = "mark" /\ session' = session /\ executor[x].pc = "reset"
               \/ pc = "read" /\ session' = "IMPORTING"
      BY <2>1 DEF Reset, Mark, To
    <3>2. [executor[x] EXCEPT !.pc = pc].pc = pc
      BY <2>0 DEF Records
    <3> QED
      BY <2>0, <3>1, <3>2, CallGoesOn DEF Serving
  <2>2. CASE ReadPending(x)
    <3> DEFINE batch == [r \in Rows |-> IF status[r] = "PENDING" THEN content[r] ELSE Nothing]
               rec == [executor[x] EXCEPT !.batch = batch, !.pc = IF With("PENDING") = {} THEN "count" ELSE "write"]
    <3>1. executor' = [executor EXCEPT ![x] = rec] /\ session' = session
      BY <2>2 DEF ReadPending
    <3>2. rec.pc \in {"count", "write"} /\ rec.batch = batch /\ (rec.pc = "write" => With("PENDING") # {})
      BY <2>0 DEF Records
    <3>3. With("PENDING") # {} => \E r \in Rows : batch[r] # Nothing
      BY ContentsKnown DEF With, TypeOK
    <3> HIDE DEF rec, batch
    <3> QED
      BY <2>0, <3>1, <3>2, <3>3, CallGoesOn DEF Serving
  <2>3. CASE Commit(x)
    <3> DEFINE rec == [executor[x] EXCEPT !.pc = "count", !.batch = NoBatch]
    <3>1. executor' = [executor EXCEPT ![x] = rec] /\ session' = session
      BY <2>3 DEF Commit
    <3>2. rec.pc = "count"
      BY <2>0 DEF Records
    <3> HIDE DEF rec
    <3> QED
      BY <2>0, <3>1, <3>2, CallGoesOn DEF Serving
  <2>4. CASE RollBack(x)
    <3> DEFINE rec == [executor[x] EXCEPT !.pc = "fail", !.todo = Batch(x)]
    <3>1. executor' = [executor EXCEPT ![x] = rec] /\ session' = session /\ Batch(x) # {}
      BY <2>4 DEF RollBack, ServedInv, ImportingIsServed
    <3>2. rec.pc = "fail" /\ \E r \in Rows : r \in rec.todo
      BY <2>0, <3>1 DEF Records, Batch
    <3> HIDE DEF rec
    <3> QED
      BY <2>0, <3>1, <3>2, CallGoesOn DEF Serving
  <2>5. ASSUME NEW r \in Rows, FailRow(x, r) PROVE ServedInv'
    <3> DEFINE rec == [executor[x] EXCEPT !.todo = executor[x].todo \ {r},
                                          !.pc = IF executor[x].todo = {r} THEN "count" ELSE "fail",
                                          !.batch = IF executor[x].todo = {r} THEN NoBatch ELSE executor[x].batch]
    <3>1. executor' = [executor EXCEPT ![x] = rec] /\ session' = session /\ r \in executor[x].todo
      BY <2>5 DEF FailRow
    <3>2. /\ rec.pc \in {"count", "fail"} /\ rec.todo = executor[x].todo \ {r}
          /\ rec.pc = "fail" => executor[x].todo # {r}
      BY <2>0 DEF Records
    <3>3. rec.pc = "fail" => \E q \in Rows : q \in rec.todo
      BY <2>0, <3>1, <3>2 DEF Records
    <3> HIDE DEF rec
    <3> QED
      BY <2>0, <3>1, <3>2, <3>3, CallGoesOn DEF Serving
  <2>6. CASE Count(x)
    <3> DEFINE rec == [executor[x] EXCEPT !.pc = "sync", !.next = Derived]
    <3>1. executor' = [executor EXCEPT ![x] = rec] /\ session' = session
      BY <2>6 DEF Count
    <3>2. rec.pc = "sync" /\ rec.next = Derived
      BY <2>0 DEF Records
    <3> HIDE DEF rec
    <3> QED
      BY <2>0, <3>1, <3>2, DerivedIsFinal, CallGoesOn DEF Serving
  <2>7. CASE Sync(x)
    <3>1. executor' = [executor EXCEPT ![x] = Idle] /\ session' # "IMPORTING"
      BY <2>7 DEF Sync, ServedInv
    <3> QED
      BY <2>0, <3>1, CallGoesOn DEF Idle
  <2> QED
    BY <1>2, <2>1, <2>2, <2>3, <2>4, <2>5, <2>6, <2>7 DEF ExecutorStep
<1>3. ASSUME NEW x \in Executors, Crash(x) PROVE ServedInv'
  <2>1. crashes' # 0 /\ executor' = [executor EXCEPT ![x] = Idle] /\ editor' = editor
    BY <1>3, BoundsKnown DEF Crash, TypeOK
  <2> QED
    BY <2>1 DEF ServedInv, ImportingIsServed, Batch, Idle, TypeOK
<1>4. ASSUME NEW e \in Editors, NEW r \in Rows, NEW c \in Contents, NEW valid \in BOOLEAN, Edit(e, r, c, valid)
      PROVE  ServedInv'
  BY <1>4 DEF Edit, ServedInv, ImportingIsServed, Batch, TypeOK
<1>5. ASSUME NEW e \in Editors, EditCount(e) PROVE ServedInv'
  BY <1>5, DerivedIsFinal DEF EditCount, ServedInv, ImportingIsServed, Batch, TypeOK
<1>6. ASSUME NEW e \in Editors, EditSync(e) PROVE ServedInv'
  BY <1>6 DEF EditSync, ServedInv, ImportingIsServed, Batch, TypeOK
<1>7. CASE UNCHANGED vars
  BY <1>7 DEF vars, ServedInv, ImportingIsServed, Batch
<1> QED
  BY <1>1, <1>2, <1>3, <1>4, <1>5, <1>6, <1>7 DEF Next, EditorStep

(* For any rows and calls: an IMPORTING session has a call in flight that will  *)
(* derive another status, which no call's lack of rows can hold up.            *)
THEOREM Served == Spec => []ImportingIsServed
<1>1. Init => ServedInv
  BY DEF Init, ServedInv, ImportingIsServed, Idle
<1>2. ServedInv => ImportingIsServed
  BY DEF ServedInv
<1> QED
  BY <1>1, <1>2, ServedKept, TypeCorrect, PTL DEF Spec
=============================================================================
