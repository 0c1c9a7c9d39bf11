---------------------------- MODULE ImportSession ----------------------------
(***************************************************************************)
(* One bulk import of students: the session row, its import rows, and the   *)
(* users they become.                                                      *)
(*                                                                         *)
(*   modules/import/import.service.ts     execute, retry, edit a row        *)
(*   modules/import/import.repository.ts  the statements they run           *)
(*                                                                         *)
(* An execution checks the session, marks it IMPORTING, reads the pending   *)
(* rows, writes all of them in one transaction (or marks them FAILED one by *)
(* one), and derives the session's status from the counts of its rows.     *)
(* A row names a phone and says something of its student; nothing refuses   *)
(* two rows of one phone, and users are upserted by phone.  Whether a row is *)
(* valid, and whether a transaction succeeds, is not determined here.       *)
(***************************************************************************)
EXTENDS Integers, FiniteSets

CONSTANTS
  Rows,        \* import rows of the session, by rowNumber
  Phones, Says, \* whom a row may name, and what it may say
  Nothing,
  Executors,   \* concurrent calls of execute and retry
  Editors,     \* concurrent calls of updateImportRow
  MaxCalls,    \* bound: calls begun
  MaxCrashes   \* bound: executions cut short by a restart

Contents == [phone : Phones, says : Says]

ASSUME ContentsKnown == Nothing \notin Contents
ASSUME RowsOrdered ==
  Rows \subseteq Nat /\ \A S \in SUBSET Rows : S # {} => \E r \in S : \A q \in S : q <= r
ASSUME BoundsKnown == MaxCalls \in Nat /\ MaxCrashes \in Nat

VARIABLES
  session,    \* import_sessions.status
  status, field, content,  \* import_rows: status, errorField, rowData
  user,       \* users by phone: what each was last written from, or Nothing
  executor, editor,        \* calls in flight
  calls, crashes,          \* bounded counters
  committed,  \* history: rows written to users since they were last reset or edited
  contended,  \* history: rows edited, or read by a second call, during an execution
  overwritten, \* history: rows whose phone's user was last written from another row
  alone       \* history: no two calls have overlapped and none has crashed

rowVars == <<status, field, content, user>>
histories == <<committed, contended, overwritten, alone>>
vars == <<session, rowVars, executor, editor, calls, crashes, histories>>

SessionStatus == {"READY_TO_IMPORT", "VALIDATED_WITH_ERRORS", "IMPORTING", "DONE", "DONE_WITH_ERRORS"}
NoBatch == [r \in Rows |-> Nothing]
Idle == [pc |-> "idle", batch |-> NoBatch, todo |-> {}, next |-> "IMPORTING"]

TypeOK ==
  /\ session \in SessionStatus
  /\ status \in [Rows -> {"PENDING", "IMPORTED", "FAILED"}]
  /\ field \in [Rows -> {"none", "VALIDATION", "EXECUTION"}]
  /\ content \in [Rows -> Contents]
  /\ user \in [Phones -> Contents \cup {Nothing}]
  /\ executor \in [Executors -> [pc : {"idle", "reset", "mark", "read", "write", "fail", "count", "sync"},
                                 batch : [Rows -> Contents \cup {Nothing}],
                                 todo : SUBSET Rows, next : SessionStatus]]
  /\ editor \in [Editors -> [pc : {"idle", "count", "sync"}, next : SessionStatus]]
  /\ calls \in 0..MaxCalls /\ crashes \in 0..MaxCrashes
  /\ committed \subseteq Rows /\ contended \subseteq Rows /\ overwritten \subseteq Rows
  /\ alone \in BOOLEAN

With(s) == {r \in Rows : status[r] = s}

(* The status that syncSessionState writes.                                 *)
Derived ==
  CASE With("PENDING") # {} /\ With("FAILED") # {} -> "VALIDATED_WITH_ERRORS"
    [] With("PENDING") # {} /\ With("FAILED") = {} -> "READY_TO_IMPORT"
    [] With("PENDING") = {} /\ With("FAILED") # {} -> "DONE_WITH_ERRORS"
    [] OTHER -> "DONE"

(* validateBulkStudents has created the session and its rows.               *)
Init ==
  /\ \E invalid \in SUBSET Rows :
       /\ status = [r \in Rows |-> IF r \in invalid THEN "FAILED" ELSE "PENDING"]
       /\ field = [r \in Rows |-> IF r \in invalid THEN "VALIDATION" ELSE "none"]
       /\ session = IF invalid = {} THEN "READY_TO_IMPORT" ELSE "VALIDATED_WITH_ERRORS"
  /\ content \in [Rows -> Contents]
  /\ user = [p \in Phones |-> Nothing]
  /\ executor = [x \in Executors |-> Idle]
  /\ editor = [e \in Editors |-> [pc |-> "idle", next |-> "IMPORTING"]]
  /\ calls = 0 /\ crashes = 0
  /\ committed = {} /\ contended = {} /\ overwritten = {}
  /\ alone = TRUE

Quiet == /\ \A x \in Executors : executor[x].pc = "idle"
         /\ \A e \in Editors : editor[e].pc = "idle"
Begin == calls < MaxCalls /\ calls' = calls + 1 /\ alone' = (alone /\ Quiet)
Batch(x) == {r \in Rows : executor[x].batch[r] # Nothing}
Executing == UNION {Batch(x) : x \in Executors}
To(x, pc) == executor' = [executor EXCEPT ![x].pc = pc]

-----------------------------------------------------------------------------
(* executeImportSession: only the status read first is checked.             *)
Execute(x) ==
  /\ executor[x].pc = "idle"
  /\ session \in {"READY_TO_IMPORT", "VALIDATED_WITH_ERRORS", "DONE_WITH_ERRORS"}
  /\ Begin
  /\ To(x, "mark")
  /\ UNCHANGED <<session, rowVars, editor, crashes, committed, contended, overwritten>>

(* retryFailedRows: whatever the session's status, if some row failed in an *)
(* execution; those that have by the next statement become pending again.   *)
Retry(x) ==
  /\ executor[x].pc = "idle"
  /\ \E r \in Rows : status[r] = "FAILED" /\ field[r] = "EXECUTION"
  /\ Begin
  /\ To(x, "reset")
  /\ UNCHANGED <<session, rowVars, editor, crashes, committed, contended, overwritten>>

Retried == {r \in Rows : status[r] = "FAILED" /\ field[r] = "EXECUTION"}
Reset(x) ==
  /\ executor[x].pc = "reset"
  /\ status' = [r \in Rows |-> IF r \in Retried THEN "PENDING" ELSE status[r]]
  /\ field' = [r \in Rows |-> IF r \in Retried THEN "none" ELSE field[r]]
  /\ committed' = committed \ Retried
  /\ contended' = contended \cup (Retried \cap Executing)
  /\ To(x, "mark")
  /\ UNCHANGED <<session, content, user, editor, calls, crashes, overwritten, alone>>

Mark(x) ==
  /\ executor[x].pc = "mark"
  /\ session' = "IMPORTING"
  /\ To(x, "read")
  /\ UNCHANGED <<rowVars, editor, calls, crashes, histories>>

(* Mutant: nothing pending, nothing to do.                                   *)
ReadPendingReturns(x) ==
  /\ executor[x].pc = "read"
  /\ executor' = [executor EXCEPT ![x].batch = [r \in Rows |-> IF status[r] = "PENDING" THEN content[r] ELSE Nothing],
                                  ![x].pc = IF With("PENDING") = {} THEN "idle" ELSE "write"]
  /\ contended' = contended \cup (With("PENDING") \cap Executing)
  /\ UNCHANGED <<session, rowVars, editor, calls, crashes, committed, overwritten, alone>>

ReadPending(x) ==
  /\ executor[x].pc = "read"
  /\ executor' = [executor EXCEPT ![x].batch = [r \in Rows |-> IF status[r] = "PENDING" THEN content[r] ELSE Nothing],
                                  ![x].pc = IF With("PENDING") = {} THEN "count" ELSE "write"]
  /\ contended' = contended \cup (With("PENDING") \cap Executing)
  /\ UNCHANGED <<session, rowVars, editor, calls, crashes, committed, overwritten, alone>>

(* Rows of the batch that write the user of a phone, in the order of the rows: *)
(* the last one stays.                                                      *)
Writers(x, p) == {r \in Batch(x) : executor[x].batch[r].phone = p}
LastOf(S) == CHOOSE r \in S : \A q \in S : q <= r

(* The transaction: every user of the batch by its phone, every row IMPORTED  *)
(* by its id.  Prisma skips undefined fields, so errorField stays.          *)
Commit(x) ==
  /\ executor[x].pc = "write"
  /\ status' = [r \in Rows |-> IF r \in Batch(x) THEN "IMPORTED" ELSE status[r]]
  /\ user' = [p \in Phones |-> IF Writers(x, p) = {} THEN user[p]
                               ELSE executor[x].batch[LastOf(Writers(x, p))]]
  /\ committed' = committed \cup Batch(x)
  /\ overwritten' = {r \in Rows : LET W == Writers(x, content[r].phone) IN
                       IF W = {} THEN r \in overwritten ELSE r # LastOf(W)}
  /\ executor' = [executor EXCEPT ![x].pc = "count", ![x].batch = NoBatch]
  /\ UNCHANGED <<session, field, content, editor, calls, crashes, contended, alone>>

RollBack(x) ==
  /\ executor[x].pc = "write"
  /\ executor' = [executor EXCEPT ![x].pc = "fail", ![x].todo = Batch(x)]
  /\ UNCHANGED <<session, rowVars, editor, calls, crashes, histories>>

(* One statement per row of the batch.                                      *)
FailRow(x, r) ==
  /\ executor[x].pc = "fail" /\ r \in executor[x].todo
  /\ status' = [status EXCEPT ![r] = "FAILED"]
  /\ field' = [field EXCEPT ![r] = "EXECUTION"]
  /\ executor' = [executor EXCEPT ![x].todo = @ \ {r},
                                  ![x].pc = IF executor[x].todo = {r} THEN "count" ELSE "fail",
                                  ![x].batch = IF executor[x].todo = {r} THEN NoBatch ELSE @]
  /\ UNCHANGED <<session, content, user, editor, calls, crashes, histories>>

(* syncSessionState: a groupBy, then the update.                            *)
Count(x) ==
  /\ executor[x].pc = "count"
  /\ executor' = [executor EXCEPT ![x].pc = "sync", ![x].next = Derived]
  /\ UNCHANGED <<session, rowVars, editor, calls, crashes, histories>>

Sync(x) ==
  /\ executor[x].pc = "sync"
  /\ session' = executor[x].next
  /\ executor' = [executor EXCEPT ![x] = Idle]
  /\ UNCHANGED <<rowVars, editor, calls, crashes, histories>>

(* The server restarts in an execution: a transaction is rolled back, the   *)
(* rest stays as it is.                                                    *)
Crash(x) ==
  /\ executor[x].pc # "idle"
  /\ crashes < MaxCrashes /\ crashes' = crashes + 1
  /\ executor' = [executor EXCEPT ![x] = Idle]
  /\ alone' = FALSE
  /\ UNCHANGED <<session, rowVars, editor, calls, committed, contended, overwritten>>

-----------------------------------------------------------------------------
(* Mutants: an edit leaves an imported row imported; the status waits for    *)
(* the next execution.                                                      *)
EditKeepsImported(e, r, c, valid) ==
  /\ editor[e].pc = "idle"
  /\ Begin
  /\ status' = [status EXCEPT ![r] = IF @ = "IMPORTED" THEN @ ELSE IF valid THEN "PENDING" ELSE "FAILED"]
  /\ content' = [content EXCEPT ![r] = c]
  /\ contended' = contended \cup ({r} \cap Executing)
  /\ editor' = [editor EXCEPT ![e].pc = "count"]
  /\ UNCHANGED <<session, field, user, executor, crashes, committed, overwritten>>
EditWithoutSync(e) ==
  /\ editor[e].pc = "sync"
  /\ editor' = [editor EXCEPT ![e] = [pc |-> "idle", next |-> "IMPORTING"]]
  /\ UNCHANGED <<session, rowVars, executor, calls, crashes, histories>>

(* updateImportRow: validate, write the row whatever has become of it, then *)
(* derive the session's status.                                            *)
Edit(e, r, c, valid) ==
  /\ editor[e].pc = "idle"
  /\ Begin
  /\ status' = [status EXCEPT ![r] = IF valid THEN "PENDING" ELSE "FAILED"]
  /\ field' = [field EXCEPT ![r] = IF valid THEN "none" ELSE "VALIDATION"]
  /\ content' = [content EXCEPT ![r] = c]
  /\ committed' = committed \ {r}
  /\ contended' = contended \cup ({r} \cap Executing)
  /\ editor' = [editor EXCEPT ![e].pc = "count"]
  /\ UNCHANGED <<session, user, executor, crashes, overwritten>>

EditCount(e) ==
  /\ editor[e].pc = "count"
  /\ editor' = [editor EXCEPT ![e] = [pc |-> "sync", next |-> Derived]]
  /\ UNCHANGED <<session, rowVars, executor, calls, crashes, histories>>

EditSync(e) ==
  /\ editor[e].pc = "sync"
  /\ session' = editor[e].next
  /\ editor' = [editor EXCEPT ![e] = [pc |-> "idle", next |-> "IMPORTING"]]
  /\ UNCHANGED <<rowVars, executor, calls, crashes, histories>>

-----------------------------------------------------------------------------
ExecutorStep(x) ==
  \/ Reset(x) \/ Mark(x) \/ ReadPending(x) \/ Commit(x) \/ RollBack(x)
  \/ (\E r \in Rows : FailRow(x, r)) \/ Count(x) \/ Sync(x)
EditorStep(e) == EditCount(e) \/ EditSync(e)

Next ==
  \/ \E x \in Executors : Execute(x) \/ Retry(x) \/ ExecutorStep(x) \/ Crash(x)
  \/ \E e \in Editors, r \in Rows, c \in Contents, valid \in BOOLEAN : Edit(e, r, c, valid)
  \/ \E e \in Editors : EditorStep(e)

Spec == Init /\ [][Next]_vars
(* Every await of a call in flight is answered.                             *)
FairSpec == /\ Spec
            /\ \A x \in Executors : WF_vars(ExecutorStep(x))
            /\ \A e \in Editors : WF_vars(EditorStep(e))

-----------------------------------------------------------------------------
(* All or nothing: a row says IMPORTED exactly when a user was written from    *)
(* what the row says, unless the row was edited, or read by a second call,    *)
(* while an execution held it.  That user is there, and still says what the   *)
(* row says unless another row of its phone, later in the same batch or in a  *)
(* later one, was written over it.                                          *)
RowsTellOutcome ==
  \A r \in Rows \ contended :
    /\ status[r] = "IMPORTED" <=> r \in committed
    /\ r \in committed =>
         /\ user[content[r].phone] # Nothing
         /\ r \notin overwritten => user[content[r].phone] = content[r]

(* Once a first call has ended, a session whose calls never overlapped or   *)
(* crashed says of its rows what they are.                                  *)
StatusAgrees == alone /\ Quiet /\ calls > 0 => session = Derived

(* A session is not left IMPORTING, except by a restart.                    *)
ImportingEnds == []<>(session # "IMPORTING" \/ crashes > 0)

(* What that rests on, in every state: an IMPORTING session has a call that   *)
(* will derive another status, and a call that writes or fails rows has some  *)
(* left, so that no call halts on its way there, whatever other calls and     *)
(* edits do to the rows (import.service.ts:107-217,290-347).                  *)
Serving == {"read", "write", "fail", "count", "sync"}
ImportingIsServed ==
  /\ session = "IMPORTING" /\ crashes = 0 => \E x \in Executors : executor[x].pc \in Serving
  /\ \A x \in Executors : /\ executor[x].pc = "write" => Batch(x) # {}
                          /\ executor[x].pc = "fail" => executor[x].todo # {}
=============================================================================
