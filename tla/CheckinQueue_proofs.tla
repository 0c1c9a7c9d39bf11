------------------------ MODULE CheckinQueue_proofs ------------------------
(* What the queue keeps, for any tokens, callers, limits and networks.       *)
EXTENDS CheckinQueue, FiniteSetTheorems, TLAPS

Posting == [pc : {"post", "read"}, scan : Scans]
Saving == [pc : {"save"}, scan : Scans, copy : SUBSET Items]
Calls == {[pc |-> "idle"]} \cup Posting \cup Saving
Flushes == [pc : {"idle", "read", "post"}, todo : SUBSET Items,
            waiting : SUBSET Items, left : SUBSET Items]
Messages == [to : Callers \cup {"flush"}, scan : Scans, key : Keys \cup {NoKey},
             says : {"request", "ok", "refused", "forbidden"}]

LEMMA CallTyped ==
  ASSUME TypeOK, NEW c \in Callers, NEW r \in Calls, call' = [call EXCEPT ![c] = r]
  PROVE  call' \in [Callers -> Calls]
  BY DEF TypeOK, Calls, Posting, Saving

LEMMA IdleTyped ==
  /\ Idle \in Flushes /\ [Idle EXCEPT !.pc = "read"] \in Flushes
  BY DEF Idle, Flushes

(* What TypeOK says of the fields of an item, and of an item tried again. *)
LEMMA RetryTyped ==
  ASSUME NEW i \in Items, i.retries < MaxRetries
  PROVE  [i EXCEPT !.retries = @ + 1] \in Items
  BY LimitsKnown DEF Items

LEMMA MayBoardTyped ==
  ASSUME NEW ms, TypeOK, MayBoard(ms)
  PROVE  onBoard' \in BOOLEAN /\ (onBoard => onBoard')
  BY Zenon DEF TypeOK, MayBoard

LEMMA RetryOrGiveUpTyped ==
  ASSUME TypeOK, NEW i \in flush.waiting, NEW known \in SUBSET Keys, RetryOrGiveUp(i, known)
  PROVE  flush' \in Flushes /\ settled' \subseteq Keys
<1> USE DEF TypeOK, Flushes
<1>1. i \in Items
  OBVIOUS
<1>2. i.key \in Keys
  BY <1>1 DEF Items
<1>3. CASE i.retries < MaxRetries
  <2> DEFINE again == [i EXCEPT !.retries = @ + 1]
  <2>1. again \in Items
    BY <1>1, <1>3, RetryTyped
  <2>2. flush' = [flush EXCEPT !.waiting = @ \ {i}, !.left = @ \cup {again}] /\ settled' = known
    BY <1>3 DEF RetryOrGiveUp
  <2> HIDE DEF again
  <2> QED
    BY <2>1, <2>2
<1>4. CASE ~(i.retries < MaxRetries)
  BY <1>2, <1>4 DEF RetryOrGiveUp
<1> QED
  BY <1>3, <1>4

LEMMA KeysTyped == ASSUME NEW S \in SUBSET Items PROVE KeysOf(S) \in SUBSET Keys
  BY DEF KeysOf, Items

LEMMA UnansweredTyped ==
  ASSUME TypeOK, NEW m \in net, Unanswered(m)
  PROVE  lost' \in 0..MaxLost /\ net' \subseteq Messages /\ onBoard' \in BOOLEAN
<1>1. onBoard' \in BOOLEAN
  BY MayBoardTyped DEF Unanswered
<1>2. lost' \in 0..MaxLost /\ net' \subseteq Messages
  BY LimitsKnown DEF TypeOK, Unanswered, Messages
<1> QED
  BY <1>1, <1>2

(* The types are invariant. *)
THEOREM TypeCorrect == Spec => []TypeOK
<1>1. Init => TypeOK
  <2> SUFFICES ASSUME Init PROVE TypeOK
    OBVIOUS
  <2>1. call \in [Callers -> Calls]
    BY DEF Init, Calls
  <2>2. scans \in 0..MaxScans /\ lost \in 0..MaxLost /\ restarts \in 0..MaxRestarts
    BY LimitsKnown DEF Init
  <2>3. flush \in Flushes
    BY IdleTyped DEF Init
  <2>4. connected \in BOOLEAN /\ onBoard \in BOOLEAN /\ confirmed \in BOOLEAN /\ serial \in BOOLEAN
    BY DEF Init
  <2> QED
    BY <2>1, <2>2, <2>3, <2>4 DEF Init, TypeOK, Calls, Posting, Saving, Flushes
<1>2. TypeOK /\ [Next]_vars => TypeOK'
  <2> SUFFICES ASSUME TypeOK, [Next]_vars PROVE TypeOK'
    OBVIOUS
  <2> USE LimitsKnown DEF appVars, counters, histories
  <2>1. ASSUME NEW c \in Callers, NEW s \in Scans, Scan(c, s) PROVE TypeOK'
    <3>1. call' \in [Callers -> Calls]
      BY <2>1, CallTyped DEF Scan, Calls, Posting
    <3> QED
      BY <2>1, <3>1 DEF Scan, TypeOK, Calls, Posting, Saving, Message, Keys, NoKey
  <2>2. ASSUME NEW c \in Callers, NEW m \in net, CallAnswered(c, m) PROVE TypeOK'
    <3>1. call' \in [Callers -> Calls]
      BY <2>2, CallTyped DEF CallAnswered, Calls
    <3>2. confirmed' \in BOOLEAN
      BY <2>2, Zenon DEF CallAnswered, TypeOK
    <3>3. stored' \subseteq Items /\ settled' \subseteq Keys
      BY <2>2, KeysTyped DEF CallAnswered, ClearSession, TypeOK
    <3> QED
      BY <2>2, <3>1, <3>2, <3>3 DEF CallAnswered, TypeOK, Calls, Posting, Saving
  <2>3. ASSUME NEW c \in Callers, NEW m \in net, CallUnanswered(c, m) PROVE TypeOK'
    <3>1. call[c].scan \in Scans
      BY <2>3 DEF CallUnanswered, TypeOK
    <3>2. call' \in [Callers -> Calls]
      BY <2>3, <3>1, CallTyped DEF CallUnanswered, Calls, Posting
    <3> QED
      BY <2>3, <3>2, UnansweredTyped DEF CallUnanswered, TypeOK, Calls, Posting, Saving, Messages
  <2>4. ASSUME NEW c \in Callers, AddRead(c) PROVE TypeOK'
    <3>1. call[c].scan \in Scans
      BY <2>4 DEF AddRead, TypeOK
    <3>2. call' \in [Callers -> Calls]
      <4>1. [pc |-> "save", scan |-> call[c].scan, copy |-> stored] \in Calls
        BY <3>1 DEF Calls, Saving, TypeOK
      <4> QED
        BY <2>4, <4>1, CallTyped DEF AddRead, Calls
    <3>3. serial' \in BOOLEAN
      BY <2>4, Zenon DEF AddRead, TypeOK
    <3> QED
      BY <2>4, <3>2, <3>3 DEF AddRead, TypeOK, Calls, Posting, Saving
  <2>5. ASSUME NEW c \in Callers, AddSave(c) PROVE TypeOK'
    <3>1. call[c].scan \in Scans /\ call[c].copy \subseteq Items
      BY <2>5 DEF AddSave, TypeOK
    <3>2. call' \in [Callers -> Calls]
      BY <2>5, CallTyped DEF AddSave, Calls
    <3>3. saved' \in Nat /\ stored' \subseteq Items
      BY <2>5, <3>1 DEF AddSave, TypeOK, Items, Keys
    <3> QED
      BY <2>5, <3>2, <3>3 DEF AddSave, TypeOK, Calls, Posting, Saving
  <2>6. CASE Disconnect
    BY <2>6 DEF Disconnect, TypeOK
  <2>7. CASE Reconnect
    BY <2>7, IdleTyped DEF Reconnect, TypeOK, Flushes
  <2>8. CASE Restart
    <3>1. onBoard' \in BOOLEAN
      BY <2>8, MayBoardTyped DEF Restart
    <3> QED
      BY <2>8, <3>1, IdleTyped DEF Restart, TypeOK, Flushes
  <2>9. CASE FlushRead
    <3>1. serial' \in BOOLEAN
      BY <2>9, Zenon DEF FlushRead, TypeOK
    <3>2. [Idle EXCEPT !.pc = "post", !.todo = stored] \in Flushes
      BY DEF Idle, Flushes, TypeOK
    <3> QED
      BY <2>9, <3>1, <3>2, IdleTyped DEF FlushRead, TypeOK, Flushes
  <2>10. CASE FlushSave
    BY <2>10, IdleTyped DEF FlushSave, TypeOK, Flushes
  <2>11. ASSUME NEW chunk \in SUBSET flush.todo, NEW expired \in SUBSET chunk, FlushChunk(chunk, expired)
         PROVE TypeOK'
    <3>1. chunk \subseteq Items /\ expired \subseteq Items
      BY DEF TypeOK
    <3>2. settled' \subseteq Keys
      BY <2>11, <3>1, KeysTyped DEF FlushChunk, TypeOK
    <3>3. net' \subseteq Messages
      BY <2>11, <3>1 DEF FlushChunk, TypeOK, Messages, Message, Items
    <3>4. flush' \in Flushes
      BY <2>11, <3>1 DEF FlushChunk, TypeOK, Flushes
    <3> QED
      BY <2>11, <3>2, <3>3, <3>4 DEF FlushChunk, TypeOK, Messages, Flushes
  <2>12. ASSUME NEW i \in flush.waiting, NEW m \in net, ItemAnswered(i, m) PROVE TypeOK'
    <3>1. i \in Items /\ i.key \in Keys /\ settled \cup KeysOf(stored) \in SUBSET Keys
      BY KeysTyped DEF TypeOK, Items
    <3>2. CASE Success(m)
      BY <2>12, <3>1, <3>2 DEF ItemAnswered, TypeOK
    <3>3. CASE ~Success(m)
      <4>1. flush' \in Flushes /\ settled' \subseteq Keys /\ stored' \subseteq Items
        BY <2>12, <3>1, <3>3, RetryOrGiveUpTyped DEF ItemAnswered, TypeOK
      <4> QED
        BY <2>12, <3>3, <4>1 DEF ItemAnswered, TypeOK, Flushes
    <3> QED
      BY <3>2, <3>3
  <2>13. ASSUME NEW i \in flush.waiting, NEW m \in net, ItemUnanswered(i, m) PROVE TypeOK'
    <3>1. flush' \in Flushes /\ settled' \subseteq Keys
      BY <2>13, RetryOrGiveUpTyped DEF ItemUnanswered, TypeOK
    <3> QED
      BY <2>13, <3>1, UnansweredTyped DEF ItemUnanswered, TypeOK, Flushes, Messages
  <2>14. ASSUME NEW m \in net, Serve(m) PROVE TypeOK'
    <3>1. onBoard' \in BOOLEAN
      BY <2>14 DEF Serve, TypeOK
    <3>2. net' \subseteq Messages
      BY <2>14 DEF Serve, Reply, TypeOK, Messages
    <3> QED
      BY <2>14, <3>1, <3>2 DEF Serve, TypeOK, Messages
  <2>15. CASE UNCHANGED vars
    BY <2>15 DEF vars, TypeOK
  <2> QED
    BY <2>1, <2>2, <2>3, <2>4, <2>5, <2>6, <2>7, <2>8, <2>9, <2>10, <2>11, <2>12, <2>13, <2>14, <2>15
       DEF Next, CallStep, FlushStep
<1> QED
  BY <1>1, <1>2, PTL DEF Spec

-----------------------------------------------------------------------------
(* A confirmation tells of a boarding: so does every "ok" still under way,   *)
(* and a boarding is never taken back.                                      *)
OkIsOnBoard == \A m \in net : m.says = "ok" => onBoard
Truthful == ConfirmedIsOnBoard /\ OkIsOnBoard

LEMMA UnansweredTruthful ==
  ASSUME TypeOK, Truthful, NEW m \in net, Unanswered(m), confirmed' = confirmed
  PROVE  Truthful'
<1>1. onBoard => onBoard'
  BY MayBoardTyped DEF Unanswered
<1> QED
  BY <1>1 DEF Truthful, ConfirmedIsOnBoard, OkIsOnBoard, Unanswered

LEMMA TruthfulStep ==
  ASSUME TypeOK, Truthful, [Next]_vars
  PROVE  Truthful'
<1> USE DEF Truthful, ConfirmedIsOnBoard, OkIsOnBoard, histories, appVars
<1>1. ASSUME NEW c \in Callers, NEW s \in Scans, Scan(c, s) PROVE Truthful'
  BY <1>1 DEF Scan, Message
<1>2. ASSUME NEW c \in Callers, NEW m \in net, CallAnswered(c, m) PROVE Truthful'
  BY <1>2 DEF CallAnswered
<1>3. ASSUME NEW c \in Callers, NEW m \in net, CallUnanswered(c, m) PROVE Truthful'
  BY <1>3, UnansweredTruthful DEF CallUnanswered
<1>4. ASSUME NEW c \in Callers, AddRead(c) \/ AddSave(c) PROVE Truthful'
  BY <1>4 DEF AddRead, AddSave
<1>5. CASE Disconnect \/ Reconnect \/ FlushRead \/ FlushSave
  BY <1>5 DEF Disconnect, Reconnect, FlushRead, FlushSave
<1>6. CASE Restart
  <2>1. onBoard => onBoard'
    BY <1>6, MayBoardTyped DEF Restart
  <2> QED
    BY <1>6, <2>1 DEF Restart
<1>7. ASSUME NEW chunk \in SUBSET flush.todo, NEW expired \in SUBSET chunk, FlushChunk(chunk, expired)
      PROVE Truthful'
  BY <1>7 DEF FlushChunk, Message
<1>8. ASSUME NEW i \in flush.waiting, NEW m \in net, ItemAnswered(i, m) PROVE Truthful'
  BY <1>8 DEF ItemAnswered, Success
<1>9. ASSUME NEW i \in flush.waiting, NEW m \in net, ItemUnanswered(i, m) PROVE Truthful'
  BY <1>9, UnansweredTruthful DEF ItemUnanswered
<1>10. ASSUME NEW m \in net, Serve(m) PROVE Truthful'
  BY <1>10 DEF Serve, Reply, TypeOK
<1>11. CASE UNCHANGED vars
  BY <1>11 DEF vars
<1> QED
  BY <1>1, <1>2, <1>3, <1>4, <1>5, <1>6, <1>7, <1>8, <1>9, <1>10, <1>11
     DEF Next, CallStep, FlushStep

(* The student is shown a check-in as made only if it was. *)
THEOREM Confirmed == Spec => []ConfirmedIsOnBoard
<1>1. Init => Truthful
  BY DEF Init, Truthful, ConfirmedIsOnBoard, OkIsOnBoard
<1>2. TypeOK /\ TypeOK' /\ Truthful /\ [Next]_vars => Truthful'
  BY TruthfulStep
<1>3. Truthful => ConfirmedIsOnBoard
  BY DEF Truthful
<1> QED
  BY <1>1, <1>2, <1>3, TypeCorrect, PTL DEF Spec

-----------------------------------------------------------------------------
(* Nothing is lost while the spans from a read of the queue to its write do  *)
(* not overlap: whoever is in one holds, or has settled, all that is stored. *)
HeldByAdd == \A c \in Callers : call[c].pc = "save" =>
               /\ KeysOf(stored) \subseteq settled \cup KeysOf(call[c].copy)
               /\ flush.pc # "post"
               /\ \A d \in Callers : call[d].pc = "save" => d = c
HeldByFlush == flush.pc = "post" =>
  KeysOf(stored) \subseteq settled \cup KeysOf(flush.todo \cup flush.waiting \cup flush.left)
Keeping == serial => Kept /\ HeldByAdd /\ HeldByFlush

LEMMA RetryKeeps ==
  ASSUME TypeOK, NEW i \in flush.waiting, NEW known \in SUBSET Keys, RetryOrGiveUp(i, known)
  PROVE  /\ flush'.pc = flush.pc /\ known \subseteq settled'
         /\ KeysOf(flush.todo \cup flush.waiting \cup flush.left)
              \subseteq settled' \cup KeysOf(flush'.todo \cup flush'.waiting \cup flush'.left)
<1>0. i \in Items
  BY DEF TypeOK
<1>1. CASE i.retries < MaxRetries
  <2> DEFINE again == [i EXCEPT !.retries = @ + 1]
  <2>1. again.key = i.key
    BY <1>0 DEF Items
  <2>2. flush' = [flush EXCEPT !.waiting = @ \ {i}, !.left = @ \cup {again}] /\ settled' = known
    BY <1>1 DEF RetryOrGiveUp
  <2> HIDE DEF again
  <2> QED
    BY <2>1, <2>2 DEF KeysOf, TypeOK
<1>2. CASE ~(i.retries < MaxRetries)
  BY <1>2 DEF RetryOrGiveUp, KeysOf, TypeOK
<1> QED
  BY <1>1, <1>2

LEMMA KeepingStep ==
  ASSUME TypeOK, Keeping, [Next]_vars
  PROVE  Keeping'
<1> SUFFICES ASSUME serial' PROVE (Kept /\ HeldByAdd /\ HeldByFlush)'
  BY DEF Keeping
<1> USE DEF Keeping, Kept, HeldByAdd, HeldByFlush, histories, appVars, counters
<1>1. ASSUME NEW c \in Callers, NEW s \in Scans, Scan(c, s) PROVE (Kept /\ HeldByAdd /\ HeldByFlush)'
  BY <1>1 DEF Scan, TypeOK
<1>2. ASSUME NEW c \in Callers, NEW m \in net, CallAnswered(c, m) PROVE (Kept /\ HeldByAdd /\ HeldByFlush)'
  <2>1. CASE m.says = "forbidden"
    BY <1>2, <2>1 DEF CallAnswered, ClearSession, TypeOK, KeysOf
  <2>2. CASE m.says # "forbidden"
    BY <1>2, <2>2 DEF CallAnswered, TypeOK
  <2> QED
    BY <2>1, <2>2
<1>3. ASSUME NEW c \in Callers, NEW m \in net, CallUnanswered(c, m) PROVE (Kept /\ HeldByAdd /\ HeldByFlush)'
  BY <1>3 DEF CallUnanswered, TypeOK
<1>4. ASSUME NEW c \in Callers, AddRead(c) PROVE (Kept /\ HeldByAdd /\ HeldByFlush)'
  <2>1. CASE Accepts(call[c].scan)
    <3>1. serial /\ ~Spanning
      BY <1>4, <2>1, Zenon DEF AddRead, TypeOK
    <3> QED
      BY <1>4, <2>1, <3>1 DEF AddRead, TypeOK, Spanning
  <2>2. CASE ~Accepts(call[c].scan)
    <3>1. call' = [call EXCEPT ![c] = [pc |-> "idle"]] /\ serial' = serial
      BY <1>4, <2>2 DEF AddRead
    <3>2. call'[c].pc = "idle" /\ \A d \in Callers \ {c} : call'[d] = call[d]
      BY <3>1 DEF TypeOK
    <3> QED
      BY <1>4, <3>1, <3>2 DEF AddRead
  <2> QED
    BY <2>1, <2>2
<1>5. ASSUME NEW c \in Callers, AddSave(c) PROVE (Kept /\ HeldByAdd /\ HeldByFlush)'
  <2>1. KeysOf(stored') = KeysOf(call[c].copy) \cup {saved'}
    <3> DEFINE item == [scan |-> call[c].scan, key |-> saved', retries |-> 0]
    <3>1. item.key = saved'
      OBVIOUS
    <3>2. stored' = call[c].copy \cup {item}
      BY <1>5 DEF AddSave
    <3> HIDE DEF item
    <3> QED
      BY <3>1, <3>2 DEF KeysOf
  <2>2. 1..saved' = (1..saved) \cup {saved'}
    BY <1>5 DEF AddSave, TypeOK
  <2>3. Kept'
    BY <1>5, <2>1, <2>2 DEF AddSave
  <2> QED
    BY <1>5, <2>3 DEF AddSave, TypeOK
<1>6. CASE Disconnect
  BY <1>6 DEF Disconnect
<1>7. CASE Reconnect
  BY <1>7 DEF Reconnect, Idle, TypeOK
<1>8. CASE Restart
  BY <1>8 DEF Restart, Idle, TypeOK
<1>9. CASE FlushRead
  <2>1. serial /\ (stored = {} \/ ~Spanning)
    BY <1>9, Zenon DEF FlushRead, TypeOK
  <2> QED
    BY <1>9, <2>1 DEF FlushRead, Spanning, Idle, KeysOf
<1>10. CASE FlushSave
  <2>1. flush.left = flush.todo \cup flush.waiting \cup flush.left
    BY <1>10 DEF FlushSave
  <2> QED
    BY <1>10, <2>1 DEF FlushSave, Idle
<1>11. ASSUME NEW chunk \in SUBSET flush.todo, NEW expired \in SUBSET chunk, FlushChunk(chunk, expired)
       PROVE (Kept /\ HeldByAdd /\ HeldByFlush)'
  <2>1. KeysOf(flush.todo \cup flush.waiting \cup flush.left)
          \subseteq settled' \cup KeysOf(flush'.todo \cup flush'.waiting \cup flush'.left)
    BY <1>11 DEF FlushChunk, KeysOf, TypeOK
  <2> QED
    BY <1>11, <2>1 DEF FlushChunk, TypeOK
<1>12. ASSUME NEW i \in flush.waiting, NEW m \in net, ItemAnswered(i, m) PROVE (Kept /\ HeldByAdd /\ HeldByFlush)'
  <2>1. CASE Success(m)
    BY <1>12, <2>1 DEF ItemAnswered, KeysOf, TypeOK
  <2>2. CASE ~Success(m)
    <3>1. settled \in SUBSET Keys /\ settled \cup KeysOf(stored) \in SUBSET Keys
      BY KeysTyped DEF TypeOK
    <3>2. CASE m.says = "forbidden"
      BY <1>12, <2>2, <3>1, <3>2, RetryKeeps DEF ItemAnswered, KeysOf
    <3>3. CASE m.says # "forbidden"
      BY <1>12, <2>2, <3>1, <3>3, RetryKeeps DEF ItemAnswered
    <3> QED
      BY <3>2, <3>3
  <2> QED
    BY <2>1, <2>2
<1>13. ASSUME NEW i \in flush.waiting, NEW m \in net, ItemUnanswered(i, m) PROVE (Kept /\ HeldByAdd /\ HeldByFlush)'
  <2>1. settled \in SUBSET Keys
    BY DEF TypeOK
  <2> QED
    BY <1>13, <2>1, RetryKeeps DEF ItemUnanswered
<1>14. ASSUME NEW m \in net, Serve(m) PROVE (Kept /\ HeldByAdd /\ HeldByFlush)'
  BY <1>14 DEF Serve
<1>15. CASE UNCHANGED vars
  BY <1>15 DEF vars
<1> QED
  BY <1>1, <1>2, <1>3, <1>4, <1>5, <1>6, <1>7, <1>8, <1>9, <1>10, <1>11, <1>12, <1>13, <1>14, <1>15
     DEF Next, CallStep, FlushStep

(* An accepted check-in stays in the queue until the student has been shown  *)
(* what became of it, as long as no two writers of the queue overlapped.     *)
THEOREM KeptWhenSerial == Spec => []QueuedIsKept
<1>1. Init => Keeping
  BY DEF Init, Keeping, Kept, HeldByAdd, HeldByFlush, Idle
<1>2. TypeOK /\ TypeOK' /\ Keeping /\ [Next]_vars => Keeping'
  BY KeepingStep
<1>3. Keeping => QueuedIsKept
  BY DEF Keeping, QueuedIsKept
<1> QED
  BY <1>1, <1>2, <1>3, TypeCorrect, PTL DEF Spec

-----------------------------------------------------------------------------
(* The queue's shape: each writer writes a copy as tidy as it read it.       *)
OneEach(S) == \A i, j \in S : i.scan = j.scan => i = j
Tidy(S) == IsFiniteSet(S) /\ Cardinality(S) <= MaxQueue /\ OneEach(S)
Apart(S, T) == \A i \in S, j \in T : i.scan # j.scan
AddTidy == \A c \in Callers : call[c].pc = "save" =>
  /\ Tidy(call[c].copy) /\ Cardinality(call[c].copy) < MaxQueue
  /\ \A i \in call[c].copy : i.scan # call[c].scan
FlushTidy ==
  /\ Apart(flush.todo, flush.waiting) /\ Apart(flush.todo, flush.left)
  /\ Apart(flush.waiting, flush.left)
  /\ Tidy(flush.todo \cup flush.waiting \cup flush.left)
Shape == Tidy(stored) /\ AddTidy /\ FlushTidy

LEMMA TidyEmpty == Tidy({})
  BY FS_EmptySet, LimitsKnown DEF Tidy, OneEach

LEMMA TidySubset ==
  ASSUME NEW S, Tidy(S), NEW T \in SUBSET S
  PROVE  Tidy(T)
<1>1. IsFiniteSet(T) /\ Cardinality(T) <= Cardinality(S)
  BY FS_Subset DEF Tidy
<1>2. Cardinality(T) \in Nat /\ Cardinality(S) \in Nat
  BY <1>1, FS_CardinalityType DEF Tidy
<1> QED
  BY <1>1, <1>2, LimitsKnown DEF Tidy, OneEach

LEMMA TidyAdd ==
  ASSUME NEW S, Tidy(S), Cardinality(S) < MaxQueue, NEW x, \A i \in S : i.scan # x.scan
  PROVE  Tidy(S \cup {x})
<1>1. IsFiniteSet(S \cup {x}) /\ Cardinality(S \cup {x}) \in {Cardinality(S), Cardinality(S) + 1}
  BY FS_AddElement DEF Tidy
<1>2. Cardinality(S) \in Nat
  BY FS_CardinalityType DEF Tidy
<1> QED
  BY <1>1, <1>2, LimitsKnown DEF Tidy, OneEach

LEMMA TidyReplace ==
  ASSUME NEW S, Tidy(S), NEW i \in S, NEW x, x.scan = i.scan
  PROVE  Tidy((S \ {i}) \cup {x})
<1>1. IsFiniteSet(S \ {i}) /\ Cardinality(S \ {i}) = Cardinality(S) - 1
  BY FS_RemoveElement DEF Tidy
<1>2. Cardinality(S) \in Nat
  BY FS_CardinalityType DEF Tidy
<1>3. Tidy(S \ {i})
  BY TidySubset
<1>4. \A j \in S \ {i} : j.scan # x.scan
  BY DEF Tidy, OneEach
<1>5. Cardinality(S \ {i}) < MaxQueue
  BY <1>1, <1>2, LimitsKnown DEF Tidy
<1> QED
  BY <1>3, <1>4, <1>5, TidyAdd

LEMMA IdleTidy == ASSUME flush' \in {Idle, [Idle EXCEPT !.pc = "read"]} PROVE FlushTidy'
  BY TidyEmpty DEF FlushTidy, Apart, Idle, Tidy, OneEach

LEMMA RetryTidy ==
  ASSUME TypeOK, FlushTidy, NEW i \in flush.waiting, NEW known, RetryOrGiveUp(i, known)
  PROVE  FlushTidy'
<1> DEFINE All == flush.todo \cup flush.waiting \cup flush.left
<1>0. i \in Items /\ i \in All /\ i \notin flush.todo /\ i \notin flush.left
  BY DEF TypeOK, FlushTidy, Apart
<1>1. CASE i.retries < MaxRetries
  <2> DEFINE again == [i EXCEPT !.retries = @ + 1]
  <2>1. again.scan = i.scan
    BY <1>0 DEF Items
  <2>2. flush' = [flush EXCEPT !.waiting = @ \ {i}, !.left = @ \cup {again}]
    BY <1>1 DEF RetryOrGiveUp
  <2> HIDE DEF again
  <2>3. flush'.todo = flush.todo /\ flush'.waiting = flush.waiting \ {i} /\ flush'.left = flush.left \cup {again}
    BY <2>2 DEF TypeOK
  <2>4. flush'.todo \cup flush'.waiting \cup flush'.left = (All \ {i}) \cup {again}
    BY <1>0, <2>3
  <2>5. Tidy(flush'.todo \cup flush'.waiting \cup flush'.left)
    BY <1>0, <2>1, <2>4, TidyReplace DEF FlushTidy
  <2>6. Apart(flush'.todo, flush'.waiting) /\ Apart(flush'.todo, flush'.left)
    BY <2>1, <2>3 DEF FlushTidy, Apart
  <2>7. Apart(flush'.waiting, flush'.left)
    BY <2>1, <2>3 DEF FlushTidy, Apart, Tidy, OneEach
  <2> QED
    BY <2>5, <2>6, <2>7 DEF FlushTidy, Tidy, Apart, OneEach
<1>2. CASE ~(i.retries < MaxRetries)
  <2>1. flush' = [flush EXCEPT !.waiting = @ \ {i}]
    BY <1>2 DEF RetryOrGiveUp
  <2>2. flush'.todo = flush.todo /\ flush'.waiting = flush.waiting \ {i} /\ flush'.left = flush.left
    BY <2>1 DEF TypeOK
  <2>3. Tidy(flush'.todo \cup flush'.waiting \cup flush'.left)
    BY <2>2, TidySubset DEF FlushTidy
  <2> QED
    BY <2>2, <2>3 DEF FlushTidy, Tidy, Apart, OneEach
<1> QED
  BY <1>1, <1>2

LEMMA ShapeStep ==
  ASSUME TypeOK, Shape, [Next]_vars
  PROVE  Shape'
<1> USE DEF Shape, AddTidy, FlushTidy, Tidy, OneEach, Apart, histories, appVars, counters
<1>1. ASSUME NEW c \in Callers, NEW s \in Scans, Scan(c, s) PROVE Shape'
  BY <1>1 DEF Scan, TypeOK
<1>2. ASSUME NEW c \in Callers, NEW m \in net, CallAnswered(c, m) PROVE Shape'
  BY <1>2, TidyEmpty DEF CallAnswered, ClearSession, TypeOK
<1>3. ASSUME NEW c \in Callers, NEW m \in net, CallUnanswered(c, m) PROVE Shape'
  BY <1>3 DEF CallUnanswered, TypeOK
<1>4. ASSUME NEW c \in Callers, AddRead(c) PROVE Shape'
  BY <1>4 DEF AddRead, Accepts, TypeOK
<1>5. ASSUME NEW c \in Callers, AddSave(c) PROVE Shape'
  <2> DEFINE item == [scan |-> call[c].scan, key |-> saved', retries |-> 0]
  <2>1. item.scan = call[c].scan
    OBVIOUS
  <2>2. stored' = call[c].copy \cup {item}
    BY <1>5 DEF AddSave
  <2> HIDE DEF item
  <2>3. Tidy(stored')
    BY <1>5, <2>1, <2>2, TidyAdd DEF AddSave
  <2> QED
    BY <1>5, <2>3 DEF AddSave, TypeOK
<1>6. CASE Disconnect
  BY <1>6 DEF Disconnect
<1>7. CASE Reconnect
  <2>1. FlushTidy'
    <3>1. CASE flush.pc = "idle"
      BY <1>7, <3>1, IdleTidy DEF Reconnect
    <3>2. CASE flush.pc # "idle"
      BY <1>7, <3>2 DEF Reconnect
    <3> QED
      BY <3>1, <3>2
  <2> QED
    BY <1>7, <2>1 DEF Reconnect
<1>8. CASE Restart
  <2>1. FlushTidy'
    BY <1>8, IdleTidy DEF Restart
  <2> QED
    BY <1>8, <2>1 DEF Restart
<1>9. CASE FlushRead
  BY <1>9, IdleTidy DEF FlushRead, Idle
<1>10. CASE FlushSave
  <2>1. flush.left = flush.todo \cup flush.waiting \cup flush.left
    BY <1>10 DEF FlushSave
  <2>2. FlushTidy'
    BY <1>10, IdleTidy DEF FlushSave
  <2> QED
    BY <1>10, <2>1, <2>2 DEF FlushSave
<1>11. ASSUME NEW chunk \in SUBSET flush.todo, NEW expired \in SUBSET chunk, FlushChunk(chunk, expired)
       PROVE Shape'
  <2>1. flush'.todo = flush.todo \ chunk /\ flush'.waiting = chunk \ expired /\ flush'.left = flush.left
    BY <1>11 DEF FlushChunk, TypeOK
  <2>2. Tidy(flush'.todo \cup flush'.waiting \cup flush'.left)
    <3> HIDE DEF Tidy
    <3> QED
      BY <2>1, TidySubset
  <2> QED
    BY <1>11, <2>1, <2>2 DEF FlushChunk
<1>12. ASSUME NEW i \in flush.waiting, NEW m \in net, ItemAnswered(i, m) PROVE Shape'
  <2>1. CASE Success(m)
    <3>1. flush'.todo = flush.todo /\ flush'.waiting = flush.waiting \ {i} /\ flush'.left = flush.left
      BY <1>12, <2>1 DEF ItemAnswered, TypeOK
    <3>2. Tidy(flush'.todo \cup flush'.waiting \cup flush'.left)
      <4> HIDE DEF Tidy
      <4> QED
        BY <3>1, TidySubset
    <3> QED
      BY <1>12, <2>1, <3>1, <3>2 DEF ItemAnswered
  <2>2. CASE ~Success(m)
    <3>1. FlushTidy'
      BY <1>12, <2>2, RetryTidy DEF ItemAnswered
    <3>2. stored' \in {stored, {}} /\ call' = call
      BY <1>12, <2>2 DEF ItemAnswered
    <3> QED
      BY <3>1, <3>2, TidyEmpty
  <2> QED
    BY <2>1, <2>2
<1>13. ASSUME NEW i \in flush.waiting, NEW m \in net, ItemUnanswered(i, m) PROVE Shape'
  <2>1. FlushTidy'
    BY <1>13, RetryTidy DEF ItemUnanswered
  <2> QED
    BY <1>13, <2>1 DEF ItemUnanswered
<1>14. ASSUME NEW m \in net, Serve(m) PROVE Shape'
  BY <1>14 DEF Serve
<1>15. CASE UNCHANGED vars
  BY <1>15 DEF vars
<1> QED
  BY <1>1, <1>2, <1>3, <1>4, <1>5, <1>6, <1>7, <1>8, <1>9, <1>10, <1>11, <1>12, <1>13, <1>14, <1>15
     DEF Next, CallStep, FlushStep

(* Whatever overlaps, the queue holds a token once, and no more than its     *)
(* limit.                                                                   *)
THEOREM Bounded == Spec => []QueueBounded
<1>1. Init => Shape
  BY TidyEmpty DEF Init, Shape, AddTidy, FlushTidy, Apart, Idle, Tidy, OneEach
<1>2. TypeOK /\ TypeOK' /\ Shape /\ [Next]_vars => Shape'
  BY ShapeStep
<1>3. Shape => QueueBounded
  BY DEF Shape, Tidy, OneEach, QueueBounded
<1> QED
  BY <1>1, <1>2, <1>3, TypeCorrect, PTL DEF Spec

-----------------------------------------------------------------------------
(* Every awaited answer can still come.  A message is found again by the key *)
(* of its item, so this needs that a key names one check-in in the storage,  *)
(* in the copies and in the flush, and that no key above saved is in use.    *)
Placed(i) ==
  \/ i \in stored \/ i \in flush.todo \/ i \in flush.waiting \/ i \in flush.left
  \/ \E c \in Callers : call[c].pc = "save" /\ i \in call[c].copy
Issued == \A i \in Items : Placed(i) => i.key <= saved
KeysName == \A i, j \in Items : Placed(i) /\ Placed(j) /\ i.key = j.key => i.scan = j.scan
Named == Issued /\ KeysName

(* A step that issues no key leaves behind only items it found, or one tried *)
(* again under its key and its token.                                       *)
Before(i) == \E j \in Items : Placed(j) /\ j.key = i.key /\ j.scan = i.scan

LEMMA NamedBefore ==
  ASSUME Named, saved' = saved, \A i \in Items : Placed(i)' => Before(i)
  PROVE  Named'
<1>1. Issued'
  BY DEF Named, Issued, Before
<1>2. KeysName'
  <2> SUFFICES ASSUME NEW i \in Items, NEW j \in Items, Placed(i)', Placed(j)', i.key = j.key
               PROVE  i.scan = j.scan
    BY DEF KeysName
  <2>1. PICK a \in Items : Placed(a) /\ a.key = i.key /\ a.scan = i.scan
    BY DEF Before
  <2>2. PICK b \in Items : Placed(b) /\ b.key = j.key /\ b.scan = j.scan
    BY DEF Before
  <2> QED
    BY <2>1, <2>2 DEF Named, KeysName
<1> QED
  BY <1>1, <1>2 DEF Named

LEMMA PlacedBefore == ASSUME NEW i \in Items, Placed(i) PROVE Before(i)
  BY DEF Before

LEMMA RetryBefore ==
  ASSUME TypeOK, NEW i \in flush.waiting, NEW known, RetryOrGiveUp(i, known),
         NEW j \in Items, j \in flush'.todo \/ j \in flush'.waiting \/ j \in flush'.left
  PROVE  Before(j)
<1>0. i \in Items /\ Before(i)
  BY PlacedBefore DEF TypeOK, Placed
<1>1. CASE i.retries < MaxRetries
  <2> DEFINE again == [i EXCEPT !.retries = @ + 1]
  <2>1. again.key = i.key /\ again.scan = i.scan
    BY <1>0 DEF Items
  <2>2. flush' = [flush EXCEPT !.waiting = @ \ {i}, !.left = @ \cup {again}]
    BY <1>1 DEF RetryOrGiveUp
  <2> HIDE DEF again
  <2>3. flush'.todo = flush.todo /\ flush'.waiting = flush.waiting \ {i} /\ flush'.left = flush.left \cup {again}
    BY <2>2 DEF TypeOK
  <2>4. Placed(j) \/ j = again
    BY <2>3 DEF Placed
  <2> QED
    BY <1>0, <2>1, <2>4, PlacedBefore DEF Before
<1>2. CASE ~(i.retries < MaxRetries)
  <2>1. flush'.todo = flush.todo /\ flush'.waiting = flush.waiting \ {i} /\ flush'.left = flush.left
    BY <1>2 DEF RetryOrGiveUp, TypeOK
  <2> QED
    BY <2>1, PlacedBefore DEF Placed
<1> QED
  BY <1>1, <1>2

LEMMA NamedStep ==
  ASSUME TypeOK, Named, [Next]_vars
  PROVE  Named'
<1> USE DEF histories, appVars, counters
<1>1. ASSUME NEW c \in Callers, NEW s \in Scans, Scan(c, s) PROVE Named'
  <2>1. saved' = saved /\ \A i \in Items : Placed(i)' => Placed(i)
    BY <1>1 DEF Scan, Placed, TypeOK
  <2> QED
    BY <2>1, PlacedBefore, NamedBefore
<1>2. ASSUME NEW c \in Callers, NEW m \in net, CallAnswered(c, m) PROVE Named'
  <2>1. saved' = saved /\ \A i \in Items : Placed(i)' => Placed(i)
    BY <1>2 DEF CallAnswered, ClearSession, Placed, TypeOK
  <2> QED
    BY <2>1, PlacedBefore, NamedBefore
<1>3. ASSUME NEW c \in Callers, NEW m \in net, CallUnanswered(c, m) PROVE Named'
  <2>1. saved' = saved /\ \A i \in Items : Placed(i)' => Placed(i)
    BY <1>3 DEF CallUnanswered, Placed, TypeOK
  <2> QED
    BY <2>1, PlacedBefore, NamedBefore
<1>4. ASSUME NEW c \in Callers, AddRead(c) PROVE Named'
  <2>1. saved' = saved /\ \A i \in Items : Placed(i)' => Placed(i)
    BY <1>4 DEF AddRead, Placed, TypeOK
  <2> QED
    BY <2>1, PlacedBefore, NamedBefore
<1>5. ASSUME NEW c \in Callers, AddSave(c) PROVE Named'
  <2> DEFINE item == [scan |-> call[c].scan, key |-> saved', retries |-> 0]
  <2>1. item.key = saved + 1
    BY <1>5 DEF AddSave
  <2>2. stored' = call[c].copy \cup {item}
    BY <1>5 DEF AddSave
  <2> HIDE DEF item
  <2>3. \A i \in Items : Placed(i)' => Placed(i) \/ i = item
    BY <1>5, <2>2 DEF AddSave, Placed, TypeOK
  <2>4. saved' = saved + 1 /\ saved \in Nat
    BY <1>5 DEF AddSave, TypeOK
  <2>5. \A i \in Items : i.key \in Nat
    BY DEF Items, Keys
  <2> QED
    BY <2>1, <2>3, <2>4, <2>5 DEF Named, Issued, KeysName
<1>6. CASE Disconnect \/ UNCHANGED vars
  <2>1. saved' = saved /\ \A i \in Items : Placed(i)' => Placed(i)
    BY <1>6 DEF Disconnect, vars, Placed
  <2> QED
    BY <2>1, PlacedBefore, NamedBefore
<1>7. CASE Reconnect \/ Restart
  <2>1. saved' = saved /\ \A i \in Items : Placed(i)' => Placed(i)
    BY <1>7 DEF Reconnect, Restart, Idle, Placed, TypeOK
  <2> QED
    BY <2>1, PlacedBefore, NamedBefore
<1>8. CASE FlushRead
  <2>1. saved' = saved /\ \A i \in Items : Placed(i)' => Placed(i)
    <3>1. flush'.todo \subseteq stored /\ flush'.waiting = {} /\ flush'.left = {}
      BY <1>8 DEF FlushRead, Idle
    <3>2. stored' \in {stored, flush.left} /\ call' = call /\ saved' = saved
      BY <1>8 DEF FlushRead
    <3> QED
      BY <3>1, <3>2 DEF Placed
  <2> QED
    BY <2>1, PlacedBefore, NamedBefore
<1>9. CASE FlushSave
  <2>1. saved' = saved /\ \A i \in Items : Placed(i)' => Placed(i)
    <3>1. flush'.todo \subseteq stored /\ flush'.waiting = {} /\ flush'.left = {}
      BY <1>9 DEF FlushSave, Idle
    <3>2. stored' \in {stored, flush.left} /\ call' = call /\ saved' = saved
      BY <1>9 DEF FlushSave
    <3> QED
      BY <3>1, <3>2 DEF Placed
  <2> QED
    BY <2>1, PlacedBefore, NamedBefore
<1>10. ASSUME NEW chunk \in SUBSET flush.todo, NEW expired \in SUBSET chunk, FlushChunk(chunk, expired)
       PROVE Named'
  <2>1. saved' = saved /\ \A i \in Items : Placed(i)' => Placed(i)
    BY <1>10 DEF FlushChunk, Placed, TypeOK
  <2> QED
    BY <2>1, PlacedBefore, NamedBefore
<1>11. ASSUME NEW i \in flush.waiting, NEW m \in net, ItemAnswered(i, m) PROVE Named'
  <2>1. CASE Success(m)
    <3>1. saved' = saved /\ \A j \in Items : Placed(j)' => Placed(j)
      BY <1>11, <2>1 DEF ItemAnswered, Placed, TypeOK
    <3> QED
      BY <3>1, PlacedBefore, NamedBefore
  <2>2. CASE ~Success(m)
    <3>1. PICK known : RetryOrGiveUp(i, known)
      BY <1>11, <2>2 DEF ItemAnswered
    <3>2. saved' = saved /\ call' = call /\ stored' \subseteq stored
      BY <1>11, <2>2 DEF ItemAnswered
    <3>3. ASSUME NEW j \in Items, Placed(j)' PROVE Before(j)
      BY <3>1, <3>2, <3>3, RetryBefore, PlacedBefore DEF Placed
    <3> QED
      BY <3>2, <3>3, NamedBefore
  <2> QED
    BY <2>1, <2>2
<1>12. ASSUME NEW i \in flush.waiting, NEW m \in net, ItemUnanswered(i, m) PROVE Named'
  <2>1. RetryOrGiveUp(i, settled) /\ saved' = saved /\ call' = call /\ stored' = stored
    BY <1>12 DEF ItemUnanswered
  <2>2. ASSUME NEW j \in Items, Placed(j)' PROVE Before(j)
    BY <2>1, <2>2, RetryBefore, PlacedBefore DEF Placed
  <2> QED
    BY <2>1, <2>2, NamedBefore
<1>13. ASSUME NEW m \in net, Serve(m) PROVE Named'
  <2>1. saved' = saved /\ \A i \in Items : Placed(i)' => Placed(i)
    BY <1>13 DEF Serve, Placed
  <2> QED
    BY <2>1, PlacedBefore, NamedBefore
<1> QED
  BY <1>1, <1>2, <1>3, <1>4, <1>5, <1>6, <1>7, <1>8, <1>9, <1>10, <1>11, <1>12, <1>13
     DEF Next, CallStep, FlushStep

(* To each who waits there is one message, and it says for which item.       *)
OneAnswer ==
  /\ \A m, n \in net : m.to = n.to /\ m.key = n.key => m = n
  /\ \A m \in net : m.to # "flush" => m.key = NoKey
Awaited == AnswersAwaited /\ OneAnswer

LEMMA RetryWaits ==
  ASSUME TypeOK, NEW i \in flush.waiting, NEW known, RetryOrGiveUp(i, known)
  PROVE  flush'.waiting = flush.waiting \ {i} /\ flush'.pc = flush.pc
  BY DEF TypeOK, RetryOrGiveUp

(* The one answer to an item is taken by that item alone. *)
LEMMA ItemTakes ==
  ASSUME TypeOK, Named, Shape, Awaited, NEW i \in flush.waiting, NEW m \in net,
         m.to = "flush", m.key = i.key, net' = net \ {m}, call' = call,
         flush'.waiting = flush.waiting \ {i}, flush'.pc = flush.pc
  PROVE  Awaited'
<1> USE DEF Awaited, AnswersAwaited, OneAnswer
<1>1. \A j \in flush.waiting : j.key = i.key => j = i
  <2>1. \A j \in flush.waiting : j.key = i.key => j.scan = i.scan
    BY DEF Named, KeysName, Placed, TypeOK
  <2> QED
    BY <2>1 DEF Shape, FlushTidy, Tidy, OneEach
<1>2. \A j \in flush'.waiting : \E n \in net' : n.to = "flush" /\ n.key = j.key /\ n.scan = j.scan
  <2> SUFFICES ASSUME NEW j \in flush.waiting \ {i}
               PROVE  \E n \in net' : n.to = "flush" /\ n.key = j.key /\ n.scan = j.scan
    OBVIOUS
  <2>1. PICK n \in net : n.to = "flush" /\ n.key = j.key /\ n.scan = j.scan
    OBVIOUS
  <2>2. n # m
    BY <1>1, <2>1
  <2> QED
    BY <2>1, <2>2
<1>3. \A n \in net' : n.to = "flush" => \E j \in flush'.waiting : j.key = n.key
  OBVIOUS
<1>4. \A c \in Callers : call'[c].pc = "post" => \E n \in net' : n.to = c /\ n.scan = call'[c].scan
  BY CallersKnown
<1> QED
  BY <1>2, <1>3, <1>4

(* The one answer to a call of useCheckin is taken by that call. *)
LEMMA CallTakes ==
  ASSUME TypeOK, Awaited, NEW c \in Callers, NEW m \in net, call[c].pc = "post", m.to = c,
         net' = net \ {m}, flush' = flush,
         call'[c].pc # "post", \A d \in Callers \ {c} : call'[d] = call[d]
  PROVE  Awaited'
<1> USE DEF Awaited, AnswersAwaited, OneAnswer
<1>0. c # "flush" /\ \A n \in net : n.to = c => n = m
  BY CallersKnown
<1>1. \A d \in Callers : call'[d].pc = "post" => \E n \in net' : n.to = d /\ n.scan = call'[d].scan
  BY <1>0
<1>2. \A i \in flush'.waiting : \E n \in net' : n.to = "flush" /\ n.key = i.key /\ n.scan = i.scan
  BY <1>0
<1>3. \A n \in net' : n.to # "flush" => call'[n.to].pc = "post"
  BY <1>0 DEF TypeOK
<1> QED
  BY <1>1, <1>2, <1>3

LEMMA AwaitedStep ==
  ASSUME TypeOK, Named, Shape, Awaited, [Next]_vars
  PROVE  Awaited'
<1> USE DEF histories, appVars, counters
<1>1. ASSUME NEW c \in Callers, NEW s \in Scans, Scan(c, s) PROVE Awaited'
  <2> DEFINE new == Message(c, s, NoKey, "request")
  <2>1. new.to = c /\ new.scan = s /\ new.key = NoKey
    BY DEF Message
  <2>2. net' = net \cup {new} /\ flush' = flush
    BY <1>1 DEF Scan
  <2> HIDE DEF new
  <2>3. call'[c].pc = "post" /\ call'[c].scan = s /\ \A d \in Callers \ {c} : call'[d] = call[d]
    BY <1>1 DEF Scan, TypeOK
  <2>4. c # "flush" /\ \A n \in net : n.to # c
    BY <1>1, CallersKnown DEF Scan, Awaited, AnswersAwaited
  <2>5. \A d \in Callers : call'[d].pc = "post" => \E n \in net' : n.to = d /\ n.scan = call'[d].scan
    BY <2>1, <2>2, <2>3 DEF Awaited, AnswersAwaited
  <2>6. \A i \in flush'.waiting : \E n \in net' : n.to = "flush" /\ n.key = i.key /\ n.scan = i.scan
    BY <2>2 DEF Awaited, AnswersAwaited
  <2>7. \A n \in net' : IF n.to = "flush" THEN \E i \in flush'.waiting : i.key = n.key
                                          ELSE call'[n.to].pc = "post"
    BY <2>1, <2>2, <2>3, <2>4 DEF Awaited, AnswersAwaited, TypeOK
  <2>8. OneAnswer'
    BY <2>1, <2>2, <2>4 DEF Awaited, OneAnswer
  <2>9. flush'.waiting # {} => flush'.pc = "post"
    BY <2>2 DEF Awaited, AnswersAwaited
  <2> QED
    BY <2>5, <2>6, <2>7, <2>8, <2>9 DEF Awaited, AnswersAwaited
<1>2. ASSUME NEW c \in Callers, NEW m \in net, CallAnswered(c, m) PROVE Awaited'
  BY <1>2, CallTakes DEF CallAnswered, TypeOK
<1>3. ASSUME NEW c \in Callers, NEW m \in net, CallUnanswered(c, m) PROVE Awaited'
  BY <1>3, CallTakes DEF CallUnanswered, Unanswered, TypeOK
<1>4. ASSUME NEW c \in Callers, AddRead(c) \/ AddSave(c) PROVE Awaited'
  <2>1. net' = net /\ flush' = flush
    BY <1>4 DEF AddRead, AddSave
  <2>2. call[c].pc # "post" /\ call'[c].pc # "post" /\ \A d \in Callers \ {c} : call'[d] = call[d]
    BY <1>4 DEF AddRead, AddSave, TypeOK
  <2> QED
    BY <2>1, <2>2 DEF Awaited, AnswersAwaited, OneAnswer, TypeOK
<1>5. CASE Disconnect \/ UNCHANGED vars
  BY <1>5 DEF Disconnect, vars, Awaited, AnswersAwaited, OneAnswer
<1>6. CASE Reconnect
  <2>1. flush'.waiting = flush.waiting /\ (flush.pc # "idle" => flush' = flush)
    BY <1>6 DEF Reconnect, Idle, Awaited, AnswersAwaited
  <2> QED
    BY <1>6, <2>1 DEF Reconnect, Awaited, AnswersAwaited, OneAnswer
<1>7. CASE Restart
  <2>1. net' = {} /\ flush'.waiting = {} /\ \A c \in Callers : call'[c].pc = "idle"
    BY <1>7 DEF Restart, Idle
  <2> QED
    BY <2>1 DEF Awaited, AnswersAwaited, OneAnswer
<1>8. CASE FlushRead \/ FlushSave
  <2>1. flush.waiting = {}
    BY <1>8 DEF FlushRead, FlushSave, Awaited, AnswersAwaited
  <2>2. flush'.waiting = {} /\ net' = net /\ call' = call
    <3>1. CASE FlushRead
      BY <3>1 DEF FlushRead, Idle
    <3>2. CASE FlushSave
      BY <3>2 DEF FlushSave, Idle
    <3> QED
      BY <1>8, <3>1, <3>2
  <2>3. \A m \in net : m.to # "flush"
    BY <2>1 DEF Awaited, AnswersAwaited
  <2>4. AnswersAwaited'
    BY <2>2, <2>3 DEF Awaited, AnswersAwaited
  <2> QED
    BY <2>2, <2>4 DEF Awaited, OneAnswer
<1>9. ASSUME NEW chunk \in SUBSET flush.todo, NEW expired \in SUBSET chunk, FlushChunk(chunk, expired)
      PROVE Awaited'
  <2> DEFINE sent == chunk \ expired
             Sent(i) == Message("flush", i.scan, i.key, "request")
  <2>1. flush.waiting = {} /\ flush'.waiting = sent /\ flush'.pc = "post" /\ call' = call
    BY <1>9 DEF FlushChunk, TypeOK
  <2>2. net' = net \cup {Sent(i) : i \in sent}
    BY <1>9 DEF FlushChunk
  <2>3. \A i : Sent(i).to = "flush" /\ Sent(i).key = i.key /\ Sent(i).scan = i.scan
    BY DEF Message
  <2>4. \A i, j \in sent : i.key = j.key => Sent(i) = Sent(j)
    <3>1. \A i, j \in sent : i.key = j.key => i.scan = j.scan
      BY DEF Named, KeysName, Placed, TypeOK
    <3> QED
      BY <3>1
  <2> HIDE DEF sent, Sent
  <2>5. \A m \in net : m.to # "flush"
    BY <2>1 DEF Awaited, AnswersAwaited
  <2>6. OneAnswer'
    BY <2>2, <2>3, <2>4, <2>5 DEF Awaited, OneAnswer
  <2>7. \A c \in Callers : call'[c].pc = "post" => \E m \in net' : m.to = c /\ m.scan = call'[c].scan
    BY <2>1, <2>2 DEF Awaited, AnswersAwaited
  <2>8. \A i \in flush'.waiting : \E m \in net' : m.to = "flush" /\ m.key = i.key /\ m.scan = i.scan
    BY <2>1, <2>2, <2>3
  <2>9. \A m \in net' : IF m.to = "flush" THEN \E i \in flush'.waiting : i.key = m.key
                                          ELSE call'[m.to].pc = "post"
    BY <2>1, <2>2, <2>3, <2>5 DEF Awaited, AnswersAwaited
  <2>10. flush'.waiting # {} => flush'.pc = "post"
    BY <2>1
  <2> QED
    BY <2>6, <2>7, <2>8, <2>9, <2>10 DEF Awaited, AnswersAwaited
<1>10. ASSUME NEW i \in flush.waiting, NEW m \in net, ItemAnswered(i, m) PROVE Awaited'
  <2>1. m.to = "flush" /\ m.key = i.key /\ net' = net \ {m} /\ call' = call
    BY <1>10 DEF ItemAnswered
  <2>2. flush'.waiting = flush.waiting \ {i} /\ flush'.pc = flush.pc
    <3>1. CASE Success(m)
      BY <1>10, <3>1 DEF ItemAnswered, TypeOK
    <3>2. CASE ~Success(m)
      BY <1>10, <3>2, RetryWaits DEF ItemAnswered
    <3> QED
      BY <3>1, <3>2
  <2> QED
    BY <2>1, <2>2, ItemTakes
<1>11. ASSUME NEW i \in flush.waiting, NEW m \in net, ItemUnanswered(i, m) PROVE Awaited'
  BY <1>11, RetryWaits, ItemTakes DEF ItemUnanswered, Unanswered
<1>12. ASSUME NEW m \in net, Serve(m) PROVE Awaited'
  <2>1. PICK says \in {"ok", "refused", "forbidden"} : Reply(m, says)
    BY <1>12 DEF Serve
  <2> DEFINE answer == [m EXCEPT !.says = says]
  <2>2. answer.to = m.to /\ answer.key = m.key /\ answer.scan = m.scan
    BY DEF TypeOK
  <2>3. net' = (net \ {m}) \cup {answer} /\ call' = call /\ flush' = flush
    BY <1>12, <2>1 DEF Serve, Reply
  <2> HIDE DEF answer
  <2> QED
    BY <2>2, <2>3 DEF Awaited, AnswersAwaited, OneAnswer
<1> QED
  BY <1>1, <1>2, <1>3, <1>4, <1>5, <1>6, <1>7, <1>8, <1>9, <1>10, <1>11, <1>12
     DEF Next, CallStep, FlushStep

(* No attempt and no flush awaits an answer that cannot come any more, and   *)
(* none is under way for one who has stopped waiting.                       *)
THEOREM AllAreAnswered == Spec => []AnswersAwaited
<1> DEFINE Inv == Shape /\ Named /\ Awaited
<1>1. Init => Inv
  <2> SUFFICES ASSUME Init PROVE Inv
    OBVIOUS
  <2>1. Shape
    BY TidyEmpty DEF Init, Shape, AddTidy, FlushTidy, Apart, Idle, Tidy, OneEach
  <2>2. Named /\ Awaited
    BY DEF Init, Idle, Named, Issued, KeysName, Placed, Awaited, AnswersAwaited, OneAnswer
  <2> QED
    BY <2>1, <2>2
<1>2. TypeOK /\ TypeOK' /\ Inv /\ [Next]_vars => Inv'
  BY ShapeStep, NamedStep, AwaitedStep
<1>3. Inv => AnswersAwaited
  BY DEF Awaited
<1> QED
  BY <1>1, <1>2, <1>3, TypeCorrect, PTL DEF Spec
-----------------------------------------------------------------------------
(* The queue as the student knows it.  Besides what was needed so far: while  *)
(* the spans do not overlap, whoever is in one holds nothing that has left    *)
(* the storage, unless the student was told of it.                           *)
OnlyByAdd == \A c \in Callers : call[c].pc = "save" =>
               KeysOf(call[c].copy) \subseteq settled \cup KeysOf(stored)
OnlyByFlush == flush.pc = "post" =>
  KeysOf(flush.todo \cup flush.waiting \cup flush.left) \subseteq settled \cup KeysOf(stored)
HeldOnly == serial => OnlyByAdd /\ OnlyByFlush

LEMMA KeysGrow == ASSUME NEW S, NEW T, S \subseteq T PROVE KeysOf(S) \subseteq KeysOf(T)
  BY DEF KeysOf

LEMMA RetryHolds ==
  ASSUME TypeOK, NEW i \in flush.waiting, NEW known, RetryOrGiveUp(i, known)
  PROVE  /\ flush'.pc = flush.pc /\ settled' \in {known, known \cup {i.key}}
         /\ KeysOf(flush'.todo \cup flush'.waiting \cup flush'.left)
              \subseteq KeysOf(flush.todo \cup flush.waiting \cup flush.left)
<1>0. i \in Items
  BY DEF TypeOK
<1>1. CASE i.retries < MaxRetries
  <2> DEFINE again == [i EXCEPT !.retries = @ + 1]
  <2>1. again.key = i.key
    BY <1>0 DEF Items
  <2>2. flush' = [flush EXCEPT !.waiting = @ \ {i}, !.left = @ \cup {again}] /\ settled' = known
    BY <1>1 DEF RetryOrGiveUp
  <2> HIDE DEF again
  <2> QED
    BY <2>1, <2>2 DEF KeysOf, TypeOK
<1>2. CASE ~(i.retries < MaxRetries)
  BY <1>2 DEF RetryOrGiveUp, KeysOf, TypeOK
<1> QED
  BY <1>1, <1>2

LEMMA HeldOnlyStep ==
  ASSUME TypeOK, Keeping, HeldOnly, [Next]_vars
  PROVE  HeldOnly'
<1> SUFFICES ASSUME serial' PROVE OnlyByAdd' /\ OnlyByFlush'
  BY DEF HeldOnly
<1> USE DEF HeldOnly, OnlyByAdd, OnlyByFlush, histories, appVars, counters
(* Nobody takes a copy, and what leaves the storage is settled. *)
<1>0. ASSUME serial, settled \subseteq settled', KeysOf(stored) \subseteq settled' \cup KeysOf(stored'),
             \A c \in Callers : call'[c].pc = "save" => call'[c] = call[c],
             flush'.pc = "post" => flush.pc = "post" /\
               KeysOf(flush'.todo \cup flush'.waiting \cup flush'.left)
                 \subseteq KeysOf(flush.todo \cup flush.waiting \cup flush.left)
      PROVE  OnlyByAdd' /\ OnlyByFlush'
  <2>1. ASSUME NEW S, S \subseteq settled \cup KeysOf(stored) PROVE S \subseteq settled' \cup KeysOf(stored')
    BY <1>0, <2>1
  <2>2. OnlyByAdd'
    BY <1>0, <2>1
  <2>3. OnlyByFlush'
    BY <1>0, <2>1
  <2> QED
    BY <2>2, <2>3
<1>1. ASSUME NEW c \in Callers, NEW s \in Scans, Scan(c, s) PROVE OnlyByAdd' /\ OnlyByFlush'
  BY <1>0, <1>1 DEF Scan, TypeOK
<1>2. ASSUME NEW c \in Callers, NEW m \in net, CallAnswered(c, m) PROVE OnlyByAdd' /\ OnlyByFlush'
  <2>1. settled \subseteq settled' /\ KeysOf(stored) \subseteq settled' \cup KeysOf(stored')
    BY <1>2 DEF CallAnswered, ClearSession
  <2> QED
    BY <1>0, <1>2, <2>1 DEF CallAnswered, TypeOK
<1>3. ASSUME NEW c \in Callers, NEW m \in net, CallUnanswered(c, m) PROVE OnlyByAdd' /\ OnlyByFlush'
  BY <1>0, <1>3 DEF CallUnanswered, TypeOK
<1>4. ASSUME NEW c \in Callers, AddRead(c) PROVE OnlyByAdd' /\ OnlyByFlush'
  <2>1. serial
    BY <1>4, Zenon DEF AddRead
  <2>2. call'[c].pc = "save" => call'[c].copy = stored
    <3>1. CASE Accepts(call[c].scan)
      BY <1>4, <3>1 DEF AddRead, TypeOK
    <3>2. CASE ~Accepts(call[c].scan)
      <4>1. call' = [call EXCEPT ![c] = [pc |-> "idle"]]
        BY <1>4, <3>2 DEF AddRead
      <4> QED
        BY <4>1 DEF TypeOK
    <3> QED
      BY <3>1, <3>2
  <2>3. \A d \in Callers \ {c} : call'[d] = call[d]
    BY <1>4 DEF AddRead, TypeOK
  <2> QED
    BY <1>4, <2>1, <2>2, <2>3 DEF AddRead
<1>5. ASSUME NEW c \in Callers, AddSave(c) PROVE OnlyByAdd' /\ OnlyByFlush'
  <2>1. flush.pc # "post" /\ flush' = flush /\ \A d \in Callers : call'[d].pc # "save"
    BY <1>5 DEF AddSave, Keeping, HeldByAdd, TypeOK
  <2> QED
    BY <2>1
<1>6. CASE Disconnect \/ UNCHANGED vars
  BY <1>0, <1>6 DEF Disconnect, vars
<1>7. CASE Reconnect
  BY <1>0, <1>7 DEF Reconnect, Idle
<1>8. CASE Restart
  BY <1>0, <1>8 DEF Restart, Idle
<1>9. CASE FlushRead
  <2>1. serial
    BY <1>9, Zenon DEF FlushRead
  <2>2. flush'.todo \cup flush'.waiting \cup flush'.left \subseteq stored
    BY <1>9 DEF FlushRead, Idle
  <2> QED
    BY <1>9, <2>1, <2>2, KeysGrow DEF FlushRead
<1>10. CASE FlushSave
  <2>1. flush'.pc # "post" /\ \A c \in Callers : call'[c].pc # "save"
    BY <1>10 DEF FlushSave, Idle, Keeping, HeldByAdd
  <2> QED
    BY <2>1
<1>11. ASSUME NEW chunk \in SUBSET flush.todo, NEW expired \in SUBSET chunk, FlushChunk(chunk, expired)
       PROVE OnlyByAdd' /\ OnlyByFlush'
  <2>1. flush'.todo \cup flush'.waiting \cup flush'.left \subseteq flush.todo \cup flush.waiting \cup flush.left
    BY <1>11 DEF FlushChunk, TypeOK
  <2> QED
    BY <1>0, <1>11, <2>1, KeysGrow DEF FlushChunk
<1>12. ASSUME NEW i \in flush.waiting, NEW m \in net, ItemAnswered(i, m) PROVE OnlyByAdd' /\ OnlyByFlush'
  <2>1. CASE Success(m)
    <3>1. flush'.todo \cup flush'.waiting \cup flush'.left \subseteq flush.todo \cup flush.waiting \cup flush.left
      BY <1>12, <2>1 DEF ItemAnswered, TypeOK
    <3> QED
      BY <1>0, <1>12, <2>1, <3>1, KeysGrow DEF ItemAnswered
  <2>2. CASE ~Success(m)
    <3>1. settled \subseteq settled' /\ KeysOf(stored) \subseteq settled' \cup KeysOf(stored')
      <4>1. CASE m.says = "forbidden"
        BY <1>12, <2>2, <4>1, RetryHolds DEF ItemAnswered
      <4>2. CASE m.says # "forbidden"
        BY <1>12, <2>2, <4>2, RetryHolds DEF ItemAnswered
      <4> QED
        BY <4>1, <4>2
    <3>2. \E known : RetryOrGiveUp(i, known)
      BY <1>12, <2>2 DEF ItemAnswered
    <3> QED
      BY <1>0, <1>12, <3>1, <3>2, RetryHolds DEF ItemAnswered
  <2> QED
    BY <2>1, <2>2
<1>13. ASSUME NEW i \in flush.waiting, NEW m \in net, ItemUnanswered(i, m) PROVE OnlyByAdd' /\ OnlyByFlush'
  <2>1. settled \subseteq settled'
    BY <1>13, RetryHolds DEF ItemUnanswered
  <2> QED
    BY <1>0, <1>13, <2>1, RetryHolds DEF ItemUnanswered
<1>14. ASSUME NEW m \in net, Serve(m) PROVE OnlyByAdd' /\ OnlyByFlush'
  BY <1>0, <1>14 DEF Serve
<1> QED
  BY <1>1, <1>2, <1>3, <1>4, <1>5, <1>6, <1>7, <1>8, <1>9, <1>10, <1>11, <1>12, <1>13, <1>14
     DEF Next, CallStep, FlushStep

(* Every item anywhere has a key that was issued. *)
LEMMA KeysIssued ==
  ASSUME TypeOK, Named
  PROVE  /\ saved \in Nat /\ KeysOf(stored) \subseteq 1..saved
         /\ KeysOf(flush.todo \cup flush.waiting \cup flush.left) \subseteq 1..saved
         /\ \A c \in Callers : call[c].pc = "save" => KeysOf(call[c].copy) \subseteq 1..saved
<1>1. saved \in Nat
  BY DEF TypeOK
<1>2. ASSUME NEW i \in Items, Placed(i) PROVE i.key \in 1..saved
  BY <1>1, <1>2 DEF Named, Issued, Items, Keys
<1>3. \A i \in stored \cup flush.todo \cup flush.waiting \cup flush.left : i \in Items /\ Placed(i)
  BY DEF TypeOK, Placed
<1>4. \A c \in Callers : call[c].pc = "save" => \A i \in call[c].copy : i \in Items /\ Placed(i)
  BY DEF TypeOK, Placed
<1> QED
  BY <1>1, <1>2, <1>3, <1>4 DEF KeysOf

(* A step that tells outcomes, and removes at most what it tells of.         *)
LEMMA OutcomePromised ==
  ASSUME TypeOK, NEW keys \in SUBSET (1..saved), settled' = settled \cup keys,
         KeysOf(stored') \subseteq KeysOf(stored), KeysOf(stored) \subseteq settled' \cup KeysOf(stored'),
         confirmed => confirmed', confirmed' => confirmed \/ onBoard, onBoard => onBoard',
         saved' = saved, serial' = serial
  PROVE  Promised!Next
BY DEF Promised!Next, Promised!Outcome, Promised!NoneLost

LEMMA RetryPromised ==
  ASSUME TypeOK, Named, NEW i \in flush.waiting, NEW known \in SUBSET KeysOf(stored),
         RetryOrGiveUp(i, settled \cup known)
  PROVE  \E keys \in SUBSET (1..saved) : settled' = settled \cup keys /\ known \subseteq keys
<1>1. i.key \in KeysOf(flush.todo \cup flush.waiting \cup flush.left)
  BY DEF KeysOf
<1>2. known \subseteq 1..saved /\ i.key \in 1..saved
  BY <1>1, KeysIssued
<1>3. settled' = settled \cup known \/ settled' = settled \cup (known \cup {i.key})
  BY DEF RetryOrGiveUp
<1> QED
  BY <1>2, <1>3

(* A student's phone keeps its promise, however adds, flushes, logouts and    *)
(* restarts interleave and whatever the server does: an accepted check-in     *)
(* stays until she is told of it and does not return afterwards, and she is   *)
(* shown a boarding only after one.                                         *)
THEOREM PhoneQueueImplemented == Spec => ImplementsPhoneQueue
<1> DEFINE Inv == Keeping /\ HeldOnly /\ Shape /\ Named /\ Truthful
<1>1. Init => Promised!Init /\ Inv
  <2> SUFFICES ASSUME Init PROVE Promised!Init /\ Inv
    OBVIOUS
  <2>1. KeysOf({}) = {} /\ 1..saved = {}
    BY DEF KeysOf, Init
  <2>2. Promised!Init
    BY <2>1 DEF Init, Promised!Init
  <2>3. Keeping /\ HeldOnly
    BY <2>1 DEF Init, Keeping, Kept, HeldByAdd, HeldByFlush, HeldOnly, OnlyByAdd, OnlyByFlush, Idle
  <2>4. Shape
    BY TidyEmpty DEF Init, Shape, AddTidy, FlushTidy, Apart, Idle, Tidy, OneEach
  <2>5. Named /\ Truthful
    BY DEF Init, Idle, Named, Issued, KeysName, Placed, Truthful, ConfirmedIsOnBoard, OkIsOnBoard
  <2> QED
    BY <2>2, <2>3, <2>4, <2>5
<1>2. TypeOK /\ Inv /\ [Next]_vars => Inv'
  BY KeepingStep, HeldOnlyStep, ShapeStep, NamedStep, TruthfulStep
<1>3. TypeOK /\ Inv /\ [Next]_vars => [Promised!Next]_(Promised!vars)
  <2> SUFFICES ASSUME TypeOK, Inv, Next PROVE Promised!Next \/ UNCHANGED Promised!vars
    BY DEF vars, appVars, histories, Promised!vars
  <2> USE DEF histories, appVars, counters
  <2>0. KeysOf(stored) \subseteq 1..saved /\ saved \in Nat /\ {} \in SUBSET (1..saved)
    BY KeysIssued
  <2>1. ASSUME UNCHANGED <<stored, saved, settled, confirmed, serial>>, onBoard => onBoard'
        PROVE  Promised!Next
    BY <2>0, <2>1, OutcomePromised
  <2>2. ASSUME NEW ms, MayBoard(ms) PROVE onBoard => onBoard'
    BY <2>2, MayBoardTyped
  <2>3. ASSUME NEW c \in Callers, \E s \in Scans : Scan(c, s) PROVE Promised!Next
    BY <2>1, <2>3 DEF Scan
  <2>4. ASSUME NEW c \in Callers, NEW m \in net, CallAnswered(c, m) PROVE Promised!Next
    <3>1. confirmed' => confirmed \/ onBoard
      BY <2>4 DEF CallAnswered, Truthful, OkIsOnBoard
    <3>2. confirmed => confirmed'
      BY <2>4, Zenon DEF CallAnswered
    <3>3. onBoard' = onBoard /\ saved' = saved /\ serial' = serial
      BY <2>4 DEF CallAnswered
    <3>4. CASE m.says = "forbidden"
      <4>1. settled' = settled \cup KeysOf(stored) /\ stored' = {}
        BY <2>4, <3>4 DEF CallAnswered, ClearSession
      <4> QED
        BY <2>0, <3>1, <3>2, <3>3, <4>1, KeysGrow, OutcomePromised
    <3>5. CASE m.says # "forbidden"
      <4>1. settled' = settled /\ stored' = stored
        BY <2>4, <3>5 DEF CallAnswered
      <4> QED
        BY <2>0, <3>1, <3>2, <3>3, <4>1, OutcomePromised
    <3> QED
      BY <3>4, <3>5
  <2>5. ASSUME NEW c \in Callers, NEW m \in net, CallUnanswered(c, m) PROVE Promised!Next
    BY <2>1, <2>2, <2>5 DEF CallUnanswered, Unanswered
  <2>6. ASSUME NEW c \in Callers, AddRead(c) PROVE Promised!Next
    <3>1. UNCHANGED <<stored, saved, settled, confirmed, onBoard>>
      BY <2>6 DEF AddRead
    <3>2. serial' = FALSE \/ serial' = serial
      BY <2>6, Zenon DEF AddRead, TypeOK
    <3> QED
      BY <2>1, <3>1, <3>2 DEF Promised!Next, Promised!Overlap
  <2>7. ASSUME NEW c \in Callers, AddSave(c) PROVE Promised!Next
    <3> DEFINE item == [scan |-> call[c].scan, key |-> saved', retries |-> 0]
    <3>1. item.key = saved' /\ stored' = call[c].copy \cup {item}
      BY <2>7 DEF AddSave
    <3> HIDE DEF item
    <3>2. KeysOf(stored') = KeysOf(call[c].copy) \cup {saved'}
      BY <3>1 DEF KeysOf
    <3>3. saved' = saved + 1 /\ UNCHANGED <<settled, confirmed, onBoard, serial>>
      BY <2>7 DEF AddSave
    <3>4. serial => KeysOf(stored) \subseteq settled \cup KeysOf(call[c].copy)
      BY <2>7 DEF AddSave, Keeping, HeldByAdd
    <3>5. serial => KeysOf(call[c].copy) \subseteq settled \cup KeysOf(stored)
      BY <2>7 DEF AddSave, HeldOnly, OnlyByAdd
    <3>6. KeysOf(call[c].copy) \subseteq 1..saved
      BY <2>7, KeysIssued DEF AddSave
    <3>7. Promised!NoneLost
      BY <3>2, <3>3, <3>4 DEF Promised!NoneLost
    <3>8. Promised!NoneReturns({saved'})
      BY <3>2, <3>5, <3>6 DEF Promised!NoneReturns
    <3> QED
      BY <3>2, <3>3, <3>7, <3>8 DEF Promised!Next, Promised!Accept
  <2>8. ASSUME Disconnect \/ Reconnect PROVE Promised!Next
    BY <2>1, <2>8 DEF Disconnect, Reconnect
  <2>9. ASSUME Restart PROVE Promised!Next
    BY <2>1, <2>2, <2>9 DEF Restart
  <2>10. ASSUME FlushRead PROVE Promised!Next
    <3>1. UNCHANGED <<stored, saved, settled, confirmed, onBoard>>
      BY <2>10 DEF FlushRead
    <3>2. serial' = FALSE \/ serial' = serial
      BY <2>10, Zenon DEF FlushRead, TypeOK
    <3> QED
      BY <2>1, <3>1, <3>2 DEF Promised!Next, Promised!Overlap
  <2>11. ASSUME FlushSave PROVE Promised!Next
    <3>1. UNCHANGED <<saved, settled, confirmed, onBoard, serial>>
      BY <2>11 DEF FlushSave
    <3>2. stored' = flush.todo \cup flush.waiting \cup flush.left
      BY <2>11 DEF FlushSave
    <3>3. serial => KeysOf(stored) \subseteq settled \cup KeysOf(stored')
      BY <2>11, <3>2 DEF FlushSave, Keeping, HeldByFlush
    <3>4. serial => KeysOf(stored') \subseteq settled \cup KeysOf(stored)
      BY <2>11, <3>2 DEF FlushSave, HeldOnly, OnlyByFlush
    <3>5. KeysOf(stored') \subseteq 1..saved
      BY <3>2, KeysIssued
    <3>6. Promised!NoneLost /\ Promised!NoneReturns({})
      BY <3>1, <3>3, <3>4, <3>5 DEF Promised!NoneLost, Promised!NoneReturns
    <3> QED
      BY <3>1, <3>6 DEF Promised!Next, Promised!Rewrite
  <2>12. ASSUME NEW chunk \in SUBSET flush.todo, NEW expired \in SUBSET chunk, FlushChunk(chunk, expired)
         PROVE  Promised!Next
    <3>1. KeysOf(expired) \subseteq 1..saved
      BY KeysGrow, KeysIssued
    <3>2. settled' = settled \cup KeysOf(expired) /\ UNCHANGED <<stored, saved, confirmed, onBoard, serial>>
      BY <2>12 DEF FlushChunk
    <3> QED
      BY <3>1, <3>2, OutcomePromised
  <2>13. ASSUME NEW i \in flush.waiting, NEW m \in net, ItemAnswered(i, m) PROVE Promised!Next
    <3>1. UNCHANGED <<saved, onBoard, serial>>
      BY <2>13 DEF ItemAnswered
    <3>2. CASE Success(m)
      <4>1. settled' = settled \cup {i.key} /\ stored' = stored /\ confirmed' = TRUE
        BY <2>13, <3>2 DEF ItemAnswered
      <4>2. onBoard
        BY <3>2 DEF Success, Truthful, OkIsOnBoard
      <4>3. {i.key} \in SUBSET (1..saved)
        BY KeysIssued DEF KeysOf
      <4> QED
        BY <3>1, <4>1, <4>2, <4>3, OutcomePromised
    <3>3. CASE ~Success(m) /\ m.says = "forbidden"
      <4>1. stored' = {} /\ RetryOrGiveUp(i, settled \cup KeysOf(stored)) /\ confirmed' = confirmed
        BY <2>13, <3>3 DEF ItemAnswered
      <4>2. PICK keys \in SUBSET (1..saved) : settled' = settled \cup keys /\ KeysOf(stored) \subseteq keys
        BY <4>1, RetryPromised
      <4> QED
        BY <3>1, <4>1, <4>2, KeysGrow, OutcomePromised
    <3>4. CASE ~Success(m) /\ m.says # "forbidden"
      <4>1. stored' = stored /\ RetryOrGiveUp(i, settled \cup {}) /\ confirmed' = confirmed
        BY <2>13, <3>4 DEF ItemAnswered
      <4>2. PICK keys \in SUBSET (1..saved) : settled' = settled \cup keys
        BY <4>1, RetryPromised
      <4> QED
        BY <3>1, <4>1, <4>2, OutcomePromised
    <3> QED
      BY <3>2, <3>3, <3>4
  <2>14. ASSUME NEW i \in flush.waiting, NEW m \in net, ItemUnanswered(i, m) PROVE Promised!Next
    <3>1. UNCHANGED <<stored, saved, confirmed, serial>> /\ RetryOrGiveUp(i, settled \cup {})
      BY <2>14 DEF ItemUnanswered
    <3>2. onBoard => onBoard'
      BY <2>2, <2>14 DEF ItemUnanswered, Unanswered
    <3>3. PICK keys \in SUBSET (1..saved) : settled' = settled \cup keys
      BY <3>1, RetryPromised
    <3> QED
      BY <3>1, <3>2, <3>3, OutcomePromised
  <2>15. ASSUME NEW m \in net, Serve(m) PROVE Promised!Next
    <3>1. UNCHANGED <<stored, saved, settled, confirmed, serial>> /\ (onBoard => onBoard')
      BY <2>15 DEF Serve
    <3> QED
      BY <2>1, <3>1
  <2> QED
    BY <2>3, <2>4, <2>5, <2>6, <2>7, <2>8, <2>9, <2>10, <2>11, <2>12, <2>13, <2>14, <2>15
       DEF Next, CallStep, FlushStep
<1> QED
  BY <1>1, <1>2, <1>3, TypeCorrect, PTL DEF Spec, ImplementsPhoneQueue, Promised!Spec
=============================================================================
