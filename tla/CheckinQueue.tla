---------------------------- MODULE CheckinQueue ----------------------------
(***************************************************************************)
(* Check-ins of one student's phone, across a bad network.                  *)
(*                                                                         *)
(*   apps/mobile/hooks/useCheckin.ts        the first attempt              *)
(*   apps/mobile/lib/checkin-queue.ts       the queue in AsyncStorage      *)
(*   apps/mobile/hooks/useNetworkStatus.ts  when it is flushed             *)
(*   apps/mobile/lib/api.client.ts, session.ts  errors, the 403 logout     *)
(*   modules/attendance  POST /checkin as seen by the phone                *)
(*                                                                         *)
(* An attempt that gets no answer is queued, unless its QR token is already *)
(* there, and sent again with an Idempotency-Key when the network returns.  *)
(* add and flush each read the whole queue, do other things, and write the  *)
(* whole queue; only flush is guarded, and only against itself.             *)
(*                                                                         *)
(* The queue's order only groups items into chunks, so it is a set here and *)
(* the chunks are any.  The idempotency plugin is left out: nothing gives   *)
(* the application the redis client it looks for.                          *)
(***************************************************************************)
EXTENDS Integers, FiniteSets

CONSTANTS
  Scans,        \* QR tokens shown to the student
  Callers,      \* useCheckin calls that may overlap
  MaxQueue,     \* MAX_QUEUE_SIZE
  MaxRetries,   \* MAX_RETRIES
  Concurrency,  \* CONCURRENCY
  MaxScans,     \* bound: attempts
  MaxLost,      \* bound: unanswered requests while connected
  MaxRestarts   \* bound: restarts of the app

ASSUME CallersKnown == "flush" \notin Callers
ASSUME LimitsKnown ==
  /\ MaxQueue \in Nat \ {0} /\ MaxRetries \in Nat /\ Concurrency \in Nat \ {0}
  /\ MaxScans \in Nat /\ MaxLost \in Nat /\ MaxRestarts \in Nat

VARIABLES
  connected, \* what NetInfo said last
  call,      \* caller -> where useCheckin is, for which token, the queue it read
  stored,    \* the queue in AsyncStorage
  flush,     \* the flush in progress
  net,       \* requests and answers under way
  onBoard,   \* the student's log says so
  scans, lost, restarts,      \* bounded counters
  saved,     \* history: how many items the queue has accepted; their keys are 1..saved
  settled,   \* history: keys whose outcome the student was shown, or that a logout cleared
  confirmed, \* history: the student was shown a check-in as made or synced
  serial     \* history: no read-to-write spans of the queue have overlapped

appVars == <<connected, call, stored, flush>>
counters == <<scans, lost, restarts>>
histories == <<saved, settled, confirmed, serial>>
vars == <<appVars, net, onBoard, counters, histories>>

Keys == Nat \ {0}     \* ids of queued items; a first attempt has none
NoKey == 0
Items == [scan : Scans, key : Keys, retries : 0..MaxRetries]
Idle == [pc |-> "idle", todo |-> {}, waiting |-> {}, left |-> {}]
Message(to, s, k, says) == [to |-> to, scan |-> s, key |-> k, says |-> says]

TypeOK ==
  /\ connected \in BOOLEAN
  /\ call \in [Callers -> {[pc |-> "idle"]} \cup [pc : {"post", "read"}, scan : Scans]
                          \cup [pc : {"save"}, scan : Scans, copy : SUBSET Items]]
  /\ stored \subseteq Items
  /\ flush \in [pc : {"idle", "read", "post"}, todo : SUBSET Items,
                waiting : SUBSET Items, left : SUBSET Items]
  /\ net \subseteq [to : Callers \cup {"flush"}, scan : Scans, key : Keys \cup {NoKey},
                    says : {"request", "ok", "refused", "forbidden"}]
  /\ onBoard \in BOOLEAN
  /\ scans \in 0..MaxScans /\ lost \in 0..MaxLost /\ restarts \in 0..MaxRestarts
  /\ saved \in Nat /\ settled \subseteq Keys
  /\ confirmed \in BOOLEAN /\ serial \in BOOLEAN

(* The app runs and is connected; the kiosk shows the tokens.               *)
Init ==
  /\ connected = TRUE
  /\ call = [c \in Callers |-> [pc |-> "idle"]]
  /\ stored = {} /\ flush = Idle /\ net = {}
  /\ onBoard = FALSE
  /\ scans = 0 /\ lost = 0 /\ restarts = 0
  /\ saved = 0 /\ settled = {} /\ confirmed = FALSE /\ serial = TRUE

KeysOf(items) == {i.key : i \in items}
(* Someone has read the queue and will write it.                            *)
Spanning == flush.pc = "post" \/ \E c \in Callers : call[c].pc = "save"

-----------------------------------------------------------------------------
(* useCheckin: the first attempt carries no key.                            *)
Scan(c, s) ==
  /\ call[c].pc = "idle"
  /\ scans < MaxScans /\ scans' = scans + 1
  /\ call' = [call EXCEPT ![c] = [pc |-> "post", scan |-> s]]
  /\ net' = net \cup {Message(c, s, NoKey, "request")}
  /\ UNCHANGED <<connected, stored, flush, onBoard, lost, restarts, histories>>

(* clearMobileSession removes the queue; what is being worked on stays.      *)
ClearSession == stored' = {} /\ settled' = settled \cup KeysOf(stored)

CallAnswered(c, m) ==
  /\ call[c].pc = "post" /\ m.to = c /\ m.says # "request"
  /\ net' = net \ {m}
  /\ call' = [call EXCEPT ![c] = [pc |-> "idle"]]
  /\ confirmed' = (confirmed \/ m.says = "ok")
  /\ IF m.says = "forbidden" THEN ClearSession ELSE UNCHANGED <<stored, settled>>
  /\ UNCHANGED <<connected, flush, onBoard, counters, saved, serial>>

(* A request nobody waits for any more may board the student all the same.  *)
MayBoard(ms) == onBoard' \in IF \E m \in ms : m.says = "request" THEN {onBoard, TRUE} ELSE {onBoard}

(* No answer within 10 s, or no network.                                    *)
Unanswered(m) ==
  /\ IF connected THEN lost < MaxLost /\ lost' = lost + 1 ELSE UNCHANGED lost
  /\ net' = net \ {m}
  /\ MayBoard({m})

CallUnanswered(c, m) ==
  /\ call[c].pc = "post" /\ m.to = c
  /\ Unanswered(m)
  /\ call' = [call EXCEPT ![c] = [pc |-> "read", scan |-> call[c].scan]]
  /\ UNCHANGED <<connected, stored, flush, scans, restarts, histories>>

(* Mutant: no dedup guard. *)
Addable(s) == Cardinality(stored) < MaxQueue

Accepts(s) ==
  /\ \A i \in stored : i.scan # s
  /\ Cardinality(stored) < MaxQueue

(* checkinQueue.add reads the queue...                                      *)
AddRead(c) ==
  /\ call[c].pc = "read"
  /\ IF Accepts(call[c].scan)
     THEN /\ call' = [call EXCEPT ![c] = [pc |-> "save", scan |-> @.scan, copy |-> stored]]
          /\ serial' = (serial /\ ~Spanning)
     ELSE call' = [call EXCEPT ![c] = [pc |-> "idle"]] /\ UNCHANGED serial
  /\ UNCHANGED <<connected, stored, flush, net, onBoard, counters, saved, settled, confirmed>>

(* ... and writes what it read and its item.                                *)
AddSave(c) ==
  /\ call[c].pc = "save"
  /\ saved' = saved + 1
  /\ stored' = call[c].copy \cup {[scan |-> call[c].scan, key |-> saved', retries |-> 0]}
  /\ call' = [call EXCEPT ![c] = [pc |-> "idle"]]
  /\ UNCHANGED <<connected, flush, net, onBoard, counters, settled, confirmed, serial>>

-----------------------------------------------------------------------------
(* NetInfo, and the app's life.                                             *)

Disconnect == connected /\ connected' = FALSE
              /\ UNCHANGED <<call, stored, flush, net, onBoard, counters, histories>>

(* isFlushing: a second flush returns at once.                              *)
Reconnect ==
  /\ ~connected /\ connected' = TRUE
  /\ flush' = IF flush.pc = "idle" THEN [Idle EXCEPT !.pc = "read"] ELSE flush
  /\ UNCHANGED <<call, stored, net, onBoard, counters, histories>>

(* The app starts anew, on the storage it finds; it flushes if it can.      *)
Restart ==
  /\ restarts < MaxRestarts /\ restarts' = restarts + 1
  /\ call' = [c \in Callers |-> [pc |-> "idle"]]
  /\ flush' = IF connected THEN [Idle EXCEPT !.pc = "read"] ELSE Idle
  /\ net' = {} /\ MayBoard(net)
  /\ UNCHANGED <<connected, stored, scans, lost, histories>>

-----------------------------------------------------------------------------
(* checkinQueue.flush                                                       *)

(* Mutant: the queue is emptied when it is read.                            *)
FlushClaims ==
  /\ flush.pc = "read"
  /\ flush' = IF stored = {} THEN Idle ELSE [Idle EXCEPT !.pc = "post", !.todo = stored]
  /\ stored' = {}
  /\ serial' = (serial /\ (stored = {} \/ ~Spanning))
  /\ UNCHANGED <<connected, call, net, onBoard, counters, saved, settled, confirmed>>

FlushRead ==
  /\ flush.pc = "read"
  /\ flush' = IF stored = {} THEN Idle ELSE [Idle EXCEPT !.pc = "post", !.todo = stored]
  /\ serial' = (serial /\ (stored = {} \/ ~Spanning))
  /\ UNCHANGED <<connected, call, stored, net, onBoard, counters, saved, settled, confirmed>>

(* The next chunk: items older than 90 minutes are dropped with a word to    *)
(* the student, the others are sent.                                        *)
FlushChunk(chunk, expired) ==
  /\ flush.pc = "post" /\ flush.waiting = {}
  /\ chunk # {} /\ (Cardinality(chunk) = Concurrency \/ chunk = flush.todo)
  /\ flush' = [flush EXCEPT !.todo = @ \ chunk, !.waiting = chunk \ expired]
  /\ net' = net \cup {Message("flush", i.scan, i.key, "request") : i \in chunk \ expired}
  /\ settled' = settled \cup KeysOf(expired)
  /\ UNCHANGED <<connected, call, stored, onBoard, counters, saved, confirmed, serial>>

(* Mutant: a retry that is not counted. *)
KeepOrGiveUp(i, known) ==
  /\ flush' = [flush EXCEPT !.waiting = @ \ {i}, !.left = @ \cup {i}]
  /\ settled' = known

(* An item without success is kept, counted, or given up with a toast.  (The *)
(* 410 that ends an item at once is an answer POST /checkin never gives.)    *)
RetryOrGiveUp(i, known) ==
  IF i.retries < MaxRetries
  THEN /\ flush' = [flush EXCEPT !.waiting = @ \ {i},
                                 !.left = @ \cup {[i EXCEPT !.retries = @ + 1]}]
       /\ settled' = known
  ELSE /\ flush' = [flush EXCEPT !.waiting = @ \ {i}]
       /\ settled' = known \cup {i.key}

(* Mutant: any 409 counts as already checked in. *)
SuccessOr409(m) == m.says = "ok" \/ m.says = "refused"

Success(m) == m.says = "ok"

(* processQueueItem, after the answer; the 403 has ended the session by then.*)
ItemAnswered(i, m) ==
  /\ flush.pc = "post" /\ i \in flush.waiting
  /\ m.to = "flush" /\ m.key = i.key /\ m.says # "request"
  /\ net' = net \ {m}
  /\ IF Success(m)
     THEN /\ flush' = [flush EXCEPT !.waiting = @ \ {i}]
          /\ settled' = settled \cup {i.key}
          /\ confirmed' = TRUE
          /\ UNCHANGED stored
     ELSE /\ IF m.says = "forbidden"
             THEN stored' = {} /\ RetryOrGiveUp(i, settled \cup KeysOf(stored))
             ELSE UNCHANGED stored /\ RetryOrGiveUp(i, settled)
          /\ UNCHANGED confirmed
  /\ UNCHANGED <<connected, call, onBoard, counters, saved, serial>>

ItemUnanswered(i, m) ==
  /\ flush.pc = "post" /\ i \in flush.waiting
  /\ m.to = "flush" /\ m.key = i.key
  /\ Unanswered(m)
  /\ RetryOrGiveUp(i, settled)
  /\ UNCHANGED <<connected, call, stored, scans, restarts, saved, confirmed, serial>>

(* saveQueue(remaining), and the lock is free.                              *)
FlushSave ==
  /\ flush.pc = "post" /\ flush.todo = {} /\ flush.waiting = {}
  /\ stored' = flush.left
  /\ flush' = Idle
  /\ UNCHANGED <<connected, call, net, onBoard, counters, histories>>

-----------------------------------------------------------------------------
(* POST /checkin, as far as the phone can tell: TripAttendance takes it      *)
(* apart.  An error (a nonce burnt or expired, a limit, the geofence...) may *)
(* come before or after the commit; success means a boarding now, one found  *)
(* in the log, or the answer cached for the key.                            *)
Reply(m, says) == net' = (net \ {m}) \cup {[m EXCEPT !.says = says]}

Serve(m) ==
  /\ m.says = "request"
  /\ \/ (\E says \in {"refused", "forbidden"} : Reply(m, says)) /\ UNCHANGED onBoard
     \/ (\E says \in {"ok", "refused"} : Reply(m, says)) /\ onBoard' = TRUE
  /\ UNCHANGED <<appVars, counters, histories>>

-----------------------------------------------------------------------------
CallStep(c) ==
  \/ \E m \in net : CallAnswered(c, m) \/ CallUnanswered(c, m)
  \/ AddRead(c) \/ AddSave(c)
FlushStep ==
  \/ FlushRead \/ FlushSave
  \/ \E chunk \in SUBSET flush.todo : \E expired \in SUBSET chunk : FlushChunk(chunk, expired)
  \/ \E i \in flush.waiting, m \in net : ItemAnswered(i, m) \/ ItemUnanswered(i, m)

Next ==
  \/ \E c \in Callers, s \in Scans : Scan(c, s)
  \/ \E c \in Callers : CallStep(c)
  \/ Disconnect \/ Reconnect \/ Restart
  \/ FlushStep
  \/ \E m \in net : Serve(m)

Spec == Init /\ [][Next]_vars
(* A request is answered or times out, and the app's awaits resolve.        *)
FairSpec ==
  /\ Spec
  /\ \A c \in Callers : WF_vars(CallStep(c))
  /\ WF_vars(FlushStep)
  /\ WF_vars(\E m \in net : Serve(m))

-----------------------------------------------------------------------------
(* As long as reading and writing of the queue did not overlap, an accepted  *)
(* check-in is stored until the student has been shown what became of it,    *)
(* also across restarts in the middle of a flush.                           *)
Kept == 1..saved \subseteq settled \cup KeysOf(stored)
QueuedIsKept == serial => Kept

(* Whatever overlaps, the queue holds a token once, and no more than its     *)
(* limit: the writer of a stale copy replaces the queue.                    *)
QueueBounded ==
  /\ Cardinality(stored) <= MaxQueue
  /\ \A i, j \in stored : i.scan = j.scan => i = j

(* The student is shown a check-in as made only if it was.                  *)
ConfirmedIsOnBoard == confirmed => onBoard

(* No call of useCheckin and no item of a flush awaits an answer that cannot *)
(* come, and no request or answer is under way for someone who waits no     *)
(* longer: a flush that hung here would hold isFlushing until the restart.  *)
AnswersAwaited ==
  /\ \A c \in Callers : call[c].pc = "post" => \E m \in net : m.to = c /\ m.scan = call[c].scan
  /\ \A i \in flush.waiting : \E m \in net : m.to = "flush" /\ m.key = i.key /\ m.scan = i.scan
  /\ \A m \in net : IF m.to = "flush" THEN \E i \in flush.waiting : i.key = m.key
                                      ELSE call[m.to].pc = "post"
  /\ flush.waiting # {} => flush.pc = "post"

(* If the network keeps coming back the queue runs empty: every item is      *)
(* synced, given up or expires.                                             *)
QueueDrains ==
  ([]<>connected /\ []<>~connected) => <>[](stored = {})

(* The calls of useCheckin, the flushes, the restarts and the server implement *)
(* what the queue promises a student (checkin-queue.ts:65-180).              *)
Promised == INSTANCE PhoneQueue WITH
  accepted <- saved, kept <- KeysOf(stored), told <- settled,
  boarded <- onBoard, shown <- confirmed, reliable <- serial
ImplementsPhoneQueue == Promised!Spec
=============================================================================
