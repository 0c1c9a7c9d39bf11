--------------------------- MODULE MCCheckinQueue ---------------------------
(* Model checking CheckinQueue, and what the documentation says of it.       *)
EXTENDS CheckinQueue

(* docs/STABILIZATION.md:441, of an offline check-in: "queued; re-enable     *)
(* network - queue replays or surfaces a clear failure": what was accepted   *)
(* is in the queue or in the flush, or the student has been shown its fate.  *)
QueuedIsReplayed ==
  1..saved \subseteq settled \cup KeysOf(stored \cup flush.todo \cup flush.waiting \cup flush.left)
=============================================================================
