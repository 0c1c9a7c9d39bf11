------------------------------ MODULE PhoneQueue ------------------------------
(* What the queue of check-ins promises a student (lib/checkin-queue.ts of    *)
(* the app): a check-in it has accepted stays until she has been told its     *)
(* outcome, what has left does not come back but for items she was told of,   *)
(* and she is shown a boarding only after one.  Once two spans from reading    *)
(* to writing the queue have overlapped, only the last of these remains.      *)
EXTENDS Integers

VARIABLES
  accepted, \* how many check-ins the queue has accepted; 1..accepted names them
  kept,     \* those stored
  told,     \* those whose outcome was shown, or that a logout cleared
  boarded,  \* the server has her on board
  shown,    \* she has been shown a check-in as made
  reliable  \* no two spans have overlapped

vars == <<accepted, kept, told, boarded, shown, reliable>>

Init == /\ accepted = 0 /\ kept = {} /\ told = {}
        /\ boarded = FALSE /\ shown = FALSE /\ reliable = TRUE

NoneLost == reliable => kept \ told' \subseteq kept'
NoneReturns(new) ==
  kept' \subseteq new \cup IF reliable THEN kept \cup told ELSE 1..accepted

Accept ==
  /\ accepted' = accepted + 1 /\ accepted' \in kept'
  /\ NoneLost /\ NoneReturns({accepted'})
  /\ UNCHANGED <<told, boarded, shown, reliable>>
Outcome ==
  /\ told \subseteq told' /\ told' \subseteq told \cup 1..accepted
  /\ kept' \subseteq kept /\ NoneLost
  /\ (shown => shown') /\ (shown' => shown \/ boarded)
  /\ (boarded => boarded')
  /\ UNCHANGED <<accepted, reliable>>
Rewrite ==
  /\ NoneLost /\ NoneReturns({})
  /\ UNCHANGED <<accepted, told, boarded, shown, reliable>>
Board == boarded' = TRUE /\ UNCHANGED <<accepted, kept, told, shown, reliable>>
Overlap == reliable' = FALSE /\ UNCHANGED <<accepted, kept, told, boarded, shown>>

Next == Accept \/ Outcome \/ Rewrite \/ Board \/ Overlap
Spec == Init /\ [][Next]_vars
=============================================================================
