-------------------------------- MODULE Mutex --------------------------------
(* What lib/distributed-lock.ts promises its callers: the work of two calls  *)
(* for one resource never overlaps before the first failure of Redis or of a *)
(* process.  After one, any call may enter.                                  *)
CONSTANT Calls
VARIABLES
  working,  \* the calls whose work is running
  failed    \* something has failed

vars == <<working, failed>>

Init == working = {} /\ failed = FALSE
Enter(c) ==
  /\ working = {} \/ failed
  /\ c \notin working
  /\ working' = working \cup {c}
  /\ UNCHANGED failed
Leave(c) == c \in working /\ working' = working \ {c} /\ UNCHANGED failed
Fail == working' \subseteq working /\ failed' = TRUE
Next == (\E c \in Calls : Enter(c) \/ Leave(c)) \/ Fail
Spec == Init /\ [][Next]_vars
=============================================================================
