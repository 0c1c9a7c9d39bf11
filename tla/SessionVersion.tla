--------------------------- MODULE SessionVersion ----------------------------
(* What a session version promises, to users and to administrators alike     *)
(* (lib/auth-state-change.ts): the row has one version at a time, a handler  *)
(* that returns has put every older one out of use, and no request is let    *)
(* through with a version from the future.  Only when an update has overtaken *)
(* a copy on its way to Redis, or a repair was lost, may an older one pass.   *)
EXTENDS Integers

VARIABLES
  current,   \* the row's version
  promised,  \* the newest version a returned handler has set
  passed,    \* the version the last step let through, or NoVersion
  sound      \* nothing was overtaken or lost

vars == <<current, promised, passed, sound>>

NoVersion == -1
Weakens == sound' => sound

Init == current = 0 /\ promised = 0 /\ passed = NoVersion /\ sound = TRUE

Replace == current' = current + 1 /\ Weakens /\ passed' = NoVersion /\ UNCHANGED promised
Return == promised' \in promised..current /\ Weakens /\ passed' = NoVersion /\ UNCHANGED current
LetThrough ==
  /\ \E v \in 0..current : (sound => v >= promised) /\ passed' = v
  /\ UNCHANGED <<current, promised, sound>>
Other == Weakens /\ passed' = NoVersion /\ UNCHANGED <<current, promised>>

Next == Replace \/ Return \/ LetThrough \/ Other
Spec == Init /\ [][Next]_vars
=============================================================================
