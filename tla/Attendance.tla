------------------------------ MODULE Attendance ------------------------------
(* What the attendance of a trip promises, whoever writes it: a token admits *)
(* one student once, every boarding by scan or by the driver is counted,     *)
(* nobody boards by a scan or a mark before the start, nobody is absent      *)
(* before the trip was over once, and who is on board, or never tried to     *)
(* board, is not made absent - but for an outage, which may finalise any     *)
(* student who has a log.  A trip that is over stays so, unless a start that *)
(* was asked for before its first one is still under way.                   *)
EXTENDS Naturals

CONSTANTS Students, Tokens

VARIABLES
  phase,     \* of the trip: scheduled, running or over
  starting,  \* a start was asked for in time and is still under way
  ended,     \* the trip has been over
  outage,    \* an outage of its GPS was recorded
  standing,  \* of each student: none, pending, onBoard or absent
  counted,   \* boardings counted
  used       \* tokens that admitted somebody

course == <<phase, starting, ended>>
vars == <<course, outage, standing, counted, used>>

Become(S, what) == standing' = [s \in Students |-> IF s \in S THEN what ELSE standing[s]]

Init ==
  /\ phase = "scheduled" /\ starting = FALSE /\ ended = FALSE
  /\ outage = FALSE
  /\ standing = [s \in Students |-> "none"]
  /\ counted = 0
  /\ used = {}

Ask ==
  /\ phase = "scheduled"
  /\ starting' = TRUE
  /\ UNCHANGED <<phase, ended, outage, standing, counted, used>>

(* Of a scheduled trip, a running one, or, late, of one that is over.        *)
Start ==
  /\ starting
  /\ phase' = "running"
  /\ starting' \in BOOLEAN
  /\ UNCHANGED <<ended, outage, standing, counted, used>>

GiveUp ==
  /\ starting
  /\ starting' = FALSE
  /\ UNCHANGED <<phase, ended, outage, standing, counted, used>>

End ==
  /\ phase # "scheduled"
  /\ phase' = "over" /\ ended' = TRUE
  /\ UNCHANGED <<starting, outage, standing, counted, used>>

Admit(s, n) ==
  /\ phase # "scheduled"
  /\ n \notin used
  /\ used' = used \cup {n}
  /\ Become({s}, "onBoard")
  /\ counted' = counted + 1
  /\ UNCHANGED <<course, outage>>

Mark(s) ==
  /\ phase # "scheduled"
  /\ Become({s}, "onBoard")
  /\ counted' = counted + 1
  /\ UNCHANGED <<course, outage, used>>

Override(S) == Become(S, "onBoard") /\ UNCHANGED <<course, outage, counted, used>>

(* A scan outside the fence: the attempt is kept, whatever stood before.     *)
Contest(s) ==
  /\ phase # "scheduled"
  /\ Become({s}, "pending")
  /\ UNCHANGED <<course, outage, counted, used>>

RecordOutage ==
  /\ phase # "scheduled"
  /\ outage' = TRUE
  /\ UNCHANGED <<course, standing, counted, used>>

MarkAbsent(S) ==
  /\ ended
  /\ \A s \in S : standing[s] = "pending"
  /\ Become(S, "absent")
  /\ UNCHANGED <<course, outage, counted, used>>

FinaliseOutage(s) ==
  /\ ended /\ outage
  /\ standing[s] # "none"
  /\ Become({s}, "absent")
  /\ UNCHANGED <<course, outage, counted, used>>

Next ==
  \/ Ask \/ Start \/ GiveUp \/ End \/ RecordOutage
  \/ \E s \in Students, n \in Tokens : Admit(s, n)
  \/ \E s \in Students : Mark(s) \/ Contest(s) \/ FinaliseOutage(s)
  \/ \E S \in SUBSET Students : Override(S) \/ MarkAbsent(S)

Spec == Init /\ [][Next]_vars
=============================================================================
