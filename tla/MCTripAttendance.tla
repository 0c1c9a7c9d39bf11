-------------------------- MODULE MCTripAttendance --------------------------
(* Model checking TripAttendance: symmetry for the safety runs, and what the *)
(* documentation says of the absent, which a run refutes.                    *)
EXTENDS TripAttendance, TLC

Symmetry == Permutations(Students) \cup Permutations(Nonces) \cup Permutations(Scanners)

(* docs/ARCHITECTURE.md:227 mark-absent "Finalizes ABSENT for no-shows": a   *)
(* student a boarding was ever committed for is not recorded ABSENT.        *)
OnlyNoShowsAbsent == \A s \in boarders : log[s].status # "ABSENT"
=============================================================================
