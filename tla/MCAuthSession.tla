---------------------------- MODULE MCAuthSession ----------------------------
(* Model checking AuthSession, and what is said of it elsewhere.             *)
EXTENDS AuthSession, TLC

Symmetry == Permutations(Devices) \cup Permutations(Logins)
            \cup Permutations(Requests) \cup Permutations(Revokers)

(* docs/ARCHITECTURE.md:171 "`sv` enforces logout-all - any request with a   *)
(* stale `sv` is rejected.": here, with a version that a revocation which    *)
(* has returned has replaced.                                               *)
OldVersionRejected == granted # NoToken => granted.sv >= revoked
=============================================================================
