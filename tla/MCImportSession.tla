--------------------------- MODULE MCImportSession ---------------------------
(* Model checking ImportSession, and what its comments say.                  *)
EXTENDS ImportSession

(* modules/import/import.service.ts:111 "RACE CONDITION FIX: Mark session as *)
(* IMPORTING immediately. This prevents concurrent execution attempts": two  *)
(* executions never hold the same row.                                      *)
ExecutionsDisjoint ==
  \A x, y \in Executors : x # y => Batch(x) \cap Batch(y) = {}
=============================================================================
