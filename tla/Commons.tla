------------------------------ MODULE Commons ------------------------------
(* What several modules name alike. *)

CONSTANTS Null,     \* None in the code, NULL in its tables
          Workers   \* the processes that execute jobs

ASSUME CommonsAssumption == Null \notin Workers
=============================================================================
