------------------------ MODULE MCPredictionPipeline ------------------------
(* Instances of PredictionPipeline for TLC. *)
EXTENDS PredictionPipeline, TLC

CONSTANTS w1, w2

Scheduled(start) == [start |-> start, actual |-> NotStarted, status |-> "scheduled"]

\* The match as planned, moved by one unit, cancelled, or found to have begun
\* inside the completion grace or, being moved, before its cutoff.
Reported == {Scheduled(4), Scheduled(5),
             [Scheduled(4) EXCEPT !.status = "cancelled"],
             [Scheduled(4) EXCEPT !.status = "live", !.actual = 2],
             [Scheduled(5) EXCEPT !.status = "live", !.actual = 0]}

\* The match as planned, or called off.
CalledOff == {Scheduled(4), [Scheduled(4) EXCEPT !.status = "postponed"]}

\* A move followed by a correction of another column.
Corrected == {Scheduled(4), Scheduled(5), [Scheduled(5) EXCEPT !.status = "unknown"]}

WorkerSymmetry == Permutations(Workers)
=============================================================================
