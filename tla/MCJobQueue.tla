---------------------------- MODULE MCJobQueue ----------------------------
(* Instances of JobQueue for TLC. *)
EXTENDS JobQueue, TLC

CONSTANTS w1, w2, j1, j2

\* The times of the instances, in units of half a lease.
OneDue == [j \in Jobs |-> 0]
OneDeadline == [j \in Jobs |-> 3]
LateDeadline == [j \in Jobs |-> 4]
MixedDue == j1 :> 0 @@ j2 :> 1
MixedDeadline == j1 :> 3 @@ j2 :> Null

\* retry_delay: less than a tick at first, or never.
Delays == [n \in 1..MaxAttempts |-> IF n = 1 THEN 0 ELSE 1]
LongDelays == [n \in 1..MaxAttempts |-> 1]

WorkerSymmetry == Permutations(Workers)
===========================================================================
