---------------------------- MODULE AttemptLedger ----------------------------
(***************************************************************************)
(* What the job queue promises about attempts, without clocks, leases,     *)
(* threads or processes: a job's attempts are numbered in order, at most   *)
(* one is in progress and somebody holds it, its verdict is given once, by *)
(* or on behalf of that holder, and a sealed job is never attempted again. *)
(***************************************************************************)
EXTENDS Naturals

CONSTANTS Workers, Jobs, Null

VARIABLES current,    \* number of the job's latest attempt
          holder,     \* who holds it, or Null when none is in progress
          sealed,     \* the jobs that will never be attempted again
          verdicts    \* the attempts that have been judged

ledger == <<current, holder, sealed, verdicts>>

Verdict(j, outcome) ==
    [job |-> j, attempt |-> current[j], owner |-> holder[j], outcome |-> outcome]

\* The verdicts owed by the jobs of S when their holders are given up on.
Abandoned(S) == {Verdict(j, "abandoned") : j \in {i \in S : holder[i] # Null}}

Init ==
    /\ current = [j \in Jobs |-> 0]
    /\ holder = [j \in Jobs |-> Null]
    /\ sealed = {}
    /\ verdicts = {}

\* A new attempt starts; one that was still in progress is abandoned with it.
Begin(j, w) ==
    /\ j \notin sealed
    /\ current' = [current EXCEPT ![j] = @ + 1]
    /\ holder' = [holder EXCEPT ![j] = w]
    /\ verdicts' = verdicts \cup Abandoned({j})
    /\ UNCHANGED sealed

\* The holder reports.  A success seals the job.
Close(j, outcome, seal) ==
    /\ holder[j] # Null
    /\ outcome = "succeeded" => seal
    /\ holder' = [holder EXCEPT ![j] = Null]
    /\ sealed' = IF seal THEN sealed \cup {j} ELSE sealed
    /\ verdicts' = verdicts \cup {Verdict(j, outcome)}
    /\ UNCHANGED current

\* Jobs run out of time together; their attempts in progress are abandoned.
Expire(S) ==
    /\ S \cap sealed = {}
    /\ holder' = [j \in Jobs |-> IF j \in S THEN Null ELSE holder[j]]
    /\ sealed' = sealed \cup S
    /\ verdicts' = verdicts \cup Abandoned(S)
    /\ UNCHANGED current

\* A job is cancelled, or set aside while it waits: no verdict is given.
Withdraw(j) ==
    /\ j \notin sealed
    /\ holder' = [holder EXCEPT ![j] = Null]
    /\ sealed' = sealed \cup {j}
    /\ UNCHANGED <<current, verdicts>>

Next ==
    \/ \E j \in Jobs, w \in Workers : Begin(j, w)
    \/ \E j \in Jobs, outcome \in {"succeeded", "failed", "timed_out"}, seal \in BOOLEAN :
         Close(j, outcome, seal)
    \/ \E S \in SUBSET Jobs : Expire(S)
    \/ \E j \in Jobs : Withdraw(j)

Spec == Init /\ [][Next]_ledger
==============================================================================
