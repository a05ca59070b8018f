------------------------------- MODULE JobRow -------------------------------
(***************************************************************************)
(* One row of ops.jobs and the SQL statements of JobRepository that change *)
(* it.  A statement is a pair of operators: the WHERE clause as a          *)
(* predicate of the row, and the SET clause as the row it leaves behind.   *)
(* Every operator is a constant expression, so the queue and every module  *)
(* that runs jobs through it share the same definitions.                   *)
(*                                                                         *)
(* Times are instants of one clock (PostgreSQL and the workers take theirs *)
(* from the same NTP-disciplined source).  job_key, payload and error_code *)
(* do not influence a transition and are left out.                         *)
(*                                                                         *)
(* An operator introduced as a seeded fault is used by nothing: it is a    *)
(* plausible mistake in the operator that follows it, and the runs must    *)
(* notice when it takes that operator's place.                             *)
(***************************************************************************)
EXTENDS Integers

CONSTANTS LeaseDuration,   \* PredictionJobDispatcher.lease_duration
          Null             \* SQL NULL

\* The dispatcher refuses a lease_duration that is not positive.
ASSUME LeaseDurationAssumption == LeaseDuration \in Nat \ {0}

ASSUME NullAssumption == Null \notin Nat

JobState == {"queued", "running", "retry_wait", "succeeded", "failed",
             "cancelled", "expired", "quarantined"}

\* "absent" stands for a job_key that has not been inserted yet.
Absent == "absent"

\* States no statement of the repository leaves again.
Sealed == {"succeeded", "cancelled", "expired", "quarantined"}

Outcome == {"succeeded", "failed", "timed_out", "abandoned"}

Row(workers) ==
    [state : JobState \cup {Absent},
     due : Nat, deadline : Nat \cup {Null},
     owner : workers \cup {Null},
     started : Nat \cup {Null}, until : Nat \cup {Null},
     attempt : Nat]

NewRow(state, due, deadline) ==
    [state |-> state, due |-> due, deadline |-> deadline, owner |-> Null,
     started |-> Null, until |-> Null, attempt |-> 0]

-----------------------------------------------------------------------------
(* Conditions that recur in the WHERE clauses.                             *)

DeadlinePassed(r, t) == r.deadline # Null /\ r.deadline <= t

Waiting(r) == r.state \in {"queued", "retry_wait"}

LeaseLapsed(r, t) == r.state = "running" /\ r.until <= t

\* Seeded fault: the lease_owner comparison is forgotten.
AnyActiveLease(r, w, t) == r.state = "running" /\ r.until > t

\* owns_active_lease, and the WHERE clause of finish and schedule_retry.
OwnsActiveLease(r, w, t) ==
    r.state = "running" /\ r.owner = w /\ r.until > t

\* _active_attempt: the attempt a statement will log, if any.  Unlike
\* OwnsActiveLease it does not look at lease_until.
ActiveAttempt(r, w) == r.state = "running" /\ r.owner = w

-----------------------------------------------------------------------------
(* The statements.                                                         *)

\* Seeded fault: the candidates are not restricted to open jobs.
LeasableAnyState(r, t) ==
    r.state # Absent /\ r.due <= t /\ ~DeadlinePassed(r, t)

\* lease_next: the candidate's WHERE clause and the UPDATE.
Leasable(r, t) ==
    /\ r.state # Absent
    /\ r.due <= t
    /\ ~DeadlinePassed(r, t)
    /\ Waiting(r) \/ LeaseLapsed(r, t)

\* Seeded fault: attempt_no is not incremented.
LeasedUncounted(r, w, t) ==
    [r EXCEPT !.state = "running", !.owner = w, !.started = t,
              !.until = t + LeaseDuration]

Leased(r, w, t) ==
    [r EXCEPT !.state = "running", !.owner = w, !.started = t,
              !.until = t + LeaseDuration, !.attempt = @ + 1]

\* Seeded fault: lease_started_at is not cleared.
ReleasedKeepingStart(r, state) ==
    [r EXCEPT !.state = state, !.owner = Null, !.until = Null]

\* Every statement that gives a lease up clears its three columns together.
Released(r, state) ==
    [r EXCEPT !.state = state, !.owner = Null, !.started = Null, !.until = Null]

\* finish: a completion at or past the deadline leaves the job expired.
Finished(r, succeeded, t) ==
    Released(r, IF DeadlinePassed(r, t) THEN "expired"
                ELSE IF succeeded THEN "succeeded" ELSE "failed")

\* renew_lease.
Renewable(r, w, t) == OwnsActiveLease(r, w, t) /\ ~DeadlinePassed(r, t)

Renewed(r, t) == [r EXCEPT !.until = t + LeaseDuration]

\* Seeded fault: due_at is not moved to the retry time.
RetriedAtOnce(r, retryAt) ==
    Released(r, IF DeadlinePassed(r, retryAt) THEN "expired" ELSE "retry_wait")

\* schedule_retry: a retry that would start at or past the deadline expires
\* the job and keeps its due_at.
Retried(r, retryAt) ==
    IF DeadlinePassed(r, retryAt)
    THEN Released(r, "expired")
    ELSE [Released(r, "retry_wait") EXCEPT !.due = retryAt]

\* Seeded fault: a running job whose lease lapsed is left out.
ExpirableWaiting(r, t) == DeadlinePassed(r, t) /\ Waiting(r)

\* expire_due.
Expirable(r, t) == DeadlinePassed(r, t) /\ (Waiting(r) \/ LeaseLapsed(r, t))

\* quarantine: a waiting job may be quarantined by anybody.
Quarantinable(r, w, t) == Waiting(r) \/ OwnsActiveLease(r, w, t)

\* Seeded fault: finished jobs are cancelled as well.
CancellableAnyState(r) == r.state # Absent

\* cancel_match_jobs and cancel_schedule_revision.
Cancellable(r) == r.state \in {"queued", "running", "retry_wait"}

\* Seeded fault: an operator may release a quarantined job too.
RetryableQuarantined(r, t) ==
    r.state \in {"failed", "quarantined"} /\ ~DeadlinePassed(r, t)

\* ops.request_job_retry, once its idempotency key is known to be new.
OperatorRetryable(r, t) == r.state = "failed" /\ ~DeadlinePassed(r, t)

OperatorRetried(r, t) == [r EXCEPT !.state = "retry_wait", !.due = t]

-----------------------------------------------------------------------------
(* What the table itself accepts.                                          *)

\* The CHECK constraints of ops.jobs (0001_storage.sql, 0012).
RowChecks(r) ==
    /\ r.deadline # Null => r.deadline >= r.due
    /\ (r.state = "running") <=> (r.owner # Null)
    /\ (r.state = "running") <=> (r.until # Null)
    /\ (r.state = "running") <=> (r.started # Null)

\* ops.enforce_job_state_transition as 0014 leaves it; an UPDATE outside this
\* relation raises and aborts its transaction.
TransitionAllowed(old, new) ==
    \/ old = new
    \/ old = Absent /\ new = "queued"
    \/ old = "queued" /\ new \in {"running", "cancelled", "expired", "quarantined"}
    \/ old = "running" /\ new \in {"succeeded", "failed", "retry_wait",
                                   "cancelled", "expired", "quarantined"}
    \/ old = "retry_wait" /\ new \in {"running", "cancelled", "expired", "quarantined"}
    \/ old = "failed" /\ new = "retry_wait"
=============================================================================
