------------------------------ MODULE JobQueue ------------------------------
(***************************************************************************)
(* The durable job queue (ops.jobs, ops.job_attempts) and the workers that *)
(* drain it: PredictionJobDispatcher polling, leasing a batch and running  *)
(* it on threads, one lease-renewal thread per job, process crashes and    *)
(* restarts, cancellation by a scheduler tick, and operator retries.       *)
(*                                                                         *)
(* A SQL transaction is one step.  A clock reading the code takes before   *)
(* a transaction is a step of its own and is kept (worker[w].now,          *)
(* exec[w][j].at, renewer[w][j].at), so it may be stale when it is used.   *)
(* A worker is named by its lease_owner, hostname:pid, which a container   *)
(* restart gives back to the new process.                                  *)
(***************************************************************************)
EXTENDS JobRow, FiniteSets

CONSTANTS Workers,          \* the lease_owner strings
          Jobs,             \* the job keys
          DueAt,            \* due_at each job is enqueued with
          DeadlineAt,       \* its deadline_at, or Null
          UnknownType,      \* jobs whose job_type has no handler here
          Keys,             \* idempotency keys of operator retries
          MaxAttempts,      \* SchedulerTiming.max_attempts
          RetryDelay,       \* SchedulerTiming.retry_delay, per completed attempt
          MaxConcurrency,   \* PredictionJobDispatcher.max_concurrency
          HandlerOutcome,   \* how the handlers of the instance may end
          MaxTime,          \* bound: the clock stops here
          MaxCrashes        \* bound: processes killed from outside

ASSUME WorkersAssumption == Null \notin Workers
ASSUME JobsAssumption == Null \notin Jobs
ASSUME DueAssumption == DueAt \in [Jobs -> Nat]
ASSUME DeadlineAssumption ==
    /\ DeadlineAt \in [Jobs -> Nat \cup {Null}]
    /\ \A j \in Jobs : DeadlineAt[j] # Null => DeadlineAt[j] >= DueAt[j]
ASSUME RetryAssumption == RetryDelay \in [1..MaxAttempts -> Nat]
ASSUME OutcomeAssumption ==
    HandlerOutcome \subseteq {"retryable", "timeout", "terminal", "done", "error"}
ASSUME AttemptsAssumption == MaxAttempts \in Nat \ {0}

VARIABLES clock,      \* the instant every process reads
          jobs,       \* ops.jobs
          attempts,   \* ops.job_attempts
          requests,   \* ops.operator_retry_requests: key -> job, or Null
          worker,     \* what each worker process is doing
          exec,       \* _execute, per worker and job
          renewer,    \* the lease-renewal thread of that execution
          crashes     \* kills so far

vars == <<clock, jobs, attempts, requests, worker, exec, renewer, crashes>>

-----------------------------------------------------------------------------
(* Shapes.                                                                 *)

\* "polled": run_once has read the clock; "leasing": expire_due is done.
WorkerPhase == {"down", "idle", "polled", "leasing", "executing"}

\* "publishing": the handler has computed its result and read completed_at;
\* "finalized": its own transaction has finished the job; "stopping": the
\* renewal thread has been told to stop; "committing": completed_at is read
\* and the queue transaction is about to run.
ExecPhase == {"none", "handling", "publishing", "finalized", "stopping", "committing"}

ExecOutcome == {"none", "retryable", "timeout", "terminal", "unknown",
                "done", "finalized", "error"}

\* "lost": renew_lease changed no row; "ended": the thread has returned.
RenewerPhase == {"off", "waiting", "renewing", "lost", "ended"}

WorkerRec == [phase : WorkerPhase, now : Nat, raised : BOOLEAN]

ExecRec == [phase : ExecPhase, attempt : Nat, outcome : ExecOutcome, at : Nat]

RenewerRec == [phase : RenewerPhase, at : Nat]

NoExec == [phase |-> "none", attempt |-> 0, outcome |-> "none", at |-> 0]

NoRenewer == [phase |-> "off", at |-> 0]

DownWorker == [phase |-> "down", now |-> 0, raised |-> FALSE]

AttemptRow == [job : Jobs, attempt : Nat \ {0}, owner : Workers, outcome : Outcome]

TypeOK ==
    /\ clock \in Nat
    /\ jobs \in [Jobs -> Row(Workers)]
    /\ attempts \in SUBSET AttemptRow
    /\ requests \in [Keys -> Jobs \cup {Null}]
    /\ worker \in [Workers -> WorkerRec]
    /\ exec \in [Workers -> [Jobs -> ExecRec]]
    /\ renewer \in [Workers -> [Jobs -> RenewerRec]]
    /\ crashes \in Nat

Init ==
    /\ clock = 0
    /\ jobs = [j \in Jobs |-> NewRow(Absent, DueAt[j], DeadlineAt[j])]
    /\ attempts = {}
    /\ requests = [k \in Keys |-> Null]
    /\ worker = [w \in Workers |-> DownWorker]
    /\ exec = [w \in Workers |-> [j \in Jobs |-> NoExec]]
    /\ renewer = [w \in Workers |-> [j \in Jobs |-> NoRenewer]]
    /\ crashes = 0

-----------------------------------------------------------------------------
(* ops.job_attempts.                                                       *)

Logged(log, j, n) == \E e \in log : e.job = j /\ e.attempt = n

\* _record_attempt: INSERT ... ON CONFLICT (job_id, attempt_no) DO NOTHING.
RecordAttempt(log, j, n, w, outcome) ==
    IF Logged(log, j, n)
    THEN log
    ELSE log \cup {[job |-> j, attempt |-> n, owner |-> w, outcome |-> outcome]}

\* Seeded fault: nothing is recorded for a worker that went away.
AbandonSilently(log, S) == log

\* The "abandoned" CTE of lease_next and expire_due for the jobs in S.
Abandon(log, S) ==
    log \cup {[job |-> j, attempt |-> jobs[j].attempt, owner |-> jobs[j].owner,
               outcome |-> "abandoned"] :
                 j \in {i \in S : jobs[i].state = "running"
                                  /\ ~Logged(log, i, jobs[i].attempt)}}

-----------------------------------------------------------------------------
(* Time, and the writers outside a job's execution.                        *)

\* A renewal's UPDATE waits less than a lease for its connection and row: it
\* lands before the lease it asks for would have lapsed.
RenewalsPrompt ==
    \A w \in Workers, j \in Jobs :
      renewer[w][j].phase = "renewing" => clock + 1 < renewer[w][j].at + LeaseDuration

Tick ==
    /\ clock < MaxTime
    /\ RenewalsPrompt
    /\ clock' = clock + 1
    /\ UNCHANGED <<jobs, attempts, requests, worker, exec, renewer, crashes>>

\* enqueue, called by a planner's tick: an existing row is left as it is.
Enqueue(j) ==
    /\ jobs[j].state = Absent
    /\ jobs' = [jobs EXCEPT ![j].state = "queued"]
    /\ UNCHANGED <<clock, attempts, requests, worker, exec, renewer, crashes>>

\* cancel_match_jobs, called by the lifecycle coordinator of any worker's tick.
\* A running job's attempt gets no row in ops.job_attempts.
CancelJob(j) ==
    /\ Cancellable(jobs[j])
    /\ jobs' = [jobs EXCEPT ![j] = Released(@, "cancelled")]
    /\ UNCHANGED <<clock, attempts, requests, worker, exec, renewer, crashes>>

\* Seeded fault: a key seen before is not looked up.
RequestRetryAgain(k, j) ==
    /\ OperatorRetryable(jobs[j], clock)
    /\ jobs' = [jobs EXCEPT ![j] = OperatorRetried(@, clock)]
    /\ requests' = [requests EXCEPT ![k] = j]
    /\ UNCHANGED <<clock, attempts, worker, exec, renewer, crashes>>

\* ops.request_job_retry.  A key seen before changes nothing, whatever the
\* job it was used for, and a job it refuses changes nothing either.
\* requested_at is read by the request that makes the call.
RequestRetry(k, j) ==
    /\ requests[k] = Null
    /\ OperatorRetryable(jobs[j], clock)
    /\ jobs' = [jobs EXCEPT ![j] = OperatorRetried(@, clock)]
    /\ requests' = [requests EXCEPT ![k] = j]
    /\ UNCHANGED <<clock, attempts, worker, exec, renewer, crashes>>

-----------------------------------------------------------------------------
(* Worker.run_once and PredictionJobDispatcher.run_once.                   *)

\* main, on a (re)started container.
Restart(w) ==
    /\ worker[w].phase = "down"
    /\ worker' = [worker EXCEPT ![w].phase = "idle"]
    /\ UNCHANGED <<clock, jobs, attempts, requests, exec, renewer, crashes>>

\* now = self._now(), read once for the tick, the expiry and every lease.
Poll(w) ==
    /\ worker[w].phase = "idle"
    /\ worker' = [worker EXCEPT ![w] = [@ EXCEPT !.phase = "polled", !.now = clock]]
    /\ UNCHANGED <<clock, jobs, attempts, requests, exec, renewer, crashes>>

\* expire_due(now); rows locked by another transaction are skipped.
ExpireDue(w, locked) ==
    LET due == {j \in Jobs \ locked : Expirable(jobs[j], worker[w].now)}
    IN  /\ worker[w].phase = "polled"
        /\ worker' = [worker EXCEPT ![w].phase = "leasing"]
        /\ attempts' = Abandon(attempts, due)
        /\ jobs' = [j \in Jobs |-> IF j \in due THEN Released(jobs[j], "expired")
                                               ELSE jobs[j]]
        /\ UNCHANGED <<clock, requests, exec, renewer, crashes>>

Batch(w) == {j \in Jobs : exec[w][j].phase # "none"}

\* The rows lease_next can see: leasable and not locked by somebody else.
Candidates(w, locked) ==
    {j \in Jobs \ locked : Leasable(jobs[j], worker[w].now)}

\* lease_next(now): ORDER BY due_at ... FOR UPDATE SKIP LOCKED LIMIT 1.  Rows
\* with the same due_at are taken in any order.
LeaseNext(w, locked, j) ==
    /\ worker[w].phase = "leasing"
    /\ Cardinality(Batch(w)) < MaxConcurrency
    /\ j \in Candidates(w, locked)
    /\ \A i \in Candidates(w, locked) : jobs[j].due <= jobs[i].due
    /\ attempts' = Abandon(attempts, {j})
    /\ jobs' = [jobs EXCEPT ![j] = Leased(@, w, worker[w].now)]
    /\ exec' = [exec EXCEPT ![w][j] = [phase |-> "handling",
                                       attempt |-> jobs[j].attempt + 1,
                                       outcome |-> "none", at |-> 0]]
    /\ UNCHANGED <<clock, requests, worker, renewer, crashes>>

\* lease_next found nothing, or the batch is full: start the threads.  A job
\* of an unknown type has no renewal thread and goes straight to quarantine.
StartBatch(w, locked) ==
    /\ worker[w].phase = "leasing"
    /\ Candidates(w, locked) = {} \/ Cardinality(Batch(w)) >= MaxConcurrency
    /\ worker' = [worker EXCEPT ![w] =
                     [@ EXCEPT !.phase = IF Batch(w) = {} THEN "idle" ELSE "executing",
                               !.now = 0]]
    /\ exec' = [exec EXCEPT ![w] =
                  [j \in Jobs |->
                     IF j \in Batch(w) \cap UnknownType
                     THEN [exec[w][j] EXCEPT !.phase = "committing", !.outcome = "unknown",
                                       !.at = clock]
                     ELSE exec[w][j]]]
    /\ renewer' = [renewer EXCEPT ![w] =
                     [j \in Jobs |-> IF j \in Batch(w) \ UnknownType
                                     THEN [phase |-> "waiting", at |-> 0]
                                     ELSE renewer[w][j]]]
    /\ UNCHANGED <<clock, jobs, attempts, requests, crashes>>

\* Every future has been waited for: run_once returns, or re-raises and the
\* exception ends the process with its daemon threads.
EndBatch(w) ==
    /\ worker[w].phase = "executing"
    /\ Batch(w) = {}
    /\ IF worker[w].raised
       THEN /\ worker' = [worker EXCEPT ![w] = DownWorker]
            /\ renewer' = [renewer EXCEPT ![w] = [j \in Jobs |-> NoRenewer]]
       ELSE /\ worker' = [worker EXCEPT ![w].phase = "idle"]
            /\ UNCHANGED renewer
    /\ UNCHANGED <<clock, jobs, attempts, requests, exec, crashes>>

\* The process is killed at any point; its transactions are all committed or
\* rolled back already.
Crash(w) ==
    /\ crashes < MaxCrashes
    /\ worker[w].phase # "down"
    /\ crashes' = crashes + 1
    /\ worker' = [worker EXCEPT ![w] = DownWorker]
    /\ exec' = [exec EXCEPT ![w] = [j \in Jobs |-> NoExec]]
    /\ renewer' = [renewer EXCEPT ![w] = [j \in Jobs |-> NoRenewer]]
    /\ UNCHANGED <<clock, jobs, attempts, requests>>

-----------------------------------------------------------------------------
(* _execute: the handler's thread.                                         *)

Handling(w, j) == worker[w].phase = "executing" /\ exec[w][j].phase = "handling"

\* The handler returns or raises without having touched the job row, and the
\* finally block sets renewal_stop.
HandlerReturns(w, j, outcome) ==
    /\ Handling(w, j)
    /\ exec' = [exec EXCEPT ![w][j] = [@ EXCEPT !.phase = "stopping", !.outcome = outcome]]
    /\ UNCHANGED <<clock, jobs, attempts, requests, worker, renewer, crashes>>

\* The orchestrator has a result and reads completed_at.
HandlerCompletes(w, j) ==
    /\ Handling(w, j)
    /\ exec' = [exec EXCEPT ![w][j] = [@ EXCEPT !.phase = "publishing", !.at = clock]]
    /\ UNCHANGED <<clock, jobs, attempts, requests, worker, renewer, crashes>>

\* Its publication transaction finishes the job itself, when the lease is
\* still owned at completed_at and the completion is on time.  Otherwise
\* nothing of it is kept and the handler raises TerminalJobError.
HandlerPublishes(w, j) ==
    LET at == exec[w][j].at
        published == OwnsActiveLease(jobs[j], w, at) /\ ~DeadlinePassed(jobs[j], at)
    IN  /\ exec[w][j].phase = "publishing"
        /\ IF published
           THEN /\ jobs' = [jobs EXCEPT ![j] = Finished(@, TRUE, at)]
                /\ attempts' = RecordAttempt(attempts, j, jobs[j].attempt, w, "succeeded")
                /\ exec' = [exec EXCEPT ![w][j] =
                              [@ EXCEPT !.phase = "finalized", !.outcome = "finalized"]]
           ELSE /\ exec' = [exec EXCEPT ![w][j] =
                              [@ EXCEPT !.phase = "stopping", !.outcome = "terminal"]]
                /\ UNCHANGED <<jobs, attempts>>
        /\ UNCHANGED <<clock, requests, worker, renewer, crashes>>

\* The handler returns True after its transaction has committed.
HandlerFinalized(w, j) ==
    /\ exec[w][j].phase = "finalized"
    /\ exec' = [exec EXCEPT ![w][j] = [@ EXCEPT !.phase = "stopping"]]
    /\ UNCHANGED <<clock, jobs, attempts, requests, worker, renewer, crashes>>

\* The future keeps the exception until run_once asks for its result.
Raise(w) == worker' = [worker EXCEPT ![w].raised = TRUE]

\* renewal.join(timeout=5.0), and what follows it.  A normal return is
\* re-examined: a thread that would not stop, a failed renewal or a lost lease
\* raises.  RetryableJobError and TerminalJobError skip that and are recorded.
JoinRenewal(w, j) ==
    LET outcome == exec[w][j].outcome
        joined == renewer[w][j].phase # "renewing"
        normal == outcome \in {"done", "finalized"}
        raises == \/ outcome = "error"
                  \/ normal /\ (~joined \/ renewer[w][j].phase = "lost")
        over == raises \/ outcome = "finalized"
    IN  /\ exec[w][j].phase = "stopping"
        /\ exec' = [exec EXCEPT ![w][j] =
                      IF over THEN NoExec
                      ELSE [@ EXCEPT !.phase = "committing", !.at = clock]]
        /\ renewer' = [renewer EXCEPT ![w][j] = IF joined THEN NoRenewer ELSE @]
        /\ IF raises THEN Raise(w) ELSE UNCHANGED worker
        /\ UNCHANGED <<clock, jobs, attempts, requests, crashes>>

Committing(w, j, outcomes) ==
    exec[w][j].phase = "committing" /\ exec[w][j].outcome \in outcomes

\* The transaction changed one row (next, logged as verdict), or none, which
\* raises unless the code ignores it.
CommitOutcome(w, j, changed, next, log, raises) ==
    /\ IF changed THEN jobs' = [jobs EXCEPT ![j] = next] /\ attempts' = log
                  ELSE UNCHANGED <<jobs, attempts>>
    /\ exec' = [exec EXCEPT ![w][j] = NoExec]
    /\ IF raises THEN Raise(w) ELSE UNCHANGED worker
    /\ UNCHANGED <<clock, requests, renewer, crashes>>

\* Seeded fault: one retry too many.
RetriesLeftLate(n) == n <= MaxAttempts

\* The test of leased.attempt_no against the limit.
RetriesLeft(n) == n < MaxAttempts

\* except RetryableJobError: schedule_retry, or finish(False) when attempt_no
\* has reached max_attempts.
CommitRetryable(w, j) ==
    LET e == exec[w][j]
        r == jobs[j]
        owned == OwnsActiveLease(r, w, e.at)
        retry == RetriesLeft(e.attempt)
        verdict == IF retry /\ e.outcome = "timeout" THEN "timed_out" ELSE "failed"
    IN  /\ Committing(w, j, {"retryable", "timeout"})
        /\ CommitOutcome(w, j, owned,
             IF retry THEN Retried(r, e.at + RetryDelay[e.attempt])
                      ELSE Finished(r, FALSE, e.at),
             RecordAttempt(attempts, j, r.attempt, w, verdict), ~owned)

\* except TerminalJobError, and a job of an unknown type: quarantine.  The
\* second ignores a quarantine that changed nothing.
CommitQuarantine(w, j) ==
    LET e == exec[w][j]
        r == jobs[j]
        changed == Quarantinable(r, w, e.at)
    IN  /\ Committing(w, j, {"terminal", "unknown"})
        /\ CommitOutcome(w, j, changed, Released(r, "quarantined"),
             IF ActiveAttempt(r, w)
             THEN RecordAttempt(attempts, j, r.attempt, w, "failed") ELSE attempts,
             ~changed /\ e.outcome = "terminal")

\* The handler returned without finalizing: finish(True).
CommitSuccess(w, j) ==
    LET e == exec[w][j]
        r == jobs[j]
        owned == OwnsActiveLease(r, w, e.at)
    IN  /\ Committing(w, j, {"done"})
        /\ CommitOutcome(w, j, owned, Finished(r, TRUE, e.at),
             RecordAttempt(attempts, j, r.attempt, w, "succeeded"), ~owned)

-----------------------------------------------------------------------------
(* _renew_lease: the renewal thread.                                       *)

\* The execution that started the thread has not joined it yet.
Watched(w, j) ==
    /\ worker[w].phase = "executing"
    /\ exec[w][j].phase \in {"handling", "publishing", "finalized", "stopping"}

\* stop.wait(interval) timed out: the thread reads the clock, and returns for
\* good once the job's deadline is reached.
RenewalWakes(w, j) ==
    /\ Watched(w, j) /\ exec[w][j].phase # "stopping"
    /\ renewer[w][j].phase = "waiting"
    /\ renewer' = [renewer EXCEPT ![w][j] =
                     IF DeadlinePassed(jobs[j], clock)
                     THEN [phase |-> "ended", at |-> 0]
                     ELSE [phase |-> "renewing", at |-> clock]]
    /\ UNCHANGED <<clock, jobs, attempts, requests, worker, exec, crashes>>

\* renew_lease(renewed_at).  A thread that outlived its join still runs it,
\* and then finds renewal_stop set.
RenewalCommits(w, j) ==
    LET at == renewer[w][j].at
        changed == Renewable(jobs[j], w, at)
    IN  /\ renewer[w][j].phase = "renewing"
        /\ jobs' = [jobs EXCEPT ![j] = IF changed THEN Renewed(@, at) ELSE @]
        /\ renewer' = [renewer EXCEPT ![w][j] =
                         IF Watched(w, j)
                         THEN [phase |-> IF changed THEN "waiting" ELSE "lost", at |-> 0]
                         ELSE NoRenewer]
        /\ UNCHANGED <<clock, attempts, requests, worker, exec, crashes>>

-----------------------------------------------------------------------------

Outside ==
    \/ \E j \in Jobs : Enqueue(j) \/ CancelJob(j)
    \/ \E k \in Keys, j \in Jobs : RequestRetry(k, j)

Polling(w) ==
    \/ Poll(w)
    \/ \E locked \in SUBSET Jobs :
         \/ ExpireDue(w, locked)
         \/ StartBatch(w, locked)
         \/ \E j \in Jobs : LeaseNext(w, locked, j)
    \/ EndBatch(w)

Executing(w, j) ==
    \/ \E o \in HandlerOutcome : HandlerReturns(w, j, o)
    \/ HandlerCompletes(w, j)
    \/ HandlerPublishes(w, j)
    \/ HandlerFinalized(w, j)
    \/ JoinRenewal(w, j)
    \/ CommitRetryable(w, j)
    \/ CommitQuarantine(w, j)
    \/ CommitSuccess(w, j)

Renewing(w, j) == RenewalWakes(w, j) \/ RenewalCommits(w, j)

Next ==
    \/ Tick
    \/ Outside
    \/ \E w \in Workers :
         \/ Polling(w) \/ Restart(w) \/ Crash(w)
         \/ \E j \in Jobs : Executing(w, j) \/ Renewing(w, j)

Spec == Init /\ [][Next]_vars

-----------------------------------------------------------------------------
(* Safety.                                                                 *)

\* No statement of the repository leaves a row that the table's CHECK
\* constraints would reject, so no transaction of a worker is aborted by one.
ChecksHold == \A j \in Jobs : RowChecks(jobs[j])

\* Every update of a job's state is one the transition trigger lets through:
\* the WHERE clauses in Python and the relation in SQL agree.
TransitionsAllowed ==
    [][\A j \in Jobs : TransitionAllowed(jobs[j].state, jobs'[j].state)]_vars

\* The attempt log is complete and never runs ahead: every attempt before the
\* current one has a row, a running attempt has none yet, and only a job
\* cancelled while running is left without the row of its last attempt.
AttemptsAccounted ==
    \A j \in Jobs :
      LET last == jobs[j].attempt
      IN  /\ \A n \in 1..(last - 1) : Logged(attempts, j, n)
          /\ \A e \in attempts : e.job = j => e.attempt <= last
          /\ jobs[j].state = "running" => last > 0 /\ ~Logged(attempts, j, last)
          /\ last > 0 /\ jobs[j].state \notin {"running", "cancelled"}
               => Logged(attempts, j, last)

\* A job whose attempt is recorded as succeeded is over: it is succeeded (or
\* expired, when the success was recorded past the deadline), and that
\* attempt stays its last one across crashes, takeovers and operator retries.
SuccessIsFinal ==
    \A e \in attempts : e.outcome = "succeeded" =>
      /\ jobs[e.job].state \in {"succeeded", "expired"}
      /\ jobs[e.job].attempt = e.attempt

\* Fencing.  A verdict other than "abandoned" is written by the very
\* execution that was leased for that attempt, although finish,
\* schedule_retry and quarantine only compare lease_owner: a worker whose
\* lease was taken over never closes the new attempt.
VerdictsFenced ==
    [][\A e \in attempts' \ attempts : e.outcome # "abandoned" =>
         /\ exec[e.owner][e.job].phase \in {"publishing", "committing"}
         /\ exec[e.owner][e.job].attempt = e.attempt]_vars

\* One poll never leases the same job twice, although all its lease_next
\* calls use one clock reading and other workers act in between.
LeasedOncePerPoll ==
    [][\A w \in Workers, j \in Jobs :
         exec'[w][j].attempt > exec[w][j].attempt => exec[w][j].phase = "none"]_vars

\* Automatic retries stay within max_attempts: a job waiting for an attempt
\* beyond it was released by an operator.
RetryBudget ==
    \A j \in Jobs :
      jobs[j].state = "retry_wait" =>
        jobs[j].attempt < MaxAttempts \/ \E k \in Keys : requests[k] = j

\* Each operator reopening of a failed job consumes an idempotency key that
\* was free before, so a replayed request never reopens a job again.
ReopenConsumesKey ==
    [][\A j \in Jobs :
         jobs[j].state = "failed" /\ jobs'[j].state # "failed" =>
           \E k \in Keys : requests[k] = Null /\ requests'[k] = j]_vars

\* While a worker works on the attempt that the row still shows as its own,
\* nobody else has that attempt: two executions of the same attempt number
\* never exist, so a crash and a takeover always get a number of their own.
AttemptsExclusive ==
    \A v, w \in Workers, j \in Jobs :
      v # w /\ exec[v][j].phase # "none" /\ exec[w][j].phase # "none"
        => exec[v][j].attempt # exec[w][j].attempt

\* The queue keeps the promise of AttemptLedger: every step of a worker, a
\* tick or an operator is one of its steps or leaves the ledger alone.
Ledger == INSTANCE AttemptLedger WITH
            current <- [j \in Jobs |-> jobs[j].attempt],
            holder <- [j \in Jobs |-> jobs[j].owner],
            sealed <- {j \in Jobs : jobs[j].state \in Sealed},
            verdicts <- attempts

RefinesLedger == Ledger!Spec

-----------------------------------------------------------------------------
(* The invariants that make the fences work, and that the proofs rest on.  *)

\* An attempt is recorded once, whoever records it: the worker that ran it,
\* one that took its lease over, or one that expired it.
OneVerdict ==
    \A e, f \in attempts : e.job = f.job /\ e.attempt = f.attempt => e = f

\* A row that runs is numbered, one that was never leased is not.
RowsNumbered ==
    \A j \in Jobs :
      /\ jobs[j].state = "running" => jobs[j].attempt > 0 /\ jobs[j].started <= clock
      /\ jobs[j].state \in {Absent, "queued"} => jobs[j].attempt = 0

\* What an execution knows of its job.  Its attempt has been handed out, and
\* it is the row's current one whenever the row still names this worker, so
\* comparing lease_owner is enough; completed_at is read after the lease.
ExecutionKnows(w, j) ==
    LET e == exec[w][j]
        r == jobs[j]
    IN  /\ e.phase # "none" => e.attempt > 0 /\ e.attempt <= r.attempt
        /\ e.phase # "none" /\ ActiveAttempt(r, w) => e.attempt = r.attempt
        /\ e.phase \in {"publishing", "committing"} /\ ActiveAttempt(r, w)
             => r.started <= e.at
        /\ e.phase \notin {"none", "handling"} => worker[w].phase = "executing"
        /\ worker[w].phase \in {"down", "idle", "polled"} => e.phase = "none"

\* The instants a process carries are past, and a renewal is still fresh.
ReadingsPast(w, j) ==
    /\ worker[w].now <= clock
    /\ renewer[w][j].phase = "renewing" =>
         /\ renewer[w][j].at <= clock
         /\ clock < renewer[w][j].at + LeaseDuration

\* A job of the batch being leased is out of reach of this poll's reading.
BatchOutOfReach(w, j) ==
    LET r == jobs[j]
    IN  worker[w].phase = "leasing" /\ exec[w][j].phase # "none" =>
          /\ r.state = "running" =>
               /\ r.until > worker[w].now
               /\ (r.owner = w \/ r.started > worker[w].now)
          /\ r.state = "retry_wait" => r.due > worker[w].now
          /\ r.state = "failed" => clock > worker[w].now

\* The three together, for every process and job.
ProcessInv ==
    \A w \in Workers, j \in Jobs :
      ExecutionKnows(w, j) /\ ReadingsPast(w, j) /\ BatchOutOfReach(w, j)

-----------------------------------------------------------------------------
(* Liveness.                                                               *)

\* What the processes do of their own accord: time passes, the container
\* runtime restarts a worker, the poll loop goes on, a handler ends (every
\* external call has a timeout) and a transaction commits.  A row lock is
\* held for one short transaction, so expire_due is not kept from a row
\* forever.  Nothing makes a job be enqueued, cancelled, retried or renewed.
Fairness ==
    /\ WF_vars(Tick)
    /\ \A w \in Workers :
         /\ WF_vars(Restart(w)) /\ WF_vars(Poll(w)) /\ WF_vars(EndBatch(w))
         /\ SF_vars(ExpireDue(w, {}))
         /\ WF_vars(\E locked \in SUBSET Jobs :
                      StartBatch(w, locked) \/ \E j \in Jobs : LeaseNext(w, locked, j))
         /\ \A j \in Jobs : WF_vars(Executing(w, j)) /\ WF_vars(RenewalCommits(w, j))

FairSpec == Spec /\ Fairness

\* A job with a deadline does not stay open for ever, whatever crashes,
\* lapses and retries it goes through: it ends sealed or failed for good.
DeadlineSettles ==
    \A j \in Jobs :
      DeadlineAt[j] # Null =>
        <>[](jobs[j].state \in Sealed \cup {"failed", Absent})

-----------------------------------------------------------------------------
(* What the code's own messages say of it.                                 *)

\* "job lease was lost while quarantining" (ops/scheduler.py): a worker whose
\* attempt has been taken over is refused the quarantine.
QuarantineFenced ==
    [][\A w \in Workers, j \in Jobs :
         (CommitQuarantine(w, j) /\ jobs'[j].state = "quarantined"
            /\ jobs[j].state # "quarantined")
           => exec[w][j].attempt = jobs[j].attempt]_vars

\* "job lease was lost during execution" (ops/scheduler.py): the renewal
\* thread reports a loss only of a lease the job's own handler has not
\* already given up by finishing the job.
LossIsReal ==
    [][\A w \in Workers, j \in Jobs :
         renewer[w][j].phase = "renewing" /\ renewer'[w][j].phase = "lost"
           => exec[w][j].outcome # "finalized"]_vars
=============================================================================
