--------------------------- MODULE JobQueueProofs ---------------------------
(***************************************************************************)
(* Proofs about JobQueue, for every set of workers, jobs and keys and every *)
(* lease duration, deadline and retry policy its assumptions admit.         *)
(***************************************************************************)
EXTENDS JobQueue, TLAPS

-----------------------------------------------------------------------------
(* What the statements leave behind is a row.                               *)

\* Giving a lease up, as every statement of JobRepository that ends an attempt does.
LEMMA ReleasedType ==
    ASSUME NEW r \in Row(Workers), NEW s \in JobState
    PROVE  Released(r, s) \in Row(Workers)
  BY DEF Released, Row, JobState

\* lease_next's UPDATE.
LEMMA LeasedType ==
    ASSUME NEW r \in Row(Workers), NEW w \in Workers, NEW t \in Nat
    PROVE  Leased(r, w, t) \in Row(Workers)
  <1>1. t + LeaseDuration \in Nat /\ r.attempt + 1 \in Nat
    BY LeaseDurationAssumption DEF Row
  <1> QED BY <1>1 DEF Leased, Row, JobState

\* finish's UPDATE.
LEMMA FinishedType ==
    ASSUME NEW r \in Row(Workers), NEW ok \in BOOLEAN, NEW t \in Nat
    PROVE  Finished(r, ok, t) \in Row(Workers)
  BY ReleasedType DEF Finished, JobState

\* schedule_retry's UPDATE.
LEMMA RetriedType ==
    ASSUME NEW r \in Row(Workers), NEW t \in Nat
    PROVE  Retried(r, t) \in Row(Workers)
  <1>1. Released(r, "expired") \in Row(Workers)
    BY ReleasedType DEF JobState
  <1>2. [Released(r, "retry_wait") EXCEPT !.due = t] \in Row(Workers)
    BY ReleasedType DEF JobState, Row
  <1> QED BY <1>1, <1>2 DEF Retried

\* renew_lease's UPDATE.
LEMMA RenewedType ==
    ASSUME NEW r \in Row(Workers), NEW t \in Nat
    PROVE  Renewed(r, t) \in Row(Workers)
  <1>1. t + LeaseDuration \in Nat
    BY LeaseDurationAssumption
  <1> QED BY <1>1 DEF Renewed, Row

\* ops.request_job_retry's UPDATE.
LEMMA OperatorRetriedType ==
    ASSUME NEW r \in Row(Workers), NEW t \in Nat
    PROVE  OperatorRetried(r, t) \in Row(Workers)
  BY DEF OperatorRetried, Row, JobState

\* _record_attempt adds at most one well-formed row.
LEMMA RecordAttemptType ==
    ASSUME NEW log \in SUBSET AttemptRow, NEW j \in Jobs, NEW n \in Nat \ {0},
           NEW w \in Workers, NEW o \in Outcome
    PROVE  RecordAttempt(log, j, n, w, o) \in SUBSET AttemptRow
  BY DEF RecordAttempt, AttemptRow

-----------------------------------------------------------------------------
(* Every action touches the tables in one of a few ways.                    *)

Effect(j, r) == jobs' = [jobs EXCEPT ![j] = r]

\* enqueue of a new key.
Opens(j) ==
    /\ jobs[j].state = Absent
    /\ Effect(j, [jobs[j] EXCEPT !.state = "queued"])
    /\ attempts' = attempts

\* An operator's retry.
Reopens(j) ==
    /\ OperatorRetryable(jobs[j], clock)
    /\ Effect(j, OperatorRetried(jobs[j], clock))
    /\ attempts' = attempts
    /\ \E k \in Keys : requests[k] = Null /\ requests' = [requests EXCEPT ![k] = j]

\* A renewal that changed a row.
Extends(j) ==
    \E w \in Workers, t \in Nat :
      /\ Renewable(jobs[j], w, t)
      /\ Effect(j, Renewed(jobs[j], t))
      /\ attempts' = attempts

\* A lease.
Begins(j, w) ==
    \E t \in Nat :
      /\ Leasable(jobs[j], t)
      /\ Effect(j, Leased(jobs[j], w, t))
      /\ attempts' = Abandon(attempts, {j})

\* The holder's report, as finish, schedule_retry or quarantine write it.
Closed(j, o) ==
    {Finished(jobs[j], o = "succeeded", t) : t \in Nat}
      \cup (IF o = "succeeded" THEN {}
            ELSE {Released(jobs[j], "quarantined")}
                   \cup {Retried(jobs[j], t) :
                           t \in {u \in Nat : jobs[j].attempt < MaxAttempts}})

Closes(j, w, o) ==
    /\ ActiveAttempt(jobs[j], w)
    /\ \E r \in Closed(j, o) : Effect(j, r)
    /\ attempts' = RecordAttempt(attempts, j, jobs[j].attempt, w, o)

\* expire_due.
Lapses(S) ==
    /\ \A j \in S : Waiting(jobs[j]) \/ jobs[j].state = "running"
    /\ jobs' = [j \in Jobs |-> IF j \in S THEN Released(jobs[j], "expired") ELSE jobs[j]]
    /\ attempts' = Abandon(attempts, S)

\* A cancellation, or the quarantine of a waiting job.
Withdraws(j) ==
    /\ \/ Cancellable(jobs[j]) /\ Effect(j, Released(jobs[j], "cancelled"))
       \/ Waiting(jobs[j]) /\ Effect(j, Released(jobs[j], "quarantined"))
    /\ attempts' = attempts

Verdicts == {"succeeded", "failed", "timed_out"}

WorkerStep ==
    \/ jobs' = jobs /\ attempts' = attempts
    \/ \E j \in Jobs : Opens(j) \/ Extends(j) \/ Withdraws(j)
    \/ \E j \in Jobs, w \in Workers : Begins(j, w)
    \/ \E j \in Jobs, w \in Workers, o \in Verdicts : Closes(j, w, o)
    \/ \E S \in SUBSET Jobs : Lapses(S)

TableStep ==
    \/ \E j \in Jobs : Reopens(j)
    \/ requests' = requests /\ WorkerStep

\* A transaction that ends an execution either changes nothing or is the
\* holder's report, or it quarantines a job that waits.
LEMMA CommitTableStep ==
    ASSUME TypeOK, NEW w \in Workers, NEW j \in Jobs,
           ProcessInv,
           CommitRetryable(w, j) \/ CommitQuarantine(w, j) \/ CommitSuccess(w, j)
                \/ HandlerPublishes(w, j)
    PROVE  TableStep
  <1> DEFINE e == exec[w][j]
             r == jobs[j]
  <1>1. e.at \in Nat /\ e.attempt \in Nat /\ r \in Row(Workers)
    BY DEF TypeOK, ExecRec
  <1>0. requests' = requests
    BY DEF CommitRetryable, CommitQuarantine, CommitSuccess, HandlerPublishes, CommitOutcome
  <1>2. CASE HandlerPublishes(w, j)
    <2>1. CASE OwnsActiveLease(r, w, e.at) /\ ~DeadlinePassed(r, e.at)
      <3>1. Effect(j, Finished(r, TRUE, e.at)) /\ ActiveAttempt(r, w)
            /\ attempts' = RecordAttempt(attempts, j, r.attempt, w, "succeeded")
        BY <1>2, <2>1 DEF HandlerPublishes, Effect, OwnsActiveLease, ActiveAttempt
      <3>2. Finished(r, TRUE, e.at) \in Closed(j, "succeeded")
        BY <1>1 DEF Closed
      <3> QED BY <1>0, <3>1, <3>2 DEF TableStep, WorkerStep, Closes, Verdicts
    <2>2. CASE ~(OwnsActiveLease(r, w, e.at) /\ ~DeadlinePassed(r, e.at))
      BY <1>2, <2>2 DEF HandlerPublishes, TableStep, WorkerStep
    <2> QED BY <2>1, <2>2
  <1>3. CASE CommitRetryable(w, j)
    <2> DEFINE retry == e.attempt < MaxAttempts
               next == IF retry THEN Retried(r, e.at + RetryDelay[e.attempt])
                                ELSE Finished(r, FALSE, e.at)
               verdict == IF retry /\ e.outcome = "timeout" THEN "timed_out" ELSE "failed"
    <2>1. CASE OwnsActiveLease(r, w, e.at)
      <3>1. Effect(j, next) /\ ActiveAttempt(r, w)
            /\ attempts' = RecordAttempt(attempts, j, r.attempt, w, verdict)
        BY <1>3, <2>1 DEF CommitRetryable, RetriesLeft, CommitOutcome, Effect, OwnsActiveLease, ActiveAttempt
      <3>2. verdict \in {"failed", "timed_out"}
        OBVIOUS
      <3>3. next \in Closed(j, verdict)
        <4>0. e.attempt > 0 /\ e.attempt = r.attempt
          BY <1>3, <2>1 DEF ProcessInv, ExecutionKnows, CommitRetryable, Committing,
                            OwnsActiveLease, ActiveAttempt
        <4>1. CASE retry
          <5>1. e.at + RetryDelay[e.attempt] \in Nat
            BY <1>1, <4>0, <4>1, RetryAssumption, AttemptsAssumption
          <5> QED BY <5>1, <4>0, <4>1, <3>2 DEF Closed
        <4>2. CASE ~retry
          BY <1>1, <4>2, <3>2 DEF Closed
        <4> QED BY <4>1, <4>2
      <3> QED BY <1>0, <3>1, <3>2, <3>3 DEF TableStep, WorkerStep, Closes, Verdicts
    <2>2. CASE ~OwnsActiveLease(r, w, e.at)
      BY <1>3, <2>2 DEF CommitRetryable, CommitOutcome, TableStep, WorkerStep
    <2> QED BY <2>1, <2>2
  <1>4. CASE CommitQuarantine(w, j)
    <2> DEFINE log == IF ActiveAttempt(r, w)
                      THEN RecordAttempt(attempts, j, r.attempt, w, "failed") ELSE attempts
    <2>1. CASE Quarantinable(r, w, e.at) /\ ActiveAttempt(r, w)
      <3>1. Effect(j, Released(r, "quarantined"))
            /\ attempts' = RecordAttempt(attempts, j, r.attempt, w, "failed")
        BY <1>4, <2>1 DEF CommitQuarantine, CommitOutcome, Effect
      <3>2. Released(r, "quarantined") \in Closed(j, "failed")
        BY DEF Closed
      <3> QED BY <1>0, <2>1, <3>1, <3>2 DEF TableStep, WorkerStep, Closes, Verdicts
    <2>2. CASE Quarantinable(r, w, e.at) /\ ~ActiveAttempt(r, w)
      <3>1. Waiting(r)
        BY <2>2 DEF Quarantinable, OwnsActiveLease, ActiveAttempt
      <3>2. Effect(j, Released(r, "quarantined")) /\ attempts' = attempts
        BY <1>4, <2>2 DEF CommitQuarantine, CommitOutcome, Effect
      <3> QED BY <1>0, <3>1, <3>2 DEF TableStep, WorkerStep, Withdraws
    <2>3. CASE ~Quarantinable(r, w, e.at)
      BY <1>4, <2>3 DEF CommitQuarantine, CommitOutcome, TableStep, WorkerStep
    <2> QED BY <2>1, <2>2, <2>3
  <1>5. CASE CommitSuccess(w, j)
    <2>1. CASE OwnsActiveLease(r, w, e.at)
      <3>1. Effect(j, Finished(r, TRUE, e.at)) /\ ActiveAttempt(r, w)
            /\ attempts' = RecordAttempt(attempts, j, r.attempt, w, "succeeded")
        BY <1>5, <2>1 DEF CommitSuccess, CommitOutcome, Effect, OwnsActiveLease, ActiveAttempt
      <3>2. Finished(r, TRUE, e.at) \in Closed(j, "succeeded")
        BY <1>1 DEF Closed
      <3> QED BY <1>0, <3>1, <3>2 DEF TableStep, WorkerStep, Closes, Verdicts
    <2>2. CASE ~OwnsActiveLease(r, w, e.at)
      BY <1>5, <2>2 DEF CommitSuccess, CommitOutcome, TableStep, WorkerStep
    <2> QED BY <2>1, <2>2
  <1> QED BY <1>2, <1>3, <1>4, <1>5

\* Every step of the system is a TableStep.
LEMMA NextTableStep ==
    ASSUME TypeOK, ProcessInv, [Next]_vars
    PROVE  TableStep
  <1>1. CASE UNCHANGED vars
    BY <1>1 DEF vars, TableStep, WorkerStep
  <1>2. CASE Tick
    BY <1>2 DEF Tick, TableStep, WorkerStep
  <1>3. CASE Outside
    <2>1. ASSUME NEW j \in Jobs, Enqueue(j)
          PROVE  Opens(j) /\ requests' = requests
      BY <2>1 DEF Enqueue, Opens, Effect, TypeOK
    <2>2. ASSUME NEW j \in Jobs, CancelJob(j)
          PROVE  Withdraws(j) /\ requests' = requests
      BY <2>2 DEF CancelJob, Withdraws, Effect
    <2>3. ASSUME NEW j \in Jobs, NEW k \in Keys, RequestRetry(k, j)
          PROVE  Reopens(j)
      BY <2>3 DEF RequestRetry, Reopens, Effect
    <2> QED BY <1>3, <2>1, <2>2, <2>3 DEF Outside, TableStep, WorkerStep
  <1>4. ASSUME NEW w \in Workers, Polling(w)
        PROVE  TableStep
    <2>1. CASE Poll(w) \/ EndBatch(w)
      BY <2>1 DEF Poll, EndBatch, TableStep, WorkerStep
    <2>2. ASSUME NEW locked \in SUBSET Jobs, StartBatch(w, locked)
          PROVE  TableStep
      BY <2>2 DEF StartBatch, TableStep, WorkerStep
    <2>3. ASSUME NEW locked \in SUBSET Jobs, ExpireDue(w, locked)
          PROVE  TableStep
      <3> DEFINE due == {j \in Jobs \ locked : Expirable(jobs[j], worker[w].now)}
      <3>1. due \in SUBSET Jobs
        OBVIOUS
      <3>2. \A j \in due : Waiting(jobs[j]) \/ jobs[j].state = "running"
        BY DEF Expirable, LeaseLapsed
      <3>3. Lapses(due)
        BY <2>3, <3>2 DEF ExpireDue, Lapses
      <3>4. requests' = requests
        BY <2>3 DEF ExpireDue
      <3> QED BY <3>1, <3>3, <3>4 DEF TableStep, WorkerStep
    <2>4. ASSUME NEW locked \in SUBSET Jobs, NEW j \in Jobs, LeaseNext(w, locked, j)
          PROVE  TableStep
      <3>1. worker[w].now \in Nat
        BY DEF TypeOK, WorkerRec
      <3>2. Leasable(jobs[j], worker[w].now) /\ Effect(j, Leased(jobs[j], w, worker[w].now))
            /\ attempts' = Abandon(attempts, {j})
        BY <2>4 DEF LeaseNext, Candidates, Effect
      <3>3. Begins(j, w)
        BY <3>1, <3>2 DEF Begins
      <3>4. requests' = requests
        BY <2>4 DEF LeaseNext
      <3> QED BY <3>3, <3>4 DEF TableStep, WorkerStep
    <2> QED BY <1>4, <2>1, <2>2, <2>3, <2>4 DEF Polling
  <1>5. ASSUME NEW w \in Workers, Restart(w) \/ Crash(w)
        PROVE  TableStep
    BY <1>5 DEF Restart, Crash, TableStep, WorkerStep
  <1>6. ASSUME NEW w \in Workers, NEW j \in Jobs, Executing(w, j)
        PROVE  TableStep
    <2>1. CASE \E o \in HandlerOutcome : HandlerReturns(w, j, o)
      BY <2>1 DEF HandlerReturns, TableStep, WorkerStep
    <2>2. CASE HandlerCompletes(w, j) \/ HandlerFinalized(w, j) \/ JoinRenewal(w, j)
      BY <2>2 DEF HandlerCompletes, HandlerFinalized, JoinRenewal, TableStep, WorkerStep
    <2>3. CASE HandlerPublishes(w, j) \/ CommitRetryable(w, j)
                 \/ CommitQuarantine(w, j) \/ CommitSuccess(w, j)
      BY <2>3, CommitTableStep
    <2> QED BY <1>6, <2>1, <2>2, <2>3 DEF Executing
  <1>7. ASSUME NEW w \in Workers, NEW j \in Jobs, Renewing(w, j)
        PROVE  TableStep
    <2>1. CASE RenewalWakes(w, j)
      BY <2>1 DEF RenewalWakes, TableStep, WorkerStep
    <2>2. CASE RenewalCommits(w, j) /\ Renewable(jobs[j], w, renewer[w][j].at)
      <3>1. renewer[w][j].at \in Nat
        BY DEF TypeOK, RenewerRec
      <3>2. Extends(j)
        BY <2>2, <3>1 DEF RenewalCommits, Extends, Effect
      <3> QED BY <2>2, <3>2 DEF RenewalCommits, TableStep, WorkerStep
    <2>3. CASE RenewalCommits(w, j) /\ ~Renewable(jobs[j], w, renewer[w][j].at)
      <3>1. jobs' = [jobs EXCEPT ![j] = jobs[j]] /\ attempts' = attempts
        BY <2>3 DEF RenewalCommits
      <3>2. [jobs EXCEPT ![j] = jobs[j]] = jobs
        BY DEF TypeOK
      <3> QED BY <2>3, <3>1, <3>2 DEF RenewalCommits, TableStep, WorkerStep
    <2> QED BY <1>7, <2>1, <2>2, <2>3 DEF Renewing
  <1> QED BY <1>1, <1>2, <1>3, <1>4, <1>5, <1>6, <1>7 DEF Next

-----------------------------------------------------------------------------
(* The rows of ops.jobs.                                                    *)

RowInv(r) ==
    /\ r \in Row(Workers)
    /\ RowChecks(r)
    /\ r.state = "running" => r.attempt > 0
    /\ r.state \in {Absent, "queued"} => r.attempt = 0

RowsInv == jobs \in [Jobs -> Row(Workers)] /\ \A j \in Jobs : RowInv(jobs[j])

\* Giving a lease up keeps a row well-formed, whatever state it leads to.
LEMMA ReleasedInv ==
    ASSUME NEW r \in Row(Workers), RowInv(r), NEW s \in JobState \ {"running", "queued"}
    PROVE  RowInv(Released(r, s))
  <1>1. Released(r, s) \in Row(Workers)
    BY ReleasedType
  <1> QED BY <1>1 DEF Released, RowInv, RowChecks, Row, JobState, Absent

\* A report leaves a well-formed row that is no longer running; after a
\* success that row is sealed.
LEMMA ClosedInv ==
    ASSUME RowsInv, NEW j \in Jobs, NEW o \in Verdicts, NEW r \in Closed(j, o),
           jobs[j].state = "running"
    PROVE  /\ RowInv(r)
           /\ r.attempt = jobs[j].attempt
           /\ r.owner = Null
           /\ r.state \in {"succeeded", "failed", "expired", "retry_wait", "quarantined"}
           /\ o = "succeeded" => r.state \in {"succeeded", "expired"}
  <1> DEFINE q == jobs[j]
  <1>0. q \in Row(Workers) /\ RowInv(q)
    BY DEF RowsInv
  <1>1. ASSUME NEW s \in {"succeeded", "failed", "expired", "retry_wait", "quarantined"}
        PROVE  /\ RowInv(Released(q, s))
               /\ Released(q, s).attempt = q.attempt
               /\ Released(q, s).owner = Null
               /\ Released(q, s).state = s
    <2>1. s \in JobState \ {"running", "queued"}
      BY DEF JobState
    <2>2. RowInv(Released(q, s))
      BY <1>0, <2>1, ReleasedInv
    <2> QED BY <1>0, <2>2 DEF Released, Row
  <1>2. CASE \E t \in Nat : r = Finished(q, o = "succeeded", t)
    BY <1>1, <1>2 DEF Finished
  <1>3. CASE \E t \in Nat : r = Retried(q, t) /\ o # "succeeded"
    <2>1. PICK t \in Nat : r = Retried(q, t)
      BY <1>3
    <2>2. CASE DeadlinePassed(q, t)
      BY <1>1, <1>3, <2>1, <2>2 DEF Retried
    <2>3. CASE ~DeadlinePassed(q, t)
      <3> DEFINE p == Released(q, "retry_wait")
      <3>1. p \in Row(Workers) /\ RowInv(p) /\ p.attempt = q.attempt /\ p.owner = Null
            /\ p.state = "retry_wait" /\ p.deadline = q.deadline
        BY <1>0, <1>1 DEF Released, RowInv, Row
      <3>2. r = [p EXCEPT !.due = t]
        BY <2>1, <2>3 DEF Retried
      <3>3. r \in Row(Workers)
        BY <3>1, <3>2 DEF Row
      <3>4. q.deadline \in Nat \cup {Null}
        BY <1>0 DEF Row
      <3> QED BY <3>1, <3>2, <3>3, <3>4, <2>3, <1>3 DEF RowInv, RowChecks, Row, DeadlinePassed, Absent
    <2> QED BY <2>2, <2>3
  <1>4. CASE r = Released(q, "quarantined") /\ o # "succeeded"
    BY <1>1, <1>4
  <1> QED BY <1>2, <1>3, <1>4 DEF Closed

\* A lease leaves a well-formed row.
LEMMA LeasedInv ==
    ASSUME NEW r \in Row(Workers), RowInv(r), NEW w \in Workers, NEW t \in Nat,
           Leasable(r, t)
    PROVE  RowInv(Leased(r, w, t))
  <1>1. Leased(r, w, t) \in Row(Workers)
    BY LeasedType
  <1>2. t + LeaseDuration \in Nat /\ t + LeaseDuration # Null /\ w # Null /\ t # Null
    BY LeaseDurationAssumption, NullAssumption, WorkersAssumption
  <1> QED BY <1>1, <1>2 DEF Leased, RowInv, RowChecks, Row, Absent

\* Replacing one row by a well-formed one.
LEMMA EffectRows ==
    ASSUME RowsInv, NEW j \in Jobs, NEW r, RowInv(r), Effect(j, r)
    PROVE  RowsInv'
  <1>1. r \in Row(Workers)
    BY DEF RowInv
  <1>2. jobs' \in [Jobs -> Row(Workers)]
    BY <1>1 DEF RowsInv, Effect
  <1>3. \A i \in Jobs : RowInv(jobs'[i])
    BY DEF RowsInv, Effect
  <1> QED BY <1>2, <1>3 DEF RowsInv

\* Every step of the system keeps the rows well-formed.
LEMMA RowsStep ==
    ASSUME RowsInv, clock \in Nat, TableStep
    PROVE  RowsInv'
  <1>0. \A j \in Jobs : jobs[j] \in Row(Workers) /\ RowInv(jobs[j])
    BY DEF RowsInv
  <1>1. CASE jobs' = jobs /\ attempts' = attempts
    BY <1>1 DEF RowsInv
  <1>2. ASSUME NEW j \in Jobs, Opens(j)
        PROVE  RowsInv'
    <2>1. RowInv([jobs[j] EXCEPT !.state = "queued"])
      BY <1>0, <1>2 DEF Opens, RowInv, RowChecks, Row, JobState, Absent
    <2> QED BY <1>2, <2>1, EffectRows DEF Opens
  <1>3. ASSUME NEW j \in Jobs, Reopens(j)
        PROVE  RowsInv'
    <2>1. OperatorRetried(jobs[j], clock) \in Row(Workers)
      BY <1>0, OperatorRetriedType
    <2>2. RowInv(OperatorRetried(jobs[j], clock))
      BY <1>0, <1>3, <2>1 DEF Reopens, OperatorRetryable, OperatorRetried, DeadlinePassed,
                              RowInv, RowChecks, Row, JobState, Absent
    <2> QED BY <1>3, <2>2, EffectRows DEF Reopens
  <1>4. ASSUME NEW j \in Jobs, Extends(j)
        PROVE  RowsInv'
    <2>1. PICK w \in Workers, t \in Nat :
            Renewable(jobs[j], w, t) /\ Effect(j, Renewed(jobs[j], t))
      BY <1>4 DEF Extends
    <2>2. Renewed(jobs[j], t) \in Row(Workers)
      BY <1>0, RenewedType
    <2>3. t + LeaseDuration # Null
      BY LeaseDurationAssumption, NullAssumption
    <2>4. RowInv(Renewed(jobs[j], t))
      BY <1>0, <2>1, <2>2, <2>3 DEF Renewable, OwnsActiveLease, Renewed, RowInv, RowChecks, Row, Absent
    <2> QED BY <2>1, <2>4, EffectRows
  <1>5. ASSUME NEW j \in Jobs, Withdraws(j)
        PROVE  RowsInv'
    <2>1. RowInv(Released(jobs[j], "cancelled")) /\ RowInv(Released(jobs[j], "quarantined"))
      BY <1>0, ReleasedInv DEF JobState
    <2> QED BY <1>5, <2>1, EffectRows DEF Withdraws
  <1>6. ASSUME NEW j \in Jobs, NEW w \in Workers, Begins(j, w)
        PROVE  RowsInv'
    <2>1. PICK t \in Nat : Leasable(jobs[j], t) /\ Effect(j, Leased(jobs[j], w, t))
      BY <1>6 DEF Begins
    <2>2. RowInv(Leased(jobs[j], w, t))
      BY <1>0, <2>1, LeasedInv
    <2> QED BY <2>1, <2>2, EffectRows
  <1>7. ASSUME NEW j \in Jobs, NEW w \in Workers, NEW o \in Verdicts, Closes(j, w, o)
        PROVE  RowsInv'
    <2>1. PICK r \in Closed(j, o) : Effect(j, r)
      BY <1>7 DEF Closes
    <2>2. RowInv(r)
      BY <1>7, ClosedInv DEF Closes, ActiveAttempt
    <2> QED BY <2>1, <2>2, EffectRows
  <1>8. ASSUME NEW S \in SUBSET Jobs, Lapses(S)
        PROVE  RowsInv'
    <2>1. \A j \in Jobs : RowInv(Released(jobs[j], "expired"))
                          /\ Released(jobs[j], "expired") \in Row(Workers)
      BY <1>0, ReleasedInv, ReleasedType DEF JobState
    <2>2. jobs' \in [Jobs -> Row(Workers)]
      BY <1>0, <1>8, <2>1 DEF Lapses
    <2>3. \A i \in Jobs : RowInv(jobs'[i])
      BY <1>0, <1>8, <2>1 DEF Lapses
    <2> QED BY <2>2, <2>3 DEF RowsInv
  <1> QED BY <1>1, <1>2, <1>3, <1>4, <1>5, <1>6, <1>7, <1>8 DEF TableStep, WorkerStep

-----------------------------------------------------------------------------
(* The rows of ops.job_attempts.                                            *)

LogInv ==
    /\ attempts \in SUBSET AttemptRow
    /\ AttemptsAccounted
    /\ OneVerdict
    /\ SuccessIsFinal

\* While a job runs, recording its attempt adds exactly that one row.
LEMMA RecordRunning ==
    ASSUME RowsInv, LogInv, NEW j \in Jobs, jobs[j].state = "running",
           NEW w \in Workers, NEW o
    PROVE  RecordAttempt(attempts, j, jobs[j].attempt, w, o)
             = attempts \cup {[job |-> j, attempt |-> jobs[j].attempt,
                               owner |-> w, outcome |-> o]}
  BY DEF RecordAttempt, LogInv, AttemptsAccounted

\* The abandoned CTE adds one row for each running job of its candidates.
LEMMA AbandonRunning ==
    ASSUME RowsInv, LogInv, NEW S \in SUBSET Jobs
    PROVE  Abandon(attempts, S)
             = attempts \cup {[job |-> j, attempt |-> jobs[j].attempt,
                               owner |-> jobs[j].owner, outcome |-> "abandoned"] :
                                j \in {i \in S : jobs[i].state = "running"}}
  <1>1. \A i \in S : jobs[i].state = "running" => ~Logged(attempts, i, jobs[i].attempt)
    BY DEF LogInv, AttemptsAccounted
  <1> QED BY <1>1 DEF Abandon

\* What AttemptsAccounted and SuccessIsFinal say of one job.
JobLog(j, r, log) ==
    /\ \A n \in 1..(r.attempt - 1) : Logged(log, j, n)
    /\ \A e \in log : e.job = j => e.attempt <= r.attempt
    /\ r.state = "running" => r.attempt > 0 /\ ~Logged(log, j, r.attempt)
    /\ r.attempt > 0 /\ r.state \notin {"running", "cancelled"} => Logged(log, j, r.attempt)
    /\ \A e \in log : e.job = j /\ e.outcome = "succeeded" =>
         r.state \in {"succeeded", "expired"} /\ r.attempt = e.attempt

\* Which attempts have a row once one has been added.
LEMMA LoggedAdded ==
    ASSUME NEW log, NEW j, NEW k \in Nat, NEW w, NEW o, NEW n \in Nat
    PROVE  Logged(log \cup {[job |-> j, attempt |-> k, owner |-> w, outcome |-> o]}, j, n)
             <=> Logged(log, j, n) \/ n = k
  <1> DEFINE entry == [job |-> j, attempt |-> k, owner |-> w, outcome |-> o]
  <1>1. entry.job = j /\ entry.attempt = k
    OBVIOUS
  <1> HIDE DEF entry
  <1>2. Logged(log \cup {entry}, j, n) <=> Logged(log, j, n) \/ n = k
    BY <1>1 DEF Logged
  <1> QED BY <1>2 DEF entry

\* The log as a whole is right when it is right for every job.
LEMMA JobLogs ==
    ASSUME attempts \in SUBSET AttemptRow
    PROVE  (AttemptsAccounted /\ SuccessIsFinal)
             <=> \A j \in Jobs : JobLog(j, jobs[j], attempts)
  BY DEF AttemptsAccounted, SuccessIsFinal, JobLog, AttemptRow

\* A step that writes one job's row and adds at most one row for it, of an
\* attempt without one, need only be right for that job.
LEMMA LogEffect ==
    ASSUME RowsInv, LogInv, NEW j \in Jobs, NEW r, Effect(j, r),
           NEW new \in SUBSET AttemptRow, attempts' = attempts \cup new,
           \A e \in new : e.job = j /\ ~Logged(attempts, j, e.attempt),
           \A e, f \in new : e = f,
           JobLog(j, r, attempts \cup new)
    PROVE  LogInv'
  <1>1. attempts' \in SUBSET AttemptRow
    BY DEF LogInv
  <1>2. OneVerdict'
    BY DEF LogInv, OneVerdict, Logged
  <1>3. \A i \in Jobs : JobLog(i, jobs'[i], attempts')
    <2> TAKE i \in Jobs
    <2>1. CASE i = j
      BY <2>1 DEF RowsInv, Effect
    <2>2. CASE i # j
      <3>1. jobs'[i] = jobs[i]
        BY <2>2 DEF RowsInv, Effect
      <3>2. JobLog(i, jobs[i], attempts)
        BY JobLogs DEF LogInv
      <3>3. \A e \in attempts' : e.job = i <=> e \in attempts /\ e.job = i
        BY <2>2
      <3>4. \A n : Logged(attempts', i, n) <=> Logged(attempts, i, n)
        BY <3>3 DEF Logged
      <3> QED BY <3>1, <3>2, <3>3, <3>4 DEF JobLog
    <2> QED BY <2>1, <2>2
  <1>4. (AttemptsAccounted /\ SuccessIsFinal)'
    BY <1>1, <1>3 DEF AttemptsAccounted, SuccessIsFinal, JobLog, AttemptRow
  <1> QED BY <1>1, <1>2, <1>4 DEF LogInv

\* Every step of the system keeps the attempt log accounted for.
LEMMA LogStep ==
    ASSUME RowsInv, LogInv, clock \in Nat, TableStep
    PROVE  LogInv'
  <1>0. \A j \in Jobs : /\ jobs[j] \in Row(Workers) /\ RowInv(jobs[j])
                        /\ JobLog(j, jobs[j], attempts)
    BY JobLogs DEF RowsInv, LogInv
  <1>1. CASE jobs' = jobs /\ attempts' = attempts
    BY <1>1 DEF LogInv, AttemptsAccounted, OneVerdict, SuccessIsFinal
  <1> DEFINE none == {}
  <1>n. none \in SUBSET AttemptRow /\ attempts \cup none = attempts
    OBVIOUS
  <1>2. ASSUME NEW j \in Jobs, NEW r, Effect(j, r), attempts' = attempts,
               JobLog(j, r, attempts)
        PROVE  LogInv'
    BY <1>n, <1>2, LogEffect
  <1>3. ASSUME NEW j \in Jobs, Opens(j) \/ Reopens(j) \/ Extends(j) \/ Withdraws(j)
        PROVE  LogInv'
    <2>1. CASE Opens(j)
      <3>1. JobLog(j, [jobs[j] EXCEPT !.state = "queued"], attempts)
        BY <1>0, <2>1 DEF Opens, JobLog, Row, RowInv, Absent
      <3> QED BY <1>2, <2>1, <3>1 DEF Opens
    <2>2. CASE Reopens(j)
      <3>1. JobLog(j, OperatorRetried(jobs[j], clock), attempts)
        BY <1>0, <2>2 DEF Reopens, OperatorRetryable, OperatorRetried, JobLog, Row
      <3> QED BY <1>2, <2>2, <3>1 DEF Reopens
    <2>3. CASE Extends(j)
      <3>1. PICK w \in Workers, t \in Nat :
              Renewable(jobs[j], w, t) /\ Effect(j, Renewed(jobs[j], t))
        BY <2>3 DEF Extends
      <3>2. JobLog(j, Renewed(jobs[j], t), attempts)
        BY <1>0 DEF Renewed, JobLog, Row
      <3> QED BY <1>2, <2>3, <3>1, <3>2 DEF Extends
    <2>4. CASE Withdraws(j)
      <3>1. Cancellable(jobs[j]) => JobLog(j, Released(jobs[j], "cancelled"), attempts)
        BY <1>0 DEF Cancellable, Released, JobLog, Row
      <3>2. Waiting(jobs[j]) => JobLog(j, Released(jobs[j], "quarantined"), attempts)
        BY <1>0 DEF Waiting, Released, JobLog, Row
      <3> QED BY <1>2, <2>4, <3>1, <3>2 DEF Withdraws
    <2> QED BY <1>3, <2>1, <2>2, <2>3, <2>4
  <1>4. ASSUME NEW j \in Jobs, NEW w \in Workers, Begins(j, w)
        PROVE  LogInv'
    <2>1. PICK t \in Nat : Leasable(jobs[j], t) /\ Effect(j, Leased(jobs[j], w, t))
      BY <1>4 DEF Begins
    <2> DEFINE next == Leased(jobs[j], w, t)
               entry == [job |-> j, attempt |-> jobs[j].attempt,
                         owner |-> jobs[j].owner, outcome |-> "abandoned"]
    <2>n. next.attempt = jobs[j].attempt + 1 /\ next.state = "running"
      BY <1>0 DEF Leased, Row
    <2>2. CASE jobs[j].state = "running"
      <3>1. entry \in AttemptRow
        BY <1>0, <2>2 DEF AttemptRow, Row, RowInv, RowChecks, Outcome
      <3>2. attempts' = attempts \cup {entry}
        BY <1>4, <2>2, AbandonRunning DEF Begins
      <3>3. ~Logged(attempts, j, entry.attempt)
        BY <1>0, <2>2 DEF JobLog
      <3>4. JobLog(j, next, attempts \cup {entry})
        <4>2. jobs[j].attempt \in Nat
          BY <1>0 DEF Row
        <4>1. \A n \in Nat : Logged(attempts \cup {entry}, j, n)
                              <=> Logged(attempts, j, n) \/ n = jobs[j].attempt
          BY <4>2, LoggedAdded
        <4>3. \A e \in attempts : e.attempt \in Nat
          BY DEF LogInv, AttemptRow
        <4>4. \A e \in attempts \cup {entry} : e.job = j => e.attempt <= jobs[j].attempt
          BY <1>0, <4>2 DEF JobLog
        <4>5. ~Logged(attempts \cup {entry}, j, jobs[j].attempt + 1)
          BY <4>2, <4>4 DEF Logged
        <4>6. \A e \in attempts \cup {entry} : ~(e.job = j /\ e.outcome = "succeeded")
          BY <1>0, <2>2 DEF JobLog
        <4>7. \A n \in 1..jobs[j].attempt : Logged(attempts \cup {entry}, j, n)
          <5> TAKE n \in 1..jobs[j].attempt
          <5>1. n = jobs[j].attempt \/ n \in 1..(jobs[j].attempt - 1)
            BY <4>2
          <5>2. n \in 1..(jobs[j].attempt - 1) => Logged(attempts, j, n)
            BY <1>0 DEF JobLog
          <5>3. n \in Nat
            BY <4>2
          <5> HIDE DEF entry
          <5> QED BY <4>1, <5>1, <5>2, <5>3
        <4>8. \A e \in attempts \cup {entry} : e.job = j => e.attempt <= next.attempt
          BY <2>n, <4>2, <4>3, <4>4
        <4> HIDE DEF entry, next
        <4>9. \A n \in 1..(next.attempt - 1) : Logged(attempts \cup {entry}, j, n)
          <5>1. next.attempt - 1 = jobs[j].attempt
            BY <2>n, <4>2
          <5> QED BY <4>7, <5>1
        <4>10. next.attempt > 0 /\ ~Logged(attempts \cup {entry}, j, next.attempt)
          BY <2>n, <4>2, <4>5
        <4> QED BY <2>n, <4>6, <4>8, <4>9, <4>10 DEF JobLog
      <3> HIDE DEF next
      <3> DEFINE new == {entry}
      <3>5. /\ new \in SUBSET AttemptRow /\ attempts' = attempts \cup new
            /\ \A e \in new : e.job = j /\ ~Logged(attempts, j, e.attempt)
            /\ \A e, f \in new : e = f
            /\ JobLog(j, next, attempts \cup new)
        BY <3>1, <3>2, <3>3, <3>4
      <3>6. Effect(j, next)
        BY <2>1 DEF next
      <3> HIDE DEF new
      <3> QED BY <3>5, <3>6, LogEffect
    <2>3. CASE jobs[j].state # "running"
      <3>1. attempts' = attempts
        BY <1>4, <2>3 DEF Begins, Abandon
      <3>2. Waiting(jobs[j])
        BY <2>1, <2>3 DEF Leasable, LeaseLapsed
      <3>3. JobLog(j, next, attempts)
        <4>1. jobs[j].attempt \in Nat /\ (jobs[j].attempt > 0 => Logged(attempts, j, jobs[j].attempt))
          BY <1>0, <3>2 DEF Waiting, JobLog, Row
        <4>2. \A e \in attempts : e.attempt \in Nat
          BY DEF LogInv, AttemptRow
        <4>3. \A e \in attempts : e.job = j => e.attempt <= jobs[j].attempt
          BY <1>0 DEF JobLog
        <4>4. ~Logged(attempts, j, jobs[j].attempt + 1)
          BY <4>1, <4>2, <4>3 DEF Logged
        <4>5. \A e \in attempts : ~(e.job = j /\ e.outcome = "succeeded")
          BY <1>0, <3>2 DEF Waiting, JobLog
        <4> QED BY <1>0, <2>n, <4>1, <4>2, <4>3, <4>4, <4>5 DEF JobLog
      <3> QED BY <1>2, <2>1, <3>1, <3>3
    <2> QED BY <2>2, <2>3
  <1>5. ASSUME NEW j \in Jobs, NEW w \in Workers, NEW o \in Verdicts, Closes(j, w, o)
        PROVE  LogInv'
    <2> DEFINE entry == [job |-> j, attempt |-> jobs[j].attempt, owner |-> w, outcome |-> o]
               new == {entry}
    <2>1. PICK r \in Closed(j, o) : Effect(j, r)
      BY <1>5 DEF Closes
    <2>2. jobs[j].state = "running"
      BY <1>5 DEF Closes, ActiveAttempt
    <2>3. /\ r.attempt = jobs[j].attempt
          /\ r.state \in {"succeeded", "failed", "expired", "retry_wait", "quarantined"}
          /\ o = "succeeded" => r.state \in {"succeeded", "expired"}
      BY <2>2, ClosedInv
    <2>4. attempts' = attempts \cup new
      BY <1>5, <2>2, RecordRunning DEF Closes
    <2>5. jobs[j].attempt \in Nat \ {0} /\ ~Logged(attempts, j, jobs[j].attempt)
      BY <1>0, <2>2 DEF JobLog, Row
    <2>6. new \in SUBSET AttemptRow
      BY <2>5 DEF AttemptRow, Outcome, Verdicts
    <2>7. JobLog(j, r, attempts \cup new)
      <3>1. \A n \in Nat : Logged(attempts \cup new, j, n)
                            <=> Logged(attempts, j, n) \/ n = jobs[j].attempt
        BY <2>5, LoggedAdded
      <3>2. \A e \in attempts \cup new : e.job = j => e.attempt <= jobs[j].attempt
        BY <1>0, <2>5 DEF JobLog
      <3>3. \A e \in attempts : ~(e.job = j /\ e.outcome = "succeeded")
        BY <1>0, <2>2 DEF JobLog
      <3>4. \A n \in 1..(r.attempt - 1) : Logged(attempts, j, n)
        BY <1>0, <2>3 DEF JobLog
      <3>5. \A n \in 1..(r.attempt - 1) : n \in Nat
        BY <2>3, <2>5
      <3>6. Logged(attempts \cup new, j, r.attempt)
        BY <2>3, <2>5, <3>1
      <3>7. \A n \in 1..(r.attempt - 1) : Logged(attempts \cup new, j, n)
        BY <3>1, <3>4, <3>5
      <3>8. \A e \in attempts \cup new : e.job = j /\ e.outcome = "succeeded" =>
              r.state \in {"succeeded", "expired"} /\ r.attempt = e.attempt
        BY <2>3, <3>3
      <3> HIDE DEF new
      <3> QED BY <2>3, <3>2, <3>6, <3>7, <3>8 DEF JobLog
    <2>8. \A e \in new : e.job = j /\ ~Logged(attempts, j, e.attempt)
      BY <2>5
    <2>9. \A e, f \in new : e = f
      OBVIOUS
    <2> HIDE DEF new
    <2> QED BY <2>1, <2>4, <2>6, <2>7, <2>8, <2>9, LogEffect
  <1>6. ASSUME NEW S \in SUBSET Jobs, Lapses(S)
        PROVE  LogInv'
    <2> DEFINE R == {i \in S : jobs[i].state = "running"}
               entry(i) == [job |-> i, attempt |-> jobs[i].attempt,
                            owner |-> jobs[i].owner, outcome |-> "abandoned"]
    <2>1. attempts' = attempts \cup {entry(i) : i \in R}
      BY <1>6, AbandonRunning DEF Lapses
    <2>2. \A i \in R : entry(i) \in AttemptRow /\ ~Logged(attempts, i, jobs[i].attempt)
      BY <1>0 DEF AttemptRow, Row, RowInv, RowChecks, Outcome, JobLog
    <2>3. attempts' \in SUBSET AttemptRow
      BY <2>1, <2>2 DEF LogInv
    <2>4. OneVerdict'
      <3> SUFFICES ASSUME NEW e \in attempts', NEW f \in attempts',
                          e.job = f.job, e.attempt = f.attempt
                   PROVE  e = f
        BY DEF OneVerdict
      <3>1. CASE e \in attempts /\ f \in attempts
        BY <3>1 DEF LogInv, OneVerdict
      <3>2. CASE e \in attempts /\ f \notin attempts
        BY <2>1, <2>2, <3>2 DEF Logged
      <3>3. CASE e \notin attempts /\ f \in attempts
        BY <2>1, <2>2, <3>3 DEF Logged
      <3>4. CASE e \notin attempts /\ f \notin attempts
        BY <2>1, <3>4
      <3> QED BY <3>1, <3>2, <3>3, <3>4
    <2>5. \A i \in Jobs : JobLog(i, jobs'[i], attempts')
      <3> TAKE i \in Jobs
      <3>2. \A e \in attempts' : e.job = i =>
              e \in attempts \/ (i \in R /\ e = entry(i))
        BY <2>1
      <3>0. i \in R => entry(i) \in attempts'
        BY <2>1
      <3>1. \A n \in Nat : Logged(attempts', i, n)
                            <=> Logged(attempts, i, n) \/ (i \in R /\ n = jobs[i].attempt)
        <4> SUFFICES ASSUME NEW n \in Nat
                     PROVE  Logged(attempts', i, n)
                              <=> Logged(attempts, i, n) \/ (i \in R /\ n = jobs[i].attempt)
          OBVIOUS
        <4>1. entry(i).job = i /\ entry(i).attempt = jobs[i].attempt
          OBVIOUS
        <4> HIDE DEF R, entry
        <4>2. attempts \subseteq attempts'
          BY <2>1
        <4> QED BY <3>0, <3>2, <4>1, <4>2 DEF Logged
      <3>3. CASE i \in S
        <4>1. jobs'[i] = Released(jobs[i], "expired")
          BY <1>6, <3>3 DEF Lapses
        <4>2. jobs'[i].state = "expired" /\ jobs'[i].attempt = jobs[i].attempt
              /\ jobs[i].attempt \in Nat
          BY <1>0, <4>1 DEF Released, Row
        <4>3. Waiting(jobs[i]) \/ i \in R
          BY <1>6, <3>3 DEF Lapses
        <4>4. \A e \in attempts : ~(e.job = i /\ e.outcome = "succeeded")
          BY <1>0, <4>3 DEF JobLog, Waiting
        <4>5. jobs[i].attempt > 0 => Logged(attempts', i, jobs[i].attempt)
          BY <1>0, <3>1, <4>2, <4>3 DEF JobLog, Waiting
        <4>6. \A n \in 1..(jobs[i].attempt - 1) : Logged(attempts', i, n)
          BY <1>0, <3>1 DEF JobLog
        <4>7. \A e \in attempts' : e.job = i => e.attempt <= jobs[i].attempt
          BY <1>0, <3>2, <4>2 DEF JobLog
        <4>8. \A e \in attempts' : ~(e.job = i /\ e.outcome = "succeeded")
          BY <3>2, <4>4
        <4> QED BY <4>2, <4>5, <4>6, <4>7, <4>8 DEF JobLog
      <3>4. CASE i \notin S
        <4>1. jobs'[i] = jobs[i]
          BY <1>6, <3>4 DEF Lapses
        <4>2. \A e \in attempts' : e.job = i <=> e \in attempts /\ e.job = i
          BY <2>1, <3>2, <3>4
        <4>3. jobs[i].attempt \in Nat
          BY <1>0 DEF Row
        <4>4. \A n \in Nat : Logged(attempts', i, n) <=> Logged(attempts, i, n)
          BY <3>1, <3>4
        <4>5. \A n \in 1..(jobs[i].attempt - 1) : n \in Nat
          BY <4>3
        <4>6. JobLog(i, jobs[i], attempts)
          BY <1>0
        <4> HIDE DEF R, entry
        <4> QED BY <4>1, <4>2, <4>3, <4>4, <4>5, <4>6 DEF JobLog
      <3> QED BY <3>3, <3>4
    <2>6. (AttemptsAccounted /\ SuccessIsFinal)'
      BY <2>3, <2>5 DEF AttemptsAccounted, SuccessIsFinal, JobLog, AttemptRow
    <2> QED BY <2>3, <2>4, <2>6 DEF LogInv
  <1> QED BY <1>1, <1>3, <1>4, <1>5, <1>6 DEF TableStep, WorkerStep

-----------------------------------------------------------------------------
(* The state of the processes is well-typed.                                *)

ProcessTypes ==
    /\ clock \in Nat
    /\ requests \in [Keys -> Jobs \cup {Null}]
    /\ worker \in [Workers -> WorkerRec]
    /\ exec \in [Workers -> [Jobs -> ExecRec]]
    /\ renewer \in [Workers -> [Jobs -> RenewerRec]]
    /\ crashes \in Nat

\* Replacing one entry of a table indexed by worker and job.
LEMMA Put2 ==
    ASSUME NEW A, NEW B, NEW S, NEW f \in [A -> [B -> S]],
           NEW a \in A, NEW b \in B, NEW v \in S
    PROVE  /\ [f EXCEPT ![a][b] = v] \in [A -> [B -> S]]
           /\ \A c \in A, d \in B :
                [f EXCEPT ![a][b] = v][c][d] = IF c = a /\ d = b THEN v ELSE f[c][d]
  OBVIOUS

\* An action on one worker's execution of one job replaces that execution's
\* record, perhaps its renewer's, and may mark the worker as raised.
Replaces(w, j, e, n) ==
    /\ exec' = [exec EXCEPT ![w][j] = e]
    /\ renewer' = [renewer EXCEPT ![w][j] = n]
    /\ worker' = worker \/ Raise(w)

LEMMA ReplacesTypes ==
    ASSUME TypeOK, NEW w \in Workers, NEW j \in Jobs,
           NEW e \in ExecRec, NEW n \in RenewerRec, Replaces(w, j, e, n)
    PROVE  /\ worker' \in [Workers -> WorkerRec]
           /\ exec' \in [Workers -> [Jobs -> ExecRec]]
           /\ renewer' \in [Workers -> [Jobs -> RenewerRec]]
           /\ \A v \in Workers, i \in Jobs :
                exec'[v][i] = IF v = w /\ i = j THEN e ELSE exec[v][i]
           /\ \A v \in Workers, i \in Jobs :
                renewer'[v][i] = IF v = w /\ i = j THEN n ELSE renewer[v][i]
           /\ \A v \in Workers : worker'[v].phase = worker[v].phase
                                 /\ worker'[v].now = worker[v].now
  <1>1. worker' \in [Workers -> WorkerRec]
    BY DEF Replaces, Raise, TypeOK, WorkerRec
  <1>2. \A v \in Workers : worker'[v].phase = worker[v].phase /\ worker'[v].now = worker[v].now
    <2>1. CASE worker' = worker
      BY <2>1
    <2>2. CASE Raise(w)
      BY <2>2 DEF Raise, TypeOK, WorkerRec
    <2> QED BY <2>1, <2>2 DEF Replaces
  <1>3. exec' \in [Workers -> [Jobs -> ExecRec]]
        /\ \A v \in Workers, i \in Jobs :
             exec'[v][i] = IF v = w /\ i = j THEN e ELSE exec[v][i]
    BY Put2 DEF Replaces, TypeOK
  <1>4. renewer' \in [Workers -> [Jobs -> RenewerRec]]
        /\ \A v \in Workers, i \in Jobs :
             renewer'[v][i] = IF v = w /\ i = j THEN n ELSE renewer[v][i]
    BY Put2 DEF Replaces, TypeOK
  <1> QED BY <1>1, <1>2, <1>3, <1>4

-----------------------------------------------------------------------------
(* How a step other than a lease may change a row, for the processes' sake. *)

\* The instant t is later than every poll whose batch already holds job j.
Past(j, t) ==
    \A v \in Workers :
      worker[v].phase = "leasing" /\ exec[v][j].phase # "none" => worker[v].now < t

Calm(j, r) ==
    /\ r.attempt = jobs[j].attempt
    /\ r.state = "running" =>
         /\ jobs[j].state = "running"
         /\ r.owner = jobs[j].owner
         /\ r.started = jobs[j].started
         /\ r.until = jobs[j].until \/ r.until > clock
    /\ r.state = "retry_wait" =>
         (jobs[j].state = "retry_wait" /\ r.due = jobs[j].due) \/ Past(j, r.due)
    /\ r.state = "failed" => jobs[j].state = "failed" \/ Past(j, clock)

CalmStep == \A i \in Jobs : Calm(i, jobs'[i])

\* A row that does not change.
LEMMA CalmSame ==
    ASSUME NEW j \in Jobs
    PROVE  Calm(j, jobs[j])
  BY DEF Calm

\* A row whose lease is given up for a state nobody leases again.
LEMMA CalmReleased ==
    ASSUME TypeOK, NEW j \in Jobs, NEW s \in Sealed
    PROVE  Calm(j, Released(jobs[j], s))
  <1>1. Released(jobs[j], s).attempt = jobs[j].attempt /\ Released(jobs[j], s).state = s
    BY DEF Released, TypeOK, Row
  <1> QED BY <1>1 DEF Calm, Sealed

\* One row changes calmly and the others do not change.
LEMMA CalmEffect ==
    ASSUME TypeOK, NEW j \in Jobs, NEW r, Effect(j, r), Calm(j, r)
    PROVE  CalmStep
  <1> SUFFICES ASSUME NEW i \in Jobs PROVE Calm(i, jobs'[i])
    BY DEF CalmStep
  <1>1. CASE i = j
    BY <1>1 DEF Effect, TypeOK
  <1>2. CASE i # j
    BY <1>2, CalmSame DEF Effect, TypeOK
  <1> QED BY <1>1, <1>2

\* While a worker executes a job it still holds, every poll that has the job
\* in its batch is older than that lease, hence than anything read under it.
LEMMA HolderPast ==
    ASSUME TypeOK, RowsInv, RowsNumbered, ProcessInv,
           NEW w \in Workers, NEW j \in Jobs,
           ActiveAttempt(jobs[j], w), worker[w].phase = "executing"
    PROVE  /\ Past(j, clock)
           /\ \A t \in Nat : jobs[j].started <= t => Past(j, t)
  <1>1. jobs[j].started \in Nat /\ jobs[j].started <= clock /\ clock \in Nat
    BY DEF TypeOK, RowsInv, RowInv, RowChecks, RowsNumbered, ActiveAttempt, Row
  <1>2. \A v \in Workers : worker[v].now \in Nat
    BY DEF TypeOK, WorkerRec
  <1>3. \A v \in Workers : worker[v].phase = "leasing" /\ exec[v][j].phase # "none"
                             => worker[v].now < jobs[j].started
    BY DEF ProcessInv, BatchOutOfReach, ActiveAttempt
  <1> QED BY <1>1, <1>2, <1>3 DEF Past

\* The end of an execution: finish, schedule_retry or quarantine.
LEMMA CalmCommit ==
    ASSUME TypeOK, RowsInv, RowsNumbered, ProcessInv,
           NEW w \in Workers, NEW j \in Jobs,
           CommitRetryable(w, j) \/ CommitQuarantine(w, j) \/ CommitSuccess(w, j)
                \/ HandlerPublishes(w, j)
    PROVE  CalmStep
  <1> DEFINE e == exec[w][j]
             r == jobs[j]
  <1>1. e.at \in Nat /\ e.attempt \in Nat /\ r \in Row(Workers) /\ clock \in Nat
    BY DEF TypeOK, ExecRec
  <1>2. e.phase \in {"publishing", "committing"} /\ worker[w].phase = "executing"
        /\ e.attempt > 0
    BY DEF CommitRetryable, CommitQuarantine, CommitSuccess, HandlerPublishes, Committing,
           ProcessInv, ExecutionKnows
  <1>3. ActiveAttempt(r, w) => Past(j, clock) /\ \A t \in Nat : e.at <= t => Past(j, t)
    <2>1. ActiveAttempt(r, w) => r.started <= e.at /\ r.started \in Nat
      BY <1>2 DEF ProcessInv, ExecutionKnows, RowsInv, RowInv, RowChecks, ActiveAttempt, Row
    <2> QED BY <1>1, <1>2, <2>1, HolderPast
  <1>4. \A s \in Sealed : Calm(j, Released(r, s))
    BY CalmReleased
  <1>5. ActiveAttempt(r, w) => Calm(j, Released(r, "failed"))
    <2>1. Released(r, "failed").attempt = r.attempt /\ Released(r, "failed").state = "failed"
      BY <1>1 DEF Released, Row
    <2> QED BY <1>3, <2>1 DEF Calm
  <1>6. ActiveAttempt(r, w) => \A t \in Nat, ok \in BOOLEAN : Calm(j, Finished(r, ok, t))
    BY <1>4, <1>5 DEF Finished, Sealed
  <1>7. ActiveAttempt(r, w) => \A t \in Nat : e.at <= t => Calm(j, Retried(r, t))
    <2> SUFFICES ASSUME ActiveAttempt(r, w), NEW t \in Nat, e.at <= t
                 PROVE  Calm(j, Retried(r, t))
      OBVIOUS
    <2>1. CASE DeadlinePassed(r, t)
      BY <1>4, <2>1 DEF Retried, Sealed
    <2>2. CASE ~DeadlinePassed(r, t)
      <3>1. Retried(r, t).state = "retry_wait" /\ Retried(r, t).due = t
            /\ Retried(r, t).attempt = r.attempt
        BY <1>1, <2>2 DEF Retried, Released, Row
      <3> QED BY <1>3, <3>1 DEF Calm
    <2> QED BY <2>1, <2>2
  <1>8. ASSUME jobs' = jobs
        PROVE  CalmStep
    BY <1>8, CalmSame DEF CalmStep
  <1>9. CASE CommitRetryable(w, j)
    <2>1. CASE OwnsActiveLease(r, w, e.at)
      <3>1. e.attempt < MaxAttempts => e.at + RetryDelay[e.attempt] \in Nat
                                       /\ e.at <= e.at + RetryDelay[e.attempt]
        <4>1. e.attempt < MaxAttempts => RetryDelay[e.attempt] \in Nat
          BY <1>1, <1>2, RetryAssumption, AttemptsAssumption
        <4> QED BY <1>1, <4>1
      <3> DEFINE next == IF e.attempt < MaxAttempts
                         THEN Retried(r, e.at + RetryDelay[e.attempt])
                         ELSE Finished(r, FALSE, e.at)
      <3>2. Effect(j, next)
        BY <1>9, <2>1 DEF CommitRetryable, RetriesLeft, CommitOutcome, Effect
      <3>3. Calm(j, next)
        BY <1>1, <1>6, <1>7, <2>1, <3>1 DEF OwnsActiveLease, ActiveAttempt
      <3> QED BY <3>2, <3>3, CalmEffect
    <2>2. CASE ~OwnsActiveLease(r, w, e.at)
      BY <1>8, <1>9, <2>2 DEF CommitRetryable, CommitOutcome
    <2> QED BY <2>1, <2>2
  <1>10. CASE CommitQuarantine(w, j)
    <2>1. CASE Quarantinable(r, w, e.at)
      <3>1. Effect(j, Released(r, "quarantined"))
        BY <1>10, <2>1 DEF CommitQuarantine, CommitOutcome, Effect
      <3> QED BY <1>4, <3>1, CalmEffect DEF Sealed
    <2>2. CASE ~Quarantinable(r, w, e.at)
      BY <1>8, <1>10, <2>2 DEF CommitQuarantine, CommitOutcome
    <2> QED BY <2>1, <2>2
  <1>11. CASE CommitSuccess(w, j)
    <2>1. CASE OwnsActiveLease(r, w, e.at)
      <3>1. Effect(j, Finished(r, TRUE, e.at))
        BY <1>11, <2>1 DEF CommitSuccess, CommitOutcome, Effect
      <3> QED BY <1>1, <1>6, <2>1, <3>1, CalmEffect DEF OwnsActiveLease, ActiveAttempt
    <2>2. CASE ~OwnsActiveLease(r, w, e.at)
      BY <1>8, <1>11, <2>2 DEF CommitSuccess, CommitOutcome
    <2> QED BY <2>1, <2>2
  <1>12. CASE HandlerPublishes(w, j)
    <2>1. CASE OwnsActiveLease(r, w, e.at) /\ ~DeadlinePassed(r, e.at)
      <3>1. Effect(j, Finished(r, TRUE, e.at))
        BY <1>12, <2>1 DEF HandlerPublishes, Effect
      <3> QED BY <1>1, <1>6, <2>1, <3>1, CalmEffect DEF OwnsActiveLease, ActiveAttempt
    <2>2. CASE ~(OwnsActiveLease(r, w, e.at) /\ ~DeadlinePassed(r, e.at))
      BY <1>8, <1>12, <2>2 DEF HandlerPublishes
    <2> QED BY <2>1, <2>2
  <1> QED BY <1>9, <1>10, <1>11, <1>12

\* Writers outside an execution: enqueue, cancel, an operator's retry.
LEMMA CalmOutside ==
    ASSUME TypeOK, RowsInv, ProcessInv, Outside
    PROVE  CalmStep
  <1>1. ASSUME NEW j \in Jobs, Enqueue(j)
        PROVE  CalmStep
    <2>1. Effect(j, [jobs[j] EXCEPT !.state = "queued"])
      BY <1>1 DEF Enqueue, Effect, TypeOK
    <2>2. Calm(j, [jobs[j] EXCEPT !.state = "queued"])
      BY DEF Calm, TypeOK, Row
    <2> QED BY <2>1, <2>2, CalmEffect
  <1>2. ASSUME NEW j \in Jobs, CancelJob(j)
        PROVE  CalmStep
    BY <1>2, CalmReleased, CalmEffect DEF CancelJob, Effect, Sealed
  <1>3. ASSUME NEW k \in Keys, NEW j \in Jobs, RequestRetry(k, j)
        PROVE  CalmStep
    <2> DEFINE next == OperatorRetried(jobs[j], clock)
    <2>1. Effect(j, next) /\ jobs[j].state = "failed"
      BY <1>3 DEF RequestRetry, OperatorRetryable, Effect
    <2>2. next.state = "retry_wait" /\ next.due = clock /\ next.attempt = jobs[j].attempt
      BY DEF OperatorRetried, TypeOK, Row
    <2>3. Past(j, clock)
      BY <2>1 DEF Past, ProcessInv, BatchOutOfReach, TypeOK, WorkerRec
    <2>4. Calm(j, next)
      BY <2>2, <2>3 DEF Calm
    <2> HIDE DEF next
    <2> QED BY <2>1, <2>4, CalmEffect
  <1> QED BY <1>1, <1>2, <1>3 DEF Outside

\* expire_due seals the rows it changes.
LEMMA CalmExpire ==
    ASSUME TypeOK, NEW w \in Workers, NEW locked \in SUBSET Jobs, ExpireDue(w, locked)
    PROVE  CalmStep
  <1> SUFFICES ASSUME NEW i \in Jobs PROVE Calm(i, jobs'[i])
    BY DEF CalmStep
  <1>1. jobs'[i] = jobs[i] \/ jobs'[i] = Released(jobs[i], "expired")
    BY DEF ExpireDue
  <1> QED BY <1>1, CalmSame, CalmReleased DEF Sealed

\* A renewal leaves a lease that is still running.
LEMMA CalmRenewal ==
    ASSUME TypeOK, ProcessInv, NEW w \in Workers, NEW j \in Jobs, RenewalCommits(w, j)
    PROVE  CalmStep
  <1> DEFINE at == renewer[w][j].at
  <1>1. clock < at + LeaseDuration /\ at \in Nat
    BY DEF RenewalCommits, ProcessInv, ReadingsPast, TypeOK, RenewerRec
  <1>2. CASE Renewable(jobs[j], w, at)
    <2>1. Effect(j, Renewed(jobs[j], at))
      BY <1>2 DEF RenewalCommits, Effect
    <2>2. /\ Renewed(jobs[j], at).until > clock
          /\ Renewed(jobs[j], at).attempt = jobs[j].attempt
          /\ Renewed(jobs[j], at).owner = jobs[j].owner
          /\ Renewed(jobs[j], at).started = jobs[j].started
          /\ Renewed(jobs[j], at).state = "running" /\ jobs[j].state = "running"
      BY <1>1, <1>2, LeaseDurationAssumption
         DEF Renewed, Renewable, OwnsActiveLease, TypeOK, Row
    <2> HIDE DEF at
    <2>3. Calm(j, Renewed(jobs[j], at))
      BY <2>2 DEF Calm
    <2> QED BY <2>1, <2>3, CalmEffect
  <1>3. CASE ~Renewable(jobs[j], w, at)
    <2>1. jobs' = jobs
      BY <1>3 DEF RenewalCommits, TypeOK
    <2> QED BY <2>1, CalmSame DEF CalmStep
  <1> QED BY <1>2, <1>3

-----------------------------------------------------------------------------
(* The processes' own invariant.                                            *)

\* The processes may change in these ways without learning anything wrong:
\* nobody starts an execution or a new reading, and what is read is the clock.
Careful ==
    /\ clock' \in Nat /\ clock <= clock'
    /\ \A v \in Workers, i \in Jobs :
         LET e == exec[v][i]
             f == exec'[v][i]
         IN  /\ f.phase # "none" => e.phase # "none" /\ f.attempt = e.attempt
             /\ f.phase \in {"publishing", "committing"} =>
                  f.at = clock \/ (e.phase = f.phase /\ f.at = e.at)
             /\ f.phase \notin {"none", "handling"} => worker'[v].phase = "executing"
             /\ worker'[v].phase \in {"down", "idle", "polled"} => f.phase = "none"
    /\ \A v \in Workers :
         /\ worker'[v].now \in {0, clock, worker[v].now}
         /\ worker'[v].phase = "leasing" =>
              /\ worker'[v].now = worker[v].now
              /\ worker[v].phase = "leasing" \/ \A i \in Jobs : exec'[v][i].phase = "none"
    /\ \A v \in Workers, i \in Jobs :
         renewer'[v][i].phase = "renewing" =>
           \/ renewer'[v][i].at = clock /\ clock' = clock
           \/ renewer'[v][i] = renewer[v][i]
                /\ clock' < renewer[v][i].at + LeaseDuration

\* A careful step with calm rows keeps the processes' invariant.
LEMMA CarefulStep ==
    ASSUME TypeOK, RowsInv, RowsNumbered, ProcessInv, CalmStep, Careful, RowsInv'
    PROVE  ProcessInv'
  <1> SUFFICES ASSUME NEW w \in Workers, NEW j \in Jobs
               PROVE  (ExecutionKnows(w, j) /\ ReadingsPast(w, j) /\ BatchOutOfReach(w, j))'
    BY DEF ProcessInv
  <1> DEFINE e == exec[w][j]
             f == exec'[w][j]
             r == jobs[j]
             q == jobs'[j]
  <1>1. /\ clock \in Nat /\ clock' \in Nat /\ clock <= clock'
        /\ worker[w].now \in Nat /\ renewer[w][j].at \in Nat /\ e.at \in Nat
        /\ e.attempt \in Nat
    BY DEF Careful, TypeOK, WorkerRec, RenewerRec, ExecRec
  <1>2. r \in Row(Workers) /\ q \in Row(Workers) /\ RowChecks(r) /\ RowChecks(q)
    BY DEF RowsInv, RowInv
  <1>3. ExecutionKnows(w, j) /\ ReadingsPast(w, j) /\ BatchOutOfReach(w, j)
    BY DEF ProcessInv
  <1>4. Calm(j, q)
    BY DEF CalmStep
  <1>5. ExecutionKnows(w, j)'
    <2>1. f.phase # "none" => f.attempt > 0 /\ f.attempt <= q.attempt
      BY <1>3, <1>4 DEF Careful, ExecutionKnows, Calm
    <2>2. ActiveAttempt(q, w) => ActiveAttempt(r, w) /\ q.started = r.started
                                 /\ q.attempt = r.attempt
      BY <1>4 DEF Calm, ActiveAttempt
    <2>3. f.phase # "none" /\ ActiveAttempt(q, w) => f.attempt = q.attempt
      BY <1>3, <2>2 DEF Careful, ExecutionKnows
    <2>4. ActiveAttempt(r, w) => r.started <= clock
      BY DEF RowsNumbered, ActiveAttempt
    <2>5. f.phase \in {"publishing", "committing"} /\ ActiveAttempt(q, w) => q.started <= f.at
      BY <1>3, <2>2, <2>4 DEF Careful, ExecutionKnows
    <2>6. /\ f.phase \notin {"none", "handling"} => worker'[w].phase = "executing"
          /\ worker'[w].phase \in {"down", "idle", "polled"} => f.phase = "none"
      BY DEF Careful
    <2> QED BY <2>1, <2>3, <2>5, <2>6 DEF ExecutionKnows
  <1>6. ReadingsPast(w, j)'
    <2>1. worker'[w].now <= clock'
      BY <1>1, <1>3 DEF Careful, ReadingsPast
    <2>2. renewer'[w][j].phase = "renewing" =>
            renewer'[w][j].at <= clock' /\ clock' < renewer'[w][j].at + LeaseDuration
      BY <1>1, <1>3, LeaseDurationAssumption DEF Careful, ReadingsPast
    <2> QED BY <2>1, <2>2 DEF ReadingsPast
  <1>7. BatchOutOfReach(w, j)'
    <2> SUFFICES ASSUME worker'[w].phase = "leasing", f.phase # "none"
                 PROVE  /\ q.state = "running" =>
                             /\ q.until > worker'[w].now
                             /\ (q.owner = w \/ q.started > worker'[w].now)
                        /\ q.state = "retry_wait" => q.due > worker'[w].now
                        /\ q.state = "failed" => clock' > worker'[w].now
      BY DEF BatchOutOfReach
    <2>1. worker[w].phase = "leasing" /\ e.phase # "none" /\ worker'[w].now = worker[w].now
      BY DEF Careful
    <2>2. \A t : Past(j, t) => worker[w].now < t
      BY <2>1 DEF Past
    <2>3. clock >= worker[w].now
      BY <1>3 DEF ReadingsPast
    <2>4. q.state = "running" => q.until > worker[w].now
      <3>1. q.state = "running" => q.until \in Nat
        BY <1>2 DEF RowChecks, Row
      <3> QED BY <1>1, <1>3, <1>4, <2>1, <2>3, <3>1 DEF Calm, BatchOutOfReach
    <2>5. q.state = "running" => q.owner = w \/ q.started > worker[w].now
      BY <1>3, <1>4, <2>1 DEF Calm, BatchOutOfReach
    <2>6. q.state = "retry_wait" => q.due > worker[w].now
      BY <1>2, <1>3, <1>4, <2>1, <2>2 DEF Calm, BatchOutOfReach, Row
    <2>7. q.state = "failed" => clock' > worker[w].now
      BY <1>1, <1>3, <1>4, <2>1, <2>2 DEF Calm, BatchOutOfReach
    <2> QED BY <2>1, <2>4, <2>5, <2>6, <2>7
  <1> QED BY <1>5, <1>6, <1>7

\* An action on one execution is careful when its own records are.
LEMMA ReplacesCareful ==
    ASSUME TypeOK, ProcessInv, NEW w \in Workers, NEW j \in Jobs,
           NEW e \in ExecRec, NEW n \in RenewerRec, Replaces(w, j, e, n), clock' = clock,
           e.phase # "none" => exec[w][j].phase # "none" /\ e.attempt = exec[w][j].attempt,
           e.phase \in {"publishing", "committing"} =>
             e.at = clock \/ (exec[w][j].phase = e.phase /\ e.at = exec[w][j].at),
           e.phase \notin {"none", "handling"} => worker[w].phase = "executing",
           n.phase = "renewing" => n.at = clock \/ n = renewer[w][j]
    PROVE  /\ Careful
           /\ worker' \in [Workers -> WorkerRec]
           /\ exec' \in [Workers -> [Jobs -> ExecRec]]
           /\ renewer' \in [Workers -> [Jobs -> RenewerRec]]
  <1>1. /\ worker' \in [Workers -> WorkerRec]
        /\ exec' \in [Workers -> [Jobs -> ExecRec]]
        /\ renewer' \in [Workers -> [Jobs -> RenewerRec]]
    BY ReplacesTypes
  <1>2. \A v \in Workers, i \in Jobs : exec'[v][i] = IF v = w /\ i = j THEN e ELSE exec[v][i]
    BY ReplacesTypes
  <1>3. \A v \in Workers, i \in Jobs :
           renewer'[v][i] = IF v = w /\ i = j THEN n ELSE renewer[v][i]
    BY ReplacesTypes
  <1>4. \A v \in Workers : worker'[v].phase = worker[v].phase /\ worker'[v].now = worker[v].now
    BY ReplacesTypes
  <1>5. clock \in Nat
    BY DEF TypeOK
  <1>6. \A v \in Workers, i \in Jobs :
          /\ exec[v][i].phase \notin {"none", "handling"} => worker[v].phase = "executing"
          /\ worker[v].phase \in {"down", "idle", "polled"} => exec[v][i].phase = "none"
          /\ renewer[v][i].phase = "renewing" => clock < renewer[v][i].at + LeaseDuration
    BY DEF ProcessInv, ExecutionKnows, ReadingsPast
  <1>7. \A v \in Workers, i \in Jobs :
             /\ exec'[v][i].phase # "none" =>
                  exec[v][i].phase # "none" /\ exec'[v][i].attempt = exec[v][i].attempt
             /\ exec'[v][i].phase \in {"publishing", "committing"} =>
                  exec'[v][i].at = clock
                    \/ (exec[v][i].phase = exec'[v][i].phase /\ exec'[v][i].at = exec[v][i].at)
             /\ exec'[v][i].phase \notin {"none", "handling"} => worker'[v].phase = "executing"
             /\ worker'[v].phase \in {"down", "idle", "polled"} => exec'[v][i].phase = "none"
    BY <1>2, <1>4, <1>6
  <1>8. \A v \in Workers :
         /\ worker'[v].now \in {0, clock, worker[v].now}
         /\ worker'[v].phase = "leasing" =>
              worker'[v].now = worker[v].now /\ worker[v].phase = "leasing"
    BY <1>4
  <1>9. \A v \in Workers, i \in Jobs :
         renewer'[v][i].phase = "renewing" =>
           \/ renewer'[v][i].at = clock /\ clock' = clock
           \/ renewer'[v][i] = renewer[v][i]
                /\ clock' < renewer[v][i].at + LeaseDuration
    BY <1>3, <1>6
  <1>10. Careful
    BY <1>5, <1>7, <1>8, <1>9 DEF Careful
  <1> QED BY <1>1, <1>10

\* An assignment that leaves an entry as it is.
LEMMA PutSame ==
    ASSUME TypeOK, NEW w \in Workers, NEW j \in Jobs
    PROVE  /\ [exec EXCEPT ![w][j] = exec[w][j]] = exec
           /\ [renewer EXCEPT ![w][j] = renewer[w][j]] = renewer
           /\ exec[w][j] \in ExecRec /\ renewer[w][j] \in RenewerRec
  BY DEF TypeOK

\* Two of the ways an action rewrites an execution's record.
LEMMA ExecWritten ==
    ASSUME NEW e0 \in ExecRec, NEW p0, NEW t0
    PROVE  /\ [e0 EXCEPT !.phase = p0] =
                [phase |-> p0, attempt |-> e0.attempt, outcome |-> e0.outcome, at |-> e0.at]
           /\ [e0 EXCEPT !.phase = p0, !.at = t0] =
                [phase |-> p0, attempt |-> e0.attempt, outcome |-> e0.outcome, at |-> t0]
  <1> DEFINE rec(a, b, c, d) == [phase |-> a, attempt |-> b, outcome |-> c, at |-> d]
  <1>1. PICK a \in ExecPhase, b \in Nat, c \in ExecOutcome, d \in Nat : e0 = rec(a, b, c, d)
    BY DEF ExecRec
  <1>2. e0.phase = a /\ e0.attempt = b /\ e0.outcome = c /\ e0.at = d
    BY <1>1
  <1>3. /\ [rec(a, b, c, d) EXCEPT !.phase = p0] = rec(p0, b, c, d)
        /\ [rec(p0, b, c, d) EXCEPT !.at = t0] = rec(p0, b, c, t0)
    OBVIOUS
  <1> QED BY <1>1, <1>2, <1>3

\* The third one.
LEMMA OutcomeWritten ==
    ASSUME NEW e0 \in ExecRec, NEW p0, NEW o0
    PROVE  [e0 EXCEPT !.phase = p0, !.outcome = o0] =
             [phase |-> p0, attempt |-> e0.attempt, outcome |-> o0, at |-> e0.at]
  <1> DEFINE rec(a, b, c, d) == [phase |-> a, attempt |-> b, outcome |-> c, at |-> d]
  <1>1. PICK a \in ExecPhase, b \in Nat, c \in ExecOutcome, d \in Nat : e0 = rec(a, b, c, d)
    BY DEF ExecRec
  <1>2. e0.phase = a /\ e0.attempt = b /\ e0.outcome = c /\ e0.at = d
    BY <1>1
  <1>3. /\ [rec(a, b, c, d) EXCEPT !.phase = p0] = rec(p0, b, c, d)
        /\ [rec(p0, b, c, d) EXCEPT !.outcome = o0] = rec(p0, b, o0, d)
    OBVIOUS
  <1> QED BY <1>1, <1>2, <1>3

\* The steps of a handler's thread.
LEMMA ExecutingCareful ==
    ASSUME TypeOK, ProcessInv, NEW w \in Workers, NEW j \in Jobs, Executing(w, j)
    PROVE  Careful /\ ProcessTypes'
  <1> DEFINE e == exec[w][j]
             n == renewer[w][j]
             stopping(o) == [phase |-> "stopping", attempt |-> e.attempt,
                             outcome |-> o, at |-> e.at]
  <1>1. e \in ExecRec /\ n \in RenewerRec /\ clock \in Nat /\ NoExec \in ExecRec
        /\ NoRenewer \in RenewerRec
    BY DEF TypeOK, NoExec, NoRenewer, ExecRec, RenewerRec, ExecPhase, ExecOutcome, RenewerPhase
  <1>2. /\ e = [phase |-> e.phase, attempt |-> e.attempt, outcome |-> e.outcome, at |-> e.at]
        /\ e.attempt \in Nat /\ e.at \in Nat /\ e.outcome \in ExecOutcome
    BY <1>1 DEF ExecRec
  <1>3. \A o \in ExecOutcome : stopping(o) \in ExecRec
    BY <1>2 DEF ExecRec, ExecPhase
  <1>4. e.phase \notin {"none", "handling"} => worker[w].phase = "executing"
    BY DEF ProcessInv, ExecutionKnows
  <1>5. clock' = clock /\ requests' = requests /\ crashes' = crashes
    BY DEF Executing, HandlerReturns, HandlerCompletes, HandlerPublishes, HandlerFinalized,
           JoinRenewal, CommitRetryable, CommitQuarantine, CommitSuccess, CommitOutcome
  <1>6. ASSUME NEW f \in ExecRec, NEW m \in RenewerRec, Replaces(w, j, f, m),
               f.phase # "none" => e.phase # "none" /\ f.attempt = e.attempt,
               f.phase \in {"publishing", "committing"} => f.at = clock,
               f.phase # "none" => worker[w].phase = "executing",
               m \in {n, NoRenewer}
        PROVE  Careful /\ ProcessTypes'
    <2>1. m.phase = "renewing" => m = n
      BY <1>6 DEF NoRenewer
    <2>2. Careful /\ worker' \in [Workers -> WorkerRec]
           /\ exec' \in [Workers -> [Jobs -> ExecRec]]
           /\ renewer' \in [Workers -> [Jobs -> RenewerRec]]
      BY <1>5, <1>6, <2>1, ReplacesCareful
    <2> QED BY <1>5, <2>2 DEF ProcessTypes, TypeOK
  <1>7. renewer' = renewer => renewer' = [renewer EXCEPT ![w][j] = n]
    BY PutSame
  <1>8. ASSUME NEW o \in HandlerOutcome, HandlerReturns(w, j, o)
        PROVE  Careful /\ ProcessTypes'
    <2>1. o \in ExecOutcome
      BY OutcomeAssumption DEF ExecOutcome
    <2>2. [e EXCEPT !.phase = "stopping", !.outcome = o] = stopping(o)
      <3>1. e \in ExecRec
        BY <1>1
      <3> HIDE DEF e
      <3> QED BY <3>1, OutcomeWritten
    <2>3. Replaces(w, j, stopping(o), n) /\ e.phase = "handling" /\ worker[w].phase = "executing"
      BY <1>7, <1>8, <2>2 DEF HandlerReturns, Handling, Replaces
    <2>4. stopping(o) \in ExecRec /\ stopping(o).phase = "stopping"
          /\ stopping(o).attempt = e.attempt
      BY <1>3, <2>1
    <2> HIDE DEF stopping
    <2> QED BY <1>1, <1>6, <2>3, <2>4
  <1>9. CASE HandlerCompletes(w, j)
    <2> DEFINE f == [phase |-> "publishing", attempt |-> e.attempt,
                     outcome |-> e.outcome, at |-> clock]
    <2>1. [e EXCEPT !.phase = "publishing", !.at = clock] = f
      BY <1>1, ExecWritten
    <2>2. Replaces(w, j, f, n) /\ e.phase = "handling" /\ worker[w].phase = "executing"
      BY <1>7, <1>9, <2>1 DEF HandlerCompletes, Handling, Replaces
    <2>3. f \in ExecRec /\ f.attempt = e.attempt /\ f.at = clock
      BY <1>1, <1>2 DEF ExecRec, ExecPhase
    <2> HIDE DEF f
    <2> QED BY <1>1, <1>6, <2>2, <2>3
  <1>10. CASE HandlerPublishes(w, j)
    <2> DEFINE f == [phase |-> "finalized", attempt |-> e.attempt,
                     outcome |-> "finalized", at |-> e.at]
    <2>1. /\ [e EXCEPT !.phase = "finalized", !.outcome = "finalized"] = f
          /\ [e EXCEPT !.phase = "stopping", !.outcome = "terminal"] = stopping("terminal")
      <3>1. e \in ExecRec
        BY <1>1
      <3> HIDE DEF e
      <3> QED BY <3>1, OutcomeWritten
    <2>2. /\ Replaces(w, j, f, n) \/ Replaces(w, j, stopping("terminal"), n)
          /\ e.phase = "publishing"
      BY <1>7, <1>10, <2>1 DEF HandlerPublishes, Replaces
    <2>3. /\ f \in ExecRec /\ f.attempt = e.attempt /\ f.phase = "finalized"
          /\ stopping("terminal") \in ExecRec /\ stopping("terminal").attempt = e.attempt
          /\ stopping("terminal").phase = "stopping"
      BY <1>1, <1>2, <1>3 DEF ExecRec, ExecPhase, ExecOutcome
    <2> HIDE DEF f, stopping
    <2> QED BY <1>1, <1>4, <1>6, <2>2, <2>3
  <1>11. CASE HandlerFinalized(w, j)
    <2>1. [e EXCEPT !.phase = "stopping"] = stopping(e.outcome)
      BY <1>1, ExecWritten
    <2>2. Replaces(w, j, stopping(e.outcome), n) /\ e.phase = "finalized"
      BY <1>7, <1>11, <2>1 DEF HandlerFinalized, Replaces
    <2>3. stopping(e.outcome) \in ExecRec /\ stopping(e.outcome).attempt = e.attempt
          /\ stopping(e.outcome).phase = "stopping"
      BY <1>2, <1>3
    <2> HIDE DEF stopping
    <2> QED BY <1>1, <1>4, <1>6, <2>2, <2>3
  <1>12. CASE JoinRenewal(w, j)
    <2> DEFINE f == [phase |-> "committing", attempt |-> e.attempt,
                     outcome |-> e.outcome, at |-> clock]
    <2>1. [e EXCEPT !.phase = "committing", !.at = clock] = f
      BY <1>1, ExecWritten
    <2>2. PICK g \in {f, NoExec}, m \in {n, NoRenewer} : Replaces(w, j, g, m)
      BY <1>12, <2>1 DEF JoinRenewal, Replaces
    <2>3. e.phase = "stopping"
      BY <1>12 DEF JoinRenewal
    <2>4. f \in ExecRec /\ f.attempt = e.attempt /\ f.phase = "committing" /\ f.at = clock
          /\ NoExec.phase = "none"
      BY <1>1, <1>2 DEF ExecRec, ExecPhase, NoExec
    <2> HIDE DEF f
    <2> QED BY <1>1, <1>4, <1>6, <2>2, <2>3, <2>4
  <1>13. CASE CommitRetryable(w, j) \/ CommitQuarantine(w, j) \/ CommitSuccess(w, j)
    <2>1. Replaces(w, j, NoExec, n)
      BY <1>7, <1>13 DEF CommitRetryable, CommitQuarantine, CommitSuccess, CommitOutcome, Replaces
    <2>2. NoExec.phase = "none"
      BY DEF NoExec
    <2> QED BY <1>1, <1>6, <2>1, <2>2
  <1> QED BY <1>8, <1>9, <1>10, <1>11, <1>12, <1>13 DEF Executing

\* The steps of a renewal thread.
LEMMA RenewingCareful ==
    ASSUME TypeOK, ProcessInv, NEW w \in Workers, NEW j \in Jobs, Renewing(w, j)
    PROVE  Careful /\ ProcessTypes'
  <1> DEFINE e == exec[w][j]
  <1>1. clock' = clock /\ requests' = requests /\ crashes' = crashes /\ worker' = worker
        /\ exec' = [exec EXCEPT ![w][j] = e] /\ e \in ExecRec
    BY PutSame DEF Renewing, RenewalWakes, RenewalCommits
  <1>2. PICK m \in RenewerRec :
          renewer' = [renewer EXCEPT ![w][j] = m] /\ (m.phase = "renewing" => m.at = clock)
    <2>1. clock \in Nat
      BY DEF TypeOK
    <2>2. CASE RenewalWakes(w, j)
      <3> DEFINE m == IF DeadlinePassed(jobs[j], clock) THEN [phase |-> "ended", at |-> 0]
                      ELSE [phase |-> "renewing", at |-> clock]
      <3>1. m \in RenewerRec /\ (m.phase = "renewing" => m.at = clock)
        BY <2>1 DEF RenewerRec, RenewerPhase
      <3>2. renewer' = [renewer EXCEPT ![w][j] = m]
        BY <2>2 DEF RenewalWakes
      <3> HIDE DEF m
      <3> QED BY <3>1, <3>2
    <2>3. CASE RenewalCommits(w, j)
      <3> DEFINE m == IF Watched(w, j)
                      THEN [phase |-> IF Renewable(jobs[j], w, renewer[w][j].at)
                                      THEN "waiting" ELSE "lost", at |-> 0]
                      ELSE NoRenewer
      <3>1. m \in RenewerRec /\ m.phase # "renewing"
        BY DEF RenewerRec, RenewerPhase, NoRenewer
      <3>2. renewer' = [renewer EXCEPT ![w][j] = m]
        BY <2>3 DEF RenewalCommits
      <3> HIDE DEF m
      <3> QED BY <3>1, <3>2
    <2> QED BY <2>2, <2>3 DEF Renewing
  <1>3. Replaces(w, j, e, m)
    BY <1>1, <1>2 DEF Replaces
  <1>4. e.phase \notin {"none", "handling"} => worker[w].phase = "executing"
    BY DEF ProcessInv, ExecutionKnows
  <1>5. Careful /\ worker' \in [Workers -> WorkerRec]
         /\ exec' \in [Workers -> [Jobs -> ExecRec]]
         /\ renewer' \in [Workers -> [Jobs -> RenewerRec]]
    BY <1>1, <1>2, <1>3, <1>4, ReplacesCareful
  <1> QED BY <1>1, <1>5 DEF ProcessTypes, TypeOK

\* A worker's record after an action that writes its phase, or its phase and
\* its clock reading.
LEMMA WorkerWritten ==
    ASSUME TypeOK, NEW w \in Workers, NEW p0 \in WorkerPhase, NEW t0 \in Nat,
           \/ worker' = [worker EXCEPT ![w].phase = p0] /\ t0 = worker[w].now
           \/ worker' = [worker EXCEPT ![w] = [@ EXCEPT !.phase = p0, !.now = t0]]
           \/ worker' = [worker EXCEPT ![w] = DownWorker] /\ p0 = "down" /\ t0 = 0
    PROVE  /\ worker' \in [Workers -> WorkerRec]
           /\ worker'[w].phase = p0 /\ worker'[w].now = t0
           /\ \A v \in Workers \ {w} : worker'[v] = worker[v]
  <1> DEFINE rec(a, b, c) == [phase |-> a, now |-> b, raised |-> c]
  <1>1. PICK a \in WorkerPhase, b \in Nat, c \in BOOLEAN : worker[w] = rec(a, b, c)
    BY DEF TypeOK, WorkerRec
  <1>2. worker[w].now = b
    BY <1>1
  <1>3. /\ [rec(a, b, c) EXCEPT !.phase = p0] = rec(p0, b, c)
        /\ [rec(p0, b, c) EXCEPT !.now = t0] = rec(p0, t0, c)
    OBVIOUS
  <1>4. PICK c0 \in BOOLEAN : worker' = [worker EXCEPT ![w] = rec(p0, t0, c0)]
    <2>1. CASE worker' = [worker EXCEPT ![w].phase = p0] /\ t0 = worker[w].now
      <3>1. worker' = [worker EXCEPT ![w] = [rec(a, b, c) EXCEPT !.phase = p0]]
        BY <1>1, <2>1
      <3> QED BY <1>2, <1>3, <2>1, <3>1
    <2>2. CASE worker' = [worker EXCEPT ![w] = [@ EXCEPT !.phase = p0, !.now = t0]]
      <3>1. worker' = [worker EXCEPT ![w] = [[rec(a, b, c) EXCEPT !.phase = p0] EXCEPT !.now = t0]]
        BY <1>1, <2>2
      <3> QED BY <1>3, <3>1
    <2>3. CASE worker' = [worker EXCEPT ![w] = DownWorker] /\ p0 = "down" /\ t0 = 0
      BY <2>3 DEF DownWorker
    <2> QED BY <2>1, <2>2, <2>3
  <1>5. rec(p0, t0, c0) \in WorkerRec /\ rec(p0, t0, c0).phase = p0 /\ rec(p0, t0, c0).now = t0
    BY DEF WorkerRec
  <1> HIDE DEF rec
  <1> QED BY <1>4, <1>5 DEF TypeOK

\* A step of one worker's loop that leases nothing.
LEMMA LoopEntry ==
    ASSUME TypeOK, ProcessInv, NEW w \in Workers,
           worker' \in [Workers -> WorkerRec],
           exec' \in [Workers -> [Jobs -> ExecRec]],
           renewer' \in [Workers -> [Jobs -> RenewerRec]],
           clock' = clock, requests' = requests, crashes' \in Nat,
           \A v \in Workers \ {w} : worker'[v] = worker[v],
           \A v \in Workers \ {w}, i \in Jobs : exec'[v][i] = exec[v][i],
           worker'[w].now \in {0, clock, worker[w].now},
           worker'[w].phase = "leasing" =>
             worker'[w].now = worker[w].now /\ \A i \in Jobs : exec'[w][i].phase = "none",
           \A i \in Jobs :
             \/ exec'[w][i].phase = "none"
             \/ exec'[w][i] = exec[w][i] /\ exec[w][i].phase = "handling"
                  /\ worker'[w].phase = "executing"
             \/ exec'[w][i].phase = "committing" /\ exec'[w][i].at = clock
                  /\ exec'[w][i].attempt = exec[w][i].attempt
                  /\ exec[w][i].phase # "none" /\ worker'[w].phase = "executing",
           \A v \in Workers, i \in Jobs :
             renewer'[v][i] = renewer[v][i] \/ renewer'[v][i].phase # "renewing"
    PROVE  Careful /\ ProcessTypes'
  <1>1. clock \in Nat /\ requests' \in [Keys -> Jobs \cup {Null}]
    BY DEF TypeOK
  <1>2. \A v \in Workers, i \in Jobs :
          /\ exec[v][i].phase \notin {"none", "handling"} => worker[v].phase = "executing"
          /\ worker[v].phase \in {"down", "idle", "polled"} => exec[v][i].phase = "none"
          /\ renewer[v][i].phase = "renewing" => clock < renewer[v][i].at + LeaseDuration
    BY DEF ProcessInv, ExecutionKnows, ReadingsPast
  <1>3. \A v \in Workers, i \in Jobs :
          /\ exec'[v][i].phase # "none" =>
               exec[v][i].phase # "none" /\ exec'[v][i].attempt = exec[v][i].attempt
          /\ exec'[v][i].phase \in {"publishing", "committing"} =>
               exec'[v][i].at = clock
                 \/ (exec[v][i].phase = exec'[v][i].phase /\ exec'[v][i].at = exec[v][i].at)
          /\ exec'[v][i].phase \notin {"none", "handling"} => worker'[v].phase = "executing"
          /\ worker'[v].phase \in {"down", "idle", "polled"} => exec'[v][i].phase = "none"
    <2> TAKE v \in Workers, i \in Jobs
    <2>1. CASE v = w
      BY <1>2, <2>1
    <2>2. CASE v # w
      <3>1. worker'[v] = worker[v] /\ exec'[v][i] = exec[v][i]
        BY <2>2
      <3> QED BY <1>2, <3>1
    <2> QED BY <2>1, <2>2
  <1>4. \A v \in Workers :
         /\ worker'[v].now \in {0, clock, worker[v].now}
         /\ worker'[v].phase = "leasing" =>
              /\ worker'[v].now = worker[v].now
              /\ worker[v].phase = "leasing" \/ \A i \in Jobs : exec'[v][i].phase = "none"
    <2> TAKE v \in Workers
    <2>1. v = w \/ worker'[v] = worker[v]
      OBVIOUS
    <2> QED BY <2>1
  <1>5. \A v \in Workers, i \in Jobs :
         renewer'[v][i].phase = "renewing" =>
           \/ renewer'[v][i].at = clock /\ clock' = clock
           \/ renewer'[v][i] = renewer[v][i] /\ clock' < renewer[v][i].at + LeaseDuration
    BY <1>2
  <1>6. Careful
    BY <1>1, <1>3, <1>4, <1>5 DEF Careful
  <1> QED BY <1>1, <1>6 DEF ProcessTypes

\* Time, the writers outside, and the steps of the poll loop but the lease.
LEMMA LoopCareful ==
    ASSUME TypeOK, ProcessInv,
           UNCHANGED vars \/ Tick \/ Outside
             \/ \E w \in Workers :
                  \/ Poll(w) \/ EndBatch(w) \/ Restart(w) \/ Crash(w)
                  \/ \E locked \in SUBSET Jobs : ExpireDue(w, locked) \/ StartBatch(w, locked)
    PROVE  Careful /\ ProcessTypes'
  <1>1. /\ clock \in Nat /\ crashes \in Nat /\ requests \in [Keys -> Jobs \cup {Null}]
        /\ worker \in [Workers -> WorkerRec]
        /\ exec \in [Workers -> [Jobs -> ExecRec]]
        /\ renewer \in [Workers -> [Jobs -> RenewerRec]]
        /\ clock + 1 \in Nat /\ crashes + 1 \in Nat
    BY DEF TypeOK
  <1>2. \A v \in Workers, i \in Jobs :
          /\ exec[v][i].phase \notin {"none", "handling"} => worker[v].phase = "executing"
          /\ worker[v].phase \in {"down", "idle", "polled"} => exec[v][i].phase = "none"
          /\ renewer[v][i].phase = "renewing" => clock < renewer[v][i].at + LeaseDuration
    BY DEF ProcessInv, ExecutionKnows, ReadingsPast
  <1>3. /\ NoExec \in ExecRec /\ NoExec.phase = "none"
        /\ NoRenewer \in RenewerRec /\ NoRenewer.phase = "off"
        /\ DownWorker \in WorkerRec /\ DownWorker.phase = "down" /\ DownWorker.now = 0
    BY DEF NoExec, NoRenewer, DownWorker, ExecRec, RenewerRec, WorkerRec, ExecPhase,
           ExecOutcome, RenewerPhase, WorkerPhase
  <1>4. CASE UNCHANGED <<clock, requests, worker, exec, renewer, crashes>>
    BY <1>1, <1>2, <1>4 DEF Careful, ProcessTypes
  <1>5. CASE UNCHANGED vars
    BY <1>4, <1>5 DEF vars
  <1>6. CASE Tick
    BY <1>1, <1>2, <1>6 DEF Tick, RenewalsPrompt, Careful, ProcessTypes
  <1>7. CASE Outside
    <2>1. UNCHANGED <<clock, worker, exec, renewer, crashes>>
      BY <1>7 DEF Outside, Enqueue, CancelJob, RequestRetry
    <2>2. requests' \in [Keys -> Jobs \cup {Null}]
      BY <1>1, <1>7 DEF Outside, Enqueue, CancelJob, RequestRetry
    <2> QED BY <1>1, <1>2, <2>1, <2>2 DEF Careful, ProcessTypes
  <1>0. \A w \in Workers : worker[w].now \in Nat
    BY <1>1 DEF WorkerRec
  <1>8. ASSUME NEW w \in Workers, Poll(w) \/ Restart(w)
        PROVE  Careful /\ ProcessTypes'
    <2>1. PICK p0 \in {"polled", "idle"}, t0 \in {clock, worker[w].now} :
            /\ worker' \in [Workers -> WorkerRec]
            /\ worker'[w].phase = p0 /\ worker'[w].now = t0
            /\ \A v \in Workers \ {w} : worker'[v] = worker[v]
      <3>1. CASE Poll(w)
        <4>1. /\ worker' \in [Workers -> WorkerRec]
              /\ worker'[w].phase = "polled" /\ worker'[w].now = clock
              /\ \A v \in Workers \ {w} : worker'[v] = worker[v]
          BY <1>1, <3>1, WorkerWritten DEF Poll, WorkerPhase
        <4> QED BY <4>1
      <3>2. CASE Restart(w)
        <4>1. /\ worker' \in [Workers -> WorkerRec]
              /\ worker'[w].phase = "idle" /\ worker'[w].now = worker[w].now
              /\ \A v \in Workers \ {w} : worker'[v] = worker[v]
          BY <1>0, <3>2, WorkerWritten DEF Restart, WorkerPhase
        <4> QED BY <4>1
      <3> QED BY <1>8, <3>1, <3>2
    <2>2. UNCHANGED <<clock, requests, exec, renewer, crashes>>
          /\ worker[w].phase \in {"idle", "down"}
      BY <1>8 DEF Poll, Restart
    <2>3. exec' \in [Workers -> [Jobs -> ExecRec]] /\ renewer' \in [Workers -> [Jobs -> RenewerRec]]
          /\ crashes' \in Nat /\ \A i \in Jobs : exec'[w][i].phase = "none"
      BY <1>1, <1>2, <2>2
    <2> QED BY <2>1, <2>2, <2>3, LoopEntry
  <1>9. ASSUME NEW w \in Workers, NEW locked \in SUBSET Jobs, ExpireDue(w, locked)
        PROVE  Careful /\ ProcessTypes'
    <2>1. /\ worker' \in [Workers -> WorkerRec]
          /\ worker'[w].phase = "leasing" /\ worker'[w].now = worker[w].now
          /\ \A v \in Workers \ {w} : worker'[v] = worker[v]
      BY <1>0, <1>9, WorkerWritten DEF ExpireDue, WorkerPhase
    <2>2. UNCHANGED <<clock, requests, exec, renewer, crashes>> /\ worker[w].phase = "polled"
      BY <1>9 DEF ExpireDue
    <2>3. exec' \in [Workers -> [Jobs -> ExecRec]] /\ renewer' \in [Workers -> [Jobs -> RenewerRec]]
          /\ crashes' \in Nat /\ \A i \in Jobs : exec'[w][i].phase = "none"
      BY <1>1, <1>2, <2>2
    <2> QED BY <2>1, <2>2, <2>3, LoopEntry
  <1>10. ASSUME NEW w \in Workers, NEW locked \in SUBSET Jobs, StartBatch(w, locked)
         PROVE  Careful /\ ProcessTypes'
    <2> DEFINE started(i) == [exec[w][i] EXCEPT !.phase = "committing",
                                !.outcome = "unknown", !.at = clock]
               waiting == [phase |-> "waiting", at |-> 0]
               phase == IF Batch(w) = {} THEN "idle" ELSE "executing"
    <2>1. /\ worker' \in [Workers -> WorkerRec]
          /\ worker'[w].phase = phase /\ worker'[w].now = 0
          /\ \A v \in Workers \ {w} : worker'[v] = worker[v]
      <3>1. phase \in WorkerPhase
        BY DEF WorkerPhase
      <3>2. worker' = [worker EXCEPT ![w] = [@ EXCEPT !.phase = phase, !.now = 0]]
        BY <1>10 DEF StartBatch
      <3> HIDE DEF phase
      <3> QED BY <3>1, <3>2, WorkerWritten
    <2>2. \A i \in Jobs :
            /\ started(i) \in ExecRec /\ started(i).phase = "committing"
            /\ started(i).attempt = exec[w][i].attempt /\ started(i).at = clock
      <3> SUFFICES ASSUME NEW i \in Jobs
                   PROVE  /\ started(i) \in ExecRec /\ started(i).phase = "committing"
                          /\ started(i).attempt = exec[w][i].attempt /\ started(i).at = clock
        OBVIOUS
      <3> DEFINE e == exec[w][i]
                 g == [phase |-> "committing", attempt |-> e.attempt, outcome |-> "unknown",
                       at |-> e.at]
      <3>1. e \in ExecRec
        BY <1>1
      <3>2. g \in ExecRec
        BY <3>1 DEF ExecRec, ExecPhase, ExecOutcome
      <3> HIDE DEF e
      <3>3. [e EXCEPT !.phase = "committing", !.outcome = "unknown"] = g
        BY <3>1, OutcomeWritten
      <3>4. started(i) = [g EXCEPT !.at = clock]
        BY <3>3 DEF e
      <3>5. [g EXCEPT !.at = clock] =
              [phase |-> "committing", attempt |-> e.attempt, outcome |-> "unknown", at |-> clock]
        OBVIOUS
      <3>6. started(i) =
              [phase |-> "committing", attempt |-> e.attempt, outcome |-> "unknown", at |-> clock]
        BY <3>4, <3>5
      <3> HIDE DEF started, g
      <3>7. e.attempt \in Nat
        BY <3>1 DEF ExecRec
      <3>8. started(i) \in ExecRec /\ started(i).phase = "committing"
            /\ started(i).attempt = e.attempt /\ started(i).at = clock
        BY <1>1, <3>6, <3>7 DEF ExecRec, ExecPhase, ExecOutcome
      <3> QED BY <3>8 DEF e
    <2>3. waiting \in RenewerRec /\ waiting.phase = "waiting"
      BY DEF RenewerRec, RenewerPhase
    <2>4. /\ exec' = [exec EXCEPT ![w] = [i \in Jobs |->
                        IF i \in Batch(w) \cap UnknownType THEN started(i) ELSE exec[w][i]]]
          /\ renewer' = [renewer EXCEPT ![w] = [i \in Jobs |->
                           IF i \in Batch(w) \ UnknownType THEN waiting ELSE renewer[w][i]]]
          /\ UNCHANGED <<clock, requests, crashes>> /\ worker[w].phase = "leasing"
      BY <1>10 DEF StartBatch
    <2>5. \A i \in Jobs : i \in Batch(w) <=> exec[w][i].phase # "none"
      BY DEF Batch
    <2> HIDE DEF started, waiting
    <2>6. /\ exec' \in [Workers -> [Jobs -> ExecRec]]
          /\ renewer' \in [Workers -> [Jobs -> RenewerRec]]
          /\ \A v \in Workers \ {w}, i \in Jobs : exec'[v][i] = exec[v][i]
          /\ \A i \in Jobs : exec'[w][i] = IF i \in Batch(w) \cap UnknownType
                                           THEN started(i) ELSE exec[w][i]
      BY <1>1, <2>2, <2>3, <2>4
    <2>7. \A v \in Workers, i \in Jobs :
             renewer'[v][i] = renewer[v][i] \/ renewer'[v][i].phase # "renewing"
      BY <1>1, <2>3, <2>4
    <2>8. \A i \in Jobs : exec[w][i].phase \in {"none", "handling"}
      BY <1>2, <2>4
    <2>9. \A i \in Jobs :
             \/ exec'[w][i].phase = "none"
             \/ exec'[w][i] = exec[w][i] /\ exec[w][i].phase = "handling"
                  /\ worker'[w].phase = "executing"
             \/ exec'[w][i].phase = "committing" /\ exec'[w][i].at = clock
                  /\ exec'[w][i].attempt = exec[w][i].attempt
                  /\ exec[w][i].phase # "none" /\ worker'[w].phase = "executing"
      <3> TAKE i \in Jobs
      <3>1. CASE i \notin Batch(w)
        BY <2>5, <2>6, <3>1
      <3>2. CASE i \in Batch(w)
        BY <2>1, <2>2, <2>5, <2>6, <2>8, <3>2
      <3> QED BY <3>1, <3>2
    <2>10. worker'[w].phase # "leasing"
      BY <2>1
    <2> HIDE DEF phase
    <2> QED BY <1>1, <2>1, <2>4, <2>6, <2>7, <2>9, <2>10, LoopEntry
  <1>11. ASSUME NEW w \in Workers, EndBatch(w) \/ Crash(w)
         PROVE  Careful /\ ProcessTypes'
    <2>1. PICK p0 \in {"down", "idle"}, t0 \in {0, worker[w].now} :
            /\ worker' \in [Workers -> WorkerRec]
            /\ worker'[w].phase = p0 /\ worker'[w].now = t0
            /\ \A v \in Workers \ {w} : worker'[v] = worker[v]
      <3>1. CASE worker' = [worker EXCEPT ![w] = DownWorker]
        <4>1. /\ worker' \in [Workers -> WorkerRec]
              /\ worker'[w].phase = "down" /\ worker'[w].now = 0
              /\ \A v \in Workers \ {w} : worker'[v] = worker[v]
          BY <3>1, WorkerWritten DEF WorkerPhase
        <4> QED BY <4>1
      <3>2. CASE worker' = [worker EXCEPT ![w].phase = "idle"]
        <4>1. /\ worker' \in [Workers -> WorkerRec]
              /\ worker'[w].phase = "idle" /\ worker'[w].now = worker[w].now
              /\ \A v \in Workers \ {w} : worker'[v] = worker[v]
          BY <1>0, <3>2, WorkerWritten DEF WorkerPhase
        <4> QED BY <4>1
      <3> QED BY <1>11, <3>1, <3>2 DEF EndBatch, Crash
    <2>3. /\ exec' \in [Workers -> [Jobs -> ExecRec]]
          /\ \A v \in Workers \ {w}, i \in Jobs : exec'[v][i] = exec[v][i]
          /\ \A i \in Jobs : exec'[w][i].phase = "none"
      BY <1>1, <1>3, <1>11 DEF EndBatch, Crash, Batch
    <2>4. /\ renewer' \in [Workers -> [Jobs -> RenewerRec]]
          /\ \A v \in Workers, i \in Jobs : renewer'[v][i] \in {renewer[v][i], NoRenewer}
      <3> DEFINE none == [i \in Jobs |-> NoRenewer]
      <3>1. renewer' = renewer \/ renewer' = [renewer EXCEPT ![w] = none]
        BY <1>11 DEF EndBatch, Crash
      <3>2. none \in [Jobs -> RenewerRec] /\ \A i \in Jobs : none[i] = NoRenewer
        BY <1>3
      <3> HIDE DEF none
      <3>3. CASE renewer' = [renewer EXCEPT ![w] = none]
        BY <1>1, <3>2, <3>3
      <3> QED BY <1>1, <3>1, <3>3
    <2>5. UNCHANGED <<clock, requests>> /\ crashes' \in Nat
      BY <1>1, <1>11 DEF EndBatch, Crash
    <2>6. \A v \in Workers, i \in Jobs :
             renewer'[v][i] = renewer[v][i] \/ renewer'[v][i].phase # "renewing"
      BY <1>3, <2>4
    <2> QED BY <1>1, <2>1, <2>3, <2>4, <2>5, <2>6, LoopEntry
  <1> QED BY <1>5, <1>6, <1>7, <1>8, <1>9, <1>10, <1>11

-----------------------------------------------------------------------------
(* The lease itself.                                                        *)

\* A row that a poll can lease is not in the batch of that poll, and every
\* batch that has it belongs to an older poll.
LEMMA LeasablePast ==
    ASSUME TypeOK, RowsInv, RowsNumbered, ProcessInv, NEW j \in Jobs, NEW t \in Nat,
           Leasable(jobs[j], t)
    PROVE  Past(j, t)
  <1> SUFFICES ASSUME NEW v \in Workers, worker[v].phase = "leasing", exec[v][j].phase # "none"
               PROVE  worker[v].now < t
    BY DEF Past
  <1>1. jobs[j] \in Row(Workers) /\ RowChecks(jobs[j]) /\ worker[v].now \in Nat
        /\ exec[v][j].attempt \in Nat
    BY DEF TypeOK, RowsInv, RowInv, WorkerRec, ExecRec
  <1>2. exec[v][j].attempt > 0 /\ exec[v][j].attempt <= jobs[j].attempt
        /\ BatchOutOfReach(v, j)
    BY DEF ProcessInv, ExecutionKnows
  <1>3. CASE jobs[j].state = "running"
    <2>1. jobs[j].until <= t /\ jobs[j].until > worker[v].now /\ jobs[j].until \in Nat
      BY <1>1, <1>2, <1>3 DEF Leasable, LeaseLapsed, Waiting, BatchOutOfReach, RowChecks, Row
    <2> QED BY <1>1, <2>1
  <1>4. CASE jobs[j].state = "retry_wait"
    BY <1>1, <1>2, <1>4 DEF Leasable, BatchOutOfReach, Row
  <1>5. CASE jobs[j].state = "queued"
    BY <1>1, <1>2, <1>5 DEF RowsNumbered
  <1> QED BY <1>3, <1>4, <1>5 DEF Leasable, LeaseLapsed, Waiting

\* What lease_next does to the row and to the worker's batch.
LEMMA LeaseStep ==
    ASSUME TypeOK, RowsInv, RowsNumbered, ProcessInv, AttemptsExclusive, RowsInv',
           NEW w \in Workers, NEW locked \in SUBSET Jobs, NEW j \in Jobs,
           LeaseNext(w, locked, j)
    PROVE  /\ ProcessTypes' /\ ProcessInv' /\ AttemptsExclusive' /\ RowsNumbered'
           /\ exec[w][j].phase = "none"
  <1> DEFINE r == jobs[j]
             t == worker[w].now
             q == Leased(r, w, t)
             f == [phase |-> "handling", attempt |-> r.attempt + 1, outcome |-> "none", at |-> 0]
  <1>1. /\ r \in Row(Workers) /\ t \in Nat /\ r.attempt \in Nat /\ clock \in Nat
        /\ worker[w].phase = "leasing" /\ Leasable(r, t)
    BY DEF TypeOK, WorkerRec, Row, LeaseNext, Candidates
  <1>2. /\ q.state = "running" /\ q.owner = w /\ q.started = t
        /\ q.until = t + LeaseDuration /\ q.attempt = r.attempt + 1
    BY <1>1 DEF Leased, Row
  <1>3. Past(j, t)
    BY <1>1, LeasablePast
  <1>4. exec[w][j].phase = "none"
    BY <1>1, <1>3 DEF Past
  <1>5. f \in ExecRec /\ f.phase = "handling" /\ f.attempt = r.attempt + 1
    BY <1>1 DEF ExecRec, ExecPhase, ExecOutcome
  <1>6. /\ UNCHANGED <<clock, requests, worker, renewer, crashes>>
        /\ exec' = [exec EXCEPT ![w][j] = f]
        /\ jobs' = [jobs EXCEPT ![j] = q]
    BY DEF LeaseNext
  <1> HIDE DEF f, q
  <1>7. /\ exec' \in [Workers -> [Jobs -> ExecRec]]
        /\ \A v \in Workers, i \in Jobs :
             exec'[v][i] = IF v = w /\ i = j THEN f ELSE exec[v][i]
    BY <1>5, <1>6, Put2 DEF TypeOK
  <1>8. \A i \in Jobs : jobs'[i] = IF i = j THEN q ELSE jobs[i]
    BY <1>6 DEF TypeOK
  <1>9. ProcessTypes'
    BY <1>6, <1>7 DEF ProcessTypes, TypeOK
  <1>10. t <= clock
    BY DEF ProcessInv, ReadingsPast
  <1>11. RowsNumbered'
    BY <1>1, <1>2, <1>6, <1>8, <1>10 DEF RowsNumbered, Absent
  <1>12. AttemptsExclusive'
    <2> SUFFICES ASSUME NEW v \in Workers, NEW u \in Workers, NEW i \in Jobs, v # u,
                        exec'[v][i].phase # "none", exec'[u][i].phase # "none"
                 PROVE  exec'[v][i].attempt # exec'[u][i].attempt
      BY DEF AttemptsExclusive
    <2>1. \A x \in Workers : exec[x][j].phase # "none" =>
            exec[x][j].attempt <= r.attempt /\ exec[x][j].attempt \in Nat
      BY DEF ProcessInv, ExecutionKnows, TypeOK, ExecRec
    <2>2. CASE i = j /\ v = w
      BY <1>1, <1>5, <1>7, <2>1, <2>2
    <2>3. CASE i = j /\ u = w
      BY <1>1, <1>5, <1>7, <2>1, <2>3
    <2>4. CASE i # j \/ (v # w /\ u # w)
      BY <1>7, <2>4 DEF AttemptsExclusive
    <2> QED BY <2>2, <2>3, <2>4
  <1>13. ProcessInv'
    <2> SUFFICES ASSUME NEW v \in Workers, NEW i \in Jobs
                 PROVE  (ExecutionKnows(v, i) /\ ReadingsPast(v, i) /\ BatchOutOfReach(v, i))'
      BY DEF ProcessInv
    <2>1. ExecutionKnows(v, i) /\ ReadingsPast(v, i) /\ BatchOutOfReach(v, i)
      BY DEF ProcessInv
    <2>2. ReadingsPast(v, i)'
      BY <1>6, <2>1 DEF ReadingsPast
    <2>3. CASE i # j
      BY <1>6, <1>7, <1>8, <2>1, <2>2, <2>3 DEF ExecutionKnows, BatchOutOfReach
    <2>4. CASE i = j /\ v = w
      <3>1. ExecutionKnows(v, i)'
        BY <1>1, <1>2, <1>5, <1>6, <1>7, <1>8, <2>4 DEF ExecutionKnows, ActiveAttempt
      <3>2. BatchOutOfReach(v, i)'
        BY <1>1, <1>2, <1>6, <1>8, <2>4, LeaseDurationAssumption DEF BatchOutOfReach
      <3> QED BY <2>2, <3>1, <3>2
    <2>5. CASE i = j /\ v # w
      <3>0. exec'[v][i] = exec[v][i] /\ jobs'[i] = q /\ worker' = worker
        BY <1>6, <1>7, <1>8, <2>5
      <3>3. exec[v][i].attempt \in Nat /\ worker[v].now \in Nat
        BY DEF TypeOK, ExecRec, WorkerRec
      <3>1. ExecutionKnows(v, i)'
        BY <1>1, <1>2, <2>1, <2>5, <3>0, <3>3 DEF ExecutionKnows, ActiveAttempt
      <3>2. BatchOutOfReach(v, i)'
        BY <1>1, <1>2, <1>3, <2>5, <3>0, <3>3, LeaseDurationAssumption
           DEF BatchOutOfReach, Past
      <3> QED BY <2>2, <3>1, <3>2
    <2> QED BY <2>3, <2>4, <2>5
  <1> QED BY <1>4, <1>9, <1>11, <1>12, <1>13

-----------------------------------------------------------------------------
(* The inductive invariant.                                                 *)

IInv ==
    /\ TypeOK /\ RowsInv /\ LogInv /\ RowsNumbered
    /\ ProcessInv /\ AttemptsExclusive /\ RetryBudget

\* The initial state satisfies it.
LEMMA InitIInv == Init => IInv
  <1> SUFFICES ASSUME Init PROVE IInv
    OBVIOUS
  <1>1. /\ NoExec \in ExecRec /\ NoExec.phase = "none"
        /\ NoRenewer \in RenewerRec /\ NoRenewer.phase = "off"
        /\ DownWorker \in WorkerRec /\ DownWorker.phase = "down" /\ DownWorker.now = 0
    BY DEF NoExec, NoRenewer, DownWorker, ExecRec, RenewerRec, WorkerRec, ExecPhase,
           ExecOutcome, RenewerPhase, WorkerPhase
  <1>2. \A w \in Workers : worker[w] = DownWorker
    BY DEF Init
  <1>3. \A w \in Workers, j \in Jobs : exec[w][j] = NoExec /\ renewer[w][j] = NoRenewer
    BY DEF Init
  <1>4. \A j \in Jobs : jobs[j] = NewRow(Absent, DueAt[j], DeadlineAt[j])
    BY DEF Init
  <1>5. \A j \in Jobs : /\ NewRow(Absent, DueAt[j], DeadlineAt[j]) \in Row(Workers)
                        /\ jobs[j].state = Absent /\ jobs[j].attempt = 0
                        /\ RowInv(jobs[j])
    <2> SUFFICES ASSUME NEW j \in Jobs
                 PROVE  /\ NewRow(Absent, DueAt[j], DeadlineAt[j]) \in Row(Workers)
                        /\ jobs[j].state = Absent /\ jobs[j].attempt = 0
                        /\ RowInv(jobs[j])
      OBVIOUS
    <2> DEFINE r == NewRow(Absent, DueAt[j], DeadlineAt[j])
    <2>1. /\ DueAt[j] \in Nat /\ DeadlineAt[j] \in Nat \cup {Null}
          /\ DeadlineAt[j] # Null => DeadlineAt[j] >= DueAt[j]
      BY DueAssumption, DeadlineAssumption
    <2>2. /\ r.state = Absent /\ r.attempt = 0 /\ r.owner = Null /\ r.started = Null
          /\ r.until = Null /\ r.due = DueAt[j] /\ r.deadline = DeadlineAt[j]
      BY DEF NewRow
    <2>3. r \in Row(Workers)
      BY <2>1 DEF NewRow, Row
    <2>4. jobs[j] = r
      BY <1>4
    <2> HIDE DEF r
    <2>5. RowInv(r)
      BY <2>1, <2>2, <2>3 DEF RowInv, RowChecks, Absent
    <2> QED BY <2>2, <2>3, <2>4, <2>5 DEF r
  <1>6. TypeOK
    BY <1>1, <1>5 DEF Init, TypeOK
  <1>7. RowsInv
    BY <1>5, <1>6 DEF RowsInv, TypeOK
  <1>8. LogInv
    BY <1>5 DEF Init, LogInv, AttemptsAccounted, OneVerdict, SuccessIsFinal, Absent
  <1>9. RowsNumbered /\ RetryBudget
    BY <1>5 DEF RowsNumbered, RetryBudget, Absent
  <1>10. ProcessInv
    BY <1>1, <1>2, <1>3 DEF Init, ProcessInv, ExecutionKnows, ReadingsPast, BatchOutOfReach
  <1>11. AttemptsExclusive
    BY <1>1, <1>3 DEF AttemptsExclusive
  <1> QED BY <1>6, <1>7, <1>8, <1>9, <1>10, <1>11 DEF IInv

\* A careful step with calm rows keeps what does not concern the tables.
LEMMA CarefulKeeps ==
    ASSUME IInv, CalmStep, Careful, ProcessTypes', RowsInv'
    PROVE  ProcessInv' /\ AttemptsExclusive' /\ RowsNumbered'
  <1>1. ProcessInv'
    BY CarefulStep DEF IInv
  <1>2. AttemptsExclusive'
    BY DEF IInv, Careful, AttemptsExclusive
  <1>3. RowsNumbered'
    <2> SUFFICES ASSUME NEW j \in Jobs
                 PROVE  /\ jobs'[j].state = "running" =>
                             jobs'[j].attempt > 0 /\ jobs'[j].started <= clock'
                        /\ jobs'[j].state \in {Absent, "queued"} => jobs'[j].attempt = 0
      BY DEF RowsNumbered
    <2>1. Calm(j, jobs'[j]) /\ clock \in Nat /\ clock' \in Nat /\ clock <= clock'
      BY DEF CalmStep, Careful, IInv, TypeOK
    <2>2. jobs[j].state = "running" => jobs[j].started \in Nat /\ jobs[j].started <= clock
                                        /\ jobs[j].attempt > 0
      BY DEF IInv, RowsNumbered, RowsInv, RowInv, RowChecks, Row
    <2>3. RowInv(jobs'[j])
      BY DEF RowsInv
    <2> QED BY <2>1, <2>2, <2>3 DEF Calm, RowInv, Absent
  <1> QED BY <1>1, <1>2, <1>3

\* A job is put into retry_wait within its budget or at a new key's expense.
LEMMA RetryStep ==
    ASSUME IInv, TableStep
    PROVE  RetryBudget'
  <1> SUFFICES ASSUME NEW j \in Jobs, jobs'[j].state = "retry_wait"
               PROVE  jobs'[j].attempt < MaxAttempts \/ \E k \in Keys : requests'[k] = j
    BY DEF RetryBudget
  <1>0. /\ \A i \in Jobs : jobs[i] \in Row(Workers)
        /\ jobs[j].state = "retry_wait" =>
             jobs[j].attempt < MaxAttempts \/ \E k \in Keys : requests[k] = j
        /\ jobs \in [Jobs -> Row(Workers)] /\ requests \in [Keys -> Jobs \cup {Null}]
    BY DEF IInv, TypeOK, RetryBudget
  <1>1. ASSUME NEW i \in Jobs, NEW r, Effect(i, r), requests' = requests,
               r.state = "retry_wait" => r.attempt < MaxAttempts
                                          \/ (jobs[i].state = "retry_wait" /\ r.attempt = jobs[i].attempt)
        PROVE  jobs'[j].attempt < MaxAttempts \/ \E k \in Keys : requests'[k] = j
    <2>1. jobs'[j] = IF i = j THEN r ELSE jobs[j]
      BY <1>0, <1>1 DEF Effect
    <2> QED BY <1>0, <1>1, <2>1
  <1>2. ASSUME NEW i \in Jobs, Reopens(i)
        PROVE  jobs'[j].attempt < MaxAttempts \/ \E k \in Keys : requests'[k] = j
    <2>1. PICK k \in Keys : requests[k] = Null /\ requests' = [requests EXCEPT ![k] = i]
      BY <1>2 DEF Reopens
    <2>2. CASE i = j
      BY <1>0, <2>1, <2>2
    <2>3. CASE i # j
      <3>1. jobs'[j] = jobs[j]
        BY <1>0, <1>2, <2>3 DEF Reopens, Effect
      <3>2. \A m \in Keys : requests[m] = j => requests'[m] = j
        BY <1>0, <2>1, JobsAssumption
      <3> QED BY <1>0, <3>1, <3>2
    <2> QED BY <2>2, <2>3
  <1>3. CASE requests' = requests /\ jobs' = jobs
    BY <1>0, <1>3
  <1>4. ASSUME NEW i \in Jobs, Opens(i), requests' = requests
        PROVE  jobs'[j].attempt < MaxAttempts \/ \E k \in Keys : requests'[k] = j
    <2>1. [jobs[i] EXCEPT !.state = "queued"].state = "queued"
      BY <1>0 DEF Row
    <2> QED BY <1>1, <1>4, <2>1 DEF Opens
  <1>5. ASSUME NEW i \in Jobs, Extends(i), requests' = requests
        PROVE  jobs'[j].attempt < MaxAttempts \/ \E k \in Keys : requests'[k] = j
    <2>1. PICK w \in Workers, t \in Nat :
            Renewable(jobs[i], w, t) /\ Effect(i, Renewed(jobs[i], t))
      BY <1>5 DEF Extends
    <2>2. Renewed(jobs[i], t).state = "running"
      BY <1>0, <2>1 DEF Renewable, OwnsActiveLease, Renewed, Row
    <2> QED BY <1>1, <1>5, <2>1, <2>2
  <1>6. ASSUME NEW i \in Jobs, Withdraws(i), requests' = requests
        PROVE  jobs'[j].attempt < MaxAttempts \/ \E k \in Keys : requests'[k] = j
    <2>1. \A s \in {"cancelled", "quarantined"} : Released(jobs[i], s).state # "retry_wait"
      BY <1>0 DEF Released, Row
    <2> QED BY <1>1, <1>6, <2>1 DEF Withdraws
  <1>7. ASSUME NEW i \in Jobs, NEW w \in Workers, Begins(i, w), requests' = requests
        PROVE  jobs'[j].attempt < MaxAttempts \/ \E k \in Keys : requests'[k] = j
    <2>1. PICK t \in Nat : Effect(i, Leased(jobs[i], w, t))
      BY <1>7 DEF Begins
    <2>2. Leased(jobs[i], w, t).state = "running"
      BY <1>0 DEF Leased, Row
    <2> QED BY <1>1, <1>7, <2>1, <2>2
  <1>8. ASSUME NEW i \in Jobs, NEW w \in Workers, NEW o \in Verdicts, Closes(i, w, o),
               requests' = requests
        PROVE  jobs'[j].attempt < MaxAttempts \/ \E k \in Keys : requests'[k] = j
    <2>1. PICK r \in Closed(i, o) : Effect(i, r)
      BY <1>8 DEF Closes
    <2>2. r.attempt = jobs[i].attempt
      BY <1>8, <2>1, ClosedInv DEF Closes, ActiveAttempt, IInv
    <2>3. r.state = "retry_wait" => jobs[i].attempt < MaxAttempts
      <3>1. \A s \in JobState : Released(jobs[i], s).state = s
        BY <1>0 DEF Released, Row
      <3> QED BY <2>1, <3>1 DEF Closed, Finished, JobState
    <2> QED BY <1>1, <1>8, <2>1, <2>2, <2>3
  <1>9. ASSUME NEW S \in SUBSET Jobs, Lapses(S), requests' = requests
        PROVE  jobs'[j].attempt < MaxAttempts \/ \E k \in Keys : requests'[k] = j
    <2>1. jobs'[j] = jobs[j] \/ jobs'[j] = Released(jobs[j], "expired")
      BY <1>9 DEF Lapses
    <2>2. Released(jobs[j], "expired").state = "expired"
      BY <1>0 DEF Released, Row
    <2> QED BY <1>0, <1>9, <2>1, <2>2
  <1> QED BY <1>2, <1>3, <1>4, <1>5, <1>6, <1>7, <1>8, <1>9 DEF TableStep, WorkerStep

\* Every step keeps it.
LEMMA NextIInv ==
    ASSUME IInv, [Next]_vars
    PROVE  IInv'
  <1>1. TypeOK /\ RowsInv /\ LogInv /\ RowsNumbered /\ ProcessInv /\ AttemptsExclusive
        /\ RetryBudget /\ clock \in Nat
    BY DEF IInv, TypeOK
  <1>2. TableStep
    BY <1>1, NextTableStep
  <1>3. RowsInv' /\ LogInv' /\ RetryBudget'
    BY <1>1, <1>2, RowsStep, LogStep, RetryStep
  <1>4. ProcessTypes' => TypeOK'
    BY <1>3 DEF ProcessTypes, TypeOK, RowsInv, LogInv
  <1>5. ASSUME CalmStep, Careful, ProcessTypes'
        PROVE  IInv'
    BY <1>3, <1>4, <1>5, CarefulKeeps DEF IInv
  <1>6. jobs' = jobs => CalmStep
    BY CalmSame DEF CalmStep
  <1>7. CASE UNCHANGED vars \/ Tick
    BY <1>1, <1>5, <1>6, <1>7, LoopCareful DEF Tick, vars
  <1>8. CASE Outside
    BY <1>1, <1>5, <1>8, LoopCareful, CalmOutside
  <1>9. ASSUME NEW w \in Workers, Polling(w) \/ Restart(w) \/ Crash(w)
        PROVE  IInv'
    <2>1. CASE Poll(w) \/ EndBatch(w) \/ Restart(w) \/ Crash(w)
      <3>1. jobs' = jobs
        BY <2>1 DEF Poll, EndBatch, Restart, Crash
      <3> QED BY <1>1, <1>5, <1>6, <2>1, <3>1, LoopCareful
    <2>2. ASSUME NEW locked \in SUBSET Jobs, ExpireDue(w, locked)
          PROVE  IInv'
      BY <1>1, <1>5, <2>2, LoopCareful, CalmExpire
    <2>3. ASSUME NEW locked \in SUBSET Jobs, StartBatch(w, locked)
          PROVE  IInv'
      <3>1. jobs' = jobs
        BY <2>3 DEF StartBatch
      <3> QED BY <1>1, <1>5, <1>6, <2>3, <3>1, LoopCareful
    <2>4. ASSUME NEW locked \in SUBSET Jobs, NEW j \in Jobs, LeaseNext(w, locked, j)
          PROVE  IInv'
      BY <1>1, <1>3, <1>4, <2>4, LeaseStep DEF IInv
    <2> QED BY <1>9, <2>1, <2>2, <2>3, <2>4 DEF Polling
  <1>10. ASSUME NEW w \in Workers, NEW j \in Jobs, Executing(w, j)
         PROVE  IInv'
    <2>1. CalmStep
      <3>1. CASE CommitRetryable(w, j) \/ CommitQuarantine(w, j) \/ CommitSuccess(w, j)
                   \/ HandlerPublishes(w, j)
        BY <1>1, <3>1, CalmCommit
      <3>2. CASE \/ \E o \in HandlerOutcome : HandlerReturns(w, j, o)
                 \/ HandlerCompletes(w, j) \/ HandlerFinalized(w, j) \/ JoinRenewal(w, j)
        BY <1>6, <3>2 DEF HandlerReturns, HandlerCompletes, HandlerFinalized, JoinRenewal
      <3> QED BY <1>10, <3>1, <3>2 DEF Executing
    <2> QED BY <1>1, <1>5, <1>10, <2>1, ExecutingCareful
  <1>11. ASSUME NEW w \in Workers, NEW j \in Jobs, Renewing(w, j)
         PROVE  IInv'
    <2>1. CalmStep
      BY <1>1, <1>6, <1>11, CalmRenewal DEF Renewing, RenewalWakes
    <2> QED BY <1>1, <1>5, <1>11, <2>1, RenewingCareful
  <1> QED BY <1>7, <1>8, <1>9, <1>10, <1>11 DEF Next

\* The inductive invariant holds in every reachable state of every instance.
THEOREM Invariance == Spec => []IInv
  BY InitIInv, NextIInv, PTL DEF Spec

-----------------------------------------------------------------------------
(* What follows from it.                                                    *)

\* The tables and the processes keep their types.
THEOREM TypesCorrect == Spec => []TypeOK
  BY Invariance, PTL DEF IInv

\* ops.job_attempts never misses an attempt and never runs ahead of ops.jobs.
THEOREM AttemptsComplete == Spec => []AttemptsAccounted
  <1>1. IInv => AttemptsAccounted
    BY DEF IInv, LogInv
  <1> QED BY <1>1, Invariance, PTL

\* No attempt is judged twice, whoever races to judge it.
THEOREM SingleVerdict == Spec => []OneVerdict
  <1>1. IInv => OneVerdict
    BY DEF IInv, LogInv
  <1> QED BY <1>1, Invariance, PTL

\* A job that succeeded is never attempted again.
THEOREM SuccessFinal == Spec => []SuccessIsFinal
  <1>1. IInv => SuccessIsFinal
    BY DEF IInv, LogInv
  <1> QED BY <1>1, Invariance, PTL

\* Two workers never execute the same attempt of a job.
THEOREM Exclusive == Spec => []AttemptsExclusive
  BY Invariance, PTL DEF IInv

\* A job beyond max_attempts only waits because an operator released it.
THEOREM RetriesBounded == Spec => []RetryBudget
  BY Invariance, PTL DEF IInv

\* The CHECK constraints of ops.jobs never abort a transaction of the queue.
THEOREM ChecksNeverFail == Spec => []ChecksHold
  <1>1. IInv => ChecksHold
    BY DEF IInv, RowsInv, RowInv, ChecksHold
  <1> QED BY <1>1, Invariance, PTL

\* What the processes rely on: lease_owner alone identifies the attempt.
THEOREM ProcessesInformed == Spec => []ProcessInv
  BY Invariance, PTL DEF IInv

-----------------------------------------------------------------------------
(* The queue implements AttemptLedger.                                      *)

\* Writing a row that looks the same to the ledger.
LEMMA LedgerSame ==
    ASSUME RowsInv, NEW j \in Jobs, NEW r, Effect(j, r), attempts' = attempts,
           r.attempt = jobs[j].attempt, r.owner = jobs[j].owner,
           r.state \in Sealed <=> jobs[j].state \in Sealed
    PROVE  UNCHANGED Ledger!ledger
  <1>1. \A i \in Jobs : jobs'[i] = IF i = j THEN r ELSE jobs[i]
    BY DEF RowsInv, Effect
  <1>2. \A i \in Jobs : /\ jobs'[i].attempt = jobs[i].attempt /\ jobs'[i].owner = jobs[i].owner
                        /\ jobs'[i].state \in Sealed <=> jobs[i].state \in Sealed
    BY <1>1
  <1> QED BY <1>2 DEF Ledger!ledger

\* Every step of the tables is a step of the ledger.
LEMMA LedgerStep ==
    ASSUME RowsInv, LogInv, TableStep
    PROVE  [Ledger!Next]_(Ledger!ledger)
  <1>0. \A j \in Jobs : jobs[j] \in Row(Workers) /\ RowInv(jobs[j])
    BY DEF RowsInv
  <1>1. \A j \in Jobs :
          /\ (jobs[j].state = "running") <=> (jobs[j].owner # Null)
          /\ jobs[j].state = "running" => jobs[j].state \notin Sealed
    BY <1>0 DEF RowInv, RowChecks, Sealed
  <1>2. CASE jobs' = jobs /\ attempts' = attempts
    BY <1>2 DEF Ledger!ledger
  <1>3. ASSUME NEW j \in Jobs, Opens(j) \/ Reopens(j) \/ Extends(j)
        PROVE  UNCHANGED Ledger!ledger
    <2>1. CASE Opens(j)
      <3> DEFINE r == [jobs[j] EXCEPT !.state = "queued"]
      <3>1. /\ r.attempt = jobs[j].attempt /\ r.owner = jobs[j].owner
            /\ r.state \in Sealed <=> jobs[j].state \in Sealed
        BY <1>0, <2>1 DEF Opens, Row, Sealed, Absent
      <3>2. Effect(j, r) /\ attempts' = attempts
        BY <2>1 DEF Opens
      <3> HIDE DEF r
      <3> QED BY <3>1, <3>2, LedgerSame
    <2>2. CASE Reopens(j)
      <3> DEFINE r == OperatorRetried(jobs[j], clock)
      <3>1. /\ r.attempt = jobs[j].attempt /\ r.owner = jobs[j].owner
            /\ r.state \in Sealed <=> jobs[j].state \in Sealed
        BY <1>0, <2>2 DEF Reopens, OperatorRetryable, OperatorRetried, Row, Sealed
      <3>2. Effect(j, r) /\ attempts' = attempts
        BY <2>2 DEF Reopens
      <3> HIDE DEF r
      <3> QED BY <3>1, <3>2, LedgerSame
    <2>3. CASE Extends(j)
      <3>1. PICK w \in Workers, t \in Nat : Effect(j, Renewed(jobs[j], t))
        BY <2>3 DEF Extends
      <3> DEFINE r == Renewed(jobs[j], t)
      <3>2. /\ r.attempt = jobs[j].attempt /\ r.owner = jobs[j].owner
            /\ r.state = jobs[j].state
        BY <1>0 DEF Renewed, Row
      <3>3. Effect(j, r) /\ attempts' = attempts
        BY <2>3, <3>1 DEF Extends
      <3> HIDE DEF r
      <3> QED BY <3>2, <3>3, LedgerSame
    <2> QED BY <1>3, <2>1, <2>2, <2>3
  <1>4. ASSUME NEW j \in Jobs, Withdraws(j)
        PROVE  Ledger!Withdraw(j)
    <2>1. PICK s \in {"cancelled", "quarantined"} : Effect(j, Released(jobs[j], s))
      BY <1>4 DEF Withdraws
    <2> DEFINE r == Released(jobs[j], s)
    <2>2. r.attempt = jobs[j].attempt /\ r.owner = Null /\ r.state \in Sealed
      BY <1>0 DEF Released, Row, Sealed
    <2>3. jobs[j].state \notin Sealed /\ attempts' = attempts
      BY <1>4 DEF Withdraws, Cancellable, Waiting, Sealed
    <2>4. Effect(j, r)
      BY <2>1
    <2> HIDE DEF r
    <2>5. \A i \in Jobs : jobs'[i] = IF i = j THEN r ELSE jobs[i]
      BY <2>4 DEF RowsInv, Effect
    <2>6. [i \in Jobs |-> jobs'[i].attempt] = [i \in Jobs |-> jobs[i].attempt]
      BY <2>2, <2>5
    <2>7. [i \in Jobs |-> jobs'[i].owner] = [[i \in Jobs |-> jobs[i].owner] EXCEPT ![j] = Null]
      BY <2>2, <2>5
    <2>8. {i \in Jobs : jobs'[i].state \in Sealed} = {i \in Jobs : jobs[i].state \in Sealed} \cup {j}
      BY <2>2, <2>5
    <2> QED BY <2>3, <2>6, <2>7, <2>8 DEF Ledger!Withdraw
  <1>5. ASSUME NEW j \in Jobs, NEW w \in Workers, Begins(j, w)
        PROVE  Ledger!Begin(j, w)
    <2>1. PICK t \in Nat : Leasable(jobs[j], t) /\ Effect(j, Leased(jobs[j], w, t))
      BY <1>5 DEF Begins
    <2> DEFINE r == Leased(jobs[j], w, t)
    <2>2. r.attempt = jobs[j].attempt + 1 /\ r.owner = w /\ r.state \notin Sealed
      BY <1>0 DEF Leased, Row, Sealed
    <2>3. jobs[j].state \notin Sealed
      BY <2>1 DEF Leasable, LeaseLapsed, Waiting, Sealed
    <2>4. Effect(j, r)
      BY <2>1
    <2> HIDE DEF r
    <2>p. \A i \in Jobs : jobs'[i] = IF i = j THEN r ELSE jobs[i]
      BY <2>4 DEF RowsInv, Effect
    <2>5. [i \in Jobs |-> jobs'[i].attempt]
            = [[i \in Jobs |-> jobs[i].attempt] EXCEPT ![j] = @ + 1]
      BY <2>2, <2>p
    <2>7. [i \in Jobs |-> jobs'[i].owner] = [[i \in Jobs |-> jobs[i].owner] EXCEPT ![j] = w]
      BY <2>2, <2>p
    <2>8. {i \in Jobs : jobs'[i].state \in Sealed} = {i \in Jobs : jobs[i].state \in Sealed}
      BY <2>2, <2>3, <2>p
    <2>6. attempts' = attempts \cup Ledger!Abandoned({j})
      <3>1. attempts' = attempts
               \cup {[job |-> i, attempt |-> jobs[i].attempt, owner |-> jobs[i].owner,
                      outcome |-> "abandoned"] : i \in {k \in {j} : jobs[k].state = "running"}}
        BY <1>5, AbandonRunning DEF Begins
      <3> QED BY <1>1, <3>1 DEF Ledger!Abandoned, Ledger!Verdict
    <2> QED BY <2>3, <2>5, <2>6, <2>7, <2>8 DEF Ledger!Begin
  <1>6. ASSUME NEW j \in Jobs, NEW w \in Workers, NEW o \in Verdicts, Closes(j, w, o)
        PROVE  \E seal \in BOOLEAN : Ledger!Close(j, o, seal)
    <2>1. PICK r \in Closed(j, o) : Effect(j, r)
      BY <1>6 DEF Closes
    <2>2. jobs[j].state = "running" /\ jobs[j].owner = w
      BY <1>6 DEF Closes, ActiveAttempt
    <2>3. /\ r.attempt = jobs[j].attempt /\ r.owner = Null
          /\ o = "succeeded" => r.state \in Sealed
      BY <2>1, <2>2, ClosedInv DEF Sealed
    <2>p. \A i \in Jobs : jobs'[i] = IF i = j THEN r ELSE jobs[i]
      BY <2>1 DEF RowsInv, Effect
    <2>4. [i \in Jobs |-> jobs'[i].attempt] = [i \in Jobs |-> jobs[i].attempt]
      BY <2>3, <2>p
    <2>7. [i \in Jobs |-> jobs'[i].owner] = [[i \in Jobs |-> jobs[i].owner] EXCEPT ![j] = Null]
      BY <2>3, <2>p
    <2>8. {i \in Jobs : jobs'[i].state \in Sealed}
            = IF r.state \in Sealed THEN {i \in Jobs : jobs[i].state \in Sealed} \cup {j}
              ELSE {i \in Jobs : jobs[i].state \in Sealed}
      BY <1>1, <2>2, <2>p
    <2>5. attempts' = attempts \cup {[job |-> j, attempt |-> jobs[j].attempt,
                                      owner |-> jobs[j].owner, outcome |-> o]}
      BY <1>6, <2>2, RecordRunning DEF Closes
    <2>6. Ledger!Close(j, o, TRUE) \/ Ledger!Close(j, o, FALSE)
      <3>1. Ledger!Verdict(j, o) = [job |-> j, attempt |-> jobs[j].attempt,
                                    owner |-> jobs[j].owner, outcome |-> o]
        BY DEF Ledger!Verdict
      <3>2. [i \in Jobs |-> jobs[i].owner][j] # Null
        BY <1>1, <2>2
      <3> QED BY <2>3, <2>4, <2>5, <2>7, <2>8, <3>1, <3>2 DEF Ledger!Close
    <2> QED BY <2>6
  <1>7. ASSUME NEW S \in SUBSET Jobs, Lapses(S)
        PROVE  Ledger!Expire(S)
    <2>1. \A j \in S : jobs[j].state \notin Sealed
      BY <1>7 DEF Lapses, Waiting, Sealed
    <2>2. \A j \in Jobs : /\ Released(jobs[j], "expired").attempt = jobs[j].attempt
                          /\ Released(jobs[j], "expired").owner = Null
                          /\ Released(jobs[j], "expired").state \in Sealed
      BY <1>0 DEF Released, Row, Sealed
    <2>3. \A j \in Jobs : jobs'[j] = IF j \in S THEN Released(jobs[j], "expired") ELSE jobs[j]
      BY <1>7 DEF Lapses
    <2>4. \A j \in Jobs :
            /\ jobs'[j].attempt = jobs[j].attempt
            /\ jobs'[j].owner = IF j \in S THEN Null ELSE jobs[j].owner
            /\ jobs'[j].state \in Sealed <=> j \in S \/ jobs[j].state \in Sealed
      BY <2>2, <2>3
    <2>5. attempts' = attempts \cup Ledger!Abandoned(S)
      <3>1. attempts' = attempts
               \cup {[job |-> i, attempt |-> jobs[i].attempt, owner |-> jobs[i].owner,
                      outcome |-> "abandoned"] : i \in {k \in S : jobs[k].state = "running"}}
        BY <1>7, AbandonRunning DEF Lapses
      <3> QED BY <1>1, <3>1 DEF Ledger!Abandoned, Ledger!Verdict
    <2> QED BY <2>1, <2>4, <2>5 DEF Ledger!Expire
  <1> QED BY <1>2, <1>3, <1>4, <1>5, <1>6, <1>7
          DEF TableStep, WorkerStep, Ledger!Next, Verdicts

\* Every behaviour of the queue is, seen through the tables, one of the ledger.
THEOREM ImplementsLedger == Spec => RefinesLedger
  <1>1. Init => Ledger!Init
    <2> SUFFICES ASSUME Init PROVE Ledger!Init
      OBVIOUS
    <2>1. \A j \in Jobs : jobs[j] = NewRow(Absent, DueAt[j], DeadlineAt[j])
      BY DEF Init
    <2>2. \A j \in Jobs : jobs[j].attempt = 0 /\ jobs[j].owner = Null
                          /\ jobs[j].state \notin Sealed
      <3> TAKE j \in Jobs
      <3> DEFINE r == NewRow(Absent, DueAt[j], DeadlineAt[j])
      <3>1. r.attempt = 0 /\ r.owner = Null /\ r.state = Absent
        BY DEF NewRow
      <3>2. jobs[j] = r
        BY <2>1
      <3> HIDE DEF r
      <3> QED BY <3>1, <3>2 DEF Absent, Sealed
    <2>3. [j \in Jobs |-> jobs[j].attempt] = [j \in Jobs |-> 0]
      BY <2>2
    <2>4. [j \in Jobs |-> jobs[j].owner] = [j \in Jobs |-> Null]
      BY <2>2
    <2>5. {j \in Jobs : jobs[j].state \in Sealed} = {}
      BY <2>2
    <2>6. attempts = {}
      BY DEF Init
    <2> QED BY <2>3, <2>4, <2>5, <2>6 DEF Ledger!Init
  <1>2. IInv /\ [Next]_vars => [Ledger!Next]_(Ledger!ledger)
    <2> SUFFICES ASSUME IInv, [Next]_vars
                 PROVE  [Ledger!Next]_(Ledger!ledger)
      OBVIOUS
    <2>1. TableStep
      BY NextTableStep DEF IInv
    <2> QED BY <2>1, LedgerStep DEF IInv
  <1> QED BY <1>1, <1>2, Invariance, PTL DEF Spec, Ledger!Spec, RefinesLedger

-----------------------------------------------------------------------------
(* What a step may never do.                                                *)

\* A verdict other than "abandoned" comes from the execution of that attempt.
LEMMA FencedStep ==
    ASSUME IInv, [Next]_vars, NEW e \in attempts' \ attempts, e.outcome # "abandoned"
    PROVE  /\ exec[e.owner][e.job].phase \in {"publishing", "committing"}
           /\ exec[e.owner][e.job].attempt = e.attempt
  <1>1. ASSUME NEW w \in Workers, NEW j \in Jobs,
               CommitRetryable(w, j) \/ CommitQuarantine(w, j) \/ CommitSuccess(w, j)
                 \/ HandlerPublishes(w, j)
        PROVE  /\ exec[e.owner][e.job].phase \in {"publishing", "committing"}
               /\ exec[e.owner][e.job].attempt = e.attempt
    <2>1. exec[w][j].phase \in {"publishing", "committing"}
      BY <1>1 DEF CommitRetryable, CommitQuarantine, CommitSuccess, HandlerPublishes, Committing
    <2>2. ActiveAttempt(jobs[j], w)
          /\ \E o \in Outcome : attempts' = RecordAttempt(attempts, j, jobs[j].attempt, w, o)
      <3>1. attempts' # attempts
        OBVIOUS
      <3>2. CASE CommitRetryable(w, j)
        <4> DEFINE verdict == IF exec[w][j].attempt < MaxAttempts
                                   /\ exec[w][j].outcome = "timeout"
                              THEN "timed_out" ELSE "failed"
        <4>1. verdict \in Outcome
          BY DEF Outcome
        <4>2. /\ OwnsActiveLease(jobs[j], w, exec[w][j].at)
              /\ attempts' = RecordAttempt(attempts, j, jobs[j].attempt, w, verdict)
          BY <3>1, <3>2 DEF CommitRetryable, RetriesLeft, CommitOutcome
        <4> HIDE DEF verdict
        <4> QED BY <4>1, <4>2 DEF OwnsActiveLease, ActiveAttempt
      <3>3. CASE CommitQuarantine(w, j)
        BY <3>1, <3>3 DEF CommitQuarantine, CommitOutcome, Outcome
      <3>4. CASE CommitSuccess(w, j)
        BY <3>1, <3>4 DEF CommitSuccess, CommitOutcome, Outcome, OwnsActiveLease, ActiveAttempt
      <3>5. CASE HandlerPublishes(w, j)
        BY <3>1, <3>5 DEF HandlerPublishes, Outcome, OwnsActiveLease, ActiveAttempt
      <3> QED BY <1>1, <3>2, <3>3, <3>4, <3>5
    <2>3. e.owner = w /\ e.job = j /\ e.attempt = jobs[j].attempt
      BY <2>2 DEF RecordAttempt
    <2>4. exec[w][j].attempt = jobs[j].attempt
      BY <2>1, <2>2 DEF IInv, ProcessInv, ExecutionKnows
    <2> QED BY <2>1, <2>3, <2>4
  <1>2. ASSUME NEW S, attempts' = Abandon(attempts, S)
        PROVE  FALSE
    BY <1>2 DEF Abandon
  <1>3. attempts' # attempts
    OBVIOUS
  <1>4. CASE UNCHANGED vars \/ Tick \/ Outside
    BY <1>3, <1>4 DEF vars, Tick, Outside, Enqueue, CancelJob, RequestRetry
  <1>5. ASSUME NEW w \in Workers, Polling(w) \/ Restart(w) \/ Crash(w)
        PROVE  FALSE
    BY <1>2, <1>3, <1>5
       DEF Polling, Poll, ExpireDue, StartBatch, LeaseNext, EndBatch, Restart, Crash
  <1>6. ASSUME NEW w \in Workers, NEW j \in Jobs, Renewing(w, j)
        PROVE  FALSE
    BY <1>3, <1>6 DEF Renewing, RenewalWakes, RenewalCommits
  <1>7. ASSUME NEW w \in Workers, NEW j \in Jobs, Executing(w, j)
        PROVE  /\ exec[e.owner][e.job].phase \in {"publishing", "committing"}
               /\ exec[e.owner][e.job].attempt = e.attempt
    <2>1. CASE \/ \E o \in HandlerOutcome : HandlerReturns(w, j, o)
               \/ HandlerCompletes(w, j) \/ HandlerFinalized(w, j) \/ JoinRenewal(w, j)
      BY <1>3, <2>1 DEF HandlerReturns, HandlerCompletes, HandlerFinalized, JoinRenewal
    <2> QED BY <1>1, <1>7, <2>1 DEF Executing
  <1> QED BY <1>4, <1>5, <1>6, <1>7 DEF Next

\* Comparing lease_owner fences attempts, not only processes.
THEOREM AttemptsFenced == Spec => VerdictsFenced
  <1>1. IInv /\ [Next]_vars =>
          [\A e \in attempts' \ attempts : e.outcome # "abandoned" =>
             /\ exec[e.owner][e.job].phase \in {"publishing", "committing"}
             /\ exec[e.owner][e.job].attempt = e.attempt]_vars
    BY FencedStep
  <1> QED BY <1>1, Invariance, PTL DEF Spec, VerdictsFenced

\* A row written by a step of the tables is one the trigger lets through.
LEMMA TriggerStep ==
    ASSUME RowsInv, TableStep, NEW i \in Jobs
    PROVE  TransitionAllowed(jobs[i].state, jobs'[i].state)
  <1>0. jobs[i] \in Row(Workers) /\ RowInv(jobs[i])
    BY DEF RowsInv
  <1>1. \A s \in JobState : Released(jobs[i], s).state = s
    BY <1>0 DEF Released, Row
  <1>2. ASSUME NEW j \in Jobs, NEW r, Effect(j, r)
        PROVE  jobs'[i] = IF i = j THEN r ELSE jobs[i]
    BY <1>2 DEF RowsInv, Effect
  <1>3. CASE jobs' = jobs
    BY <1>3 DEF TransitionAllowed
  <1>4. ASSUME NEW j \in Jobs, Opens(j) \/ Reopens(j) \/ Extends(j) \/ Withdraws(j)
        PROVE  TransitionAllowed(jobs[i].state, jobs'[i].state)
    <2>1. CASE i # j
      BY <1>2, <1>4, <2>1 DEF Opens, Reopens, Extends, Withdraws, TransitionAllowed
    <2>2. CASE i = j /\ Opens(j)
      <3>1. [jobs[i] EXCEPT !.state = "queued"].state = "queued"
        BY <1>0 DEF Row
      <3> QED BY <1>2, <2>2, <3>1 DEF Opens, TransitionAllowed
    <2>3. CASE i = j /\ Reopens(j)
      <3>1. OperatorRetried(jobs[i], clock).state = "retry_wait"
        BY <1>0 DEF OperatorRetried, Row
      <3> QED BY <1>2, <2>3, <3>1 DEF Reopens, OperatorRetryable, TransitionAllowed
    <2>4. CASE i = j /\ Extends(j)
      <3>1. \A t \in Nat : Renewed(jobs[i], t).state = jobs[i].state
        BY <1>0 DEF Renewed, Row
      <3> QED BY <1>2, <2>4, <3>1 DEF Extends, TransitionAllowed
    <2>5. CASE i = j /\ Withdraws(j)
      BY <1>1, <1>2, <2>5 DEF Withdraws, Cancellable, Waiting, TransitionAllowed, JobState
    <2> QED BY <1>4, <2>1, <2>2, <2>3, <2>4, <2>5
  <1>5. ASSUME NEW j \in Jobs, NEW w \in Workers, Begins(j, w)
        PROVE  TransitionAllowed(jobs[i].state, jobs'[i].state)
    <2>1. PICK t \in Nat : Leasable(jobs[j], t) /\ Effect(j, Leased(jobs[j], w, t))
      BY <1>5 DEF Begins
    <2>2. Leased(jobs[i], w, t).state = "running"
      BY <1>0 DEF Leased, Row
    <2> QED BY <1>2, <2>1, <2>2 DEF Leasable, Waiting, LeaseLapsed, TransitionAllowed
  <1>6. ASSUME NEW j \in Jobs, NEW w \in Workers, NEW o \in Verdicts, Closes(j, w, o)
        PROVE  TransitionAllowed(jobs[i].state, jobs'[i].state)
    <2>1. PICK r \in Closed(j, o) : Effect(j, r)
      BY <1>6 DEF Closes
    <2>2. jobs[j].state = "running"
      BY <1>6 DEF Closes, ActiveAttempt
    <2>3. r.state \in {"succeeded", "failed", "expired", "retry_wait", "quarantined"}
      BY <2>1, <2>2, ClosedInv
    <2> QED BY <1>2, <2>1, <2>2, <2>3 DEF TransitionAllowed
  <1>7. ASSUME NEW S \in SUBSET Jobs, Lapses(S)
        PROVE  TransitionAllowed(jobs[i].state, jobs'[i].state)
    <2>1. jobs'[i] = IF i \in S THEN Released(jobs[i], "expired") ELSE jobs[i]
      BY <1>7 DEF Lapses
    <2> QED BY <1>1, <1>7, <2>1 DEF Lapses, Waiting, TransitionAllowed, JobState
  <1> QED BY <1>3, <1>4, <1>5, <1>6, <1>7 DEF TableStep, WorkerStep

\* The transition trigger never aborts a transaction of the queue.
THEOREM TriggerNeverFires == Spec => TransitionsAllowed
  <1>1. IInv /\ [Next]_vars =>
          [\A j \in Jobs : TransitionAllowed(jobs[j].state, jobs'[j].state)]_vars
    <2> SUFFICES ASSUME IInv, [Next]_vars, NEW j \in Jobs
                 PROVE  TransitionAllowed(jobs[j].state, jobs'[j].state)
      OBVIOUS
    <2>1. TableStep
      BY NextTableStep DEF IInv
    <2> QED BY <2>1, TriggerStep DEF IInv
  <1> QED BY <1>1, Invariance, PTL DEF Spec, TransitionsAllowed

-----------------------------------------------------------------------------
(* Polls and idempotency keys.                                              *)

\* The record of an execution other than a new lease: its attempt stays, or
\* there is no execution any more.
Continues(v, i) ==
    exec'[v][i].attempt = exec[v][i].attempt \/ exec'[v][i].attempt = 0

\* Every step but a lease goes on with the executions there are.
LEMMA ExecutionsContinue ==
    ASSUME TypeOK, Next, NEW v \in Workers, NEW i \in Jobs
    PROVE  \/ Continues(v, i)
           \/ \E locked \in SUBSET Jobs : LeaseNext(v, locked, i)
  <1>0. NoExec.attempt = 0 /\ exec \in [Workers -> [Jobs -> ExecRec]]
    BY DEF NoExec, TypeOK
  <1>1. exec' = exec => Continues(v, i)
    BY DEF Continues
  <1>2. ASSUME NEW w \in Workers, NEW j \in Jobs, NEW e,
               exec' = [exec EXCEPT ![w][j] = e],
               e.attempt = exec[w][j].attempt \/ e.attempt = 0
        PROVE  Continues(v, i)
    <2>1. exec'[v][i] = IF v = w /\ i = j THEN e ELSE exec[v][i]
      BY <1>0, <1>2
    <2> QED BY <1>2, <2>1 DEF Continues
  <1>3. ASSUME NEW w \in Workers, Polling(w) \/ Restart(w) \/ Crash(w)
        PROVE  Continues(v, i) \/ \E locked \in SUBSET Jobs : LeaseNext(v, locked, i)
    <2>1. CASE Poll(w) \/ EndBatch(w) \/ Restart(w)
      BY <1>1, <2>1 DEF Poll, EndBatch, Restart
    <2>2. CASE Crash(w)
      <3>1. exec'[v] = IF v = w THEN [j \in Jobs |-> NoExec] ELSE exec[v]
        BY <1>0, <2>2 DEF Crash
      <3> QED BY <1>0, <3>1 DEF Continues
    <2>3. ASSUME NEW locked \in SUBSET Jobs, ExpireDue(w, locked)
          PROVE  Continues(v, i)
      BY <1>1, <2>3 DEF ExpireDue
    <2>4. ASSUME NEW locked \in SUBSET Jobs, StartBatch(w, locked)
          PROVE  Continues(v, i)
      <3> DEFINE started == [exec[w][i] EXCEPT !.phase = "committing", !.outcome = "unknown",
                                               !.at = clock]
      <3>1. started.attempt = exec[w][i].attempt
        BY <1>0 DEF ExecRec
      <3> HIDE DEF started
      <3>2. exec'[v][i] = IF v = w
                          THEN IF i \in Batch(w) \cap UnknownType THEN started ELSE exec[w][i]
                          ELSE exec[v][i]
        BY <1>0, <2>4 DEF StartBatch, started
      <3> QED BY <3>1, <3>2 DEF Continues
    <2>5. ASSUME NEW locked \in SUBSET Jobs, NEW j \in Jobs, LeaseNext(w, locked, j)
          PROVE  Continues(v, i) \/ LeaseNext(v, locked, i)
      <3>1. CASE v = w /\ i = j
        BY <2>5, <3>1
      <3>2. CASE ~(v = w /\ i = j)
        <4>1. exec'[v][i] = exec[v][i]
          BY <1>0, <2>5, <3>2 DEF LeaseNext
        <4> QED BY <4>1 DEF Continues
      <3> QED BY <3>1, <3>2
    <2> QED BY <1>3, <2>1, <2>2, <2>3, <2>4, <2>5 DEF Polling
  <1>4. ASSUME NEW w \in Workers, NEW j \in Jobs, Executing(w, j)
        PROVE  Continues(v, i)
    <2>1. exec[w][j] \in ExecRec
      BY <1>0
    <2> DEFINE moved(p) == [exec[w][j] EXCEPT !.phase = p]
               timed(p) == [exec[w][j] EXCEPT !.phase = p, !.at = clock]
               ended(p, o) == [exec[w][j] EXCEPT !.phase = p, !.outcome = o]
               write(e) == exec' = [exec EXCEPT ![w][j] = e]
    <2>2. \A p, o : /\ moved(p).attempt = exec[w][j].attempt
                    /\ timed(p).attempt = exec[w][j].attempt
                    /\ ended(p, o).attempt = exec[w][j].attempt
      BY <2>1 DEF ExecRec
    <2>3. ASSUME NEW o \in HandlerOutcome, HandlerReturns(w, j, o)
          PROVE  Continues(v, i)
      <3>1. write(ended("stopping", o))
        BY <2>3 DEF HandlerReturns
      <3> QED BY <1>2, <2>2, <3>1
    <2>4. CASE HandlerCompletes(w, j)
      <3>1. write(timed("publishing"))
        BY <2>4 DEF HandlerCompletes
      <3> QED BY <1>2, <2>2, <3>1
    <2>5. CASE HandlerPublishes(w, j)
      <3>1. CASE write(ended("finalized", "finalized"))
        BY <1>2, <2>2, <3>1
      <3>2. CASE write(ended("stopping", "terminal"))
        BY <1>2, <2>2, <3>2
      <3> QED BY <2>5, <3>1, <3>2 DEF HandlerPublishes
    <2>6. CASE HandlerFinalized(w, j)
      <3>1. write(moved("stopping"))
        BY <2>6 DEF HandlerFinalized
      <3> QED BY <1>2, <2>2, <3>1
    <2>7. CASE JoinRenewal(w, j)
      <3>1. CASE write(NoExec)
        BY <1>0, <1>2, <3>1
      <3>2. CASE write(timed("committing"))
        BY <1>2, <2>2, <3>2
      <3> QED BY <2>7, <3>1, <3>2 DEF JoinRenewal
    <2>8. CASE CommitRetryable(w, j) \/ CommitQuarantine(w, j) \/ CommitSuccess(w, j)
      <3>1. write(NoExec)
        BY <2>8 DEF CommitRetryable, CommitQuarantine, CommitSuccess, CommitOutcome
      <3> QED BY <1>0, <1>2, <3>1
    <2> HIDE DEF write, moved, timed, ended
    <2> QED BY <1>4, <2>3, <2>4, <2>5, <2>6, <2>7, <2>8 DEF Executing
  <1>5. ASSUME NEW w \in Workers, NEW j \in Jobs, Renewing(w, j)
        PROVE  Continues(v, i)
    BY <1>1, <1>5 DEF Renewing, RenewalWakes, RenewalCommits
  <1>6. CASE Tick \/ Outside
    BY <1>1, <1>6 DEF Tick, Outside, Enqueue, CancelJob, RequestRetry
  <1> QED BY <1>3, <1>4, <1>5, <1>6 DEF Next

\* Whatever other workers do meanwhile, a poll leases no job that its batch
\* already holds, although all its leases use one reading of the clock.
THEOREM PollLeasesOnce == Spec => LeasedOncePerPoll
  <1>1. IInv /\ [Next]_vars =>
          [\A w \in Workers, j \in Jobs :
             exec'[w][j].attempt > exec[w][j].attempt => exec[w][j].phase = "none"]_vars
    <2> SUFFICES ASSUME IInv, Next, NEW w \in Workers, NEW j \in Jobs,
                        exec'[w][j].attempt > exec[w][j].attempt
                 PROVE  exec[w][j].phase = "none"
      OBVIOUS
    <2>1. exec[w][j].attempt \in Nat
      BY DEF IInv, TypeOK, ExecRec
    <2>2. ~Continues(w, j)
      BY <2>1 DEF Continues
    <2>3. PICK locked \in SUBSET Jobs : LeaseNext(w, locked, j)
      BY <2>2, ExecutionsContinue DEF IInv
    <2>4. RowsInv'
      BY NextIInv DEF IInv
    <2> QED BY <2>3, <2>4, LeaseStep DEF IInv
  <1> QED BY <1>1, Invariance, PTL DEF Spec, LeasedOncePerPoll

\* A failed job is opened again by an operator's request under a key that was
\* free, and by nothing else.
LEMMA ReopenStep ==
    ASSUME IInv, TableStep, NEW i \in Jobs,
           jobs[i].state = "failed", jobs'[i].state # "failed"
    PROVE  \E k \in Keys : requests[k] = Null /\ requests'[k] = i
  <1>0. jobs \in [Jobs -> Row(Workers)] /\ requests \in [Keys -> Jobs \cup {Null}]
    BY DEF IInv, TypeOK
  <1>1. ASSUME NEW j \in Jobs, NEW r, Effect(j, r)
        PROVE  jobs'[i] = IF i = j THEN r ELSE jobs[i]
    BY <1>0, <1>1 DEF Effect
  <1>2. ASSUME NEW j \in Jobs, Reopens(j)
        PROVE  \E k \in Keys : requests[k] = Null /\ requests'[k] = i
    <2>1. i = j
      BY <1>1, <1>2 DEF Reopens
    <2>2. PICK k \in Keys : requests[k] = Null /\ requests' = [requests EXCEPT ![k] = j]
      BY <1>2 DEF Reopens
    <2> QED BY <1>0, <2>1, <2>2
  <1>3. ~WorkerStep
    <2>1. ASSUME NEW j \in Jobs, Opens(j) \/ Extends(j) \/ Withdraws(j)
          PROVE  jobs'[i] = jobs[i]
      BY <1>1, <2>1 DEF Opens, Extends, Withdraws, Renewable, OwnsActiveLease, Cancellable,
                        Waiting, Absent
    <2>2. ASSUME NEW j \in Jobs, NEW w \in Workers, Begins(j, w)
          PROVE  jobs'[i] = jobs[i]
      BY <1>1, <2>2 DEF Begins, Leasable, Waiting, LeaseLapsed
    <2>3. ASSUME NEW j \in Jobs, NEW w \in Workers, NEW o \in Verdicts, Closes(j, w, o)
          PROVE  jobs'[i] = jobs[i]
      BY <1>1, <2>3 DEF Closes, ActiveAttempt
    <2>4. ASSUME NEW S \in SUBSET Jobs, Lapses(S)
          PROVE  jobs'[i] = jobs[i]
      BY <2>4 DEF Lapses, Waiting
    <2> QED BY <2>1, <2>2, <2>3, <2>4 DEF WorkerStep
  <1> QED BY <1>2, <1>3 DEF TableStep

\* A replayed request never opens a job again.
THEOREM ReplaysReopenNothing == Spec => ReopenConsumesKey
  <1>1. IInv /\ [Next]_vars =>
          [\A j \in Jobs : jobs[j].state = "failed" /\ jobs'[j].state # "failed" =>
             \E k \in Keys : requests[k] = Null /\ requests'[k] = j]_vars
    <2> SUFFICES ASSUME IInv, Next, NEW j \in Jobs,
                        jobs[j].state = "failed", jobs'[j].state # "failed"
                 PROVE  \E k \in Keys : requests[k] = Null /\ requests'[k] = j
      OBVIOUS
    <2>1. TableStep
      BY NextTableStep DEF IInv
    <2> QED BY <2>1, ReopenStep
  <1> QED BY <1>1, Invariance, PTL DEF Spec, ReopenConsumesKey
=============================================================================
