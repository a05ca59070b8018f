-------------------------- MODULE ResultEvaluation --------------------------
(***************************************************************************)
(* engine/market/runtime.py and engine/evaluation: from a published        *)
(* prediction to its comparison with the market, and from the revisions of *)
(* the result to evaluations and settlements, for one match.               *)
(*                                                                         *)
(* A worker runs a job in one transaction: Begin is everything it reads,   *)
(* Commit everything it writes.  Of the queue, JobQueue, this module keeps *)
(* what matters here: a job whose lease lapsed runs again, at the same     *)
(* time or later, the end of a run counts only while its lease does, and a *)
(* job that keeps failing is given up.                                     *)
(***************************************************************************)
EXTENDS MarketLines, Sequences, SequencesExt

CONSTANTS Rows,         \* prediction -> its output and joint distribution
          Snapshots,    \* that may be stored
          Cutoff, MaxAge,
          Observations, \* [sets, points] a result may show
          MaxRevisions, MaxLapses

\* The primary key of the snapshots, which orders those of one moment.
ASSUME SnapshotAssumption ==
    /\ \A s \in Snapshots : {s.id, s.quoted, s.observed, s.received} \subseteq Int /\ s.id # Null
    /\ \A s, t \in Snapshots : s.id = t.id => s = t

\* Lines as the adapters make them, and scores that a match can end with.
ASSUME LineAssumption ==
    \A s \in Snapshots :
      /\ IsFiniteSet(s.lines)
      /\ \A line \in s.lines :
           line.type \in {"moneyline", "handicap", "total"} /\ line.line \in Int \cup {Null}

ASSUME ScoreAssumption ==
    \A o \in Observations : o.sets \in SetScores /\ o.points \in Nat \X Nat

VARIABLES status,       \* of each prediction: absent, published or voided
          results,      \* revisions of the match's result
          stored,       \* snapshots, in whatever order they arrive
          comparisons,  \* market_evaluations, oldest first
          evaluations, settlements,
          work,         \* jobs by key: queued, done, ineligible or exhausted
          run,          \* of each worker
          lapses        \* leases lost so far

evaluationVars ==
    <<status, results, stored, comparisons, evaluations, settlements, work, run, lapses>>

Predictions == DOMAIN Rows

NoRun == [key |-> Null]

\* market_comparison_job_key and evaluation_job_key.
MarketKey(p) == [type |-> "market", prediction |-> p, revision |-> 0]
EvaluationKey(r, p) == [type |-> "evaluation", prediction |-> p, revision |-> r]

\* Predictions and snapshots that are there already, and leases that were lost.
EvaluationInit(starts) ==
    \E start \in starts :
    /\ status = start.status
    /\ stored = start.stored
    /\ lapses = start.lapses
    /\ results = <<>>
    /\ comparisons = <<>>
    /\ evaluations = {}
    /\ settlements = {}
    /\ work = <<>>
    /\ run = [w \in Workers |-> NoRun]

-----------------------------------------------------------------------------
(* What other parts do.                                                    *)

\* The publication of a prediction, and its revocation.
Publish(p) ==
    /\ status[p] = "absent"
    /\ status' = [status EXCEPT ![p] = "published"]
    /\ UNCHANGED <<results, stored, comparisons, evaluations, settlements, work, run, lapses>>

Revoke(p) ==
    /\ status[p] = "published"
    /\ status' = [status EXCEPT ![p] = "voided"]
    /\ UNCHANGED <<results, stored, comparisons, evaluations, settlements, work, run, lapses>>

\* A revision of the result: provisional, confirmed, corrected once confirmed.
ObserveResult(observed) ==
    LET settled == \E i \in DOMAIN results : results[i].finality # "provisional"
        last == results[Len(results)]
        same == results # <<>> /\ [sets |-> last.sets, points |-> last.points] = observed
        finality == CASE settled -> "corrected" [] same -> "final" [] OTHER -> "provisional"
    IN  /\ Len(results) < MaxRevisions
        /\ settled => ~same
        /\ results' = Append(results, [sets |-> observed.sets, points |-> observed.points,
                                       finality |-> finality])
        /\ UNCHANGED <<status, stored, comparisons, evaluations, settlements, work, run, lapses>>

\* MarketSnapshotRepository.add.
StoreSnapshot(s) ==
    /\ s \notin stored
    /\ ValidSnapshot(s)
    /\ stored' = stored \cup {s}
    /\ UNCHANGED <<status, results, comparisons, evaluations, settlements, work, run, lapses>>

-----------------------------------------------------------------------------
(* The tickers.                                                            *)

Compared(p) == \E i \in DOMAIN comparisons : comparisons[i].prediction = p

Evaluated(r, p) == \E e \in evaluations : e.revision = r /\ e.prediction = p

\* MarketComparisonJobPlanner.enqueue_pending.
UncomparedKeys ==
    {MarketKey(p) : p \in {q \in Predictions : status[q] = "published" /\ ~Compared(q)}}

\* Seeded fault: an evaluation does not wait for the comparison.
UnevaluatedAtOnce ==
    {EvaluationKey(x[1], x[2]) : x \in
       {y \in (DOMAIN results) \X Predictions :
          status[y[2]] = "published" /\ ~Evaluated(y[1], y[2])}}

\* EvaluationJobPlanner.enqueue_pending.
UnevaluatedKeys ==
    {EvaluationKey(x[1], x[2]) : x \in
       {y \in (DOMAIN results) \X Predictions :
          status[y[2]] = "published" /\ Compared(y[2]) /\ ~Evaluated(y[1], y[2])}}

Enqueue(keys) ==
    LET new == keys \ DOMAIN work
    IN  /\ new # {}
        /\ work' = [k \in DOMAIN work \cup new |-> IF k \in new THEN "queued" ELSE work[k]]
        /\ UNCHANGED <<status, results, stored, comparisons, evaluations, settlements, run, lapses>>

TickMarket == Enqueue(UncomparedKeys)

TickEvaluation == Enqueue(UnevaluatedKeys)

-----------------------------------------------------------------------------
(* A run of a job.                                                         *)

\* The lease of a run: held until another worker takes the job over.
Claim(w, key) ==
    /\ run[w] = NoRun
    /\ key \in DOMAIN work
    /\ work[key] = "queued"
    /\ \A o \in Workers : run[o].key = key => ~run[o].leased

\* The worker's end of a job, as far as its lease allows.
Finish(w, outcome) ==
    /\ work' = IF run[w].leased THEN [work EXCEPT ![run[w].key] = outcome] ELSE work
    /\ run' = [run EXCEPT ![w] = NoRun]

Reading(w, key, read) ==
    /\ run' = [run EXCEPT ![w] = [key |-> key, read |-> read, leased |-> TRUE]]
    /\ UNCHANGED <<status, results, stored, comparisons, evaluations, settlements, work, lapses>>

\* MarketComparisonService.compare_prediction up to its insert.
BeginCompare(w, p) ==
    LET prediction == MarketInput([Rows[p] EXCEPT !.status = status[p]])
        found == Availability(stored, Rows[p].match, Cutoff, MaxAge)
    IN  /\ Claim(w, MarketKey(p))
        /\ Reading(w, MarketKey(p),
             IF "refused" \in DOMAIN prediction THEN prediction
             ELSE Evaluate(prediction, Cutoff, found))

\* PostgresEvaluationWorkReader.load: the revision, the prediction if it is
\* still published and compared, and its latest comparison.
BeginEvaluate(w, r, p) ==
    LET own == {i \in DOMAIN comparisons : comparisons[i].prediction = p}
    IN  /\ Claim(w, EvaluationKey(r, p))
        /\ Reading(w, EvaluationKey(r, p),
             IF status[p] # "published" \/ own = {} THEN Refused("lookup")
             ELSE comparisons[Max(own)])

\* MarketEvaluationRepository.add_evaluation: one row for a prediction and a
\* snapshot, which may not be said differently.
CommitCompare(w) ==
    LET key == run[w].key
        row == [prediction |-> key.prediction, snapshot |-> run[w].read.snapshot,
                eligibility |-> run[w].read.eligibility]
        present == {i \in DOMAIN comparisons :
                      comparisons[i].prediction = row.prediction
                        /\ comparisons[i].snapshot = row.snapshot}
    IN  /\ key # Null
        /\ key.type = "market"
        /\ "refused" \notin DOMAIN run[w].read
        /\ comparisons' = IF present = {} THEN Append(comparisons, row) ELSE comparisons
        /\ Finish(w, IF \E i \in present : comparisons[i] # row THEN "ineligible" ELSE "done")
        /\ UNCHANGED <<status, results, stored, evaluations, settlements, lapses>>

SnapshotOf(id) == CHOOSE s \in stored : s.id = id

\* Seeded fault: a provisional result is settled like any other.
EvaluationAtOnce(r, p, comparison) ==
    LET settled == comparison.eligibility = "eligible"
    IN  [prediction |-> p, revision |-> r, market |-> comparison.eligibility,
         eligible |-> Rows[p].output.home # Null,
         settled |-> IF settled THEN Settle(SnapshotOf(comparison.snapshot), results[r]) ELSE {},
         snapshot |-> IF settled THEN comparison.snapshot ELSE Null]

\* ResultEvaluator.evaluate, with _market_settlement.
Evaluation(r, p, comparison) ==
    LET result == results[r]
        settled == comparison.eligibility = "eligible" /\ result.finality # "provisional"
    IN  [prediction |-> p, revision |-> r, market |-> comparison.eligibility,
         eligible |-> Rows[p].output.home # Null,
         settled |-> IF settled THEN Settle(SnapshotOf(comparison.snapshot), result) ELSE {},
         snapshot |-> IF settled THEN comparison.snapshot ELSE Null]

\* EvaluationStore.add: the evaluation, then its settlements, or none of them.
CommitEvaluate(w) ==
    LET key == run[w].key
        row == Evaluation(key.revision, key.prediction, run[w].read)
        others == {e \in evaluations : e.prediction = row.prediction /\ e.revision = row.revision}
        lines == {[snapshot |-> row.snapshot, line |-> x[1], revision |-> row.revision,
                   outcome |-> x[2]] : x \in row.settled}
        clash == \E t \in settlements, l \in lines :
                   /\ t.snapshot = l.snapshot /\ t.line = l.line /\ t.revision = l.revision
                   /\ t.outcome # l.outcome
    IN  /\ key # Null
        /\ key.type = "evaluation"
        /\ "refused" \notin DOMAIN run[w].read
        /\ others \subseteq {row}
        /\ evaluations' = IF clash THEN evaluations ELSE evaluations \cup {row}
        /\ settlements' = IF clash THEN settlements ELSE settlements \cup lines
        /\ Finish(w, IF clash THEN "ineligible" ELSE "done")
        /\ UNCHANGED <<status, results, stored, comparisons, lapses>>

\* EvaluationConflictError, or a crash: nothing is written and the job is tried
\* again, unless that was its last attempt.
Fail(w) ==
    /\ run[w] # NoRun
    /\ "refused" \notin DOMAIN run[w].read
    /\ \E outcome \in {"queued", "exhausted"} : Finish(w, outcome)
    /\ UNCHANGED <<status, results, stored, comparisons, evaluations, settlements, lapses>>

\* LookupError or MarketContractError: the job ends for good.
Decline(w) ==
    /\ run[w] # NoRun
    /\ "refused" \in DOMAIN run[w].read
    /\ Finish(w, "ineligible")
    /\ UNCHANGED <<status, results, stored, comparisons, evaluations, settlements, lapses>>

\* The lease of a slow run expires: its job may be claimed again.
LoseLease(w) ==
    /\ lapses < MaxLapses
    /\ run[w] # NoRun
    /\ run[w].leased
    /\ run' = [run EXCEPT ![w].leased = FALSE]
    /\ lapses' = lapses + 1
    /\ UNCHANGED <<status, results, stored, comparisons, evaluations, settlements, work>>

EvaluationNext ==
    \/ \E p \in Predictions : Publish(p) \/ Revoke(p)
    \/ \E observed \in Observations : ObserveResult(observed)
    \/ \E s \in Snapshots : StoreSnapshot(s)
    \/ TickMarket
    \/ TickEvaluation
    \/ \E w \in Workers :
         \/ \E p \in Predictions : BeginCompare(w, p)
         \/ \E p \in Predictions, r \in DOMAIN results : BeginEvaluate(w, r, p)
         \/ CommitCompare(w)
         \/ CommitEvaluate(w)
         \/ Fail(w)
         \/ Decline(w)
         \/ LoseLease(w)

EvaluationSpec(starts) == EvaluationInit(starts) /\ [][EvaluationNext]_evaluationVars

-----------------------------------------------------------------------------
(* Properties.                                                             *)

\* Evaluations, comparisons, settlements and revisions tell one story: a
\* revision that was confirmed has each line of the snapshot the prediction was
\* compared with settled by that revision's own score, a provisional one has
\* none, and no settlement stands without the evaluation that made it.
EvaluationsAgree ==
    LET made(e) == {<<t.line, t.outcome>> : t \in {x \in settlements :
                      x.revision = e.revision /\ x.snapshot = e.snapshot}}
    IN  /\ \A e \in evaluations :
             /\ \E i \in DOMAIN comparisons :
                  /\ comparisons[i].prediction = e.prediction
                  /\ comparisons[i].eligibility = e.market
                  /\ e.snapshot \in {comparisons[i].snapshot, Null}
             /\ e.snapshot # Null <=>
                  e.market = "eligible" /\ results[e.revision].finality # "provisional"
             /\ e.snapshot # Null =>
                  made(e) = Settle(SnapshotOf(e.snapshot), results[e.revision])
        /\ \A t \in settlements : \E e \in evaluations :
             e.snapshot = t.snapshot /\ e.revision = t.revision

\* The two halves of the market agree though no code is shared between them:
\* whatever is stored, and whatever a revision of the result says, a line is
\* settled as a prediction certain of that result would have priced it.
SettlesAsPriced ==
    \A s \in stored, i \in DOMAIN results : SettledAsPriced(s, results[i])

\* No published prediction is left without its evaluation while nothing more
\* will be done for it: it is evaluated, or a job for it is pending or was given
\* up after its attempts, or a ticker still has one to enqueue.
PublishedEvaluated ==
    \A p \in Predictions, r \in DOMAIN results :
      status[p] = "published" =>
        \/ Evaluated(r, p)
        \/ \E k \in {MarketKey(p), EvaluationKey(r, p)} :
             \/ k \in DOMAIN work /\ work[k] \in {"queued", "exhausted"}
             \/ k \in (UncomparedKeys \cup UnevaluatedKeys) \ DOMAIN work
=============================================================================
