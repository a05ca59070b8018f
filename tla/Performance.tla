---------------------------- MODULE Performance ----------------------------
(***************************************************************************)
(* api/performance.py: what the operator is shown of the forecasters, from *)
(* the stored evaluations.  A row is an evaluation joined with its         *)
(* prediction.  Of the cohort, scope stands for division, competition,     *)
(* stage, feature version, availability policy and timing; input stands    *)
(* for schedule revision, snapshot and cutoff.  Rows are read in the order *)
(* of their ids.                                                           *)
(***************************************************************************)
EXTENDS Commons, ScoreRules

CONSTANT Histories   \* the sets of evaluations that may be stored

VARIABLES evaluated,  \* the evaluations that are stored when a page is made, or Null
          askedFinality  \* the finality it is asked for, or Null

pageVars == <<evaluated, askedFinality>>

\* Seeded fault: provisional and final evaluations are taken for different ones.
IdentityWithFinality(row) == <<row.prediction, row.evaluator, row.policy, row.cohort>>

\* What only the newest revision of a result counts for.
Identity(row) ==
    <<row.prediction, row.evaluator, row.policy,
      [f \in DOMAIN row.cohort \ {"finality"} |-> row.cohort[f]]>>

\* _revision_order.
Supersedes(a, b) == a.revision > b.revision \/ (a.revision = b.revision /\ a.id > b.id)

LatestEvaluations(rows) ==
    {row \in rows : ~\E other \in rows : Identity(other) = Identity(row) /\ Supersedes(other, row)}

BaselineKind(row) ==
    LET said == {row.cohort.provider, row.type, row.cohort.model}
    IN  CASE "home_rate" \in said -> "home_rate"
          [] "home_rate" \notin said
               /\ (row.cohort.provider \in {"statistical", "baseline"} \/ row.type = "statistical") ->
               "statistical"
          [] OTHER -> IF "market" \in {row.cohort.provider, row.type} THEN "market" ELSE "ai"

GroupKey(row) ==
    [cohort |-> row.cohort, evaluator |-> row.evaluator, policy |-> row.policy, type |-> row.type,
     kind |-> BaselineKind(row)]

GroupEvaluations(rows) ==
    [k \in {GroupKey(row) : row \in rows} |-> {row \in rows : GroupKey(row) = k}]

\* _context: everything but who forecasts.
Context(key) == <<key.cohort.scope, key.cohort.finality, key.evaluator, key.policy>>

Ai(groups) == {k \in DOMAIN groups : k.kind = "ai"}

HasKind(groups, kind, key) ==
    \E k \in DOMAIN groups : k.kind = kind /\ Context(k) = Context(key)

Baseline(key, kind, provider, model) ==
    [key EXCEPT !.kind = kind, !.type = kind,
                !.cohort = [@ EXCEPT !.provider = provider, !.model = model, !.prompt = "none"]]

\* _market_home_probability: the two prices without the bookmaker's margin,
\* when there are both, in whole parts.
MarketHomeProbability(odds) ==
    IF odds = Null THEN Null
    ELSE IF odds.home = Null \/ odds.away = Null THEN Null
    ELSE (Parts * odds.away) \div (odds.home + odds.away)

MarketRow(row, key) ==
    LET probability == MarketHomeProbability(row.odds)
    IN  [row EXCEPT !.cohort = key.cohort, !.type = "market", !.eligible = TRUE,
                    !.home = probability, !.brier = BinaryBrier(probability, row.outcome),
                    !.accuracy = BinaryAccuracy(probability, row.outcome)]

MarketRows(rows, key) ==
    {MarketRow(row, key) :
       row \in {r \in rows : MarketHomeProbability(r.odds) # Null /\ r.outcome # Null}}

FirstId(rows) == Min({row.id : row \in rows})

\* The first of the AI groups of a context lends its matches to the market.
Lenders(groups) ==
    {k \in Ai(groups) :
       /\ ~HasKind(groups, "market", k)
       /\ \A other \in Ai(groups) :
            Context(other) = Context(k) => FirstId(groups[k]) <= FirstId(groups[other])}

AddMarketGroups(groups) ==
    LET market(k) == Baseline(k, "market", "market", "available-market-v1")
        lender(key) == CHOOSE k \in Lenders(groups) : market(k) = key
        added == {market(k) : k \in Lenders(groups)}
    IN  [key \in DOMAIN groups \cup added |->
           IF key \in added THEN MarketRows(groups[lender(key)], key) ELSE groups[key]]

\* A baseline that is missing is shown empty.
AddMissingBaselineGroups(groups) ==
    LET missing == {Baseline(k, kind, "baseline", "unavailable") :
                      k \in Ai(groups), kind \in {"home_rate", "statistical"}}
        added == {key \in missing : ~HasKind(groups, key.kind, key)}
    IN  [key \in DOMAIN groups \cup added |-> IF key \in added THEN {} ELSE groups[key]]

Groups(rows) ==
    AddMissingBaselineGroups(AddMarketGroups(GroupEvaluations(LatestEvaluations(rows))))

-----------------------------------------------------------------------------
(* What is shown of a group.                                               *)

Eligible(rows) == {row \in rows : row.eligible}

Scored(rows) == {row \in Eligible(rows) : row.brier # Null}

\* _market_availability: the best of what the settlements say.
MarketAvailability(rows) ==
    LET said == {row.market : row \in rows}
    IN  CASE said = {} -> "missing"
          [] said \cap {"eligible", "available"} # {} -> "available"
          [] OTHER -> IF said \cap {"missing", "not_requested"} # {} THEN "missing"
                      ELSE IF said \cap {"unsupported", "not_supported"} # {} THEN "not_supported"
                      ELSE "unverified"

\* _aggregate_group; a mean is kept as its sum, over winner_n rows.
AggregateGroup(rows) ==
    [sample |-> Cardinality(Scored(rows)),
     excluded |-> Cardinality(rows \ Eligible(rows)),
     corrected |-> Cardinality({row \in Eligible(rows) : row.cohort.finality = "corrected"}),
     brier |-> SumFunctionOnSet([row \in Scored(rows) |-> row.brier], Scored(rows)),
     accuracy |-> SumFunctionOnSet([row \in Scored(rows) |-> row.accuracy], Scored(rows)),
     calibration |-> CalibrationBins({[id |-> row.id, probability |-> row.home,
                                       outcome |-> row.outcome] :
                                        row \in {r \in Eligible(rows) :
                                                   r.home # Null /\ r.outcome # Null}}),
     market |-> MarketAvailability(rows)]

PairKey(row) == <<row.match, row.input, row.revision>>

\* _eligible_pairs: the last row of a key is kept.
EligiblePairs(rows) ==
    {row \in Scored(rows) : ~\E other \in Scored(rows) : PairKey(other) = PairKey(row) /\ other.id > row.id}

PairKeys(rows) == {PairKey(row) : row \in EligiblePairs(rows)}

\* _comparison of an AI group with a baseline: the common matches.
Comparison(ai, baseline) ==
    LET common == PairKeys(ai) \cap PairKeys(baseline)
        brier(rows, key) == (CHOOSE row \in EligiblePairs(rows) : PairKey(row) = key).brier
    IN  [ai |-> Cardinality(PairKeys(ai)),
         baseline |-> Cardinality(PairKeys(baseline)),
         paired |-> Cardinality(common),
         aiUnavailable |-> Cardinality(PairKeys(baseline) \ PairKeys(ai)),
         baselineUnavailable |-> Cardinality(PairKeys(ai) \ PairKeys(baseline)),
         difference |-> SumFunctionOnSet([key \in common |-> brier(ai, key) - brier(baseline, key)],
                                         common)]

\* _comparisons: with every baseline of the same context.
Baselines(groups, ai) == {k \in DOMAIN groups : k.kind # "ai" /\ Context(k) = Context(ai)}

BuildPerformance(groups) ==
    [k \in DOMAIN groups |->
       [row |-> AggregateGroup(groups[k]),
        comparisons |-> IF k.kind = "ai"
                        THEN [b \in Baselines(groups, k) |-> Comparison(groups[k], groups[b])]
                        ELSE <<>>]]

-----------------------------------------------------------------------------
(* What is stored.                                                         *)

\* Two evaluations of which only that of the newest revision counts.
Rivals(a, b) == a.prediction = b.prediction /\ a.evaluator = b.evaluator /\ a.policy = b.policy

\* engine.evaluations with its keys.  A prediction has one forecaster and one
\* cohort, whose finality is that of the result.
SoundHistory(rows) ==
    /\ IsFiniteSet(rows)
    /\ \A row \in rows : row.id \in Nat /\ row.revision \in Nat
    /\ \A a, b \in rows :
         /\ a.id = b.id => a = b
         /\ Rivals(a, b) /\ a.revision = b.revision => a = b
         /\ a.prediction = b.prediction =>
              /\ DOMAIN a.cohort = DOMAIN b.cohort
              /\ \A f \in DOMAIN a.cohort \ {"finality"} : a.cohort[f] = b.cohort[f]

ASSUME HistoryAssumption == \A rows \in Histories : SoundHistory(rows)

\* The WHERE of load_query.  The clauses by cohort and date are left out:
\* they keep all the evaluations of a prediction or none.
Filtered(rows, finality) == {row \in rows : finality # Null => row.cohort.finality = finality}

\* The groups that performance lists of those it built.
Items(groups, finality) == {k \in DOMAIN groups : finality # Null => k.cohort.finality = finality}

\* performance, of the API: a page of whatever may be stored.
ReadPerformance ==
    /\ evaluated = Null
    /\ evaluated' \in Histories
    /\ askedFinality' \in {Null, "provisional", "final", "corrected"}

PerformanceInit == evaluated = Null /\ askedFinality = Null

PerformanceSpec == PerformanceInit /\ [][ReadPerformance]_pageVars

-----------------------------------------------------------------------------
(* Properties.                                                             *)

\* The evaluations of the newest revision that each prediction was evaluated for.
CountedRows(rows) ==
    {row \in rows : \A other \in rows : Rivals(other, row) => other.revision <= row.revision}

Counts(rows, groups, shown) ==
    LET scored(kind) == Scored({row \in CountedRows(rows) : BaselineKind(row) = kind})
        by(k) == {row \in scored(k.kind) :
                    /\ row.cohort = k.cohort /\ row.type = k.type
                    /\ row.evaluator = k.evaluator /\ row.policy = k.policy}
        both(A, B) == {PairKey(x[1]) : x \in {y \in A \X B : PairKey(y[1]) = PairKey(y[2])}}
    IN  /\ \A kind \in {"ai", "home_rate", "statistical"} :
             SumFunctionOnSet([k \in DOMAIN shown |-> shown[k].row.sample],
                              {k \in DOMAIN shown : k.kind = kind})
               = Cardinality(scored(kind))
        /\ \A k \in Ai(groups) : \A b \in Baselines(groups, k) :
             LET pair == shown[k].comparisons[b]
             IN  /\ pair.ai = pair.paired + pair.baselineUnavailable
                 /\ pair.baseline = pair.paired + pair.aiUnavailable
                 /\ b.kind # "market" => pair.paired = Cardinality(both(by(k), by(b)))

\* Of the evaluations that are selected, a prediction counts once, with the
\* newest revision of its result, however often the result was confirmed or
\* corrected; and it is compared with a baseline over exactly the matches for
\* which both count with one and the same revision, which the individual
\* numbers and the exclusions add up to.
CountedOnce ==
    evaluated # Null =>
      \E rows \in {Filtered(evaluated, askedFinality)} : \E groups \in {Groups(rows)} :
        \E shown \in {BuildPerformance(groups)} : Counts(rows, groups, shown)

\* What a correction replaced is on no page, also when its finality is asked
\* for: test_api.py asks for the final results of a match that was corrected
\* since, and expects no items.
SupersededHidden ==
    evaluated # Null =>
      \E groups \in {Groups(Filtered(evaluated, askedFinality))} :
        \A k \in Items(groups, askedFinality) : k.kind # "market" => groups[k] \subseteq CountedRows(evaluated)
=============================================================================
