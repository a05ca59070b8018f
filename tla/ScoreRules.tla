----------------------------- MODULE ScoreRules -----------------------------
(***************************************************************************)
(* engine/evaluation/metrics.py: how a forecast is scored.  Pure.  A       *)
(* probability is an integer number of parts of Parts, so a score is a     *)
(* rational with a known denominator.  Logarithms and square roots, that   *)
(* is log loss and the widths of intervals, are left out.                  *)
(***************************************************************************)
EXTENDS Integers, Sequences, FiniteSets, FiniteSetsExt, SequencesExt

CONSTANT Parts

ASSUME PartsAssumption == Parts \in Nat \ {0}

\* SET_SCORE_HOME_ORDER, strong home to strong away, and its reverse.
SetScoreHomeOrder == <<<<3, 0>>, <<3, 1>>, <<3, 2>>, <<2, 3>>, <<1, 3>>, <<0, 3>>>>
SetScoreRpsOrder == Reverse(SetScoreHomeOrder)

Square(x) == x * x

\* binary_brier, in parts of Parts squared; outcome is 1 for a home win.
BinaryBrier(probability, outcome) == Square(probability - Parts * outcome)

\* binary_accuracy: an even forecast says home.
BinaryAccuracy(probability, outcome) == IF (2 * probability >= Parts) = (outcome = 1) THEN 1 ELSE 0

\* _set_probabilities: exactly the six scores, and nothing is left over.
SetProbabilities(forecast) ==
    /\ DOMAIN forecast = Range(SetScoreHomeOrder)
    /\ \A score \in DOMAIN forecast : forecast[score] \in 0..Parts
    /\ SumFunctionOnSet(forecast, DOMAIN forecast) = Parts

UpTo(boundary) == {SetScoreRpsOrder[i] : i \in 1..boundary}

Cumulated(forecast, boundary) == SumFunctionOnSet(forecast, UpTo(boundary))

\* The observed side of a boundary: 1 from the actual score on.
ObservedSide(actual, boundary) == IF actual \in UpTo(boundary) THEN Parts ELSE 0

\* Seeded fault: each score by itself, without its neighbours.
BoundaryAlone(forecast, actual, boundary) ==
    Square(forecast[SetScoreRpsOrder[boundary]]
             - (IF actual = SetScoreRpsOrder[boundary] THEN Parts ELSE 0))

BoundaryScore(forecast, actual, boundary) ==
    Square(Cumulated(forecast, boundary) - ObservedSide(actual, boundary))

\* set_ranked_probability_score, five times over: the five boundaries.
SetRankedProbabilityScore(forecast, actual) ==
    SumFunctionOnSet([b \in 1..5 |-> BoundaryScore(forecast, actual, b)], 1..5)

\* calibration_bins: five bins, the last one closed.
CalibrationBin(probability) == Min({(probability * 5) \div Parts, 4})

CalibrationBins(observations) ==
    LET members(bin) == {o \in observations : CalibrationBin(o.probability) = bin}
    IN  [bin \in {CalibrationBin(o.probability) : o \in observations} |->
           [size |-> Cardinality(members(bin)),
            successes |-> MapThenSumSet(LAMBDA o : o.outcome, members(bin)),
            total |-> MapThenSumSet(LAMBDA o : o.probability, members(bin))]]
=============================================================================
