---------------------------- MODULE HonestScores ----------------------------
(***************************************************************************)
(* What the scores of ScoreRules are worth: a forecast is evaluated        *)
(* against a truth that is a distribution itself.                          *)
(***************************************************************************)
EXTENDS Commons, ScoreRules

VARIABLE scoring   \* what was said and what is true, or Null

Distributions == {f \in [Range(SetScoreHomeOrder) -> 0..Parts] : SetProbabilities(f)}

\* evaluate_prediction, of any forecast it accepts.
ScoreForecast ==
    /\ scoring = Null
    /\ scoring' \in [forecast : Distributions, truth : Distributions]

ScoringInit == scoring = Null

ScoringSpec == ScoringInit /\ [][ScoreForecast]_scoring

-----------------------------------------------------------------------------
(* Properties.                                                             *)

HomeWin(forecast) == forecast[<<3, 0>>] + forecast[<<3, 1>>] + forecast[<<3, 2>>]

\* What a forecast is expected to score when the truth is a distribution.
ExpectedRps(forecast, truth) ==
    SumFunctionOnSet([s \in DOMAIN truth |-> truth[s] * SetRankedProbabilityScore(forecast, s)],
                     DOMAIN truth)

ExpectedBrier(probability, truth) ==
    truth * BinaryBrier(probability, 1) + (Parts - truth) * BinaryBrier(probability, 0)

Position(score) == CHOOSE i \in 1..6 : SetScoreHomeOrder[i] = score

Distance(score, other) == Max({Position(score) - Position(other), Position(other) - Position(score)})

\* Saying what one believes is the best, and the only best, one can do.
HonestyPays(forecast, truth) ==
    /\ forecast # truth => ExpectedRps(truth, truth) < ExpectedRps(forecast, truth)
    /\ HomeWin(forecast) # HomeWin(truth) =>
         ExpectedBrier(HomeWin(truth), HomeWin(truth)) < ExpectedBrier(HomeWin(forecast), HomeWin(truth))

\* A sure forecast scores by how many boundaries it is off.
SurePaysByDistance(forecast) ==
    \A sure, actual \in DOMAIN forecast :
      forecast[sure] = Parts =>
        SetRankedProbabilityScore(forecast, actual) = Square(Parts) * Distance(sure, actual)

BinHolds(probability) ==
    LET bin == CalibrationBin(probability)
    IN  /\ bin \in 0..4
        /\ bin * Parts <= 5 * probability
        /\ 5 * probability < (bin + 1) * Parts \/ probability = Parts

\* Forecasters cannot gain by saying anything but what they believe, and a
\* sure forecast is punished by how many boundaries it is off: a home win in
\* five sets is nearer to a loss in five than to one in three.  The bin of a
\* home probability is the fifth it lies in.
ScoresAreHonest ==
    scoring # Null =>
      /\ HonestyPays(scoring.forecast, scoring.truth)
      /\ SurePaysByDistance(scoring.forecast)
      /\ BinHolds(HomeWin(scoring.forecast))
=============================================================================
