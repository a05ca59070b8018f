----------------------------- MODULE MarketLines -----------------------------
(***************************************************************************)
(* engine/market: the lines of a snapshot, what a prediction says of them  *)
(* (evaluator.py _evaluate_line) and what a result makes of them           *)
(* (_settle_line).  Pure; MarketContractError is a Failure.                *)
(*                                                                         *)
(* Numbers: a line is counted in quarters of a set or a point, so that 4   *)
(* is one and 2 a half; a probability is a whole number of shares of       *)
(* Whole.  Odds, sources and digests are left out: nothing here reads them *)
(* but to compare them with themselves.                                    *)
(***************************************************************************)
EXTENDS Commons, Integers, FiniteSets, Functions, FiniteSetsExt

CONSTANTS SetsToWin,   \* 3 in the code's six set scores
          Whole        \* a probability of one

ASSUME ScaleAssumption == SetsToWin \in Nat /\ Whole \in Nat

Refused(code) == [refused |-> code]

-----------------------------------------------------------------------------
(* A snapshot and its lines.                                               *)

Sides(type) == IF type = "total" THEN {"over", "under"} ELSE {"home", "away"}

\* MarketLine._validate_shape.
ValidShape(line) ==
    /\ line.selection \in Sides(line.type)
    /\ IF line.type = "moneyline" THEN line.unit = "match" /\ line.line = Null
       ELSE line.unit \in {"sets", "points"} /\ line.line # Null
    /\ line.type = "total" => line.line > 0

UnsupportedReason(line) ==
    IF line.period # "full_match" THEN "partial_period_not_supported"
    ELSE IF line.line # Null /\ line.line % 2 # 0
    THEN "quarter_or_other_fractional_line_not_supported"
    ELSE Null

\* The contract a line is one side of: a handicap by its size, a total by its line.
Contract(line) ==
    <<line.type, line.unit, line.period, line.rule,
      IF line.type = "handicap" THEN Max({line.line, -line.line}) ELSE line.line>>

\* _validate_two_way_pairs.
TwoWayPairs(lines) ==
    \A a \in lines :
      LET sides == {b \in lines : Contract(b) = Contract(a)}
      IN  /\ Cardinality(sides) = 2
          /\ {b.selection : b \in sides} = Sides(a.type)
          /\ a.type = "handicap" => SumFunctionOnSet([b \in sides |-> b.line], sides) = 0

\* MarketSnapshot.__post_init__, with _validate_times.
ValidSnapshot(snapshot) ==
    /\ snapshot.quoted <= snapshot.observed /\ snapshot.observed <= snapshot.received
    /\ snapshot.lines # {}
    /\ \A line \in snapshot.lines : ValidShape(line)
    /\ \A a, b \in snapshot.lines : a.id = b.id => a = b
    /\ TwoWayPairs(snapshot.lines)

\* The latest snapshot known at the cutoff, and why there is none to use.
Selected(known) ==
    CHOOSE s \in known :
      \A o \in known :
        \/ o.quoted < s.quoted
        \/ o.quoted = s.quoted /\ o.observed < s.observed
        \/ o.quoted = s.quoted /\ o.observed = s.observed /\ o.received < s.received
        \/ <<o.quoted, o.observed, o.received>> = <<s.quoted, s.observed, s.received>>
             /\ o.id <= s.id

Availability(stored, match, cutoff, maxAge) ==
    LET known == {s \in stored : s.match = match /\ s.quoted <= cutoff
                                   /\ s.observed <= cutoff /\ s.received <= cutoff}
        late == \E s \in stored : s.match = match /\ s.quoted <= cutoff
                                    /\ (s.observed > cutoff \/ s.received > cutoff)
    IN  IF known = {} THEN [status |-> IF late THEN "late" ELSE "missing", snapshot |-> Null]
        ELSE IF cutoff - Selected(known).quoted > maxAge
        THEN [status |-> "stale", snapshot |-> Null]
        ELSE [status |-> "available", snapshot |-> Selected(known)]

-----------------------------------------------------------------------------
(* What a prediction says of a line.                                       *)

SetScores == {s \in (0..SetsToWin) \X (0..SetsToWin) : Max({s[1], s[2]}) = SetsToWin /\ s[1] # s[2]}

Distribution(f) == SumFunction(f) = Whole /\ \A x \in DOMAIN f : f[x] \in 0..Whole

\* PostgresPredictionMarketReader._from_row, _verify_joint_marginals and
\* from_persisted_marginals: the output of a published prediction and, when it
\* names one, the joint distribution stored for it.
MarketInput(row) ==
    LET joint == row.joint
        named == row.output.reference # Null
    IN  CASE row.status # "published" -> Refused("lookup")
          [] row.output.variant # row.variant -> Refused("another variant")
          [] named /\ (joint = Null \/ joint.id # row.output.reference) -> Refused("not found")
          [] named /\ <<joint.match, joint.snapshot, joint.variant>>
                        # <<row.match, row.snapshot, row.variant>> -> Refused("ownership")
          [] named /\ (joint.home # row.output.home \/ row.output.home = Null
                        \/ joint.sets # row.output.sets \/ row.output.sets = Null) ->
               Refused("marginal")
          [] \E f \in {row.output.sets} \ {Null} : DOMAIN f # SetScores \/ ~Distribution(f) ->
               Refused("distribution")
          [] named /\ ~(Distribution(joint.totals) /\ Distribution(joint.differentials)) ->
               Refused("distribution")
          [] OTHER ->
               [home |-> row.output.home, sets |-> row.output.sets,
                totals |-> IF named THEN joint.totals ELSE Null,
                differentials |-> IF named THEN joint.differentials ELSE Null]

\* How far a set score, or a point total or difference, puts a selection ahead
\* of its line: in its favour above zero.
SetComparison(line, score) ==
    LET difference == score[1] - score[2]
        total == score[1] + score[2]
    IN  IF line.type = "handicap"
        THEN 4 * (IF line.selection = "home" THEN difference ELSE -difference) + line.line
        ELSE IF line.selection = "under" THEN -(4 * total - line.line) ELSE 4 * total - line.line

PointComparison(line, value) ==
    IF line.type = "handicap"
    THEN 4 * (IF line.selection = "home" THEN value ELSE -value) + line.line
    ELSE IF line.selection = "under" THEN -(4 * value - line.line) ELSE 4 * value - line.line

\* _set_values and _point_values: the shares of each such distance.
Values(distribution, distance) ==
    [d \in Range(distance) |->
       SumFunctionOnSet(distribution, {x \in DOMAIN distribution : distance[x] = d})]

SetValues(distribution, line) ==
    Values(distribution, [s \in DOMAIN distribution |-> SetComparison(line, s)])

PointValues(distribution, line) ==
    Values(distribution, [v \in DOMAIN distribution |-> PointComparison(line, v)])

LineProbabilities(values) ==
    [win |-> SumFunctionOnSet(values, {d \in DOMAIN values : d > 0}),
     push |-> SumFunctionOnSet(values, {d \in DOMAIN values : d = 0}),
     loss |-> SumFunctionOnSet(values, {d \in DOMAIN values : d < 0})]

\* _evaluate_line: the probabilities of a line, or Null where it is unsupported.
EvaluateLine(prediction, line) ==
    LET points == IF line.type = "handicap" THEN prediction.differentials ELSE prediction.totals
        win == IF line.selection = "home" THEN prediction.home ELSE Whole - prediction.home
    IN  IF UnsupportedReason(line) # Null THEN Null ELSE
        CASE line.type = "moneyline" ->
               IF prediction.home = Null THEN Null
               ELSE [win |-> win, push |-> 0, loss |-> Whole - win]
          [] line.unit = "sets" ->
               IF prediction.sets = Null THEN Null
               ELSE LineProbabilities(SetValues(prediction.sets, line))
          [] line.unit = "points" ->
               IF points = Null THEN Null
               ELSE LineProbabilities(PointValues(points, line))

\* MarketEvaluator.evaluate.
Evaluate(prediction, cutoff, availability) ==
    LET s == availability.snapshot
        lines == [line \in s.lines |-> EvaluateLine(prediction, line)]
    IN  IF availability.status # "available"
        THEN [eligibility |-> availability.status, snapshot |-> Null]
        ELSE IF s.quoted > cutoff \/ s.observed > cutoff \/ s.received > cutoff
        THEN [eligibility |-> "missing", snapshot |-> Null]
        ELSE [eligibility |-> IF \E line \in s.lines : lines[line] # Null
                              THEN "eligible" ELSE "unsupported",
              snapshot |-> s.id]

-----------------------------------------------------------------------------
(* What a result makes of a line.                                          *)

\* Seeded fault: the away side of a handicap takes the home side's difference.
ComparedFromHome(line, result) ==
    LET home == IF line.unit = "sets" THEN result.sets[1] ELSE result.points[1]
        away == IF line.unit = "sets" THEN result.sets[2] ELSE result.points[2]
        homeWon == result.sets[1] > result.sets[2]
        over == 4 * (home + away) - line.line
    IN  CASE line.type = "moneyline" -> IF (line.selection = "home") = homeWon THEN 1 ELSE -1
          [] line.type = "handicap" -> 4 * (home - away) + line.line
          [] line.type = "total" -> IF line.selection = "under" THEN -over ELSE over

\* _result_comparison.
ResultComparison(line, result) ==
    LET home == IF line.unit = "sets" THEN result.sets[1] ELSE result.points[1]
        away == IF line.unit = "sets" THEN result.sets[2] ELSE result.points[2]
        homeWon == result.sets[1] > result.sets[2]
        over == 4 * (home + away) - line.line
    IN  CASE line.type = "moneyline" -> IF (line.selection = "home") = homeWon THEN 1 ELSE -1
          [] line.type = "handicap" ->
               4 * (IF line.selection = "home" THEN home - away ELSE away - home) + line.line
          [] line.type = "total" -> IF line.selection = "under" THEN -over ELSE over

\* _settle_line.
SettleLine(line, result) ==
    LET comparison == ResultComparison(line, result)
    IN  IF result.finality = "void" THEN "void"
        ELSE IF UnsupportedReason(line) # Null THEN "unsupported"
        ELSE CASE comparison > 0 -> "win"
               [] comparison < 0 -> "loss"
               [] OTHER -> "push"

Settle(snapshot, result) == {<<line.id, SettleLine(line, result)>> : line \in snapshot.lines}

-----------------------------------------------------------------------------
(* Properties.                                                             *)

\* A prediction certain of the result: all of its shares on what happened.
Certain(result) ==
    [home |-> IF result.sets[1] > result.sets[2] THEN Whole ELSE 0,
     sets |-> [s \in SetScores |-> IF s = result.sets THEN Whole ELSE 0],
     totals |-> [v \in {result.points[1] + result.points[2]} |-> Whole],
     differentials |-> [v \in {result.points[1] - result.points[2]} |-> Whole]]

\* A prediction that was certain of the result gives each line the outcome it
\* is then settled with, and the two sides of a contract never both win.
SettledAsPriced(snapshot, result) ==
    LET certain == Certain(result)
    IN  \A line \in snapshot.lines :
          LET outcome == SettleLine(line, result)
              priced == EvaluateLine(certain, line)
              other == CHOOSE b \in snapshot.lines \ {line} : Contract(b) = Contract(line)
          IN  /\ outcome = "unsupported" <=> priced = Null
              /\ outcome \in {"win", "loss", "push"} => priced[outcome] = Whole
              /\ {outcome, SettleLine(other, result)} \in
                   {{"win", "loss"}, {"push"}, {"unsupported"}}
=============================================================================
