----------------------------- MODULE AsOfInputs -----------------------------
(***************************************************************************)
(* What a prediction is computed from: the facts of the mirror as they     *)
(* could be known at a cutoff, read by features/input_repository.py and,   *)
(* for the Elo replay and the score models, by ops/runtime.py, and the     *)
(* features that features/as_of_v2.py makes of them.                       *)
(*                                                                         *)
(* A reader's first argument is the database it reads, a state of facts.   *)
(* A target is a match with the cutoff at which it is predicted:           *)
(* [match, season, cutoff, lead, home, away], lead being the time from the *)
(* cutoff to the start.  A ratio is kept as numerator and denominator.     *)
(***************************************************************************)
EXTENDS FactRevisions

CONSTANTS Rank,             \* the order of match ids: Matches -> Nat
          VerifiedSchema,   \* VERIFIED_METRIC_SCHEMA_VERSION
          Targets           \* what is predicted

ASSUME TargetAssumption ==
    \A target \in Targets : target.cutoff \in Int /\ target.lead \in Int

-----------------------------------------------------------------------------
(* As of a moment.                                                         *)

\* Revisions of a table that were observed by a cutoff.
Known(rows, cutoff) == {i \in DOMAIN rows : rows[i].at <= cutoff}

\* DISTINCT ON ... ORDER BY revision DESC; 0 when none is known.
LatestKnown(rows, cutoff) == Max(Known(rows, cutoff) \cup {0})

\* What the transactions say of a kind of facts of a match.
CoverageOf(m, kind, t) ==
    {[at |-> t.at, raw |-> t.raw, availability |-> c.availability] :
       c \in {d \in t.rows : d.match = m /\ d.kind = kind}}

NoCoverage == [availability |-> "none", raw |-> 0, at |-> 0]

\* The coverage row observed last, of several the one created last.
LatestCoverage(db, m, kind, cutoff) ==
    LET rows == {i \in Known(db.coverage, cutoff) : CoverageOf(m, kind, db.coverage[i]) # {}}
        last == {i \in rows : \A j \in rows : db.coverage[j].at <= db.coverage[i].at}
    IN  IF rows = {} THEN NoCoverage
        ELSE CHOOSE c \in CoverageOf(m, kind, db.coverage[Max(last)]) : TRUE

Covered(db, m, kind, cutoff, raw) ==
    /\ LatestCoverage(db, m, kind, cutoff).availability = "available"
    /\ LatestCoverage(db, m, kind, cutoff).raw = raw

-----------------------------------------------------------------------------
(* FeatureInputRepository.                                                 *)

ScheduleOf(db, m, cutoff) == db.schedules[m][LatestKnown(db.schedules[m], cutoff)]

ResultOf(db, m, cutoff) == db.results[m][LatestKnown(db.results[m], cutoff)]

\* _valid_set_summary.
ValidSetSummary(result) ==
    /\ Len(result.sets) = result.wins[1] + result.wins[2]
    /\ result.sets # <<>>
    /\ \A side \in 1..2 : WinsOf(result.sets, side) = result.wins[side]

\* _history_rows: other matches of the season that started before the cutoff,
\* whose latest result is the latest thing that was observed of their result.
HistoryRows(db, target) ==
    {m \in Matches \ {target.match} :
       /\ LatestKnown(db.schedules[m], target.cutoff) # 0
       /\ LatestKnown(db.results[m], target.cutoff) # 0
       /\ ScheduleOf(db, m, target.cutoff).season = target.season
       /\ ScheduleOf(db, m, target.cutoff).start < target.cutoff
       /\ Covered(db, m, "match_result", target.cutoff, ResultOf(db, m, target.cutoff).raw)}

\* _verified_stat_line.
StatLine(row) == [schema |-> row.schema, scope |-> "match", values |-> row.values]

VerifiedRows(db, m, kind, rows, target) ==
    IF Covered(db, m, kind, target.cutoff, ResultOf(db, m, target.cutoff).raw)
    THEN {row \in rows : row.schema = VerifiedSchema} ELSE {}

TeamLines(rows) ==
    [team \in {r.team : r \in rows} |-> StatLine(CHOOSE r \in rows : r.team = team)]

PlayerLines(rows) ==
    [player \in {r.player : r \in rows} |->
       LET row == CHOOSE r \in rows : r.player = player
       IN  [team |-> row.team, stats |-> StatLine(row)]]

\* Statistics and rosters count only while their own coverage is available
\* and of the same receipt.
TeamStats(db, m, target) ==
    TeamLines(VerifiedRows(db, m, "team_match_stats", ResultOf(db, m, target.cutoff).teamStats,
                           target))

PlayerStats(db, m, target) ==
    PlayerLines(VerifiedRows(db, m, "player_match_stats",
                             ResultOf(db, m, target.cutoff).playerStats, target))

HistoricalRosters(db, m, target) ==
    LET raw == ResultOf(db, m, target.cutoff).raw
    IN  IF Covered(db, m, "roster", target.cutoff, raw)
        THEN {r \in db.rosters : r.raw = raw /\ r.at <= target.cutoff} ELSE {}

TargetRosters(db, target) ==
    LET coverage == LatestCoverage(db, target.match, "roster", target.cutoff)
    IN  {r \in db.rosters :
           /\ coverage.availability = "available"
           /\ r.raw = coverage.raw /\ r.at <= target.cutoff
           /\ r.team \in {target.home, target.away}}

\* _assemble_history: a match counts as ended when its result was observed; a
\* corrected result is final.
HistoricalMatch(db, m, target) ==
    LET result == ResultOf(db, m, target.cutoff)
        schedule == ScheduleOf(db, m, target.cutoff)
    IN  [match |-> m, home |-> schedule.home, away |-> schedule.away, start |-> schedule.start,
         ended |-> result.at, wins |-> result.wins, sets |-> result.sets,
         finality |-> IF result.finality = "corrected" THEN "final" ELSE result.finality,
         teamStats |-> TeamStats(db, m, target), playerStats |-> PlayerStats(db, m, target),
         roster |-> HistoricalRosters(db, m, target), raws |-> {schedule.raw, result.raw}]

AssembledHistory(db, target) ==
    {HistoricalMatch(db, m, target) : m \in
       {h \in HistoryRows(db, target) :
          /\ ResultOf(db, h, target.cutoff).at >= ScheduleOf(db, h, target.cutoff).start
          /\ ValidSetSummary(ResultOf(db, h, target.cutoff))}}

-----------------------------------------------------------------------------
(* AsOfFeatureBuilder.                                                     *)

\* _select_history: what ended before the cutoff, the latest end first.
SelectHistory(target, matches) ==
    SetToSortSeq({h \in matches : h.ended < target.cutoff /\ h.finality # "void"},
                 LAMBDA g, h : \/ g.ended > h.ended
                               \/ g.ended = h.ended /\ Rank[g.match] > Rank[h.match])

\* _lineup_status.
LineupStatus(target, rosters) ==
    LET teams == {r.team : r \in rosters}
    IN  CASE {target.home, target.away} \subseteq teams -> "known"
          [] teams # {} -> "partial"
          [] OTHER -> "unknown"

\* definitions.py: how many samples a value needs.
MinSamples ==
    [recent_5_match_win_rate |-> 3, recent_10_match_win_rate |-> 5,
     recent_10_set_win_rate |-> 5, season_win_rate |-> 1, venue_split_win_rate |-> 2,
     head_to_head_home_win_rate |-> 2, attack_efficiency |-> 1, serve_ace_rate |-> 1,
     block_points_per_set |-> 1, receive_efficiency |-> 1, errors_per_set |-> 1,
     attack_share_recent_5 |-> 2, attack_share_trend_3v3 |-> 6]

UnknownFeature(reason, samples) ==
    [status |-> "unknown", value |-> Null, reason |-> reason, samples |-> samples]

\* _ratio_feature.
RatioFeature(definition, numerator, denominator, samples) ==
    CASE samples = 0 -> UnknownFeature("no_prior_matches", samples)
      [] samples < MinSamples[definition] -> UnknownFeature("insufficient_sample", samples)
      [] denominator = 0 -> UnknownFeature("zero_denominator", samples)
      [] OTHER -> [status |-> "available", value |-> <<numerator, denominator>>, reason |-> Null,
                   samples |-> samples]

Side(h, team) == IF h.home = team THEN 1 ELSE 2

TeamWon(h, team) == h.wins[Side(h, team)] > h.wins[3 - Side(h, team)]

FirstOf(history, n) == SubSeq(history, 1, Min({n, Len(history)}))

MatchWinRate(definition, team, history) ==
    RatioFeature(definition, Len(SelectSeq(history, LAMBDA h : TeamWon(h, team))),
                 Len(history), Len(history))

\* The sets of a history, the last set of the latest match first.
SetsBackwards(history, team) ==
    FlattenSeq([i \in DOMAIN history |->
      LET h == history[i]
      IN  [k \in DOMAIN h.sets |->
             LET set == Reverse(h.sets)[k] IN set[Side(h, team)] > set[3 - Side(h, team)]]])

RecentSetWinRate(team, history) ==
    LET sets == FirstOf(SetsBackwards(history, team), 10)
    IN  RatioFeature("recent_10_set_win_rate", Len(SelectSeq(sets, LAMBDA won : won)),
                     Len(sets), Len(sets))

MetricKeys ==
    [attack_efficiency |-> {"attack_kills", "attack_errors", "attack_attempts"},
     serve_ace_rate |-> {"serve_aces", "serve_attempts"},
     block_points_per_set |-> {"block_points"},
     receive_efficiency |-> {"receive_successes", "receive_attempts"},
     errors_per_set |-> {"errors"}]

\* _metric_line_reason: why a row cannot be used, Null if it can.
MetricLineReason(line, required) ==
    CASE line.schema # VerifiedSchema -> "source_metric_unverified"
      [] line.scope = "cumulative" -> "cumulative_value_rejected"
      [] ~(required \subseteq DOMAIN line.values) -> "missing_input"
      [] OTHER -> Null

SumOf(n, value(_)) == FoldSet(LAMBDA i, sum : value(i) + sum, 0, 1..n)

MetricNumerator(definition, values) ==
    CASE definition = "attack_efficiency" -> values.attack_kills - values.attack_errors
      [] definition = "serve_ace_rate" -> values.serve_aces
      [] definition = "receive_efficiency" -> values.receive_successes
      [] definition = "block_points_per_set" -> values.block_points
      [] definition = "errors_per_set" -> values.errors

MetricDenominator(definition, values, sets) ==
    CASE definition = "attack_efficiency" -> values.attack_attempts
      [] definition = "serve_ace_rate" -> values.serve_attempts
      [] definition = "receive_efficiency" -> values.receive_attempts
      [] OTHER -> sets

\* A metric needs a row of every match.
TeamMetric(definition, team, history) ==
    LET line(i) == history[i].teamStats[team]
        reason(i) == IF team \notin DOMAIN history[i].teamStats THEN "missing_input"
                     ELSE MetricLineReason(line(i), MetricKeys[definition])
        bad == {i \in DOMAIN history : reason(i) # Null}
        n == Len(history)
    IN  CASE n = 0 -> UnknownFeature("no_prior_matches", 0)
          [] bad # {} -> UnknownFeature(reason(Min(bad)), Min(bad) - 1)
          [] OTHER -> RatioFeature(definition,
               SumOf(n, LAMBDA i : MetricNumerator(definition, line(i).values)),
               SumOf(n, LAMBDA i : MetricDenominator(definition, line(i).values,
                                                     Len(history[i].sets))), n)

\* _player_metric_rows: the first reason why the appearances cannot be used.
RowReason(h, player, team) ==
    IF \/ player \notin DOMAIN h.playerStats \/ team \notin DOMAIN h.teamStats
    THEN "missing_input"
    ELSE IF h.playerStats[player].team # team THEN "missing_input"
    ELSE LET own == MetricLineReason(h.playerStats[player].stats, {"attack_attempts"})
         IN  IF own # Null THEN own
             ELSE MetricLineReason(h.teamStats[team], {"attack_attempts"})

PlayerReason(appearances, player, team) ==
    LET bad == {i \in DOMAIN appearances : RowReason(appearances[i], player, team) # Null}
    IN  CASE appearances = <<>> -> "missing_input"
          [] bad # {} -> RowReason(appearances[Min(bad)], player, team)
          [] OTHER -> Null

Attempts(appearances, player) ==
    SumOf(Len(appearances), LAMBDA i : appearances[i].playerStats[player].stats.values.attack_attempts)

TeamAttempts(appearances, team) ==
    SumOf(Len(appearances), LAMBDA i : appearances[i].teamStats[team].values.attack_attempts)

PlayerAttackShare(player, team, appearances) ==
    LET reason == PlayerReason(appearances, player, team)
        n == Len(appearances)
    IN  IF reason # Null THEN UnknownFeature(reason, n)
        ELSE RatioFeature("attack_share_recent_5", Attempts(appearances, player),
                          TeamAttempts(appearances, team), n)

\* The latest three appearances against the three before.
PlayerAttackTrend(player, team, appearances) ==
    LET reason == PlayerReason(appearances, player, team)
        n == Len(appearances)
        recent == SubSeq(appearances, 1, 3)
        previous == SubSeq(appearances, 4, 6)
        p == TeamAttempts(recent, team)
        q == TeamAttempts(previous, team)
    IN  CASE reason # Null -> UnknownFeature(reason, n)
          [] n < MinSamples.attack_share_trend_3v3 -> UnknownFeature("insufficient_sample", n)
          [] p = 0 \/ q = 0 -> UnknownFeature("zero_denominator", n)
          [] OTHER -> [status |-> "available", reason |-> Null, samples |-> n,
                       value |-> <<Attempts(recent, player) * q - Attempts(previous, player) * p,
                                   p * q>>]

\* The matches whose roster names the player.
PlayerFeatures(player, team, history) ==
    LET appearances == SelectSeq(history, LAMBDA h :
                         \E r \in h.roster : r.player = player /\ r.team = team)
    IN  <<PlayerAttackShare(player, team, FirstOf(appearances, 5)),
          PlayerAttackTrend(player, team, FirstOf(appearances, 6))>>

TeamHistory(team, history) == SelectSeq(history, LAMBDA h : team \in {h.home, h.away})

TeamFeatures(team, side, history) ==
    LET own == TeamHistory(team, history)
    IN  <<MatchWinRate("recent_5_match_win_rate", team, FirstOf(own, 5)),
          MatchWinRate("recent_10_match_win_rate", team, FirstOf(own, 10)),
          RecentSetWinRate(team, own),
          MatchWinRate("season_win_rate", team, own),
          MatchWinRate("venue_split_win_rate", team,
                       SelectSeq(own, LAMBDA h : Side(h, team) = side)),
          [d \in DOMAIN MetricKeys |-> TeamMetric(d, team, own)]>>

\* build: everything that goes into the snapshot.
BuildSnapshot(target, matches, rosters) ==
    LET history == SelectHistory(target, matches)
        direct == SelectSeq(history, LAMBDA h : {h.home, h.away} = {target.home, target.away})
    IN  [home |-> TeamFeatures(target.home, 1, history),
         away |-> TeamFeatures(target.away, 2, history),
         matchup |-> MatchWinRate("head_to_head_home_win_rate", target.home, FirstOf(direct, 5)),
         lineup |-> LineupStatus(target, rosters),
         players |-> {<<r.player, PlayerFeatures(r.player, r.team, history)>> : r \in rosters},
         lineage |-> {h.match : h \in Range(history)}]

Snapshot(db, target) ==
    BuildSnapshot(target, AssembledHistory(db, target), TargetRosters(db, target))

-----------------------------------------------------------------------------
(* The Elo timeline.                                                       *)

\* Seeded fault: whenever a revision became known, its cutoff is what counts.
StartsInTime(db, m, target) ==
    {i \in DOMAIN db.schedules[m] : db.schedules[m][i].start - target.lead <= target.cutoff}

\* Schedule revisions that were known at their own cutoff, and whose cutoff is
\* not after the target's.
OnTime(db, m, target) ==
    {i \in DOMAIN db.schedules[m] :
       /\ db.schedules[m][i].at <= db.schedules[m][i].start - target.lead
       /\ db.schedules[m][i].start - target.lead <= target.cutoff}

\* The latest revision of both teams at the match's cutoff must be mapped, by
\* one version; a team always is here once it has an identity.
Identified(db, m, target) ==
    LET schedule == db.schedules[m][Max(OnTime(db, m, target))]
    IN  \A team \in {schedule.home, schedule.away} :
          Known(Revisions(db.identities, <<"team", team>>), schedule.start - target.lead) # {}

\* All revisions of a result, if the latest one is covered.
EloResults(db, m, target) ==
    IF LatestKnown(db.results[m], target.cutoff) = 0 THEN {}
    ELSE IF ~Covered(db, m, "match_result", target.cutoff, ResultOf(db, m, target.cutoff).raw)
    THEN {}
    ELSE {db.results[m][i] : i \in
            {k \in Known(db.results[m], target.cutoff) :
               \E t \in {db.coverage[c] : c \in Known(db.coverage, target.cutoff)} :
                 \E c \in CoverageOf(m, "match_result", t) :
                   c.raw = db.results[m][k].raw /\ c.availability = "available"}}

EloTimeline(db, target) ==
    {[match |-> m, schedule |-> db.schedules[m][Max(OnTime(db, m, target))],
      identified |-> Identified(db, m, target), results |-> EloResults(db, m, target)] :
       m \in {n \in Matches : OnTime(db, n, target) # {}}}

\* The results that the replay applies and the features saw, of which five-set
\* matches are counted and whose rule versions must agree.
FinalResults(matches) == {h \in matches : h.finality = "final"}

FifthSetHistory(matches) ==
    LET fifth == {h \in FinalResults(matches) : Len(h.sets) = 5}
    IN  <<Cardinality({h \in fifth : h.wins[1] = 3}), Cardinality(fifth)>>

-----------------------------------------------------------------------------
(* Safety.                                                                 *)

\* Everything that a prediction of the target reads.
View(db, target) ==
    <<AssembledHistory(db, target), Snapshot(db, target), EloTimeline(db, target),
      FifthSetHistory(AssembledHistory(db, target))>>

\* A table without the rows that were observed after a cutoff; the others keep
\* their revision numbers.
Until(rows, cutoff) == Restrict(rows, Known(rows, cutoff))

\* The mirror as if nothing had been observed after a cutoff.
ObservedBy(db, cutoff) ==
    [identities |-> [k \in DOMAIN db.identities |-> Until(db.identities[k], cutoff)],
     schedules |-> [m \in Matches |-> Until(db.schedules[m], cutoff)],
     results |-> [m \in Matches |-> Until(db.results[m], cutoff)],
     rosters |-> {r \in db.rosters : r.at <= cutoff},
     coverage |-> Until(db.coverage, cutoff)]

\* Whatever was observed after its cutoff, and in whatever order it was stored,
\* what a prediction reads is what it would read without it.
LeakFree ==
    \A target \in Targets :
      LET seen == ObservedBy(facts, target.cutoff)
      IN  seen # facts => View(seen, target) = View(facts, target)

\* A match that is over and whose latest known result was confirmed by whatever
\* was observed of it since is part of the history.
ConfirmedResultsKept ==
    \A target \in Targets : \A m \in Matches \ {target.match} :
      (/\ LatestKnown(facts.results[m], target.cutoff) # 0
       /\ LatestKnown(facts.schedules[m], target.cutoff) # 0
       /\ ScheduleOf(facts, m, target.cutoff).start < target.cutoff
       /\ ScheduleOf(facts, m, target.cutoff).start <= ResultOf(facts, m, target.cutoff).at
       /\ LatestCoverage(facts, m, "match_result", target.cutoff).availability = "available"
       /\ LatestCoverage(facts, m, "match_result", target.cutoff).at
             >= ResultOf(facts, m, target.cutoff).at)
        => m \in HistoryRows(facts, target)
=============================================================================
