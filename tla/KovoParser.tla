----------------------------- MODULE KovoParser -----------------------------
(***************************************************************************)
(* mirror/parser.py and rules.py: how a stored response becomes a batch of *)
(* facts.  A pure function; a response it must not read raises             *)
(* ContractError, which is a Failure here, and what it reads but must not  *)
(* believe becomes an issue of the batch.                                  *)
(*                                                                         *)
(* A JSON document is abstracted to the values of its fields.  Which field *)
(* is absent or has another type is kept as shape: the code of the first   *)
(* such failure, or "sound".                                               *)
(***************************************************************************)
EXTENDS Commons, Integers, Sequences, FiniteSets, SequencesExt, FiniteSetsExt

CONSTANTS Franchise,   \* the reviewed mapping: source team code -> franchise
          Rules        \* the reviewed rules: source season code -> set rule

-----------------------------------------------------------------------------
(* Failures and issues.                                                    *)

\* What _required, _object, _array, _string, _integer and their optional
\* forms raise.
ShapeFailures == {"missing_required_field", "type_change", "invalid_negative_value"}

DateFailures == {"invalid_source_datetime"}

EnvelopeFailures == ShapeFailures \cup {"invalid_json"}

Failure(code) == [failed |-> code]

Failed(parsed) == "failed" \in DOMAIN parsed

Issue(code, availability) == [code |-> code, availability |-> availability]

Coverage(match, kind, availability) ==
    [kind |-> kind, availability |-> availability, match |-> match]

-----------------------------------------------------------------------------
(* The score of a match.                                                   *)

TargetOf(number, rule) ==
    IF number = rule.maximum THEN rule.deciding ELSE rule.regular

\* Seeded fault: any winner beyond the target is accepted.
AnyLead(number, home, away, rule) ==
    Max({home, away}) >= TargetOf(number, rule) /\ Max({home, away}) - Min({home, away}) >= rule.margin

\* _valid_set_score.
ValidSetScore(number, home, away, rule) ==
    LET winner == Max({home, away})
        loser == Min({home, away})
        target == TargetOf(number, rule)
    IN  /\ home # away
        /\ winner >= target
        /\ winner = IF loser <= target - rule.margin THEN target ELSE loser + rule.margin

Unplayed(set) == set \in {<<Null, Null>>, <<0, 0>>}

Rejected(code, availability) == [issue |-> Issue(code, availability), result |-> Null]

\* What the loop knows before a set: the sets so far, whether a set without
\* score was seen, and the issue at which it returned.
NothingRead == [sets |-> <<>>, gap |-> FALSE, issue |-> Null]

WinsOf(sets, side) == Cardinality({i \in DOMAIN sets : sets[i][side] > sets[i][3 - side]})

\* One turn of the loop over the sets.
ReadSet(read, number, set, rule) ==
    LET return(code, availability) == [read EXCEPT !.issue = Issue(code, availability)]
    IN  IF read.issue # Null THEN read
        ELSE IF Unplayed(set) THEN [read EXCEPT !.gap = TRUE]
        ELSE IF Null \in {set[1], set[2]} THEN return("incomplete_set", "missing")
        ELSE IF read.gap THEN return("non_contiguous_sets", "unverified")
        ELSE IF rule.toWin \in {WinsOf(read.sets, 1), WinsOf(read.sets, 2)}
        THEN return("set_after_match_end", "unverified")
        ELSE IF ~ValidSetScore(number, set[1], set[2], rule)
        THEN return("invalid_set_score", "unverified")
        ELSE [read EXCEPT !.sets = Append(@, set)]

Points(sets, side) == SumFunctionOnSet([i \in DOMAIN sets |-> sets[i][side]], DOMAIN sets)

\* All sets of a row, until an issue; its sets are the columns up to the last
\* number of its rule.
ReadSets(row, rule) ==
    LET read[n \in 0..Len(row.sets)] ==
          IF n = 0 THEN NothingRead ELSE ReadSet(read[n - 1], n, row.sets[n], rule)
    IN  read[Len(row.sets)]

\* What the sets that were read come to.
CompleteResult(row, rule, read, wins) ==
    IF read.issue # Null THEN [issue |-> read.issue, result |-> Null]
    ELSE IF read.sets = <<>> /\ row.totals = <<Null, Null>> THEN [issue |-> Null, result |-> Null]
    ELSE IF read.sets = <<>> \/ Null \in {row.totals[1], row.totals[2]}
    THEN Rejected("incomplete_result", "missing")
    ELSE IF row.totals # <<Points(read.sets, 1), Points(read.sets, 2)>>
    THEN Rejected("total_score_mismatch", "unverified")
    ELSE IF ~(Max({wins[1], wins[2]}) = rule.toWin /\ Min({wins[1], wins[2]}) <= 2)
    THEN Rejected("invalid_set_result", "unverified")
    ELSE [issue |-> Null,
          result |-> [wins |-> wins, sets |-> read.sets, finality |-> "provisional"]]

ReadResult(row, rule, read) ==
    CompleteResult(row, rule, read, <<WinsOf(read.sets, 1), WinsOf(read.sets, 2)>>)

\* _parse_result: issue and result of a game whose teams are mapped.
ParseResult(row) ==
    IF row.season \notin DOMAIN Rules
    THEN Rejected("op006_season_rule_unverified", "unverified")
    ELSE ReadResult(row, Rules[row.season], ReadSets(row, Rules[row.season]))

ResultIssues ==
    {"op006_season_rule_unverified", "incomplete_set", "non_contiguous_sets",
     "set_after_match_end", "invalid_set_score", "incomplete_result",
     "total_score_mismatch", "invalid_set_result"}

-----------------------------------------------------------------------------
(* The parts of a document.                                                *)

\* An unmapped team is never guessed.
Team(code, row) ==
    IF code \in DOMAIN Franchise
    THEN {[team |-> code, label |-> row.label, franchise |-> Franchise[code]]}
    ELSE {}

\* A venue is known by what its own match says of it.
Venue(row) == IF row.place = Null THEN Null ELSE <<row.match, row.place>>

\* Any season, league or match that the request names must be the answer's.
ParseGameRow(key, row) ==
    LET teams == Team(row.home, row) \cup Team(row.away, row)
        verified == Cardinality(teams) = 2
    IN  IF row.shape \in ShapeFailures \cup DateFailures THEN Failure(row.shape)
        ELSE IF key.season \notin {Null, row.season} \/ key.match \notin {Null, row.match}
        THEN Failure("request_key_mismatch")
        ELSE IF row.gender \notin {"m", "f"} THEN Failure("unverified_gender")
        ELSE IF row.home = row.away THEN Failure("same_teams")
        ELSE [row |-> row, teams |-> teams, verified |-> verified, venue |-> Venue(row),
              coverage |-> {Coverage(row.match, "franchise_mapping",
                                     IF verified THEN "available" ELSE "unverified"),
                            Coverage(row.match, "venue_identity", "unverified")},
              issues |-> IF verified THEN {}
                         ELSE {Issue("op006_franchise_unverified", "unverified")}]

\* FactRevisionBatch without facts.
Empty ==
    [seasons |-> {}, teams |-> {}, matches |-> {}, result |-> Null, players |-> {},
     teamStats |-> {}, playerStats |-> {}, coverage |-> {}, issues |-> {}]

MatchFact(game) ==
    [match |-> game.row.match, season |-> game.row.season, start |-> game.row.start,
     home |-> game.row.home, away |-> game.row.away, venue |-> game.venue]

\* A row of the season list: the group asked for, each season once.
ParseSeasons(key, doc) ==
    IF \E s \in Range(doc.seasons) : s.group # key.group THEN Failure("request_key_mismatch")
    ELSE IF ~IsInjective(doc.seasons) THEN Failure("duplicate_season_key")
    ELSE [Empty EXCEPT !.seasons = {s.season : s \in Range(doc.seasons)}]

\* The batch of a page: the season of every game, the other facts of those
\* whose teams are mapped.
BatchFromGames(games) ==
    LET verified == {g \in games : g.verified}
    IN  [Empty EXCEPT
           !.seasons = {g.row.season : g \in games},
           !.teams = UNION {g.teams : g \in verified},
           !.matches = {MatchFact(g) : g \in verified},
           !.coverage = UNION {g.coverage : g \in games},
           !.issues = UNION {g.issues : g \in games}]

SchedulePage(doc, games) ==
    LET bad == {i \in DOMAIN games : Failed(games[i])}
    IN  IF Len(doc.content) > doc.page.size \/ doc.page.total < Len(doc.content)
        THEN Failure("page_count_mismatch")
        ELSE IF bad # {} THEN Failure(games[Min(bad)].failed)
        ELSE IF ~IsInjective([i \in DOMAIN games |-> games[i].row.match])
        THEN Failure("duplicate_match_key")
        ELSE BatchFromGames(Range(games))

ParseSchedule(key, doc) ==
    SchedulePage(doc, [i \in DOMAIN doc.content |-> ParseGameRow(key, doc.content[i])])

\* A player or team row belongs to the game of the document.
DetailRowFailure(rows, i, game, name) ==
    IF rows[i].match # game.row.match THEN "detail_key_mismatch"
    ELSE IF \E k \in 1..(i - 1) : rows[k][name] = rows[i][name] THEN "duplicate_row"
    ELSE IF rows[i].team \notin {game.row.home, game.row.away} THEN "unknown_team_code"
    ELSE Null

RowFailures(rows, game, name) ==
    {DetailRowFailure(rows, i, game, name) : i \in DOMAIN rows} \ {Null}

DetailIssues(doc, game, parsed) ==
    game.issues \cup ({parsed.issue} \ {Null})
      \cup (IF game.verified /\ parsed.result = Null /\ doc.players \o doc.stats # <<>>
            THEN {Issue("stats_without_complete_result", "unverified")} ELSE {})

\* Statistics count only under a result that validates.
DetailBatch(doc, game, parsed, issues) ==
    LET accepted == parsed.result # Null
        \* The availability of rows that are kept but not yet understood.
        held(rows) == IF accepted /\ rows # <<>> THEN "unverified" ELSE "missing"
    IN  [BatchFromGames({game}) EXCEPT
           !.result = parsed.result,
           !.players = IF game.verified THEN Range(doc.players) ELSE {},
           !.teamStats = IF accepted THEN Range(doc.stats) ELSE {},
           !.playerStats = IF accepted THEN Range(doc.players) ELSE {},
           !.issues = issues,
           !.coverage = game.coverage \cup
             {Coverage(doc.game.match, "match_result",
                 IF accepted THEN "available"
                 ELSE IF \E i \in issues : i.code \in ResultIssues
                 THEN "unverified" ELSE "missing"),
              Coverage(doc.game.match, "player_match_stats", held(doc.players)),
              Coverage(doc.game.match, "team_match_stats", held(doc.stats)),
              Coverage(doc.game.match, "player_set_stats", "unverified"),
              Coverage(doc.game.match, "roster", "unverified")}]

AcceptedDetail(doc, game, parsed) ==
    DetailBatch(doc, game, parsed, DetailIssues(doc, game, parsed))

DetailOf(doc, game, failures) ==
    IF Failed(game) THEN game
    ELSE IF failures # {} THEN Failure(CHOOSE f \in failures : TRUE)
    ELSE AcceptedDetail(doc, game, IF game.verified THEN ParseResult(doc.game)
                                   ELSE [issue |-> Null, result |-> Null])

DetailFailures(doc, game) ==
    IF Failed(game) THEN {}
    ELSE RowFailures(doc.players, game, "player") \cup RowFailures(doc.stats, game, "team")

ParseGameDetail(doc, game) == DetailOf(doc, game, DetailFailures(doc, game))

ParseDetail(key, doc) == ParseGameDetail(doc, ParseGameRow(key, doc.game))

\* parse: what a receipt says, if it may be read at all.
Parse(receipt) ==
    IF receipt.status # 200 THEN Failure("http_status_not_parseable")
    ELSE IF receipt.doc = Null THEN Failure("missing_body")
    ELSE IF receipt.hash # receipt.doc THEN Failure("body_hash_mismatch")
    ELSE IF receipt.doc.shape \in EnvelopeFailures THEN Failure(receipt.doc.shape)
    ELSE IF receipt.key.endpoint = "seasons" THEN ParseSeasons(receipt.key, receipt.doc)
    ELSE IF receipt.key.endpoint = "schedule" THEN ParseSchedule(receipt.key, receipt.doc)
    ELSE ParseDetail(receipt.key, receipt.doc)
=============================================================================
