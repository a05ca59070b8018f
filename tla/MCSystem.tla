------------------------------ MODULE MCSystem ------------------------------
(***************************************************************************)
(* An instance of every module around the queue and the predictions.  Each *)
(* initial state has a focus: the one component, or composition, that      *)
(* moves.  The others rest, since the parts shown here share no state.     *)
(***************************************************************************)
EXTENDS SourceSync, AsOfInputs, ResultEvaluation, HealthDispatch, ProviderCall,
        ProviderEgress, ReadApi, HonestScores, PlayedMatches, Performance, TLC

CONSTANTS m1, m2,          \* matches
          t1, t2, t3,      \* teams; t3 is not in the reviewed mapping
          w1, w2,          \* processes
          p1, p2,          \* predictions
          Focuses

VARIABLE focus

-----------------------------------------------------------------------------
(* The mirror.                                                             *)

MCRank == (m1 :> 1) @@ (m2 :> 2)
MCSchema == "v1"

MCFranchise == (t1 :> "f1") @@ (t2 :> "f2")

\* A season of one-set matches, and one of matches to two sets.
MCRules ==
    [short |-> [regular |-> 2, deciding |-> 2, margin |-> 2, toWin |-> 1, maximum |-> 1],
     long |-> [regular |-> 3, deciding |-> 2, margin |-> 2, toWin |-> 2, maximum |-> 3]]

Key(endpoint, m) == [endpoint |-> endpoint, group |-> "g", season |-> "short", match |-> m]

Row(season, m, away, sets, totals) ==
    [shape |-> "sound", season |-> season, match |-> m, gender |-> "m", home |-> t1,
     away |-> away, label |-> "l", place |-> "p", start |-> 1, sets |-> sets, totals |-> totals]

Detail(set) ==
    [shape |-> "sound", game |-> Row("short", m1, t2, <<set>>, set), players |-> <<>>,
     stats |-> <<>>]

Page(n, m, away) ==
    [shape |-> "sound", content |-> <<Row("short", m, away, <<>>, <<Null, Null>>)>>,
     page |-> [size |-> 1, total |-> 2, number |-> n, pages |-> 2]]

Answered(key, page, code, doc) ==
    [key |-> key, page |-> page, status |-> code, doc |-> doc]

\* Two scores of a match; a schedule of two pages, the first with a mapped or
\* an unmapped team, and two failures.
MCAnswers ==
    {Answered(Key("detail", m1), 0, 200, Detail(set)) : set \in {<<2, 0>>, <<0, 2>>}} \cup
    {Answered(Key("schedule", Null), 0, 200, Page(0, m1, t2)),
     Answered(Key("schedule", Null), 0, 200, Page(0, m1, t3)),
     Answered(Key("schedule", Null), 1, 200, Page(1, m2, t2)),
     Answered(Key("schedule", Null), 1, 429, Null),
     Answered(Key("schedule", Null), 0, 500, Null)}

Resting ==
    [mode |-> "sync", keys |-> {}, limit |-> 0, interval |-> 0, until |-> 0, receipts |-> 0,
     faults |-> 0]

\* One slot and requests an interval apart, with a fault or with one more
\* answer; a backfill with a fault or a second slot; a match observed twice.
Plans ==
    CASE focus = "sync" ->
           {[Resting EXCEPT !.keys = {Key("detail", m1)}, !.limit = 1, !.interval = 1,
                            !.until = 3 - f, !.receipts = 3 - f, !.faults = f] : f \in 0..1}
      [] focus = "backfill" ->
           {[Resting EXCEPT !.mode = "backfill", !.keys = {Key("schedule", Null)}, !.limit = l,
                            !.receipts = 3, !.faults = 2 - l] : l \in 1..2}
      [] focus = "history" ->
           {[Resting EXCEPT !.keys = {Key("detail", m1)}, !.limit = 1, !.until = 3,
                            !.receipts = 2]}
      [] OTHER -> {Resting}

\* The second match, predicted from what is known of the first at its cutoff.
MCTargets ==
    {[match |-> m2, season |-> "short", cutoff |-> 2, lead |-> 1, home |-> t1, away |-> t2]}

-----------------------------------------------------------------------------
(* The market and the evaluation of results.                               *)

Line(type, unit, period, selection, line) ==
    [id |-> <<type, unit, period, selection, line>>, type |-> type, unit |-> unit,
     period |-> period, selection |-> selection, line |-> line, rule |-> "r"]

Quotes(id, quoted, received, lines) ==
    [id |-> id, match |-> m1, quoted |-> quoted, observed |-> quoted, received |-> received,
     lines |-> lines]

Winner == {Line("moneyline", "match", "full_match", "home", Null),
           Line("moneyline", "match", "full_match", "away", Null)}

\* One prediction with a joint distribution, and one of nothing.
Even(values) == [v \in values |-> 1]

Joint ==
    [id |-> "d", match |-> m1, snapshot |-> "i", variant |-> "v", home |-> 1,
     sets |-> [s \in (0..2) \X (0..2) \ {<<0, 0>>, <<1, 1>>, <<2, 2>>, <<0, 1>>, <<1, 0>>} |->
                 IF 1 \in {s[1], s[2]} THEN 1 ELSE 0],
     totals |-> Even({10, 11}), differentials |-> Even({-1, 1})]

MCRows ==
    (p1 :> [status |-> "absent", match |-> m1, snapshot |-> "i", variant |-> "v", joint |-> Joint,
            output |-> [variant |-> "v", reference |-> "d", home |-> 1, sets |-> Joint.sets]])
    @@
    (p2 :> [status |-> "absent", match |-> m1, snapshot |-> "i", variant |-> "v", joint |-> Null,
            output |-> [variant |-> "v", reference |-> Null, home |-> Null, sets |-> Null]])

\* The two sides of a handicap, by what the home side is given, and of a total.
Handicap(unit, q) ==
    {Line("handicap", unit, "full_match", "home", q), Line("handicap", unit, "full_match", "away", -q)}

OverUnder(unit, q) ==
    {Line("total", unit, "full_match", "over", q), Line("total", unit, "full_match", "under", q)}

\* A quote in time, one that was received late, and one that is too old; whole,
\* half and quarter lines, on what can happen and on either side of it.
MCSnapshots ==
    {Quotes(1, 2, 2, Winner \cup Handicap("sets", -4)),
     Quotes(2, 2, 3, Handicap("points", 6)),
     Quotes(3, 0, 0, OverUnder("points", 44) \cup OverUnder("sets", 9))}

MCObservations ==
    {[sets |-> <<2, 1>>, points |-> <<6, 5>>], [sets |-> <<1, 2>>, points |-> <<5, 6>>]}

\* One prediction from its publication on, when a late quote is there already,
\* and two that share their snapshot.
Starts ==
    IF focus = "evaluation"
    THEN {[status |-> (p1 :> "absent") @@ (p2 :> "voided"),
           stored |-> {s \in MCSnapshots : s.id = 2}, lapses |-> 0],
          [status |-> (p1 :> "published") @@ (p2 :> "published"), stored |-> MCSnapshots,
           lapses |-> MaxLapses]}
    ELSE {[status |-> (p1 :> "absent") @@ (p2 :> "absent"), stored |-> {}, lapses |-> 0]}

-----------------------------------------------------------------------------
(* The monitor.                                                            *)

MCThresholds ==
    [heartbeat |-> 0, backup |-> 9, ntp |-> 9, job |-> 9, database |-> 1, offset |-> 1,
     ratio |-> 50]

Calm ==
    [heartbeat |-> 0, ntp |-> [observed |-> 0, synchronized |-> TRUE, offset |-> 0],
     database |-> TRUE, jobs |-> {}, ledger |-> {},
     config |-> [live |-> TRUE,
                 providers |->
                   "a" :> [enabled |-> TRUE, currency |-> "c",
                           limit |-> [daily |-> [amount |-> 2, calls |-> 2],
                                      monthly |-> [amount |-> 3, calls |-> 3]]]],
     backups |-> {[manifest |-> [supported |-> TRUE, created |-> 0, preserves |-> TRUE,
                                 sound |-> TRUE, content |-> "dump"],
                   artifact |-> "dump"]}]

\* The report at t when the heartbeat file says h.
Heard(h, t) ==
    LET seen == [Calm EXCEPT !.heartbeat = h]
    IN  Report(CollectOperationsEvidence(seen, t), seen.backups, t)

\* Two dispatchers that share the reports of a check that fails, recovers or
\* fails otherwise, and fails again; one dispatcher of two checks.
HealthStarts ==
    IF focus # "health"
    THEN {[world |-> Calm, checks |-> {}, dispatchers |-> {}, moves |-> 0, reports |-> {}]}
    ELSE
    {[world |-> Calm, checks |-> {"worker_heartbeat"}, dispatchers |-> Workers, moves |-> 0,
      reports |-> {Heard(Null, 0), r, s}] :
       r \in {Heard(1, 1), Heard(0, 1)}, s \in {Heard(Null, 2), Heard(Null, 1)}}
    \cup {[world |-> Calm, checks |-> {"worker_heartbeat", "provider_budgets"},
           dispatchers |-> {w1}, moves |-> 3, reports |-> {}]}

-----------------------------------------------------------------------------
(* The calls of the models.                                                *)


Providers == {"openai", "anthropic", "google"}

Registry(policy, pinned, currency) ==
    [content |-> "h", currency |-> "c", resolved |-> TRUE, daily |-> 30, monthly |-> 30,
     variants |->
       [p \in Providers |->
          [provider |-> p, model |-> "m", pinned |-> pinned, policy |-> policy, prompt |-> "p",
           maxInput |-> 9, maxOutput |-> 9, inputCost |-> 1, outputCost |-> 1,
           enabled |-> TRUE, resolved |-> TRUE, currency |-> currency]]]

\* The day's budget pays for two calls at the prices of the registry.
Config(policy, pinned, rate) ==
    [profile |-> "personal_home", reviewed |-> "h", live |-> TRUE, aiLive |-> TRUE,
     currency |-> "c", rate |-> rate,
     providers |->
       [p \in Providers |->
          [enabled |-> TRUE, model |-> "m", pinned |-> pinned, policy |-> policy,
           maxInput |-> 1, maxOutput |-> 2, daily |-> 6, monthly |-> 6, secret |-> p]]]

\* What a model writes: a sound forecast, and others.
Forecast(home, sets) ==
    [json |-> "object", pieces |-> 2, home |-> home,
     fields |-> {"home_win_probability", "set_score_probabilities", "rationale", "risk_factors"},
     sets |-> [i \in 1..6 |-> <<SetScoreHomeOrder[i], sets[i]>>]]

Sound == Forecast(2, <<1, 1, 0, 0, 0, 1>>)
Other == Forecast(2, <<1, 1, 0, 1, 0, 0>>)

Pieces(doc) == <<[of |-> doc, piece |-> 1], [of |-> doc, piece |-> 2]>>

\* Whole documents, and the start of one, one in the wrong order, and two mixed.
Texts ==
    {Pieces(doc) :
       doc \in {Sound, Other, Forecast(1, <<1, 1, 0, 0, 0, 1>>), Forecast(2, <<1, 1, 0, 0, 0, 0>>),
                Forecast(4, <<4, 0, 0, 0, 0, -1>>), [Sound EXCEPT !.fields = @ \cup {"market"}],
                [Sound EXCEPT !.sets = [i \in 1..6 |-> @[7 - i]]],
                [json |-> "non_finite", pieces |-> 2], [json |-> "array", pieces |-> 2]}}
    \cup {<<Pieces(Sound)[1]>>, <<Pieces(Sound)[2], Pieces(Sound)[1]>>,
          <<Pieces(Sound)[1], Pieces(Other)[2]>>}

Part(type, text) == [type |-> type, text |-> text]

Reply(parts, stop) ==
    [parts |-> parts, output |-> <<Null, parts>>, stop |-> stop, finish |-> stop,
     blocked |-> stop = "blocked"]

TextTypes == {"output_text", "text"}

\* A text in one part or in two, a refusal besides it, and nothing.
Contents ==
    LET t == Pieces(Sound)
    IN  {Reply(<<Part(k, x)>>, "end") : k \in TextTypes, x \in Texts}
        \cup {Reply(<<Part(k, <<t[1]>>), Part(k, Tail(t))>>, "end") : k \in TextTypes}
        \cup {Reply(<<Part(k, t), Part("refusal", Null)>>, "end") : k \in TextTypes}
        \cup {Reply(<<Part("text", t)>>, stop) : stop \in {"refusal", "SAFETY", "blocked"}}
        \cup {Reply(<<>>, "end")}

Usage(i, o) == [input |-> i, output |-> o]

Http(code, bytes, shape, model, usage, content) ==
    [kind |-> "http", status |-> code, bytes |-> bytes,
     body |-> [shape |-> shape, id |-> "r", model |-> model, usage |-> usage, content |-> content]]

Good == Reply(<<Part("text", Pieces(Sound))>>, "end")

MCMenus ==
    [any |->
       {Http(200, 1, "object", model, usage, content) :
          model \in {"m", "pin"}, usage \in {Usage(1, 1), Usage(2, 3)}, content \in Contents}
       \cup {Http(200, 1, "object", model, usage, Good) :
               model \in {"m", "pin", "old"}, usage \in {Usage(1, 1), Usage(2, 3), Null}}
       \cup {Http(200, 1, shape, "pin", Usage(1, 1), Good) : shape \in {"non_finite", "broken"}}
       \cup {Http(x[1], x[2], "object", "pin", Usage(1, 1), Good) :
               x \in {<<200, 3>>, <<302, 1>>, <<500, 1>>}}
       \cup {[kind |-> "timeout"], [kind |-> "error"]},
     two |-> {Http(200, 1, "object", "pin", Usage(1, o), Good) : o \in {0, 1}}]

\* One call with any answer, also where the plan is refused; and two callers
\* that share the account, and whose answers may come late.
CallStarts ==
    LET start(policy, pinned, money, secrets, callers, calls, menu) ==
          LET config == Config(policy, pinned, money[1])
              registry == Registry(policy, pinned, money[2])
          IN  [config |-> config, registry |-> registry, callers |-> callers, calls |-> calls,
               plan |-> BuildLiveProviderPlan(config, registry, secrets), sizes |-> {1, 2},
               menu |-> menu]
    IN  IF focus # "calls" THEN {[callers |-> {}, plan |-> <<>>]} ELSE
        {start(x[1], x[2], money, Providers, {w1}, 1, "any") :
           x \in {<<"immutable_model_id", "m">>, <<"verify_resolved_model_id", "pin">>},
           money \in {<<Null, "c">>, <<2, "d">>, <<2, "c">>}}
        \cup {start("immutable_model_id", "pin", <<Null, "c">>, Providers, {w1}, 1, "any"),
              start("immutable_model_id", "m", <<Null, "c">>, {"openai"}, {w1}, 1, "any"),
              [start("verify_resolved_model_id", "pin", <<Null, "c">>, Providers, Workers, 2, "two")
                EXCEPT !.sizes = {1}]}

-----------------------------------------------------------------------------
(* The relay to a provider.                                                *)

Connect ==
    [size |-> 1, complete |-> TRUE, wellFormed |-> TRUE, method |-> "CONNECT",
     version |-> "HTTP/1.1", host |-> "host", port |-> 443, headersSound |-> TRUE]

\* Three connections for two slots; addresses that are not reached or not public.
Loads ==
    IF focus # "relay" THEN {[clients |-> {}, requests |-> {}, found |-> {}]} ELSE
    {[clients |-> {1, 2, 3},
      requests |->
        {Connect, [Connect EXCEPT !.size = 2], [Connect EXCEPT !.method = "GET"],
         [Connect EXCEPT !.port = 80], [Connect EXCEPT !.headersSound = FALSE]},
      found |->
        {[addresses |-> <<"a", "b">>, reachable |-> r] : r \in {{"b"}, {}}}
        \cup {[addresses |-> <<"a", "x">>, reachable |-> {"a", "x"}]}]}

-----------------------------------------------------------------------------
(* The read API.                                                           *)

Booked(day, at) == [day |-> day, at |-> at]

Made(m, revision, snapshot, provider, at, succeeded) ==
    [match |-> m, revision |-> revision, snapshot |-> [id |-> snapshot, cutoff |-> 1],
     provider |-> provider, at |-> at, succeeded |-> succeeded]

Asked(endpoint, provider, limit) ==
    [endpoint |-> endpoint, day |-> 1, provider |-> provider, limit |-> limit]

Published(records) ==
    LET made == SelectSeq(<<1, 2, 3>>, LAMBDA i : i \in DOMAIN records /\ records[i].succeeded)
    IN  [n \in DOMAIN made |-> [record |-> made[n], type |-> "published"]]

Tables(starts, records, revoked, queries, writes, arrivals) ==
    [starts |-> starts, records |-> records, evaluations |-> 0, writes |-> writes,
     queries |-> queries, arrivals |-> arrivals,
     events |-> Published(records) \o [n \in DOMAIN revoked |->
                                       [record |-> revoked[n], type |-> "voided"]]]

\* Any three records of one match, at rest; and two matches that start at once,
\* or whose first forecast is of an old schedule, while the worker writes.
Databases ==
    IF focus # "reads" THEN {Tables(<<>>, <<>>, <<>>, {}, 0, {})} ELSE
    LET one == m1 :> <<Booked(1, 1)>>
        menu(at) == {Made(m1, 1, s, p, at, b) : s \in {1, 2}, p \in {"x", "y"}, b \in BOOLEAN}
        arrivals == {Made(m1, 1, 1, "x", n, b) : n \in {0, 1}, b \in BOOLEAN}
        queries == {Asked("schedule", Null, 1), Asked("schedule", "x", 1),
                    Asked("predictions", Null, 1), Asked("predictions", "x", 1),
                    Asked("predictions", Null, 2)}
    IN  {Tables(one, <<a, b, c>>, IF a.succeeded /\ revoked THEN <<1>> ELSE <<>>,
                {Asked("schedule", Null, 1), Asked("schedule", "x", 1)}, 0, {}) :
           a \in menu(1), b \in menu(2), c \in menu(1), revoked \in BOOLEAN}
        \cup
        {Tables((m1 :> starts) @@ (m2 :> <<Booked(1, 1)>>),
                <<Made(m1, 1, 1, "x", 1, TRUE), Made(m2, 1, 1, "x", 1, second),
                  Made(m2, 1, 1, "y", 1, TRUE)>>,
                <<>>, queries, IF second THEN 2 ELSE 1, arrivals) :
           starts \in {<<Booked(1, 1)>>, <<Booked(1, 1), Booked(1, 2)>>}, second \in BOOLEAN}

-----------------------------------------------------------------------------
(* The pure parts.                                                         *)

ScorePoints == 0..3
ShownScores == {<<Null, Null>>} \cup (ScorePoints \X ScorePoints) \cup {<<1, Null>>}
LastScores == {<<Null, Null>>, <<0, 0>>, <<2, 0>>, <<0, 2>>, <<3, 1>>, <<3, 0>>, <<2, 1>>, <<Null, 2>>}

Total(sets, side) ==
    LET of(n) == IF n \in DOMAIN sets /\ sets[n][side] # Null THEN sets[n][side] ELSE 0
    IN  of(1) + of(2) + of(3)

\* The totals that add up, or are off by some points, or absent.
ShownTotals(sets, off) ==
    IF off = Null THEN <<Null, Null>> ELSE <<Total(sets, 1) + off, Total(sets, 2)>>

\* Matches of up to three sets, and one of a season without a rule.
MCScoresheets ==
    {Row("unknown", m1, t2, <<<<2, 0>>>>, <<2, 0>>)} \cup
    {Row("long", m1, t2, sets, ShownTotals(sets, off)) :
       sets \in ShownScores \X ShownScores \X LastScores, off \in {0, 1, Null}}

\* Two models and the home rate, of which one forecasts two matches.
Forecasters ==
    {[name |-> "a", match |-> m1, provider |-> "ai", model |-> "m", home |-> 2],
     [name |-> "b", match |-> m2, provider |-> "ai", model |-> "m", home |-> 1],
     [name |-> "c", match |-> m1, provider |-> "ai", model |-> "n", home |-> 3],
     [name |-> "h", match |-> m1, provider |-> "baseline", model |-> "home_rate", home |-> 2]}

\* Identifiers do not follow the revisions.
IdOf == ("a" :> 4) @@ ("b" :> 1) @@ ("c" :> 3) @@ ("h" :> 2)

Scoring(f, revision, finality, eligible, outcome, odds) ==
    [id |-> 4 * revision + IdOf[f.name], prediction |-> f.name, match |-> f.match, input |-> "i",
     revision |-> revision, evaluator |-> "v", policy |-> "v", type |-> "independent",
     cohort |-> [scope |-> "s", finality |-> finality, provider |-> f.provider,
                 model |-> f.model, prompt |-> "p"],
     eligible |-> eligible, home |-> f.home, outcome |-> outcome,
     brier |-> BinaryBrier(f.home, outcome),
     accuracy |-> BinaryAccuracy(f.home, outcome), odds |-> odds, market |-> "available"]

\* Two forecasts evaluated for some revisions of their result, and two for both
\* or not at all.  The second revision finds the same winner or the other one.
MCHistories ==
    {{Scoring(f, r, IF r = 1 THEN "provisional" ELSE second, f.name # "a" \/ eligible,
                 IF r = 1 THEN 1 ELSE outcome, odds) :
        <<f, r>> \in {x \in Forecasters \X {1, 2} : x[2] \in done[x[1].name]}} :
       done \in {d \in [{"a", "b", "c", "h"} -> SUBSET {1, 2}] :
                   {d["b"], d["h"]} \subseteq {{}, {1, 2}}},
       second \in {"final", "corrected"},
       eligible \in BOOLEAN, outcome \in {0, 1}, odds \in {Null, [home |-> 2, away |-> 4]}}

-----------------------------------------------------------------------------
Init ==
    /\ focus \in Focuses
    /\ SyncInit(Plans)
    /\ EvaluationInit(Starts)
    /\ HealthInit(HealthStarts)
    /\ EgressInit(Loads)
    /\ CallInit(CallStarts)
    /\ ReadInit(Databases)
    /\ ScoringInit
    /\ ParserInit
    /\ PerformanceInit

pureVars == <<scoring, scoresheet, pageVars>>

Next ==
    /\ UNCHANGED focus
    /\ \/ /\ focus \in {"sync", "backfill", "history"}
          /\ SyncNext
          /\ UNCHANGED <<evaluationVars, healthVars, callVars, egressVars, readVars, pureVars>>
       \/ /\ focus = "evaluation"
          /\ EvaluationNext
          /\ UNCHANGED <<syncVars, healthVars, callVars, egressVars, readVars, pureVars>>
       \/ /\ focus = "health"
          /\ HealthNext
          /\ UNCHANGED <<syncVars, evaluationVars, callVars, egressVars, readVars, pureVars>>
       \/ /\ focus = "calls"
          /\ CallNext
          /\ UNCHANGED <<syncVars, evaluationVars, healthVars, egressVars, readVars, pureVars>>
       \/ /\ focus = "relay"
          /\ EgressNext
          /\ UNCHANGED <<syncVars, evaluationVars, healthVars, callVars, readVars, pureVars>>
       \/ /\ focus = "reads"
          /\ ReadNext
          /\ UNCHANGED <<syncVars, evaluationVars, healthVars, callVars, egressVars, pureVars>>
       \/ /\ focus = "scores"
          /\ ScoreForecast
          /\ UNCHANGED <<syncVars, evaluationVars, healthVars, callVars, egressVars, readVars, scoresheet, pageVars>>
       \/ /\ focus = "parser"
          /\ ReadScoresheet
          /\ UNCHANGED <<syncVars, evaluationVars, healthVars, callVars, egressVars, readVars, scoring, pageVars>>
       \/ /\ focus = "performance"
          /\ ReadPerformance
          /\ UNCHANGED <<syncVars, evaluationVars, healthVars, callVars, egressVars, readVars, scoring, scoresheet>>

vars == <<focus, pureVars, syncVars, evaluationVars, healthVars, callVars, egressVars, readVars>>

Spec == Init /\ [][Next]_vars

Symmetry == Permutations(Workers)
=============================================================================
