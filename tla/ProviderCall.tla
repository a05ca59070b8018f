---------------------------- MODULE ProviderCall ----------------------------
(***************************************************************************)
(* One call of a model: engine/providers/base.py (predict), adapters.py    *)
(* and transports.py.  The request is sent by a thread of its own, which   *)
(* hands its answer over in a queue of one place; the caller waits for it  *)
(* only so long, and the thread goes on.  The account is the interface     *)
(* BudgetAccount, here BudgetLedger; ProviderBudget has the durable one.   *)
(*                                                                         *)
(* A text is a sequence of pieces of a document, and stands for that       *)
(* document if they are all its pieces, in order; it is never empty.  A    *)
(* probability is a number of parts of Parts.                              *)
(***************************************************************************)
EXTENDS ScoreRules, ProviderPlan

CONSTANTS MaxBytes,     \* max_response_bytes
          Menus         \* named sets of answers a provider may give

VARIABLES live,     \* what is configured, and the plan that follows
          account,  \* BudgetLedger: cap, spent, reserved
          call,     \* of each caller: the call it makes, numbered
          threads,  \* what the sender of each call got
          queues,   \* what it handed over
          outcomes  \* PredictionAttemptResult, of each finished call

NoCall == [phase |-> "idle", number |-> 0, provider |-> Null]

CallInit(starts) ==
    /\ live \in starts
    /\ account = [cap |-> Max({0} \cup {live.plan[p].daily : p \in DOMAIN live.plan}),
                  spent |-> 0, reserved |-> 0]
    /\ call = [c \in live.callers |-> NoCall]
    /\ threads = <<>> /\ queues = <<>> /\ outcomes = <<>>

With(f, k, value) == [x \in DOMAIN f \cup {k} |-> IF x = k THEN value ELSE f[x]]

Without(f, k) == [x \in DOMAIN f \ {k} |-> f[x]]

-----------------------------------------------------------------------------
(* The account.                                                            *)

CanReserve(amount) == account.spent + account.reserved + amount <= account.cap

Reserving(amount) == [account EXCEPT !.reserved = @ + amount]

Settled(reserved, actual) ==
    [account EXCEPT !.reserved = @ - reserved, !.spent = @ + actual]

Cost(v, usage) == usage.input * v.inputCost + usage.output * v.outputCost

-----------------------------------------------------------------------------
(* Reading an answer.                                                      *)

\* parse_response_metadata: who answered, and at what usage.
HasMetadata(body) ==
    /\ body.shape = "object"
    /\ body.id # Null /\ body.model # Null /\ body.usage # Null

\* The text of the parts of these types, in their order.
TextOf(parts, types) ==
    FoldLeft(LAMBDA text, part : IF part.type \in types THEN text \o part.text ELSE text,
             <<>>, parts)

Refuses(parts) == \E i \in DOMAIN parts : parts[i].type = "refusal"

Parsed(text, refused) == [text |-> text, refused |-> refused]

Malformed == [text |-> Null, refused |-> FALSE]

OpenAIResponse(content) ==
    LET parts == FlattenSeq(SelectSeq(content.output, LAMBDA item : item # Null))
    IN  IF content.output = <<>> \/ <<>> \in Range(content.output) THEN Malformed
        ELSE Parsed(TextOf(parts, {"output_text"}), Refuses(parts))

AnthropicResponse(content) ==
    IF content.parts = <<>> THEN Malformed
    ELSE Parsed(TextOf(content.parts, {"text"}),
                Refuses(content.parts) \/ content.stop = "refusal")

\* A part is text when it has a text.
GoogleResponse(content) ==
    IF content.blocked THEN Parsed(<<>>, TRUE)
    ELSE IF content.finish \in {"SAFETY", "BLOCKLIST", "PROHIBITED_CONTENT", "RECITATION"}
         THEN Parsed(<<>>, TRUE)
         ELSE IF content.parts = <<>> THEN Malformed
              ELSE Parsed(TextOf(content.parts, {"text"}), FALSE)

ParseResponse(provider, content) ==
    CASE provider = "openai" -> OpenAIResponse(content)
      [] provider = "anthropic" -> AnthropicResponse(content)
      [] provider = "google" -> GoogleResponse(content)

\* The document a text stands for.
IsWhole(text) ==
    1 \in DOMAIN text /\ \A i \in DOMAIN text : text[i].of = text[1].of /\ text[i].piece = i

StrictJsonObject(text) ==
    IF IsWhole(text) /\ Len(text) = text[1].of.pieces THEN text[1].of
    ELSE [json |-> "broken"]

Fields == {"home_win_probability", "set_score_probabilities", "rationale", "risk_factors"}

Probability(p) == p \in 0..Parts

\* prediction-v1 and _validate_semantics, as far as they concern a forecast
\* of a model; what predict itself writes into the document holds.
InRange(core) ==
    /\ core.fields \ {"confidence_note"} = Fields
    /\ Probability(core.home)
    /\ \A i \in DOMAIN core.sets : Probability(core.sets[i][2])
    /\ [i \in DOMAIN core.sets |-> core.sets[i][1]] = SetScoreHomeOrder

Mass(core, n) == SumFunctionOnSet([i \in 1..n |-> core.sets[i][2]], 1..n)

OutputFailure(core) ==
    CASE core.json = "broken" -> "invalid_json"
      [] core.json = "non_finite" -> "non_finite_probability"
      [] OTHER ->
           IF core.json # "object" \/ ~InRange(core) THEN "invalid_output"
           ELSE IF Mass(core, 6) # Parts THEN "invalid_probability_sum"
                ELSE IF Mass(core, 3) # core.home THEN "invalid_output" ELSE Null

\* _version_failure.
VersionFailure(v, resolved) ==
    CASE v.policy = "immutable_model_id" -> IF resolved = v.model THEN Null ELSE "alias_drift"
      [] v.policy = "verify_resolved_model_id" ->
           IF resolved = v.model THEN "version_unverified"
           ELSE IF resolved = v.pinned THEN Null ELSE "alias_drift"

\* What predict concludes from metadata it could read.
ContentFailure(v, body) ==
    IF body.usage.input > v.maxInput \/ body.usage.output > v.maxOutput THEN "provider_error"
    ELSE IF VersionFailure(v, body.model) # Null THEN VersionFailure(v, body.model)
         ELSE LET parsed == ParseResponse(v.provider, body.content)
              IN  IF parsed = Malformed THEN "invalid_json"
                  ELSE IF parsed.refused \/ parsed.text = <<>> THEN "refusal"
                       ELSE OutputFailure(StrictJsonObject(parsed.text))

\* _failure, and a success where there is no code.
Outcome(provider, status, code, cost, output) ==
    [provider |-> provider, status |-> IF code = Null THEN "succeeded" ELSE status,
     code |-> code, cost |-> cost, output |-> output]

Concluded(v, code, cost, body) ==
    Outcome(v.provider, "failed", code, cost,
            IF code = Null
            THEN StrictJsonObject(ParseResponse(v.provider, body.content).text) ELSE Null)

\* What follows from what the queue held.
Verdict(v, answer) ==
    CASE answer.kind = "timeout" ->
           Outcome(v.provider, "failed", "timeout", MaximumCallCost(v), Null)
      [] answer.kind = "error" ->
           Outcome(v.provider, "failed", "provider_error", MaximumCallCost(v), Null)
      [] answer.kind = "body" ->
           IF answer.body.shape = "non_finite"
           THEN Outcome(v.provider, "failed", "non_finite_probability", MaximumCallCost(v), Null)
           ELSE IF ~HasMetadata(answer.body)
                THEN Outcome(v.provider, "failed", "invalid_json", MaximumCallCost(v), Null)
                ELSE Concluded(v, ContentFailure(v, answer.body), Cost(v, answer.body.usage),
                               answer.body)

-----------------------------------------------------------------------------
(* The steps.                                                              *)

Id(c) == <<c, call[c].number>>

\* Seeded fault: the queue belongs to the caller and not to the call.
QueueOfCaller(id) == id[1]

QueueOf(id) == id

Variant(c) == live.plan[call[c].provider].variant

\* What the adapters put into a request; none of it may be a capability.
RequestFields(provider) ==
    CASE provider = "openai" -> {"model", "service_tier", "input", "max_output_tokens", "text"}
      [] provider = "anthropic" -> {"model", "system", "messages", "max_tokens", "output_config"}
      [] provider = "google" -> {"systemInstruction", "contents", "generationConfig"}

Forbidden == {"tools", "tool_choice", "web_search", "google_search", "grounding"}

\* Why a call is not made at all; size is that of the request, in bytes.
Skip(v, size) ==
    IF RequestFields(v.provider) \cap Forbidden # {} THEN "input_policy_violation"
    ELSE IF ~Operational(v) \/ v.prompt # PromptTemplate THEN "config_unresolved"
         ELSE IF size > v.maxInput THEN "input_too_large"
              ELSE IF CanReserve(MaximumCallCost(v)) THEN Null ELSE "budget_skipped"

Begin(c, provider, phase) ==
    call' = [call EXCEPT ![c] = [phase |-> phase, number |-> @.number + 1, provider |-> provider]]

NextId(c) == <<c, call[c].number + 1>>

\* predict, up to the moment the thread runs.
SkipCall(c, provider, size) ==
    /\ call[c].phase = "idle" /\ call[c].number < live.calls
    /\ \E code \in {Skip(live.plan[provider].variant, size)} :
         /\ code # Null
         /\ outcomes' = With(outcomes, NextId(c), Outcome(provider, "skipped", code, 0, Null))
    /\ Begin(c, provider, "idle")
    /\ UNCHANGED <<live, account, threads, queues>>

Dispatch(c, provider, size) ==
    /\ call[c].phase = "idle" /\ call[c].number < live.calls
    /\ Skip(live.plan[provider].variant, size) = Null
    /\ account' = Reserving(MaximumCallCost(live.plan[provider].variant))
    /\ threads' = With(threads, NextId(c), Null)
    /\ Begin(c, provider, "waiting")
    /\ UNCHANGED <<live, queues, outcomes>>

\* _PinnedHTTPTransport.send: only a response of 2xx within the limit is a body.
Received(response) ==
    IF response.kind # "http" THEN response
    ELSE IF response.bytes > MaxBytes \/ response.status \notin 200..299 THEN [kind |-> "error"]
         ELSE [kind |-> "body", body |-> response.body]

\* invoke, in the thread of a call, also when nobody waits any more.
Send(id, response) ==
    /\ threads[id] = Null
    /\ QueueOf(id) \notin DOMAIN queues
    /\ threads' = [threads EXCEPT ![id] = Received(response)]
    /\ queues' = With(queues, QueueOf(id), Received(response))
    /\ UNCHANGED <<live, account, call, outcomes>>

FinishCall(c, outcome) ==
    /\ account' = Settled(MaximumCallCost(Variant(c)), outcome.cost)
    /\ outcomes' = With(outcomes, Id(c), outcome)
    /\ call' = [call EXCEPT ![c].phase = "idle"]

Take(c) ==
    /\ call[c].phase = "waiting"
    /\ QueueOf(Id(c)) \in DOMAIN queues
    /\ FinishCall(c, Verdict(Variant(c), queues[QueueOf(Id(c))]))
    /\ queues' = Without(queues, QueueOf(Id(c)))
    /\ UNCHANGED <<live, threads>>

\* queue.Empty: the wall clock of the call has run out.
TimeOut(c) ==
    /\ call[c].phase = "waiting"
    /\ QueueOf(Id(c)) \notin DOMAIN queues
    /\ FinishCall(c, Verdict(Variant(c), [kind |-> "timeout"]))
    /\ UNCHANGED <<live, threads, queues>>

CallNext ==
    \/ \E c \in live.callers, provider \in DOMAIN live.plan, size \in live.sizes :
         SkipCall(c, provider, size) \/ Dispatch(c, provider, size)
    \/ \E id \in DOMAIN threads : \E response \in Menus[live.menu] : Send(id, response)
    \/ \E c \in live.callers : Take(c) \/ TimeOut(c)

callVars == <<live, account, call, threads, queues, outcomes>>

CallSpec(starts) == CallInit(starts) /\ [][CallNext]_callVars

-----------------------------------------------------------------------------
(* Properties.                                                             *)

Waiting == {c \in live.callers : call[c].phase = "waiting"}

\* What a token costs in the currency of the budget.
Tariff(p) ==
    LET v == live.registry.variants[p]
        rate == IF v.currency = live.config.currency THEN 1 ELSE live.config.rate
    IN  [input |-> v.inputCost * rate, output |-> v.outputCost * rate]

Bill(p, usage) == usage.input * Tariff(p).input + usage.output * Tariff(p).output

Most(p) ==
    Bill(p, [input |-> live.config.providers[p].maxInput,
             output |-> live.config.providers[p].maxOutput])

\* A document the model meant as its answer, and a sound forecast.
SoundForecast(core) ==
    /\ core.json = "object"
    /\ SetProbabilities([s \in Range(SetScoreHomeOrder) |->
                           SumFunctionOnSet([i \in DOMAIN core.sets |-> core.sets[i][2]],
                                            {i \in DOMAIN core.sets : core.sets[i][1] = s})])
    /\ core.home = Mass(core, 3)

\* Of a call that was made, what its own thread was told in time.
Told(id) == IF threads[id] = Null THEN [kind |-> "timeout"] ELSE threads[id]

Billable(id) == Told(id).kind = "body" /\ HasMetadata(Told(id).body)

\* The one document an answer consists of.
Meant(p, body) ==
    CHOOSE core \in {piece.of : piece \in Range(ParseResponse(p, body.content).text)} : TRUE

\* However an answer comes, late, twice over, cut short, refused or from
\* another model: what a call is charged is known from its own answer, or is
\* the most it can cost; what waits is reserved and nothing else; and only
\* a whole, sound forecast of the agreed model, answered to this very call,
\* is a success.
ProviderCallSettled ==
    /\ account.reserved = SumFunctionOnSet([c \in Waiting |-> Most(call[c].provider)], Waiting)
    /\ account.spent = SumFunctionOnSet([id \in DOMAIN outcomes |-> outcomes[id].cost],
                                        DOMAIN outcomes)
    /\ \A id \in DOMAIN outcomes :
         LET o == outcomes[id]
             p == o.provider
         IN  /\ o.status = "skipped" <=> id \notin DOMAIN threads
             /\ o.status = "skipped" => o.cost = 0
             /\ id \in DOMAIN threads /\ o.cost # Most(p) =>
                  Billable(id) /\ o.cost = Bill(p, Told(id).body.usage)
             /\ o.status = "succeeded" =>
                  /\ Billable(id)
                  /\ o.cost = Bill(p, Told(id).body.usage) /\ o.cost <= Most(p)
                  /\ Told(id).body.model = live.config.providers[p].pinned
                  /\ o.output = Meant(p, Told(id).body)
                  /\ SoundForecast(o.output)
=============================================================================
