--------------------------- MODULE ProviderProofs ---------------------------
(***************************************************************************)
(* What is proved of the calls to the providers and of the relay they pass *)
(* through.                                                                *)
(*                                                                         *)
(* ProviderCallSettled, for any number of callers, any registry, plan and  *)
(* answers, over the plans build_live_provider_plan makes (SoundCalls).    *)
(* Its invariant counts: what the account has reserved is the sum of the   *)
(* most that the calls in flight can cost, and what was spent is the sum   *)
(* of the outcomes.                                                        *)
(*                                                                         *)
(* SlotsBalance, for any number of connections, slots and addresses, and   *)
(* without a bound on the clock.  Its invariant says what a connection     *)
(* holds in each phase (Held) and that a cut connection was idle           *)
(* (CutIsIdle).  Every step of handle_client replaces the state of one     *)
(* connection, so that one lemma, OneMoves, carries all of them; only the  *)
(* slots need counting.                                                    *)
(***************************************************************************)
EXTENDS ProviderCall, ProviderEgress, SetSums

-----------------------------------------------------------------------------
(* A call: what it is planned with.                                        *)

\* FailureCode, as far as a call knows it.
FailureCodes ==
    {"input_policy_violation", "config_unresolved", "input_too_large", "budget_skipped", "timeout",
     "provider_error", "non_finite_probability", "invalid_json", "alias_drift",
     "version_unverified", "refusal", "invalid_output", "invalid_probability_sum"}

\* None is neither a code nor a number.
NullIsNoCode == Null \notin FailureCodes \cup Nat

Policies == {"immutable_model_id", "verify_resolved_model_id", "unconfigured"}

VariantFields ==
    {"provider", "model", "pinned", "policy", "maxInput", "maxOutput", "inputCost", "outputCost",
     "currency"}

\* An answer that the network can give.
SoundResponse(response) ==
    /\ response.kind \in {"http", "error", "timeout"}
    /\ response.kind = "http" /\ response.body.usage # Null =>
         response.body.usage.input \in Nat /\ response.body.usage.output \in Nat
    /\ Received(response) # Null

\* A plan as build_live_provider_plan makes it, of a registry and a configuration
\* whose amounts are numbers where the plan uses them.
SoundCalls(start) ==
    /\ IsFiniteSet(start.callers) /\ IsFiniteSet(DOMAIN start.registry.variants)
    /\ \E secrets : start.plan = BuildLiveProviderPlan(start.config, start.registry, secrets)
    /\ start.config.rate \in Nat \cup {Null}
    /\ \A p \in DOMAIN start.plan :
         LET v == start.registry.variants[p]
         IN  /\ VariantFields \subseteq DOMAIN v
             /\ v.provider = p /\ v.policy \in Policies
             /\ v.inputCost \in Nat /\ v.outputCost \in Nat
             /\ start.config.providers[p].maxInput \in Nat
             /\ start.config.providers[p].maxOutput \in Nat
    /\ \A response \in Menus[start.menu] : SoundResponse(response)

\* A variant as it is planned for a provider.
Planned(v, p) ==
    /\ v.provider = p
    /\ v.maxInput = live.config.providers[p].maxInput /\ v.maxInput \in Nat
    /\ v.maxOutput = live.config.providers[p].maxOutput /\ v.maxOutput \in Nat
    /\ v.inputCost = Tariff(p).input /\ v.inputCost \in Nat
    /\ v.outputCost = Tariff(p).output /\ v.outputCost \in Nat
    /\ v.pinned = live.config.providers[p].pinned
    /\ v.policy \in Policies \ {"unconfigured"}
    /\ v.policy = "immutable_model_id" => v.model = v.pinned

LEMMA OneCurrency ==
    ASSUME NEW config, NEW registry, IsFiniteSet(DOMAIN registry.variants),
           NEW p \in EnabledVariants(registry),
           config.rate \in Nat \cup {Null}, Null \notin Nat,
           PricingToBudgetRate(config, registry) # Null
    PROVE  /\ PricingToBudgetRate(config, registry) \in Nat
           /\ PricingToBudgetRate(config, registry) =
                IF registry.variants[p].currency = config.currency THEN 1 ELSE config.rate
<1> PICK prices : prices = PricingCurrencies(registry)
  OBVIOUS
<1>1. registry.variants[p].currency \in prices
  BY DEF PricingCurrencies
<1>2. CASE prices = {config.currency}
  <2>1. registry.variants[p].currency = config.currency
    BY <1>1, <1>2
  <2>2. PricingToBudgetRate(config, registry) = 1
    BY <1>2 DEF PricingToBudgetRate
  <2> QED
    BY <2>1, <2>2
<1>3. CASE prices # {config.currency}
  <2>1. PricingToBudgetRate(config, registry) = config.rate /\ Cardinality(prices) = 1
    BY <1>3 DEF PricingToBudgetRate
  <2>2. IsFiniteSet(prices)
    <3> DEFINE enabled == EnabledVariants(registry)
               quoted == [x \in enabled |-> registry.variants[x].currency]
    <3>1. IsFiniteSet(enabled)
      BY FS_Subset DEF EnabledVariants
    <3>2. quoted \in Surjection(enabled, prices)
      BY DEF Surjection, PricingCurrencies
    <3> QED
      BY <3>1, <3>2, FS_Surjection
  <2>3. PICK c : prices = {c}
    BY <2>1, <2>2, FS_Singleton
  <2>4. registry.variants[p].currency # config.currency
    BY <1>1, <1>3, <2>3
  <2> QED
    BY <2>1, <2>4
<1> QED
  BY <1>2, <1>3

\* A plan keeps tokens, prices and identity as they were agreed.
LEMMA PlanIsAgreed ==
    ASSUME SoundCalls(live), NullIsNoCode, NEW p \in DOMAIN live.plan
    PROVE  Planned(live.plan[p].variant, p)
<1> PICK config : config = live.config
  OBVIOUS
<1> PICK registry : registry = live.registry
  OBVIOUS
<1> PICK v : v = registry.variants[p]
  OBVIOUS
<1> PICK chosen : chosen = config.providers[p]
  OBVIOUS
<1> PICK rate : rate = PricingToBudgetRate(config, registry)
  OBVIOUS
<1> PICK made : made = live.plan[p].variant
  OBVIOUS
<1>s. /\ VariantFields \subseteq DOMAIN v /\ v.provider = p /\ v.policy \in Policies
      /\ v.inputCost \in Nat /\ v.outputCost \in Nat
      /\ chosen.maxInput \in Nat /\ chosen.maxOutput \in Nat
      /\ config.rate \in Nat \cup {Null} /\ IsFiniteSet(DOMAIN registry.variants)
  BY DEF SoundCalls
<1>1. PICK secrets : live.plan = BuildLiveProviderPlan(config, registry, secrets)
  BY DEF SoundCalls
<1>2. /\ Agree(config, registry, secrets) /\ p \in ConfiguredProviders(config)
      /\ made = PlannedVariant(chosen, v, rate, config.currency)
  BY <1>1 DEF BuildLiveProviderPlan
<1>3. /\ made.provider = p /\ made.policy = v.policy /\ made.pinned = v.pinned
      /\ made.model = v.model
      /\ made.maxInput = chosen.maxInput /\ made.maxOutput = chosen.maxOutput
      /\ made.inputCost = v.inputCost * rate /\ made.outputCost = v.outputCost * rate
  BY <1>2, <1>s DEF PlannedVariant, VariantFields
<1>4. /\ p \in EnabledVariants(registry) /\ rate # Null /\ SameIdentity(chosen, v)
      /\ Operational(v) /\ ValidVariant(v)
  BY <1>2 DEF Agree, LiveReady, ValidRegistry, EnabledVariants
<1>5. rate \in Nat /\ rate = IF v.currency = config.currency THEN 1 ELSE config.rate
  BY <1>4, <1>s, OneCurrency DEF NullIsNoCode
<1>6. v.inputCost * rate \in Nat /\ v.outputCost * rate \in Nat
  BY <1>5, <1>s
<1>7. Tariff(p).input = v.inputCost * rate /\ Tariff(p).output = v.outputCost * rate
  BY <1>5 DEF Tariff
<1>8. /\ v.policy # "unconfigured"
      /\ v.policy = "immutable_model_id" => v.model = v.pinned
      /\ chosen.pinned = v.pinned
  BY <1>4 DEF ValidVariant, SameIdentity
<1>9. chosen = live.config.providers[p]
  OBVIOUS
<1>10. made.inputCost \in Nat /\ made.outputCost \in Nat
  BY ONLY <1>3, <1>6
<1>11. made.inputCost = Tariff(p).input /\ made.outputCost = Tariff(p).output
  BY ONLY <1>3, <1>7
<1>12. Planned(made, p)
  BY ONLY <1>3, <1>8, <1>9, <1>10, <1>11, <1>s DEF Planned
<1> QED
  BY <1>12

\* What a planned call costs, and can cost at most.
LEMMA PlannedCosts ==
    ASSUME NEW v, NEW p, Planned(v, p)
    PROVE  /\ MaximumCallCost(v) = Most(p) /\ Most(p) \in Nat
           /\ \A usage : Cost(v, usage) = Bill(p, usage)
<1>1. \A x, y \in Nat : x * y \in Nat
  OBVIOUS
<1>2. /\ v.maxInput * v.inputCost \in Nat /\ v.maxOutput * v.outputCost \in Nat
  BY <1>1 DEF Planned
<1> QED
  BY <1>2 DEF Planned, MaximumCallCost, Most, Bill, Cost

LEMMA BillWithin ==
    ASSUME NEW v, NEW p, Planned(v, p), NEW usage, usage.input \in Nat, usage.output \in Nat
    PROVE  /\ Bill(p, usage) \in Nat
           /\ usage.input <= v.maxInput /\ usage.output <= v.maxOutput => Bill(p, usage) <= Most(p)
<1>1. \A x, y, z \in Nat : x * z \in Nat /\ y * z \in Nat /\ (x <= y => x * z <= y * z)
  OBVIOUS
<1> PICK a : a = v.inputCost
  OBVIOUS
<1> PICK b : b = v.outputCost
  OBVIOUS
<1>2. a \in Nat /\ b \in Nat /\ v.maxInput \in Nat /\ v.maxOutput \in Nat
  BY DEF Planned
<1>3. /\ Bill(p, usage) = usage.input * a + usage.output * b
      /\ Most(p) = v.maxInput * a + v.maxOutput * b
  BY DEF Planned, Bill, Most
<1>4. /\ usage.input * a \in Nat /\ v.maxInput * a \in Nat
      /\ usage.input <= v.maxInput => usage.input * a <= v.maxInput * a
  BY <1>1, <1>2
<1>5. /\ usage.output * b \in Nat /\ v.maxOutput * b \in Nat
      /\ usage.output <= v.maxOutput => usage.output * b <= v.maxOutput * b
  BY <1>1, <1>2
<1> QED
  BY <1>3, <1>4, <1>5

-----------------------------------------------------------------------------
(* A call: what is made of an answer.                                      *)

\* The scores of SET_SCORE_HOME_ORDER are six.
LEMMA SixScores ==
    /\ DOMAIN SetScoreHomeOrder = 1..6
    /\ \A i, j \in 1..6 : SetScoreHomeOrder[i] = SetScoreHomeOrder[j] => i = j
<1> PICK t : t = SetScoreHomeOrder
  OBVIOUS
<1>1. /\ DOMAIN t = 1..6
      /\ t[1] = <<3, 0>> /\ t[2] = <<3, 1>> /\ t[3] = <<3, 2>>
      /\ t[4] = <<2, 3>> /\ t[5] = <<1, 3>> /\ t[6] = <<0, 3>>
  BY DEF SetScoreHomeOrder
<1>2. ASSUME NEW i \in 1..6
      PROVE  t[i][1] * 10 + t[i][2] = IF i = 1 THEN 30 ELSE IF i = 2 THEN 31
               ELSE IF i = 3 THEN 32 ELSE IF i = 4 THEN 23 ELSE IF i = 5 THEN 13 ELSE 3
  BY <1>1
<1>3. \A i, j \in 1..6 : t[i] = t[j] => i = j
  BY <1>2
<1> QED
  BY <1>1, <1>3

\* A core that passed all checks is a sound forecast: its parts belong to the
\* six scores, each once, and add up.
LEMMA CheckedIsSound ==
    ASSUME NEW core, NullIsNoCode, OutputFailure(core) = Null
    PROVE  core.json = "object" /\ SoundForecast(core)
<1>1. core.json = "object" /\ InRange(core) /\ Mass(core, 6) = Parts /\ Mass(core, 3) = core.home
  <2>1. CASE core.json \in {"broken", "non_finite"}
    BY <2>1 DEF OutputFailure, NullIsNoCode, FailureCodes
  <2>2. CASE core.json \notin {"broken", "non_finite"}
    <3>1. OutputFailure(core) =
            IF core.json # "object" \/ ~InRange(core) THEN "invalid_output"
            ELSE IF Mass(core, 6) # Parts THEN "invalid_probability_sum"
                 ELSE IF Mass(core, 3) # core.home THEN "invalid_output" ELSE Null
      BY <2>2 DEF OutputFailure
    <3>2. "invalid_output" # Null /\ "invalid_probability_sum" # Null
      BY DEF NullIsNoCode, FailureCodes
    <3> QED
      BY <3>1, <3>2
  <2> QED
    BY <2>1, <2>2
<1> PICK f : f = [i \in 1..6 |-> core.sets[i][2]]
  OBVIOUS
<1> PICK order : order = SetScoreHomeOrder
  OBVIOUS
<1>o. DOMAIN order = 1..6 /\ \A i, j \in 1..6 : order[i] = order[j] => i = j
  BY SixScores
<1>2. /\ DOMAIN core.sets = 1..6
      /\ \A i \in 1..6 : core.sets[i][1] = order[i] /\ core.sets[i][2] \in 0..Parts
  <2>1. [i \in DOMAIN core.sets |-> core.sets[i][1]] = order
    BY <1>1 DEF InRange
  <2>2. DOMAIN core.sets = 1..6
    BY <2>1, <1>o
  <2> QED
    BY <1>1, <2>1, <2>2 DEF InRange, Probability
<1> DEFINE these(s) == {i \in DOMAIN core.sets : core.sets[i][1] = s}
           g == [s \in Range(order) |->
                   SumFunctionOnSet([i \in DOMAIN core.sets |-> core.sets[i][2]], these(s))]
<1>3. \A i \in 1..6 : f[i] \in Nat /\ f[i] \in 0..Parts
  BY <1>2, PartsAssumption
<1>4. ASSUME NEW i \in 1..6 PROVE g[order[i]] = f[i]
  <2>1. these(order[i]) = {i}
    BY <1>2, <1>o
  <2>2. g[order[i]] = SumFunctionOnSet(f, {i})
    BY <1>2, <1>o, <2>1 DEF Range
  <2>3. IsFiniteSet({i})
    BY FS_Singleton
  <2>4. SumFunctionOnSet(f, {i}) = f[i]
    <3> PICK S : S = {i}
      OBVIOUS
    <3> QED
      BY <1>3, <2>3, SumOfOne
  <2> QED
    BY <2>2, <2>4
<1>5. Range(order) = {order[i] : i \in 1..6}
  BY <1>o DEF Range
<1>6. SumFunctionOnSet(g, Range(order)) = Parts
  <2>1. IsFiniteSet(1..6)
    BY 1 \in Int, 6 \in Int, FS_Interval
  <2>2. \A i \in 1..6 : f[i] \in Nat /\ f[i] = g[order[i]]
    BY <1>3, <1>4
  <2>3. SumFunctionOnSet(f, 1..6) = SumFunctionOnSet(g, {order[i] : i \in 1..6})
    <3> HIDE DEF g
    <3> PICK S : S = 1..6
      OBVIOUS
    <3> QED
      BY <1>o, <2>1, <2>2, SumRenamed
  <2>4. SumFunctionOnSet(f, 1..6) = Parts
    BY <1>1 DEF Mass
  <2> QED
    BY <1>5, <2>3, <2>4
<1>7. SetProbabilities(g)
  <2>1. DOMAIN g = Range(order)
    OBVIOUS
  <2>2. \A s \in Range(order) : g[s] \in 0..Parts
    <3> HIDE DEF g
    <3> QED
      BY <1>3, <1>4, <1>5
  <2> HIDE DEF g
  <2> QED
    BY <1>6, <2>1, <2>2 DEF SetProbabilities
<1> QED
  BY <1>1, <1>7 DEF SoundForecast

\* The document a checked answer stands for is the only one it has pieces of.
LEMMA WholeIsMeant ==
    ASSUME NEW p, NEW body, NEW text, text = ParseResponse(p, body.content).text,
           StrictJsonObject(text).json = "object"
    PROVE  StrictJsonObject(text) = Meant(p, body)
<1>1. IsWhole(text) /\ StrictJsonObject(text) = text[1].of
  BY DEF StrictJsonObject
<1> PICK documents : documents = {piece.of : piece \in Range(text)}
  OBVIOUS
<1>2. documents = {text[1].of}
  BY <1>1 DEF IsWhole, Range
<1>3. Meant(p, body) = CHOOSE core \in documents : TRUE
  BY DEF Meant
<1> QED
  BY <1>1, <1>2, <1>3

\* What a thread may hand over.
SoundAnswer(answer) ==
    /\ answer.kind \in {"body", "error", "timeout"}
    /\ answer.kind = "body" /\ answer.body.usage # Null =>
         answer.body.usage.input \in Nat /\ answer.body.usage.output \in Nat

\* An outcome of a call that was made, by the answer that it had.
SettledBy(o, p, answer) ==
    /\ o.provider = p /\ o.status \in {"failed", "succeeded"} /\ o.cost \in Nat
    /\ o.cost # Most(p) =>
         answer.kind = "body" /\ HasMetadata(answer.body) /\ o.cost = Bill(p, answer.body.usage)
    /\ o.status = "succeeded" =>
         /\ answer.kind = "body" /\ HasMetadata(answer.body)
         /\ o.cost = Bill(p, answer.body.usage) /\ o.cost <= Most(p)
         /\ answer.body.model = live.config.providers[p].pinned
         /\ o.output = Meant(p, answer.body)
         /\ SoundForecast(o.output)

\* An answer without a fault is one of the agreed model, within the limits,
\* and the one sound forecast that it consists of.
LEMMA ContentIsSound ==
    ASSUME NullIsNoCode, NEW v, NEW p, Planned(v, p), NEW body, ContentFailure(v, body) = Null,
           body.usage.input \in Nat, body.usage.output \in Nat,
           NEW output, output = StrictJsonObject(ParseResponse(p, body.content).text)
    PROVE  /\ body.usage.input <= v.maxInput /\ body.usage.output <= v.maxOutput
           /\ body.model = live.config.providers[p].pinned
           /\ output = Meant(p, body) /\ SoundForecast(output)
<1> PICK parsed : parsed = ParseResponse(v.provider, body.content)
  OBVIOUS
<1>p. output = StrictJsonObject(parsed.text)
  BY DEF Planned
<1>1. /\ ~(body.usage.input > v.maxInput \/ body.usage.output > v.maxOutput)
      /\ VersionFailure(v, body.model) = Null
      /\ OutputFailure(output) = Null
  BY <1>p DEF ContentFailure, NullIsNoCode, FailureCodes
<1>2. body.model = v.pinned
  <2>1. CASE v.policy = "immutable_model_id"
    BY <1>1, <2>1 DEF VersionFailure, Planned, NullIsNoCode, FailureCodes
  <2>2. CASE v.policy = "verify_resolved_model_id"
    BY <1>1, <2>2 DEF VersionFailure, NullIsNoCode, FailureCodes
  <2> QED
    BY <2>1, <2>2 DEF Planned, Policies
<1>3. output.json = "object" /\ SoundForecast(output)
  BY <1>1, CheckedIsSound
<1>4. v.provider = p /\ v.pinned = live.config.providers[p].pinned
  BY DEF Planned
<1>5. output = Meant(p, body)
  BY <1>3, <1>4, WholeIsMeant
<1>6. body.usage.input <= v.maxInput /\ body.usage.output <= v.maxOutput
  BY <1>1 DEF Planned
<1> QED
  BY <1>2, <1>3, <1>4, <1>5, <1>6

\* Whatever a queue held, or that it held nothing.
LEMMA VerdictSettles ==
    ASSUME NullIsNoCode, NEW v, NEW p, Planned(v, p), NEW answer, SoundAnswer(answer)
    PROVE  SettledBy(Verdict(v, answer), p, answer)
<1> PICK o : o = Verdict(v, answer)
  OBVIOUS
<1> PICK most : most = MaximumCallCost(v)
  OBVIOUS
<1>m. most = Most(p) /\ most \in Nat /\ v.provider = p
  BY PlannedCosts DEF Planned
<1>f. ASSUME NEW code \in FailureCodes, o = Outcome(v.provider, "failed", code, most, Null)
      PROVE  SettledBy(o, p, answer)
  <2>1. o.provider = p /\ o.status = "failed" /\ o.cost = most
    BY <1>f, <1>m DEF Outcome, NullIsNoCode
  <2> QED
    BY <1>m, <2>1 DEF SettledBy
<1>1. CASE answer.kind = "timeout"
  <2>1. o = Outcome(v.provider, "failed", "timeout", most, Null)
    BY <1>1 DEF Verdict
  <2> QED
    BY <1>f, <2>1 DEF FailureCodes
<1>2. CASE answer.kind = "error"
  <2>1. o = Outcome(v.provider, "failed", "provider_error", most, Null)
    BY <1>2 DEF Verdict
  <2> QED
    BY <1>f, <2>1 DEF FailureCodes
<1>3. CASE answer.kind = "body"
  <2> PICK body : body = answer.body
    OBVIOUS
  <2>1. CASE body.shape = "non_finite"
    <3>1. o = Outcome(v.provider, "failed", "non_finite_probability", most, Null)
      BY <1>3, <2>1 DEF Verdict
    <3> QED
      BY <1>f, <3>1 DEF FailureCodes
  <2>2. CASE body.shape # "non_finite" /\ ~HasMetadata(body)
    <3>1. o = Outcome(v.provider, "failed", "invalid_json", most, Null)
      BY <1>3, <2>2 DEF Verdict
    <3> QED
      BY <1>f, <3>1 DEF FailureCodes
  <2>3. CASE body.shape # "non_finite" /\ HasMetadata(body)
    <3> PICK code : code = ContentFailure(v, body)
      OBVIOUS
    <3> PICK output : output = StrictJsonObject(ParseResponse(p, body.content).text)
      OBVIOUS
    <3>1. o = Concluded(v, code, Cost(v, body.usage), body)
      BY <1>3, <2>3 DEF Verdict
    <3>2. /\ o.provider = p /\ o.cost = Bill(p, body.usage)
          /\ o.status = IF code = Null THEN "succeeded" ELSE "failed"
          /\ code = Null => o.output = output
      BY <1>m, <3>1, PlannedCosts DEF Concluded, Outcome
    <3>3. body.usage.input \in Nat /\ body.usage.output \in Nat
      BY <1>3, <2>3 DEF SoundAnswer, HasMetadata
    <3>4. /\ Bill(p, body.usage) \in Nat
          /\ body.usage.input <= v.maxInput /\ body.usage.output <= v.maxOutput =>
               Bill(p, body.usage) <= Most(p)
      BY <3>3, BillWithin
    <3>5. ASSUME code = Null
          PROVE  /\ body.usage.input <= v.maxInput /\ body.usage.output <= v.maxOutput
                 /\ body.model = live.config.providers[p].pinned
                 /\ output = Meant(p, body) /\ SoundForecast(output)
      <4>1. ContentFailure(v, body) = Null
        BY <3>5
      <4>2. output = StrictJsonObject(ParseResponse(p, body.content).text)
        OBVIOUS
      <4> QED
        BY ONLY NullIsNoCode, Planned(v, p), <3>3, <4>1, <4>2, ContentIsSound
    <3> QED
      BY <1>3, <2>3, <3>2, <3>4, <3>5 DEF SettledBy
  <2> QED
    BY <2>1, <2>2, <2>3
<1> QED
  BY <1>1, <1>2, <1>3 DEF SoundAnswer

-----------------------------------------------------------------------------
(* A call: the inductive invariant.                                        *)

CallTypes ==
    /\ SoundCalls(live)
    /\ call \in [live.callers -> [phase : {"idle", "waiting"}, number : Nat,
                                  provider : DOMAIN live.plan \cup {Null}]]
    /\ \A c \in Waiting : call[c].provider \in DOMAIN live.plan
    /\ account \in [cap : {account.cap}, spent : Nat, reserved : Nat]
    /\ IsFiniteSet(DOMAIN outcomes)
    /\ \A id \in DOMAIN threads : threads[id] = Null \/ SoundAnswer(threads[id])

\* The calls so far: those that ended have an outcome, those that wait have a
\* thread and none yet, and a queue holds what its own thread was told.
CallsNumbered ==
    /\ \A id \in DOMAIN threads \cup DOMAIN outcomes :
         \E c \in live.callers : \E n \in Nat : id = <<c, n>> /\ n <= call[c].number
    /\ \A c \in Waiting : Id(c) \in DOMAIN threads \ DOMAIN outcomes
    /\ \A id \in DOMAIN queues :
         id \in DOMAIN threads /\ threads[id] # Null /\ queues[id] = threads[id]

\* Calls that were not made cost nothing; the others are settled by what their
\* thread was told, or had not been told when they ended.
OutcomesSettled ==
    \A id \in DOMAIN outcomes :
      /\ id \notin DOMAIN threads => outcomes[id].status = "skipped" /\ outcomes[id].cost = 0
      /\ id \in DOMAIN threads =>
           \E answer \in {Told(id), [kind |-> "timeout"]} :
             SettledBy(outcomes[id], outcomes[id].provider, answer)

AccountBalanced ==
    /\ account.reserved = SumFunctionOnSet([c \in Waiting |-> Most(call[c].provider)], Waiting)
    /\ account.spent = SumFunctionOnSet([id \in DOMAIN outcomes |-> outcomes[id].cost],
                                        DOMAIN outcomes)

CallInv == CallTypes /\ CallsNumbered /\ OutcomesSettled /\ AccountBalanced

LEMMA CallsAreSettled ==
    ASSUME CallInv
    PROVE  ProviderCallSettled
<1>1. ASSUME NEW id \in DOMAIN outcomes, NEW o, o = outcomes[id], NEW p, p = o.provider
      PROVE  /\ o.status = "skipped" <=> id \notin DOMAIN threads
             /\ o.status = "skipped" => o.cost = 0
             /\ id \in DOMAIN threads /\ o.cost # Most(p) =>
                  Billable(id) /\ o.cost = Bill(p, Told(id).body.usage)
             /\ o.status = "succeeded" =>
                  /\ Billable(id)
                  /\ o.cost = Bill(p, Told(id).body.usage) /\ o.cost <= Most(p)
                  /\ Told(id).body.model = live.config.providers[p].pinned
                  /\ o.output = Meant(p, Told(id).body)
                  /\ SoundForecast(o.output)
  <2>1. CASE id \notin DOMAIN threads
    BY <1>1, <2>1 DEF CallInv, OutcomesSettled
  <2>2. CASE id \in DOMAIN threads
    <3>1. PICK answer \in {Told(id), [kind |-> "timeout"]} : SettledBy(o, p, answer)
      BY <1>1, <2>2 DEF CallInv, OutcomesSettled
    <3>2. CASE answer = Told(id)
      BY <2>2, <3>1, <3>2 DEF SettledBy, Billable
    <3>3. CASE answer = [kind |-> "timeout"]
      BY <2>2, <3>1, <3>3 DEF SettledBy
    <3> QED
      BY <3>1, <3>2, <3>3
  <2> QED
    BY <2>1, <2>2
<1> QED
  BY <1>1 DEF CallInv, AccountBalanced, ProviderCallSettled

-----------------------------------------------------------------------------
(* A call: the steps.                                                      *)

\* Nothing that is said of the plan changes.
LEMMA PlanStays ==
    ASSUME live' = live
    PROVE  /\ SoundCalls(live)' <=> SoundCalls(live)
           /\ \A p : Most(p)' = Most(p)
           /\ \A o, p, answer : SettledBy(o, p, answer)' <=> SettledBy(o, p, answer)
           /\ [c \in Waiting |-> Most(call[c].provider)]' =
                [c \in Waiting' |-> Most(call'[c].provider)]
<1>1. SoundCalls(live)' <=> SoundCalls(live)
  BY DEF SoundCalls
<1>2. \A p : Most(p)' = Most(p) /\ \A usage : Bill(p, usage)' = Bill(p, usage)
  BY DEF Most, Bill, Tariff
<1>3. \A o, p, answer : SettledBy(o, p, answer)' <=> SettledBy(o, p, answer)
  BY <1>2 DEF SettledBy
<1>4. [c \in Waiting |-> Most(call[c].provider)]' =
        [c \in Waiting' |-> Most(call'[c].provider)]
  BY DEF Most, Bill, Tariff
<1> QED
  BY <1>1, <1>2, <1>3, <1>4

\* The next call of a caller is a new one.
LEMMA NextIsNew ==
    ASSUME CallInv, NEW c \in live.callers
    PROVE  /\ NextId(c) \notin DOMAIN threads \cup DOMAIN outcomes \cup DOMAIN queues
           /\ call[c].number + 1 \in Nat
<1>1. call[c].number \in Nat
  BY DEF CallInv, CallTypes
<1>2. ASSUME NextId(c) \in DOMAIN threads \cup DOMAIN outcomes PROVE FALSE
  <2>1. PICK d \in live.callers : \E n \in Nat : NextId(c) = <<d, n>> /\ n <= call[d].number
    BY <1>2 DEF CallInv, CallsNumbered
  <2>2. PICK n \in Nat : NextId(c) = <<d, n>> /\ n <= call[d].number
    BY <2>1
  <2>3. d = c /\ n = call[c].number + 1
    BY <2>2 DEF NextId
  <2> QED
    BY <1>1, <2>2, <2>3
<1> QED
  BY <1>1, <1>2 DEF CallInv, CallsNumbered

\* What a caller waits for can be reckoned.
LEMMA WaitingCosts ==
    ASSUME CallInv, NullIsNoCode
    PROVE  /\ \A p \in DOMAIN live.plan :
                Most(p) \in Nat /\ MaximumCallCost(live.plan[p].variant) = Most(p)
           /\ \A c \in Waiting : Most(call[c].provider) \in Nat
           /\ IsFiniteSet(Waiting)
<1>1. ASSUME NEW p \in DOMAIN live.plan
      PROVE  Most(p) \in Nat /\ MaximumCallCost(live.plan[p].variant) = Most(p)
  <2>1. Planned(live.plan[p].variant, p)
    BY PlanIsAgreed DEF CallInv, CallTypes
  <2> QED
    BY <2>1, PlannedCosts
<1>2. \A c \in Waiting : Most(call[c].provider) \in Nat
  BY <1>1 DEF CallInv, CallTypes
<1>3. IsFiniteSet(Waiting)
  BY FS_Subset DEF CallInv, CallTypes, SoundCalls, Waiting
<1> QED
  BY <1>1, <1>2, <1>3

LEMMA CostsAreNumbers ==
    ASSUME CallInv
    PROVE  \A id \in DOMAIN outcomes : outcomes[id].cost \in Nat
BY DEF CallInv, OutcomesSettled, SettledBy

\* One outcome more.
LEMMA OutcomeAdded ==
    ASSUME CallInv, NEW id, id \notin DOMAIN outcomes, NEW o, o.cost \in Nat,
           outcomes' = With(outcomes, id, o)
    PROVE  /\ DOMAIN outcomes' = DOMAIN outcomes \cup {id} /\ IsFiniteSet(DOMAIN outcomes')
           /\ outcomes'[id] = o
           /\ \A x \in DOMAIN outcomes : outcomes'[x] = outcomes[x]
           /\ SumFunctionOnSet([x \in DOMAIN outcomes' |-> outcomes'[x].cost], DOMAIN outcomes') =
                account.spent + o.cost
           /\ account.spent \in Nat
<1> PICK S : S = DOMAIN outcomes
  OBVIOUS
<1>1. /\ DOMAIN outcomes' = S \cup {id} /\ outcomes'[id] = o
      /\ \A x \in S : outcomes'[x] = outcomes[x]
  BY DEF With
<1>2. IsFiniteSet(S) /\ account.spent \in Nat
  BY DEF CallInv, CallTypes
<1>3. IsFiniteSet(S \cup {id})
  BY <1>2, FS_AddElement
<1> PICK g : g = [x \in DOMAIN outcomes |-> outcomes[x].cost]
  OBVIOUS
<1> PICK f : f = [x \in DOMAIN outcomes' |-> outcomes'[x].cost]
  OBVIOUS
<1>4. f[id] = o.cost /\ \A x \in S : f[x] = g[x] /\ f[x] \in Nat
  BY <1>1, CostsAreNumbers
<1>5. SumFunctionOnSet(f, S \cup {id}) = f[id] + SumFunctionOnSet(g, S)
  <2>1. id \notin S /\ f[id] \in Nat /\ \A x \in S : f[x] \in Nat /\ f[x] = g[x]
    BY <1>4
  <2> QED
    BY ONLY <1>2, <2>1, SumOfMore
<1>6. SumFunctionOnSet(g, S) = account.spent
  BY DEF CallInv, AccountBalanced
<1>7. SumFunctionOnSet(f, DOMAIN outcomes') = account.spent + o.cost
  BY <1>1, <1>2, <1>4, <1>5, <1>6
<1> QED
  BY <1>1, <1>2, <1>3, <1>7

\* The state of a caller at the start of a call.
LEMMA CallBegins ==
    ASSUME CallInv, NEW c \in live.callers, NEW p \in DOMAIN live.plan,
           NEW phase \in {"idle", "waiting"}, Begin(c, p, phase), live' = live
    PROVE  /\ call' \in [live.callers -> [phase : {"idle", "waiting"}, number : Nat,
                                          provider : DOMAIN live.plan \cup {Null}]]
           /\ call'[c] = [phase |-> phase, number |-> call[c].number + 1, provider |-> p]
           /\ \A d \in live.callers \ {c} : call'[d] = call[d]
           /\ \A d \in live.callers : call[d].number <= call'[d].number
<1>1. call[c].number + 1 \in Nat
  BY NextIsNew
<1>2. /\ call'[c] = [phase |-> phase, number |-> call[c].number + 1, provider |-> p]
      /\ \A d \in live.callers \ {c} : call'[d] = call[d]
      /\ DOMAIN call' = live.callers
  BY DEF CallInv, CallTypes, Begin
<1>3. /\ call' = [d \in live.callers |-> call'[d]]
      /\ \A d \in live.callers : call[d].number \in Nat
  BY DEF CallInv, CallTypes, Begin
<1>4. \A d \in live.callers :
        call'[d] \in [phase : {"idle", "waiting"}, number : Nat,
                      provider : DOMAIN live.plan \cup {Null}]
  BY <1>1, <1>2 DEF CallInv, CallTypes
<1>5. \A d \in live.callers : call[d].number <= call'[d].number
  BY <1>2, <1>3
<1> QED
  BY <1>2, <1>3, <1>4, <1>5

\* Numbers only grow.
LEMMA StillNumbered ==
    ASSUME CallInv, \A d \in live.callers : call[d].number <= call'[d].number, live' = live,
           \A d \in live.callers : call'[d].number \in Nat,
           NEW id \in DOMAIN threads \cup DOMAIN outcomes
    PROVE  \E d \in live'.callers : \E n \in Nat : id = <<d, n>> /\ n <= call'[d].number
<1>1. PICK d \in live.callers : \E n \in Nat : id = <<d, n>> /\ n <= call[d].number
  BY DEF CallInv, CallsNumbered
<1>2. PICK n \in Nat : id = <<d, n>> /\ n <= call[d].number
  BY <1>1
<1>3. call[d].number \in Nat
  BY DEF CallInv, CallTypes
<1>4. n <= call'[d].number
  BY <1>2, <1>3
<1> QED
  BY <1>2, <1>4

LEMMA SkipCallStep ==
    ASSUME CallInv, NullIsNoCode, NEW c \in live.callers, NEW p \in DOMAIN live.plan, NEW size,
           SkipCall(c, p, size)
    PROVE  CallInv'
<1>1. PICK code : code = Skip(live.plan[p].variant, size) /\ code # Null /\
                    outcomes' = With(outcomes, NextId(c), Outcome(p, "skipped", code, 0, Null))
  BY DEF SkipCall
<1> PICK o : o = Outcome(p, "skipped", code, 0, Null)
  OBVIOUS
<1> PICK id : id = NextId(c)
  OBVIOUS
<1>2. o.status = "skipped" /\ o.cost = 0
  BY <1>1 DEF Outcome
<1>3. /\ live' = live /\ account' = account /\ threads' = threads /\ queues' = queues
      /\ Begin(c, p, "idle") /\ call[c].phase = "idle"
  BY DEF SkipCall
<1>4. id \notin DOMAIN threads \cup DOMAIN outcomes \cup DOMAIN queues
  BY NextIsNew
<1>5. /\ DOMAIN outcomes' = DOMAIN outcomes \cup {id} /\ IsFiniteSet(DOMAIN outcomes')
      /\ outcomes'[id] = o
      /\ \A x \in DOMAIN outcomes : outcomes'[x] = outcomes[x]
      /\ SumFunctionOnSet([x \in DOMAIN outcomes' |-> outcomes'[x].cost], DOMAIN outcomes') =
           account.spent + o.cost
      /\ account.spent \in Nat
  <2>1. o.cost \in Nat
    BY <1>2
  <2> QED
    BY <1>1, <1>4, <2>1, OutcomeAdded
<1>6. /\ call' \in [live.callers -> [phase : {"idle", "waiting"}, number : Nat,
                                     provider : DOMAIN live.plan \cup {Null}]]
      /\ call'[c] = [phase |-> "idle", number |-> call[c].number + 1, provider |-> p]
      /\ \A d \in live.callers \ {c} : call'[d] = call[d]
      /\ \A d \in live.callers : call[d].number <= call'[d].number
  BY <1>3, CallBegins
<1>7. Waiting' = Waiting /\ \A d \in Waiting : call'[d] = call[d] /\ Id(d)' = Id(d)
  BY <1>3, <1>6 DEF Waiting, Id
<1>8. CallTypes'
  <2>1. SoundCalls(live)'
    BY <1>3, PlanStays DEF CallInv, CallTypes
  <2>2. \A d \in Waiting' : call'[d].provider \in DOMAIN live.plan
    BY <1>7 DEF CallInv, CallTypes
  <2> QED
    BY <1>3, <1>5, <1>6, <2>1, <2>2 DEF CallInv, CallTypes, SoundAnswer
<1>9. CallsNumbered'
  <2>1. \A x \in DOMAIN threads \cup DOMAIN outcomes :
          \E d \in live'.callers : \E n \in Nat : x = <<d, n>> /\ n <= call'[d].number
    BY <1>3, <1>6, StillNumbered
  <2>2. id = <<c, call'[c].number>> /\ call'[c].number \in Nat
    BY <1>6 DEF NextId
  <2>3. \A x \in DOMAIN threads' \cup DOMAIN outcomes' :
          \E d \in live'.callers : \E n \in Nat : x = <<d, n>> /\ n <= call'[d].number
    BY <1>3, <1>5, <2>1, <2>2
  <2>4. \A d \in Waiting' : Id(d)' \in DOMAIN threads' \ DOMAIN outcomes'
    BY <1>3, <1>4, <1>5, <1>7 DEF CallInv, CallsNumbered
  <2> QED
    BY <1>3, <2>3, <2>4 DEF CallInv, CallsNumbered
<1>10. OutcomesSettled'
  <2>1. ASSUME NEW x \in DOMAIN outcomes'
        PROVE  /\ x \notin DOMAIN threads =>
                    outcomes'[x].status = "skipped" /\ outcomes'[x].cost = 0
               /\ x \in DOMAIN threads =>
                    \E answer \in {Told(x), [kind |-> "timeout"]} :
                      SettledBy(outcomes'[x], outcomes'[x].provider, answer)
    <3>1. CASE x = id
      BY <1>2, <1>4, <1>5, <3>1
    <3>2. CASE x \in DOMAIN outcomes
      BY <1>5, <3>2 DEF CallInv, OutcomesSettled
    <3> QED
      BY <1>5, <3>1, <3>2
  <2>2. \A x : Told(x)' = Told(x)
    BY <1>3 DEF Told
  <2> QED
    BY <1>3, <2>1, <2>2, PlanStays DEF OutcomesSettled
<1>11. AccountBalanced'
  <2>1. [d \in Waiting' |-> Most(call'[d].provider)] = [d \in Waiting |-> Most(call[d].provider)]
    BY <1>7
  <2>2. account'.spent =
          SumFunctionOnSet([x \in DOMAIN outcomes' |-> outcomes'[x].cost], DOMAIN outcomes')
    BY <1>2, <1>3, <1>5
  <2>3. account'.reserved =
          SumFunctionOnSet([d \in Waiting |-> Most(call[d].provider)]', Waiting')
    BY <1>3, <1>7, <2>1, PlanStays DEF CallInv, AccountBalanced
  <2> QED
    BY <2>2, <2>3 DEF AccountBalanced
<1> QED
  BY <1>8, <1>9, <1>10, <1>11 DEF CallInv

LEMMA DispatchStep ==
    ASSUME CallInv, NullIsNoCode, NEW c \in live.callers, NEW p \in DOMAIN live.plan, NEW size,
           Dispatch(c, p, size)
    PROVE  CallInv'
<1> PICK id : id = NextId(c)
  OBVIOUS
<1> PICK most : most = Most(p)
  OBVIOUS
<1>1. /\ live' = live /\ outcomes' = outcomes /\ queues' = queues
      /\ threads' = With(threads, id, Null)
      /\ account' = Reserving(MaximumCallCost(live.plan[p].variant))
      /\ Begin(c, p, "waiting") /\ call[c].phase = "idle"
  BY DEF Dispatch
<1>2. id \notin DOMAIN threads \cup DOMAIN outcomes \cup DOMAIN queues
  BY NextIsNew
<1>3. /\ DOMAIN threads' = DOMAIN threads \cup {id} /\ threads'[id] = Null
      /\ \A x \in DOMAIN threads : threads'[x] = threads[x]
  <2>1. threads' = [x \in DOMAIN threads \cup {id} |-> IF x = id THEN Null ELSE threads[x]]
    BY <1>1 DEF With
  <2>2. id \notin DOMAIN threads
    BY <1>2
  <2> QED
    BY ONLY <2>1, <2>2
<1>4. /\ most \in Nat /\ MaximumCallCost(live.plan[p].variant) = most
      /\ \A d \in Waiting : Most(call[d].provider) \in Nat
      /\ IsFiniteSet(Waiting)
  BY WaitingCosts
<1>5. account \in [cap : {account.cap}, spent : Nat, reserved : Nat]
  BY DEF CallInv, CallTypes
<1>6. /\ account'.cap = account.cap /\ account'.spent = account.spent
      /\ account'.reserved = account.reserved + most
      /\ account' \in [cap : {account'.cap}, spent : Nat, reserved : Nat]
  BY <1>1, <1>4, <1>5 DEF Reserving
<1>7. /\ call' \in [live.callers -> [phase : {"idle", "waiting"}, number : Nat,
                                     provider : DOMAIN live.plan \cup {Null}]]
      /\ call'[c] = [phase |-> "waiting", number |-> call[c].number + 1, provider |-> p]
      /\ \A d \in live.callers \ {c} : call'[d] = call[d]
      /\ \A d \in live.callers : call[d].number <= call'[d].number
  BY <1>1, CallBegins
<1>8. /\ Waiting' = Waiting \cup {c} /\ c \notin Waiting
      /\ \A d \in Waiting : call'[d] = call[d] /\ Id(d)' = Id(d)
  BY <1>1, <1>7 DEF Waiting, Id
<1>9. Id(c)' = id
  BY <1>7 DEF Id, NextId
<1>10. CallTypes'
  <2>1. SoundCalls(live)'
    BY <1>1, PlanStays DEF CallInv, CallTypes
  <2>2. \A d \in Waiting' : call'[d].provider \in DOMAIN live.plan
    BY <1>7, <1>8 DEF CallInv, CallTypes
  <2>3. \A x \in DOMAIN threads' : threads'[x] = Null \/ SoundAnswer(threads'[x])
    BY <1>3 DEF CallInv, CallTypes
  <2>4. IsFiniteSet(DOMAIN outcomes')
    BY <1>1 DEF CallInv, CallTypes
  <2> QED
    BY <1>1, <1>6, <1>7, <2>1, <2>2, <2>3, <2>4 DEF CallTypes, SoundAnswer
<1>11. CallsNumbered'
  <2>1. \A x \in DOMAIN threads \cup DOMAIN outcomes :
          \E d \in live'.callers : \E n \in Nat : x = <<d, n>> /\ n <= call'[d].number
    BY <1>1, <1>7, StillNumbered
  <2>2. id = <<c, call'[c].number>> /\ call'[c].number \in Nat
    BY <1>7 DEF NextId
  <2>3. \A x \in DOMAIN threads' \cup DOMAIN outcomes' :
          \E d \in live'.callers : \E n \in Nat : x = <<d, n>> /\ n <= call'[d].number
    BY <1>1, <1>3, <2>1, <2>2
  <2>4. \A d \in Waiting' : Id(d)' \in DOMAIN threads' \ DOMAIN outcomes'
    BY <1>1, <1>2, <1>3, <1>8, <1>9 DEF CallInv, CallsNumbered
  <2>5. \A x \in DOMAIN queues' :
          x \in DOMAIN threads' /\ threads'[x] # Null /\ queues'[x] = threads'[x]
    BY <1>1, <1>3 DEF CallInv, CallsNumbered
  <2> QED
    BY <2>3, <2>4, <2>5 DEF CallsNumbered
<1>12. OutcomesSettled'
  <2>1. \A x \in DOMAIN outcomes : (x \in DOMAIN threads' <=> x \in DOMAIN threads)
    BY <1>2, <1>3
  <2>2. \A x \in DOMAIN threads : Told(x)' = Told(x)
    BY <1>3 DEF Told
  <2> QED
    BY <1>1, <2>1, <2>2, PlanStays DEF CallInv, OutcomesSettled
<1>13. AccountBalanced'
  <2> PICK g : g = [d \in Waiting |-> Most(call[d].provider)]
    OBVIOUS
  <2> PICK f : f = [d \in Waiting' |-> Most(call'[d].provider)]
    OBVIOUS
  <2>1. f[c] = most /\ \A d \in Waiting : f[d] = g[d] /\ f[d] \in Nat
    BY <1>4, <1>7, <1>8
  <2>2. SumFunctionOnSet(f, Waiting \cup {c}) = f[c] + SumFunctionOnSet(g, Waiting)
    <3>1. f[c] \in Nat /\ \A d \in Waiting : f[d] \in Nat /\ f[d] = g[d]
      BY <1>4, <2>1
    <3> QED
      BY ONLY <1>4, <1>8, <3>1, SumOfMore
  <2>3. account.reserved = SumFunctionOnSet(g, Waiting) /\ account.reserved \in Nat
    BY <1>5 DEF CallInv, AccountBalanced
  <2>4. account'.reserved = SumFunctionOnSet(f, Waiting')
    BY <1>4, <1>6, <1>8, <2>1, <2>2, <2>3
  <2>5. account'.spent =
          SumFunctionOnSet([x \in DOMAIN outcomes' |-> outcomes'[x].cost], DOMAIN outcomes')
    BY <1>1, <1>6 DEF CallInv, AccountBalanced
  <2>6. f = [d \in Waiting |-> Most(call[d].provider)]'
    BY <1>1, PlanStays
  <2> QED
    BY <2>4, <2>5, <2>6 DEF AccountBalanced
<1> QED
  BY <1>10, <1>11, <1>12, <1>13 DEF CallInv

\* What a thread is told is known, of a call that waits or of one that is over.
LEMMA SendStep ==
    ASSUME CallInv, NEW id \in DOMAIN threads, NEW response \in Menus[live.menu],
           Send(id, response)
    PROVE  CallInv'
<1> PICK answer : answer = Received(response)
  OBVIOUS
<1>1. /\ live' = live /\ account' = account /\ call' = call /\ outcomes' = outcomes
      /\ threads[id] = Null /\ threads' = [threads EXCEPT ![id] = answer]
      /\ id \notin DOMAIN queues /\ queues' = With(queues, id, answer)
  BY DEF Send, QueueOf
<1>2. SoundAnswer(answer) /\ answer # Null
  <2>1. SoundResponse(response)
    BY DEF CallInv, CallTypes, SoundCalls
  <2>2. CASE response.kind # "http"
    BY <2>1, <2>2 DEF SoundResponse, Received, SoundAnswer
  <2>3. CASE response.kind = "http"
    <3>1. \/ answer = [kind |-> "error"]
          \/ answer = [kind |-> "body", body |-> response.body]
      BY <2>3 DEF Received
    <3> QED
      BY <2>1, <2>3, <3>1 DEF SoundResponse, SoundAnswer
  <2> QED
    BY <2>2, <2>3
<1>3. /\ DOMAIN threads' = DOMAIN threads /\ threads'[id] = answer
      /\ \A x \in DOMAIN threads \ {id} : threads'[x] = threads[x]
  BY <1>1
<1>4. /\ DOMAIN queues' = DOMAIN queues \cup {id} /\ queues'[id] = answer
      /\ \A x \in DOMAIN queues : queues'[x] = queues[x]
  BY <1>1 DEF With
<1>5. Waiting' = Waiting /\ \A d : Id(d)' = Id(d)
  BY <1>1 DEF Waiting, Id
<1>6. CallTypes'
  <2>1. SoundCalls(live)'
    BY <1>1, PlanStays DEF CallInv, CallTypes
  <2>2. \A x \in DOMAIN threads' : threads'[x] = Null \/ SoundAnswer(threads'[x])
    BY <1>2, <1>3 DEF CallInv, CallTypes
  <2> QED
    BY <1>1, <1>5, <2>1, <2>2 DEF CallInv, CallTypes, SoundAnswer
<1>7. CallsNumbered'
  <2>1. \A x \in DOMAIN queues' :
          x \in DOMAIN threads' /\ threads'[x] # Null /\ queues'[x] = threads'[x]
    BY <1>1, <1>2, <1>3, <1>4 DEF CallInv, CallsNumbered
  <2> QED
    BY <1>1, <1>3, <1>5, <2>1 DEF CallInv, CallsNumbered
<1>8. OutcomesSettled'
  <2>1. ASSUME NEW x \in DOMAIN outcomes, x \in DOMAIN threads
        PROVE  \E told \in {Told(x)', [kind |-> "timeout"]} :
                 SettledBy(outcomes[x], outcomes[x].provider, told)
    <3>1. PICK told \in {Told(x), [kind |-> "timeout"]} :
            SettledBy(outcomes[x], outcomes[x].provider, told)
      BY <2>1 DEF CallInv, OutcomesSettled
    <3>2. Told(x)' = Told(x) \/ Told(x) = [kind |-> "timeout"]
      BY <1>1, <1>3, <2>1 DEF Told
    <3> QED
      BY <3>1, <3>2
  <2> QED
    BY <1>1, <1>3, <2>1, PlanStays DEF CallInv, OutcomesSettled
<1>9. AccountBalanced'
  BY <1>1, <1>5, PlanStays DEF CallInv, AccountBalanced
<1> QED
  BY <1>6, <1>7, <1>8, <1>9 DEF CallInv

\* A call is over, by an answer of its own thread or by none.
LEMMA FinishStep ==
    ASSUME CallInv, NullIsNoCode, NEW c \in Waiting,
           NEW answer \in {Told(Id(c)), [kind |-> "timeout"]},
           FinishCall(c, Verdict(Variant(c), answer)),
           live' = live, threads' = threads, DOMAIN queues' \subseteq DOMAIN queues,
           \A x \in DOMAIN queues' : queues'[x] = queues[x]
    PROVE  CallInv'
<1> PICK id : id = Id(c)
  OBVIOUS
<1> PICK p : p = call[c].provider
  OBVIOUS
<1> PICK most : most = Most(p)
  OBVIOUS
<1> PICK o : o = Verdict(Variant(c), answer)
  OBVIOUS
<1>1. /\ c \in live.callers /\ p \in DOMAIN live.plan
      /\ id \in DOMAIN threads /\ id \notin DOMAIN outcomes
  BY DEF CallInv, CallTypes, CallsNumbered, Waiting
<1>2. /\ most \in Nat /\ MaximumCallCost(Variant(c)) = most
      /\ \A d \in Waiting : Most(call[d].provider) \in Nat
      /\ IsFiniteSet(Waiting)
  BY <1>1, WaitingCosts DEF Variant
<1>3. SettledBy(o, p, answer)
  <2>1. Planned(Variant(c), p)
    BY <1>1, PlanIsAgreed DEF CallInv, CallTypes, Variant
  <2>2. SoundAnswer(answer)
    BY <1>1 DEF CallInv, CallTypes, Told, SoundAnswer
  <2> QED
    BY <2>1, <2>2, VerdictSettles
<1>4. o.cost \in Nat /\ o.provider = p
  BY <1>3 DEF SettledBy
<1>5. /\ account' = Settled(most, o.cost) /\ outcomes' = With(outcomes, id, o)
      /\ call' = [call EXCEPT ![c].phase = "idle"]
  BY <1>2 DEF FinishCall
<1>6. /\ DOMAIN outcomes' = DOMAIN outcomes \cup {id} /\ IsFiniteSet(DOMAIN outcomes')
      /\ outcomes'[id] = o
      /\ \A x \in DOMAIN outcomes : outcomes'[x] = outcomes[x]
      /\ SumFunctionOnSet([x \in DOMAIN outcomes' |-> outcomes'[x].cost], DOMAIN outcomes') =
           account.spent + o.cost
      /\ account.spent \in Nat
  BY <1>1, <1>4, <1>5, OutcomeAdded
<1>7. /\ call' \in [live.callers -> [phase : {"idle", "waiting"}, number : Nat,
                                     provider : DOMAIN live.plan \cup {Null}]]
      /\ call'[c].phase = "idle"
      /\ \A d \in live.callers \ {c} : call'[d] = call[d]
      /\ \A d \in live.callers : call'[d].number = call[d].number
  BY <1>1, <1>5 DEF CallInv, CallTypes
<1>8. /\ Waiting' = Waiting \ {c}
      /\ \A d \in Waiting' : call'[d] = call[d] /\ Id(d)' = Id(d) /\ Id(d) # id
  BY <1>1, <1>7 DEF Waiting, Id
<1>9. /\ account \in [cap : {account.cap}, spent : Nat, reserved : Nat]
      /\ account'.cap = account.cap /\ account'.spent = account.spent + o.cost
      /\ account'.reserved = account.reserved - most
      /\ account' = [account EXCEPT !.reserved = @ - most, !.spent = @ + o.cost]
  BY <1>5 DEF CallInv, CallTypes, Settled
<1> PICK g : g = [d \in Waiting |-> Most(call[d].provider)]
  OBVIOUS
<1> PICK f : f = [d \in Waiting' |-> Most(call'[d].provider)]
  OBVIOUS
<1>10. /\ account'.reserved = SumFunctionOnSet(f, Waiting')
       /\ SumFunctionOnSet(f, Waiting') \in Nat
  <2>1. g[c] = most /\ \A d \in Waiting : g[d] \in Nat
    BY <1>2
  <2>2. SumFunctionOnSet(g, Waiting) = g[c] + SumFunctionOnSet(g, Waiting \ {c})
    BY <1>2, <2>1, SumSplit
  <2>3. IsFiniteSet(Waiting \ {c})
    BY <1>2, FS_Subset
  <2>4. \A d \in Waiting \ {c} : g[d] \in Nat /\ g[d] = f[d]
    BY <1>8, <2>1
  <2>5. /\ SumFunctionOnSet(g, Waiting \ {c}) = SumFunctionOnSet(f, Waiting \ {c})
        /\ SumFunctionOnSet(g, Waiting \ {c}) \in Nat
    <3> PICK S : S = Waiting \ {c}
      OBVIOUS
    <3>1. IsFiniteSet(S) /\ \A d \in S : g[d] \in Nat /\ f[d] = g[d]
      BY <2>3, <2>4
    <3>2. SumFunctionOnSet(f, S) = SumFunctionOnSet(g, S)
      BY ONLY <3>1, SumOfSame
    <3>3. SumFunctionOnSet(g, S) \in Nat
      BY ONLY <3>1, SumIsNat
    <3> QED
      BY <3>2, <3>3
  <2>6. account.reserved = SumFunctionOnSet(g, Waiting)
    BY DEF CallInv, AccountBalanced
  <2> QED
    BY <1>2, <1>8, <1>9, <2>1, <2>2, <2>5, <2>6
<1>11. CallTypes'
  <2>1. SoundCalls(live)'
    BY PlanStays DEF CallInv, CallTypes
  <2>2. \A d \in Waiting' : call'[d].provider \in DOMAIN live.plan
    BY <1>8 DEF CallInv, CallTypes
  <2>3. account' \in [cap : {account'.cap}, spent : Nat, reserved : Nat]
    <3>1. account.spent + o.cost \in Nat /\ account.reserved - most \in Nat
      BY <1>4, <1>6, <1>9, <1>10
    <3> QED
      BY <1>9, <3>1
  <2> QED
    BY <1>6, <1>7, <2>1, <2>2, <2>3 DEF CallInv, CallTypes, SoundAnswer
<1>12. CallsNumbered'
  <2>1. \A x \in DOMAIN threads' \cup DOMAIN outcomes' :
          \E d \in live'.callers : \E n \in Nat : x = <<d, n>> /\ n <= call'[d].number
    BY <1>1, <1>6, <1>7 DEF CallInv, CallsNumbered
  <2>2. \A d \in Waiting' : Id(d)' \in DOMAIN threads' \ DOMAIN outcomes'
    BY <1>6, <1>8 DEF CallInv, CallsNumbered
  <2> QED
    BY <2>1, <2>2 DEF CallInv, CallsNumbered
<1>13. OutcomesSettled'
  <2>1. \A x : Told(x)' = Told(x)
    BY DEF Told
  <2>2. \A x \in DOMAIN outcomes' :
          /\ x \notin DOMAIN threads => outcomes'[x].status = "skipped" /\ outcomes'[x].cost = 0
          /\ x \in DOMAIN threads =>
               \E told \in {Told(x), [kind |-> "timeout"]} :
                 SettledBy(outcomes'[x], outcomes'[x].provider, told)
    BY <1>1, <1>3, <1>4, <1>6 DEF CallInv, OutcomesSettled
  <2> QED
    BY <2>1, <2>2, PlanStays DEF OutcomesSettled
<1>14. AccountBalanced'
  <2>1. f = [d \in Waiting |-> Most(call[d].provider)]'
    BY PlanStays
  <2> QED
    BY <1>6, <1>9, <1>10, <2>1 DEF AccountBalanced
<1> QED
  BY <1>11, <1>12, <1>13, <1>14 DEF CallInv

LEMMA TakeStep ==
    ASSUME CallInv, NullIsNoCode, NEW c \in live.callers, Take(c)
    PROVE  CallInv'
<1> PICK answer : answer = queues[Id(c)]
  OBVIOUS
<1>1. /\ c \in Waiting /\ Id(c) \in DOMAIN queues
      /\ FinishCall(c, Verdict(Variant(c), answer))
      /\ live' = live /\ threads' = threads /\ queues' = Without(queues, Id(c))
  BY DEF Take, QueueOf, Waiting
<1>2. answer = Told(Id(c))
  BY <1>1 DEF CallInv, CallsNumbered, Told
<1>3. /\ DOMAIN queues' \subseteq DOMAIN queues
      /\ \A x \in DOMAIN queues' : queues'[x] = queues[x]
  BY <1>1 DEF Without
<1> QED
  BY <1>1, <1>2, <1>3, FinishStep

LEMMA TimeOutStep ==
    ASSUME CallInv, NullIsNoCode, NEW c \in live.callers, TimeOut(c)
    PROVE  CallInv'
<1> PICK answer : answer = [kind |-> "timeout"]
  OBVIOUS
<1>1. /\ c \in Waiting /\ FinishCall(c, Verdict(Variant(c), answer))
      /\ live' = live /\ threads' = threads /\ queues' = queues
  BY DEF TimeOut, Waiting
<1> QED
  BY <1>1, FinishStep

LEMMA CallsStart ==
    ASSUME NEW starts, \A start \in starts : SoundCalls(start), CallInit(starts)
    PROVE  CallInv
<1>1. /\ SoundCalls(live) /\ account.spent = 0 /\ account.reserved = 0
      /\ account = [cap |-> account.cap, spent |-> 0, reserved |-> 0]
      /\ call = [c \in live.callers |-> NoCall]
      /\ DOMAIN threads = {} /\ DOMAIN queues = {} /\ DOMAIN outcomes = {}
  BY DEF CallInit
<1>2. Waiting = {} /\ IsFiniteSet({})
  BY <1>1, FS_EmptySet DEF Waiting, NoCall
<1>3. CallTypes
  BY <1>1, <1>2 DEF CallTypes, NoCall
<1>4. CallsNumbered /\ OutcomesSettled
  BY <1>1, <1>2 DEF CallsNumbered, OutcomesSettled
<1>5. \A f : SumFunctionOnSet(f, {}) = 0
  BY <1>2, SumRule
<1>6. AccountBalanced
  BY <1>1, <1>2, <1>5 DEF AccountBalanced
<1> QED
  BY <1>3, <1>4, <1>6 DEF CallInv

LEMMA CallsStep ==
    ASSUME CallInv, NullIsNoCode, [CallNext]_callVars
    PROVE  CallInv'
<1>1. CASE UNCHANGED callVars
  <2>1. /\ live' = live /\ account' = account /\ call' = call /\ threads' = threads
        /\ queues' = queues /\ outcomes' = outcomes
    BY <1>1 DEF callVars
  <2>2. Waiting' = Waiting /\ \A d : Id(d)' = Id(d) /\ Told(d)' = Told(d)
    BY <2>1 DEF Waiting, Id, Told
  <2>3. CallTypes'
    BY <2>1, <2>2, PlanStays DEF CallInv, CallTypes, SoundAnswer
  <2>4. CallsNumbered'
    BY <2>1, <2>2 DEF CallInv, CallsNumbered
  <2>5. OutcomesSettled'
    BY <2>1, <2>2, PlanStays DEF CallInv, OutcomesSettled
  <2>6. AccountBalanced'
    BY <2>1, <2>2, PlanStays DEF CallInv, AccountBalanced
  <2> QED
    BY <2>3, <2>4, <2>5, <2>6 DEF CallInv
<1>2. CASE CallNext
  <2>1. CASE \E c \in live.callers, p \in DOMAIN live.plan, size \in live.sizes :
               SkipCall(c, p, size) \/ Dispatch(c, p, size)
    BY <2>1, SkipCallStep, DispatchStep
  <2>2. CASE \E id \in DOMAIN threads : \E response \in Menus[live.menu] : Send(id, response)
    BY <2>2, SendStep
  <2>3. CASE \E c \in live.callers : Take(c) \/ TimeOut(c)
    BY <2>3, TakeStep, TimeOutStep
  <2> QED
    BY <1>2, <2>1, <2>2, <2>3 DEF CallNext
<1> QED
  BY <1>1, <1>2

\* The invariant of the calls, for any plan that can be made of a registry and a
\* configuration, any callers and any answers.
THEOREM CallInvariance ==
    ASSUME NullIsNoCode, NEW starts, \A start \in starts : SoundCalls(start)
    PROVE  CallSpec(starts) => []CallInv
<1>1. CallInit(starts) => CallInv
  BY CallsStart
<1>2. CallInv /\ [CallNext]_callVars => CallInv'
  BY CallsStep
<1> QED
  BY <1>1, <1>2, PTL DEF CallSpec

\* base.py: however late, cut short, refused or from another model an answer is,
\* what a call is charged is known from its own answer or the most it can cost,
\* the account is reserved exactly what is waited for, and only one whole sound
\* forecast of the agreed model is a success.
THEOREM CallsSettle ==
    ASSUME NullIsNoCode, NEW starts, \A start \in starts : SoundCalls(start)
    PROVE  CallSpec(starts) => []ProviderCallSettled
<1>1. CallInv => ProviderCallSettled
  BY CallsAreSettled
<1>2. CallSpec(starts) => []CallInv
  BY CallInvariance
<1> QED
  BY <1>1, <1>2, PTL

-----------------------------------------------------------------------------
(* A connection of the relay.                                              *)

Phases == {"absent", "header", "connecting", "tunnel", "closing", "over"}

Connection ==
    [phase : Phases, slot : BOOLEAN, due : Int, answers : Seq(Nat),
     upstream : PublicAddresses \cup {Null}, last : Nat, cut : BOOLEAN]

\* What a load has to be: finitely many clients, and sequences of addresses.
SoundLoad(load) ==
    /\ IsFiniteSet(load.clients)
    /\ \A found \in load.found : DOMAIN found.addresses \subseteq Nat

RelayTypes ==
    /\ instant \in Nat
    /\ active \in Nat
    /\ SoundLoad(traffic)
    /\ client \in [traffic.clients -> Connection]

\* What a connection holds and has said, in each phase.
Held(x) ==
    /\ x.phase \in {"header", "connecting", "tunnel"} => x.slot
    /\ x.phase \in {"absent", "over"} => ~x.slot
    /\ x.upstream # Null => x.slot
    /\ x.phase \in {"absent", "header", "connecting"} => x.answers = <<>>
    /\ Len(x.answers) <= 1
    /\ x.cut => x.phase = "closing"

AllHeld == \A c \in traffic.clients : Held(client[c])

WasIdle(x) == x.cut => instant - x.last >= IdleTimeout

CutIsIdle == \A c \in traffic.clients : WasIdle(client[c])

Holders == {c \in traffic.clients : client[c].slot}

Counted == active = Cardinality(Holders) /\ active <= MaxConnections

RelayInv == RelayTypes /\ AllHeld /\ CutIsIdle /\ Counted

-----------------------------------------------------------------------------
(* The relay: lemmas.                                                      *)

\* The smallest of a set of natural numbers is one of them.
LEMMA MinIsOne ==
    ASSUME NEW S \in SUBSET Nat, S # {}
    PROVE  Min(S) \in S
<1> DEFINE R == {ss \in Nat \X Nat : ss[1] < ss[2]}
<1>1. IsWellFoundedOn(R, Nat)
  BY NatLessThanWellFounded DEF OpToRel
<1>2. \E x \in S : \A y \in S : ~ (<<y, x>> \in R)
  <2> HIDE DEF R
  <2> QED
    BY <1>1, WFMin
<1>3. \E x \in S : \A y \in S : x <= y
  <2>1. PICK x \in S : \A y \in S : ~ (<<y, x>> \in R)
    BY <1>2
  <2>2. ASSUME NEW y \in S PROVE x <= y
    <3>1. <<y, x>> \in Nat \X Nat /\ ~ (<<y, x>> \in R)
      BY <2>1
    <3>2. ~ (y < x)
      BY <3>1
    <3> QED
      BY <3>2
  <2> QED
    BY <2>2
<1> QED
  BY <1>3 DEF Min

\* Whatever _connect_first finds has passed resolve_public_endpoints.
LEMMA FoundIsPublic ==
    ASSUME NEW found, DOMAIN found.addresses \subseteq Nat,
           NEW a, a = ConnectFirst(ResolvePublicEndpoints(found.addresses), found.reachable),
           a # Null
    PROVE  a \in PublicAddresses
<1> DEFINE endpoints == ResolvePublicEndpoints(found.addresses)
           open == {i \in DOMAIN endpoints : endpoints[i] \in found.reachable}
<1>1. CASE Range(found.addresses) \subseteq PublicAddresses
  <2>1. endpoints = found.addresses
    BY <1>1 DEF ResolvePublicEndpoints
  <2>2. open # {} /\ a = endpoints[Min(open)]
    BY DEF ConnectFirst
  <2>3. Min(open) \in DOMAIN found.addresses
    <3>1. open \in SUBSET Nat
      BY <2>1
    <3>2. Min(open) \in open
      BY <2>2, <3>1, MinIsOne
    <3> QED
      BY <3>2, <2>1
  <2> QED
    BY <1>1, <2>1, <2>2, <2>3 DEF Range
<1>2. CASE ~ (Range(found.addresses) \subseteq PublicAddresses)
  <2>1. open = {}
    BY <1>2 DEF ResolvePublicEndpoints
  <2> QED
    BY <2>1 DEF ConnectFirst
<1> QED
  BY <1>1, <1>2

\* One connection gets another state; the slots are counted with it.
LEMMA OneMoves ==
    ASSUME RelayInv,
           NEW c \in traffic.clients, NEW x \in Connection,
           Held(x), WasIdle(x),
           client' = [client EXCEPT ![c] = x],
           UNCHANGED <<instant, traffic>>,
           \/ x.slot = client[c].slot /\ active' = active
           \/ x.slot /\ ~client[c].slot /\ active < MaxConnections /\ active' = active + 1
           \/ ~x.slot /\ client[c].slot /\ active' = active - 1
    PROVE  RelayInv'
<1> USE DEF RelayInv
<1>1. /\ client' \in [traffic.clients -> Connection]
      /\ client'[c] = x
      /\ \A d \in traffic.clients \ {c} : client'[d] = client[d]
  BY DEF RelayTypes
<1>2. AllHeld'
  BY <1>1 DEF AllHeld
<1>3. CutIsIdle'
  BY <1>1 DEF CutIsIdle, WasIdle
<1>4. IsFiniteSet(Holders) /\ IsFiniteSet(Holders')
  BY FS_Subset, <1>1 DEF Holders, RelayTypes, SoundLoad
<1>5. Cardinality(Holders) \in Nat
  BY <1>4, FS_CardinalityType
<1>6. CASE x.slot = client[c].slot /\ active' = active
  <2>1. Holders' = Holders
    BY <1>1, <1>6 DEF Holders
  <2> QED
    BY <1>1, <1>2, <1>3, <1>6, <2>1 DEF Counted, RelayTypes
<1>7. CASE x.slot /\ ~client[c].slot /\ active < MaxConnections /\ active' = active + 1
  <2>1. Holders' = Holders \cup {c} /\ c \notin Holders
    BY <1>1, <1>7 DEF Holders
  <2>2. Cardinality(Holders') = Cardinality(Holders) + 1
    BY <1>4, <2>1, FS_AddElement
  <2> QED
    BY <1>1, <1>2, <1>3, <1>5, <1>7, <2>2, EgressAssumption DEF Counted, RelayTypes
<1>8. CASE ~x.slot /\ client[c].slot /\ active' = active - 1
  <2>1. Holders' = Holders \ {c} /\ c \in Holders
    BY <1>1, <1>8 DEF Holders
  <2>2. Cardinality(Holders') = Cardinality(Holders) - 1
    BY <1>4, <2>1, FS_RemoveElement
  <2> QED
    BY <1>1, <1>2, <1>3, <1>4, <1>5, <1>8, <2>2, FS_CardinalityType, EgressAssumption
    DEF Counted, RelayTypes
<1> QED
  BY <1>6, <1>7, <1>8

\* The ways a connection goes on that change several of its fields.
LEMMA Answered ==
    ASSUME NEW y \in Connection, NEW p \in Phases, NEW d \in Int, NEW said \in Seq(Nat)
    PROVE  [y EXCEPT !.phase = p, !.due = d, !.answers = said] \in Connection
BY DEF Connection

LEMMA Cut ==
    ASSUME NEW y \in Connection, NEW p \in Phases, NEW d \in Int
    PROVE  [y EXCEPT !.phase = p, !.due = d, !.cut = TRUE] \in Connection
BY DEF Connection

LEMMA Connected ==
    ASSUME NEW y \in Connection, NEW p \in Phases, NEW d \in Int, NEW a \in PublicAddresses
    PROVE  [y EXCEPT !.phase = p, !.upstream = a, !.due = d] \in Connection
<1>1. a \in PublicAddresses \cup {Null}
  OBVIOUS
<1> QED
  BY <1>1 DEF Connection

LEMMA Tunnelled ==
    ASSUME NEW y \in Connection, NEW p \in Phases, NEW d \in Int, NEW a \in PublicAddresses,
           NEW said \in Seq(Nat), NEW t \in Nat
    PROVE  [y EXCEPT !.phase = p, !.upstream = a, !.answers = said, !.last = t, !.due = d]
             \in Connection
<1> DEFINE z == [y EXCEPT !.phase = p, !.upstream = a, !.due = d]
<1>1. z \in Connection
  BY Connected
<1>2. [y EXCEPT !.phase = p, !.upstream = a, !.answers = said, !.last = t, !.due = d] =
        [z EXCEPT !.answers = said, !.last = t]
  BY DEF Connection
<1> HIDE DEF z
<1> QED
  BY <1>1, <1>2 DEF Connection

-----------------------------------------------------------------------------
(* The relay: the steps.                                                   *)

\* What the invariant says of one connection.
LEMMA OfOne ==
    ASSUME RelayInv, NEW c \in traffic.clients
    PROVE  /\ client[c] \in Connection
           /\ Held(client[c])
           /\ WasIdle(client[c])
           /\ instant \in Nat
           /\ active \in Nat
BY DEF RelayInv, RelayTypes, AllHeld, CutIsIdle

\* An answer to a connection that has had none, or none at all.
LEMMA ClosingStep ==
    ASSUME RelayInv, NEW c \in traffic.clients, NEW status \in Nat \cup {Null},
           Closing(c, status),
           status # Null => client[c].answers = <<>>,
           ~client[c].cut,
           UNCHANGED <<instant, active, traffic>>
    PROVE  RelayInv'
<1> DEFINE x == [client[c] EXCEPT !.phase = "closing", !.due = 0,
                                  !.answers = IF status = Null THEN @ ELSE Append(@, status)]
<1>1. /\ client[c] \in Connection /\ Held(client[c])
  BY OfOne
<1>2. x \in Connection
  <2> DEFINE said == IF status = Null THEN client[c].answers ELSE Append(client[c].answers, status)
  <2>1. said \in Seq(Nat)
    BY <1>1 DEF Connection
  <2>2. x = [client[c] EXCEPT !.phase = "closing", !.due = 0, !.answers = said]
    OBVIOUS
  <2>3. "closing" \in Phases /\ 0 \in Int
    BY DEF Phases
  <2> HIDE DEF said, x
  <2> QED
    BY <1>1, <2>1, <2>2, <2>3, Answered
<1>3. Held(x) /\ ~x.cut /\ x.slot = client[c].slot
  BY <1>1 DEF Connection, Held
<1>4. client' = [client EXCEPT ![c] = x]
  BY DEF Closing, RelayInv, RelayTypes
<1> HIDE DEF x
<1> QED
  BY <1>2, <1>3, <1>4, OneMoves DEF WasIdle

LEMMA AbsentHolds == Absent \in Connection /\ Held(Absent) /\ ~Absent.cut /\ ~Absent.slot
BY DEF Absent, Connection, Phases, Held

LEMMA InitRelayInv ==
    ASSUME NEW loads, \A load \in loads : SoundLoad(load), EgressInit(loads)
    PROVE  RelayInv
<1>1. SoundLoad(traffic) /\ client = [c \in traffic.clients |-> Absent]
  BY DEF EgressInit
<1>2. Absent \in Connection /\ Held(Absent) /\ ~Absent.cut /\ ~Absent.slot
  BY AbsentHolds
<1>3. Holders = {}
  BY <1>1, <1>2 DEF Holders
<1> QED
  BY <1>1, <1>2, <1>3, FS_EmptySet, EgressAssumption
  DEF EgressInit, RelayInv, RelayTypes, AllHeld, CutIsIdle, WasIdle, Counted

LEMMA ElapseStep == RelayInv /\ Elapse => RelayInv'
<1> SUFFICES ASSUME RelayInv, Elapse PROVE RelayInv'
  OBVIOUS
<1>1. RelayTypes' /\ AllHeld' /\ Counted'
  BY DEF Elapse, RelayInv, RelayTypes, AllHeld, Counted, Holders
<1>2. CutIsIdle'
  <2> SUFFICES ASSUME NEW c \in traffic.clients, client[c].cut
               PROVE  instant' - client[c].last >= IdleTimeout
    BY DEF Elapse, CutIsIdle, WasIdle
  <2>1. client[c] \in Connection /\ WasIdle(client[c]) /\ instant \in Nat
    BY OfOne
  <2>2. instant - client[c].last >= IdleTimeout /\ client[c].last \in Nat
    BY <2>1 DEF WasIdle, Connection
  <2>3. IdleTimeout \in Nat
    BY EgressAssumption
  <2> QED
    BY <2>1, <2>2, <2>3 DEF Elapse
<1> QED
  BY <1>1, <1>2 DEF RelayInv

LEMMA AcceptStep ==
    ASSUME RelayInv, NEW c \in traffic.clients, Accept(c)
    PROVE  RelayInv'
<1> DEFINE x == [client[c] EXCEPT !.phase = "header", !.slot = TRUE, !.due = instant + HeaderTimeout]
<1>1. /\ client[c] \in Connection /\ Held(client[c]) /\ instant \in Nat
  BY OfOne
<1>2. instant + HeaderTimeout \in Int
  BY <1>1, EgressAssumption
<1>3. x \in Connection
  BY <1>1, <1>2 DEF Connection, Phases
<1>4. Held(x) /\ ~x.cut /\ x.slot /\ ~client[c].slot
  BY <1>1 DEF Connection, Held, Accept
<1>5. client' = [client EXCEPT ![c] = x]
  BY DEF Accept
<1> HIDE DEF x
<1> QED
  BY <1>3, <1>4, <1>5, OneMoves DEF Accept, WasIdle

LEMMA TurnAwayStep ==
    ASSUME RelayInv, NEW c \in traffic.clients, TurnAway(c)
    PROVE  RelayInv'
<1>1. Held(client[c])
  BY OfOne
<1> QED
  BY <1>1, ClosingStep DEF TurnAway, Held

LEMMA ReadHeaderStep ==
    ASSUME RelayInv, NEW c \in traffic.clients, NEW request, ReadHeader(c, request)
    PROVE  RelayInv'
<1>1. /\ client[c] \in Connection /\ Held(client[c]) /\ instant \in Nat
  BY OfOne
<1>2. client[c].phase = "header" /\ client[c].answers = <<>> /\ ~client[c].cut
  BY <1>1 DEF ReadHeader, Held
<1>3. CASE RefusalOf(request) # Null
  <2>1. RefusalOf(request) \in Nat
    BY <1>3 DEF RefusalOf
  <2> QED
    BY <1>2, <1>3, <2>1, ClosingStep DEF ReadHeader
<1>4. CASE RefusalOf(request) = Null
  <2> DEFINE x == [client[c] EXCEPT !.phase = "connecting", !.due = instant + ConnectTimeout]
  <2>1. instant + ConnectTimeout \in Int
    BY <1>1, EgressAssumption
  <2>2. x \in Connection
    BY <1>1, <2>1 DEF Connection, Phases
  <2>3. Held(x) /\ ~x.cut /\ x.slot = client[c].slot
    BY <1>1, <1>2 DEF Connection, Held
  <2>4. client' = [client EXCEPT ![c] = x]
    BY <1>4 DEF ReadHeader, RelayInv, RelayTypes
  <2> HIDE DEF x
  <2> QED
    BY <2>2, <2>3, <2>4, OneMoves DEF ReadHeader, WasIdle
<1> QED
  BY <1>3, <1>4

LEMMA ExpireStep ==
    ASSUME RelayInv, NEW c \in traffic.clients, Expire(c)
    PROVE  RelayInv'
<1>1. Held(client[c])
  BY OfOne
<1>2. client[c].answers = <<>> /\ ~client[c].cut
  BY <1>1 DEF Expire, Held
<1> QED
  BY <1>2, ClosingStep DEF Expire

LEMMA UnreachableStep ==
    ASSUME RelayInv, NEW c \in traffic.clients, NEW found, Unreachable(c, found)
    PROVE  RelayInv'
<1>1. Held(client[c])
  BY OfOne
<1>2. client[c].answers = <<>> /\ ~client[c].cut
  BY <1>1 DEF Unreachable, Held
<1> QED
  BY <1>2, ClosingStep DEF Unreachable

LEMMA EstablishStep ==
    ASSUME RelayInv, NEW c \in traffic.clients, NEW found \in traffic.found, NEW gone \in BOOLEAN,
           Establish(c, found, gone)
    PROVE  RelayInv'
<1> DEFINE a == ConnectFirst(ResolvePublicEndpoints(found.addresses), found.reachable)
           x == IF gone THEN [client[c] EXCEPT !.phase = "closing", !.upstream = a, !.due = 0]
                ELSE [client[c] EXCEPT !.phase = "tunnel", !.upstream = a,
                                       !.answers = Append(@, 200), !.last = instant,
                                       !.due = instant + IdleTimeout]
<1>1. /\ client[c] \in Connection /\ Held(client[c]) /\ instant \in Nat
  BY OfOne
<1>2. a # Null /\ a \in PublicAddresses
  <2>1. DOMAIN found.addresses \subseteq Nat
    BY DEF RelayInv, RelayTypes, SoundLoad
  <2>2. a # Null
    BY DEF Establish
  <2> QED
    BY <2>1, <2>2, FoundIsPublic
<1>3. client' = [client EXCEPT ![c] = x]
  <2>1. CASE gone
    BY <2>1, Zenon DEF Establish
  <2>2. CASE ~gone
    BY <2>2, Zenon DEF Establish
  <2> QED
    BY <2>1, <2>2
<1> HIDE DEF a
<1>4. client[c].answers = <<>> /\ ~client[c].cut /\ client[c].slot
  BY <1>1 DEF Establish, Held
<1>5. instant + IdleTimeout \in Int /\ Append(client[c].answers, 200) = <<200>>
  BY <1>1, <1>4, EgressAssumption
<1>6. x \in Connection
  <2>1. CASE gone
    <3>1. "closing" \in Phases /\ 0 \in Int
      BY DEF Phases
    <3>2. x = [client[c] EXCEPT !.phase = "closing", !.upstream = a, !.due = 0]
      BY <2>1
    <3> HIDE DEF x
    <3> QED
      BY <1>1, <1>2, <3>1, <3>2, Connected
  <2>2. CASE ~gone
    <3>1. <<200>> \in Seq(Nat) /\ "tunnel" \in Phases
      BY DEF Phases
    <3> DEFINE said == <<200>>
               d == instant + IdleTimeout
               p == "tunnel"
    <3>2. x = [client[c] EXCEPT !.phase = p, !.upstream = a, !.answers = said,
                                !.last = instant, !.due = d]
      BY <1>5, <2>2
    <3>3. said \in Seq(Nat) /\ p \in Phases /\ d \in Int
      BY <1>5, <3>1
    <3> HIDE DEF x, said, d, p
    <3> QED
      BY <1>1, <1>2, <3>2, <3>3, Tunnelled
  <2> QED
    BY <2>1, <2>2
<1>7. Held(x) /\ ~x.cut /\ x.slot = client[c].slot
  <2>1. CASE gone
    BY <1>1, <1>4, <2>1 DEF Connection, Held
  <2>2. CASE ~gone
    <3>1. x.answers = <<200>> /\ x.phase = "tunnel" /\ x.slot = client[c].slot /\ ~x.cut
      BY <1>1, <1>4, <1>5, <2>2 DEF Connection
    <3> HIDE DEF x
    <3> QED
      BY <1>4, <3>1 DEF Held
  <2> QED
    BY <2>1, <2>2
<1> HIDE DEF x
<1> QED
  BY <1>3, <1>6, <1>7, OneMoves DEF Establish, WasIdle

LEMMA CopyStep ==
    ASSUME RelayInv, NEW c \in traffic.clients, Copy(c)
    PROVE  RelayInv'
<1> DEFINE x == [client[c] EXCEPT !.last = instant]
<1>1. /\ client[c] \in Connection /\ Held(client[c]) /\ instant \in Nat
  BY OfOne
<1>2. x \in Connection /\ Held(x) /\ ~x.cut /\ x.slot = client[c].slot
  BY <1>1 DEF Connection, Held, Copy
<1>3. client' = [client EXCEPT ![c] = x]
  BY DEF Copy
<1> HIDE DEF x
<1> QED
  BY <1>2, <1>3, OneMoves DEF Copy, WasIdle

LEMMA RejectIdleStep ==
    ASSUME RelayInv, NEW c \in traffic.clients, RejectIdle(c)
    PROVE  RelayInv'
<1> DEFINE x == IF IsIdle(c) THEN [client[c] EXCEPT !.phase = "closing", !.due = 0, !.cut = TRUE]
                ELSE [client[c] EXCEPT !.due = client[c].last + IdleTimeout]
<1>1. /\ client[c] \in Connection /\ Held(client[c])
  BY OfOne
<1>2. client[c].last + IdleTimeout \in Int
  BY <1>1, EgressAssumption DEF Connection
<1>3. x \in Connection
  <2>1. CASE IsIdle(c)
    <3>1. "closing" \in Phases /\ 0 \in Int
      BY DEF Phases
    <3>2. x = [client[c] EXCEPT !.phase = "closing", !.due = 0, !.cut = TRUE]
      BY <2>1
    <3> HIDE DEF x
    <3> QED
      BY <1>1, <3>1, <3>2, Cut
  <2>2. CASE ~IsIdle(c)
    BY <1>1, <1>2, <2>2 DEF Connection
  <2> QED
    BY <2>1, <2>2
<1>4. Held(x) /\ x.slot = client[c].slot
  BY <1>1 DEF Connection, Held, RejectIdle
<1>5. WasIdle(x)
  BY <1>1 DEF Connection, Held, RejectIdle, WasIdle, IsIdle
<1>6. client' = [client EXCEPT ![c] = x]
  BY DEF RejectIdle
<1> HIDE DEF x
<1> QED
  BY <1>3, <1>4, <1>5, <1>6, OneMoves DEF RejectIdle

LEMMA HangUpStep ==
    ASSUME RelayInv, NEW c \in traffic.clients, HangUp(c)
    PROVE  RelayInv'
<1>1. Held(client[c])
  BY OfOne
<1>2. ~client[c].cut /\ (client[c].phase = "header" => client[c].answers = <<>>)
  BY <1>1 DEF HangUp, Held
<1>3. CASE client[c].phase = "header"
  BY <1>2, <1>3, ClosingStep DEF HangUp
<1>4. CASE client[c].phase # "header"
  BY <1>2, <1>4, ClosingStep DEF HangUp, AfterTunnel
<1> QED
  BY <1>3, <1>4

LEMMA CloseStep ==
    ASSUME RelayInv, NEW c \in traffic.clients, Close(c)
    PROVE  RelayInv'
<1> DEFINE x == [Absent EXCEPT !.phase = "over"]
<1>1. /\ client[c] \in Connection
  BY OfOne
<1>2. x \in Connection /\ Held(x) /\ ~x.cut /\ ~x.slot
  <2>1. Absent \in Connection /\ Held(Absent) /\ ~Absent.cut /\ ~Absent.slot
    BY AbsentHolds
  <2> QED
    BY <2>1 DEF Absent, Connection, Phases, Held
<1>3. client' = [client EXCEPT ![c] = x]
  BY DEF Close
<1> HIDE DEF x
<1>4. CASE client[c].slot
  BY <1>2, <1>3, <1>4, OneMoves DEF Close, GivenBack, WasIdle
<1>5. CASE ~client[c].slot
  BY <1>1, <1>2, <1>3, <1>5, OneMoves DEF Close, WasIdle, Connection
<1> QED
  BY <1>4, <1>5

LEMMA NextRelayInv == RelayInv /\ [EgressNext]_egressVars => RelayInv'
<1> SUFFICES ASSUME RelayInv, [EgressNext]_egressVars PROVE RelayInv'
  OBVIOUS
<1>1. CASE Elapse
  BY <1>1, ElapseStep
<1>2. ASSUME NEW c \in traffic.clients,
             \/ Accept(c) \/ TurnAway(c) \/ Expire(c) \/ Copy(c) \/ RejectIdle(c) \/ HangUp(c)
             \/ Close(c)
      PROVE  RelayInv'
  BY <1>2, AcceptStep, TurnAwayStep, ExpireStep, CopyStep, RejectIdleStep, HangUpStep, CloseStep
<1>3. ASSUME NEW c \in traffic.clients, NEW request, ReadHeader(c, request) PROVE RelayInv'
  BY <1>3, ReadHeaderStep
<1>4. ASSUME NEW c \in traffic.clients, NEW found \in traffic.found, Unreachable(c, found)
      PROVE  RelayInv'
  BY <1>4, UnreachableStep
<1>5. ASSUME NEW c \in traffic.clients, NEW found \in traffic.found, NEW gone \in BOOLEAN,
             Establish(c, found, gone)
      PROVE  RelayInv'
  BY <1>5, EstablishStep
<1>6. CASE UNCHANGED egressVars
  BY <1>6
  DEF egressVars, RelayInv, RelayTypes, AllHeld, CutIsIdle, WasIdle, Counted, Holders
<1> QED
  BY <1>1, <1>2, <1>3, <1>4, <1>5, <1>6 DEF EgressNext

-----------------------------------------------------------------------------
(* The relay: the theorems.                                                *)

\* The invariant of the relay, whatever it is asked and whatever its resolver
\* answers.
THEOREM RelayInvariance ==
    ASSUME NEW loads, \A load \in loads : SoundLoad(load)
    PROVE  EgressSpec(loads) => []RelayInv
<1>1. EgressInit(loads) => RelayInv
  BY InitRelayInv
<1> QED
  BY <1>1, NextRelayInv, PTL DEF EgressSpec

\* SlotsBalance (provider_egress.py, handle_client): however a connection ends,
\* its slot is held until its sockets are closed and no longer, no more than
\* max_connections are held, an upstream is public, a connection is answered at
\* most once, and only an idle tunnel is cut.
THEOREM SlotsAreBalanced ==
    ASSUME NEW loads, \A load \in loads : SoundLoad(load)
    PROVE  EgressSpec(loads) => []SlotsBalance
<1>1. ASSUME RelayInv PROVE SlotsBalance
  <2> SUFFICES ASSUME NEW c \in traffic.clients
               PROVE  /\ client[c].upstream # Null =>
                           client[c].slot /\ client[c].upstream \in PublicAddresses
                      /\ Len(client[c].answers) <= 1
                      /\ client[c].cut => instant - client[c].last >= IdleTimeout
    BY <1>1 DEF SlotsBalance, RelayInv, Counted, Holders
  <2>1. client[c] \in Connection /\ Held(client[c]) /\ WasIdle(client[c])
    BY <1>1, OfOne
  <2> QED
    BY <2>1 DEF Connection, Held, WasIdle
<1> QED
  BY <1>1, RelayInvariance, PTL
=============================================================================
