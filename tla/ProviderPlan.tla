---------------------------- MODULE ProviderPlan ----------------------------
(***************************************************************************)
(* engine/providers/registry.py, models.py and operational.py: which       *)
(* models may be called, at which price and within which budget.  Pure.    *)
(* The registry is the reviewed file, the configuration is the operator's; *)
(* a plan exists only where they agree.  Prices are per token, and a model *)
(* is a model value, Null when the file leaves it open.                    *)
(***************************************************************************)
EXTENDS Commons, Integers, FiniteSets, FiniteSetsExt

CONSTANT PromptTemplate

\* ProviderVariant.operational.
Operational(v) == v.enabled /\ v.resolved /\ v.model # Null /\ v.pinned # Null

MaximumCallCost(v) == v.maxInput * v.inputCost + v.maxOutput * v.outputCost

\* ProviderVariant.__post_init__.
ValidVariant(v) ==
    Operational(v) =>
      /\ v.maxInput > 0 /\ v.maxOutput > 0
      /\ v.policy # "unconfigured"
      /\ v.policy = "immutable_model_id" => v.model = v.pinned

EnabledVariants(registry) == {p \in DOMAIN registry.variants : registry.variants[p].enabled}

\* VariantRegistry.__post_init__.
ValidRegistry(registry) ==
    /\ \A p \in DOMAIN registry.variants :
         /\ ValidVariant(registry.variants[p])
         /\ registry.variants[p].prompt = PromptTemplate
    /\ registry.resolved => registry.daily > 0 /\ registry.monthly > 0

LiveReady(registry) ==
    /\ registry.resolved
    /\ EnabledVariants(registry) # {}
    /\ \A p \in EnabledVariants(registry) : Operational(registry.variants[p])

ConfiguredProviders(config) == {p \in DOMAIN config.providers : config.providers[p].enabled}

PricingCurrencies(registry) ==
    {registry.variants[p].currency : p \in EnabledVariants(registry)}

\* Null when the prices cannot be put into the currency of the budget.
PricingToBudgetRate(config, registry) ==
    IF PricingCurrencies(registry) = {config.currency}
    THEN IF config.rate \in {Null, 1} THEN 1 ELSE Null
    ELSE IF Cardinality(PricingCurrencies(registry)) = 1 THEN config.rate ELSE Null

SameIdentity(chosen, v) ==
    chosen.model = v.model /\ chosen.pinned = v.pinned /\ chosen.policy = v.policy

\* A registry that does not load has no plan either.
Agree(config, registry, secrets) ==
    /\ ValidRegistry(registry)
    /\ config.profile = "personal_home" => config.reviewed = registry.content
    /\ config.live /\ config.aiLive
    /\ registry.currency = config.currency
    /\ ConfiguredProviders(config) = EnabledVariants(registry)
    /\ LiveReady(registry)
    /\ PricingToBudgetRate(config, registry) # Null
    /\ \A p \in ConfiguredProviders(config) :
         LET chosen == config.providers[p]
             v == registry.variants[p]
         IN  /\ SameIdentity(chosen, v)
             /\ v.inputCost > 0 /\ v.outputCost > 0
             /\ chosen.daily <= chosen.monthly
             /\ chosen.secret \in secrets
    /\ MapThenSumSet(LAMBDA p : config.providers[p].daily, ConfiguredProviders(config))
         <= registry.daily
    /\ MapThenSumSet(LAMBDA p : config.providers[p].monthly, ConfiguredProviders(config))
         <= registry.monthly

\* Tokens are the configuration's, prices the registry's at the rate.
PlannedVariant(chosen, v, rate, currency) ==
    [v EXCEPT !.maxInput = chosen.maxInput, !.maxOutput = chosen.maxOutput,
              !.inputCost = @ * rate, !.outputCost = @ * rate, !.currency = currency]

\* build_live_provider_plan; empty where it refuses.
BuildLiveProviderPlan(config, registry, secrets) ==
    [p \in IF Agree(config, registry, secrets) THEN ConfiguredProviders(config) ELSE {} |->
       [variant |-> PlannedVariant(config.providers[p], registry.variants[p],
                                   PricingToBudgetRate(config, registry), config.currency),
        daily |-> config.providers[p].daily]]
=============================================================================
