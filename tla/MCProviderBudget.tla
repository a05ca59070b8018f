-------------------------- MODULE MCProviderBudget --------------------------
(* An instance of ProviderBudget for TLC. *)
EXTENDS ProviderBudget, TLC

CONSTANTS c1, c2, j1, j2

\* Two jobs of different matches; the dearer variant first.
MCScopeOf == (j1 :> "m1") @@ (j2 :> "m2")

MCPrice == (j1 :> 2) @@ (j2 :> 1)

\* Two days of one month.
MCMonthOf == <<1, 1>>

CallerSymmetry == Permutations(Callers)
=============================================================================
