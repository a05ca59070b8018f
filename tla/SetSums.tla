------------------------------ MODULE SetSums ------------------------------
(***************************************************************************)
(* What SumFunctionOnSet says of finite sets, for the proofs about the     *)
(* budget and the market.  The induction is that a smallest set of those   *)
(* for which a fact would fail cannot exist.                               *)
(***************************************************************************)
EXTENDS Integers, FiniteSets, Functions, FiniteSetTheorems, WellFoundedInduction, TLAPS

LEMMA SmallestSet ==
    ASSUME NEW S, IsFiniteSet(S), NEW C \in SUBSET SUBSET S, C # {}
    PROVE  \E T \in C : \A U \in C : U \subseteq T => U = T
<1> DEFINE R == StrictSubsetOrdering(S)
<1>1. IsWellFoundedOn(R, FiniteSubsetsOf(S)) /\ FiniteSubsetsOf(S) = SUBSET S
  BY FS_StrictSubsetOrderingWellFounded, FS_FiniteSubsetsOfFinite
<1>2. \E T \in C : \A U \in C : ~ (<<U, T>> \in R)
  <2> HIDE DEF R
  <2> QED
    BY <1>1, WFMin
<1>3. PICK T \in C : \A U \in C : ~ (<<U, T>> \in R)
  BY <1>2
<1>4. ASSUME NEW U \in C, U \subseteq T PROVE U = T
  BY <1>3, <1>4 DEF StrictSubsetOrdering
<1> QED
  BY <1>4

Pick(s) == CHOOSE x \in s : TRUE

\* What SumFunctionOnSet chooses.
Sums(g, f, S) ==
    g = [s \in SUBSET S |-> IF s = {} THEN 0 ELSE f[Pick(s)] + g[s \ {Pick(s)}]]

LEMMA SumIsChosen ==
    ASSUME NEW f, NEW S
    PROVE  SumFunctionOnSet(f, S) = (CHOOSE g : Sums(g, f, S))[S]
BY DEF SumFunctionOnSet, FoldFunctionOnSet, MapThenFoldSet, Sums, Pick

LEMMA SumsSay ==
    ASSUME NEW f, NEW S, NEW g, Sums(g, f, S), NEW s \in SUBSET S
    PROVE  /\ s = {} => g[s] = 0
           /\ s # {} => Pick(s) \in s /\ g[s] = f[Pick(s)] + g[s \ {Pick(s)}]
<1>1. g[s] = IF s = {} THEN 0 ELSE f[Pick(s)] + g[s \ {Pick(s)}]
  <2> DEFINE e(t) == IF t = {} THEN 0 ELSE f[Pick(t)] + g[t \ {Pick(t)}]
  <2>1. g = [t \in SUBSET S |-> e(t)]
    BY DEF Sums
  <2>2. g[s] = e(s)
    <3> HIDE DEF e
    <3> QED
      BY <2>1
  <2> QED
    BY <2>2
<1>2. s # {} => Pick(s) \in s
  BY DEF Pick
<1> QED
  BY <1>1, <1>2

LEMMA SumsAgree ==
    ASSUME NEW f, NEW A, NEW B, IsFiniteSet(A),
           NEW g, Sums(g, f, A), NEW h, Sums(h, f, B), NEW S, S \subseteq A, S \subseteq B
    PROVE  g[S] = h[S]
<1> DEFINE C == {s \in SUBSET A : s \subseteq B /\ g[s] # h[s]}
<1> SUFFICES ASSUME C # {} PROVE FALSE
  OBVIOUS
<1>1. C \in SUBSET SUBSET A
  OBVIOUS
<1>2. PICK T \in C : \A U \in C : U \subseteq T => U = T
  <2> HIDE DEF C
  <2> QED
    BY <1>1, SmallestSet
<1>3. T \in SUBSET A /\ T \in SUBSET B /\ g[T] # h[T]
  OBVIOUS
<1>4. T # {}
  BY <1>3, SumsSay
<1> DEFINE U == T \ {Pick(T)}
<1>5. Pick(T) \in T /\ g[T] = f[Pick(T)] + g[U] /\ h[T] = f[Pick(T)] + h[U]
  BY <1>3, <1>4, SumsSay
<1>6. g[U] = h[U]
  <2>1. U \subseteq T /\ U # T /\ U \in SUBSET A /\ U \subseteq B
    BY <1>3, <1>5
  <2> QED
    BY <1>2, <2>1
<1> QED
  BY <1>3, <1>5, <1>6

LEMMA SumsExist ==
    ASSUME NEW f, NEW S, IsFiniteSet(S)
    PROVE  \E g : Sums(g, f, S)
<1> DEFINE C == {s \in SUBSET S : ~ \E g : Sums(g, f, s)}
<1> SUFFICES ASSUME C # {} PROVE FALSE
  OBVIOUS
<1>1. C \in SUBSET SUBSET S
  OBVIOUS
<1>2. PICK T \in C : \A U \in C : U \subseteq T => U = T
  <2> HIDE DEF C
  <2> QED
    BY <1>1, SmallestSet
<1> DEFINE own(U) == CHOOSE g : Sums(g, f, U)
           g == [s \in SUBSET T |-> IF s = {} THEN 0 ELSE f[Pick(s)] + own(s \ {Pick(s)})[s \ {Pick(s)}]]
<1>3. ASSUME NEW U \in SUBSET T, U # T PROVE Sums(own(U), f, U) /\ IsFiniteSet(U)
  <2>1. U \in SUBSET S /\ U \notin C
    BY <1>2, <1>3
  <2>2. \E h : Sums(h, f, U)
    BY <2>1
  <2> QED
    BY <2>1, <2>2, FS_Subset
<1>4. ASSUME NEW U \in SUBSET T, U # T PROVE g[U] = own(U)[U]
  <2>1. g[U] = IF U = {} THEN 0 ELSE f[Pick(U)] + own(U \ {Pick(U)})[U \ {Pick(U)}]
    OBVIOUS
  <2>2. CASE U = {}
    <3>1. own(U)[U] = 0
      <4> HIDE DEF own
      <4> QED
        BY <1>3, <1>4, <2>2, SumsSay
    <3> QED
      BY <2>1, <2>2, <3>1
  <2>3. CASE U # {}
    <3> DEFINE V == U \ {Pick(U)}
    <3>1. Pick(U) \in U
      BY <2>3 DEF Pick
    <3>2. V \in SUBSET T /\ V # T /\ V \subseteq U
      BY <1>4, <3>1
    <3>3. own(U)[U] = f[Pick(U)] + own(U)[V]
      <4> HIDE DEF own
      <4> QED
        BY <1>3, <1>4, <2>3, SumsSay
    <3>4. own(U)[V] = own(V)[V]
      <4>1. Sums(own(U), f, U) /\ IsFiniteSet(U) /\ Sums(own(V), f, V)
        BY <1>3, <1>4, <3>2
      <4> HIDE DEF own, V
      <4> QED
        BY <3>2, <4>1, SumsAgree
    <3> QED
      BY <2>1, <2>3, <3>3, <3>4
  <2> QED
    BY <2>2, <2>3
<1>5. Sums(g, f, T)
  <2>1. ASSUME NEW s \in SUBSET T
        PROVE  g[s] = IF s = {} THEN 0 ELSE f[Pick(s)] + g[s \ {Pick(s)}]
    <3>1. CASE s = {}
      BY <3>1
    <3>2. CASE s # {}
      <4>1. Pick(s) \in s
        BY <3>2 DEF Pick
      <4>2. s \ {Pick(s)} \in SUBSET T /\ s \ {Pick(s)} # T
        BY <4>1
      <4>3. g[s \ {Pick(s)}] = own(s \ {Pick(s)})[s \ {Pick(s)}]
        <5> HIDE DEF g
        <5> QED
          BY <1>4, <4>2
      <4>4. g[s] = f[Pick(s)] + own(s \ {Pick(s)})[s \ {Pick(s)}]
        BY <3>2
      <4> QED
        BY <3>2, <4>3, <4>4
    <3> QED
      BY <3>1, <3>2
  <2>2. g = [s \in SUBSET T |-> g[s]]
    OBVIOUS
  <2> HIDE DEF g
  <2> QED
    BY <2>1, <2>2 DEF Sums
<1> HIDE DEF g
<1> QED
  BY <1>5

\* The sum over a set is that of one element and the rest of it.
LEMMA SumRule ==
    ASSUME NEW f, NEW S, IsFiniteSet(S)
    PROVE  /\ SumFunctionOnSet(f, {}) = 0
           /\ S # {} => /\ Pick(S) \in S
                        /\ SumFunctionOnSet(f, S) =
                             f[Pick(S)] + SumFunctionOnSet(f, S \ {Pick(S)})
<1> DEFINE own(U) == CHOOSE g : Sums(g, f, U)
<1>1. ASSUME NEW U, IsFiniteSet(U)
      PROVE  Sums(own(U), f, U) /\ SumFunctionOnSet(f, U) = own(U)[U]
  BY <1>1, SumsExist, SumIsChosen
<1> HIDE DEF own
<1>2. SumFunctionOnSet(f, {}) = 0
  <2>1. Sums(own({}), f, {}) /\ SumFunctionOnSet(f, {}) = own({})[{}] /\ {} \in SUBSET {}
    BY <1>1, FS_EmptySet
  <2> QED
    BY <2>1, SumsSay
<1>3. ASSUME S # {}
      PROVE  /\ Pick(S) \in S
             /\ SumFunctionOnSet(f, S) = f[Pick(S)] + SumFunctionOnSet(f, S \ {Pick(S)})
  <2> DEFINE U == S \ {Pick(S)}
  <2>1. IsFiniteSet(U) /\ U \subseteq S
    BY FS_Subset
  <2>2. Pick(S) \in S /\ own(S)[S] = f[Pick(S)] + own(S)[U]
    BY <1>1, <1>3, SumsSay
  <2>3. own(S)[U] = own(U)[U]
    <3> HIDE DEF U
    <3> QED
      BY <1>1, <2>1, SumsAgree
  <2> QED
    BY <1>1, <2>1, <2>2, <2>3
<1> QED
  BY <1>2, <1>3

LEMMA SumIsNat ==
    ASSUME NEW f, NEW S, IsFiniteSet(S), \A x \in S : f[x] \in Nat
    PROVE  SumFunctionOnSet(f, S) \in Nat
<1> DEFINE C == {s \in SUBSET S : SumFunctionOnSet(f, s) \notin Nat}
<1> SUFFICES ASSUME C # {} PROVE FALSE
  OBVIOUS
<1>1. C \in SUBSET SUBSET S
  OBVIOUS
<1>2. PICK T \in C : \A U \in C : U \subseteq T => U = T
  <2> HIDE DEF C
  <2> QED
    BY <1>1, SmallestSet
<1>3. IsFiniteSet(T) /\ SumFunctionOnSet(f, T) \notin Nat /\ T \in SUBSET S
  BY FS_Subset
<1> DEFINE U == T \ {Pick(T)}
<1>4. ASSUME T = {} PROVE FALSE
  <2>1. SumFunctionOnSet(f, T) = 0
    BY <1>3, <1>4, SumRule
  <2> QED
    BY <1>3, <2>1
<1>5. Pick(T) \in T /\ SumFunctionOnSet(f, T) = f[Pick(T)] + SumFunctionOnSet(f, U)
  BY <1>3, <1>4, SumRule
<1>6. SumFunctionOnSet(f, U) \in Nat
  <2>1. U \subseteq T /\ U # T /\ U \in SUBSET S
    BY <1>3, <1>5
  <2> QED
    BY <1>2, <2>1
<1>7. f[Pick(T)] \in Nat
  BY <1>3, <1>5
<1> QED
  BY <1>3, <1>5, <1>6, <1>7

\* Any element may be taken out first.
LEMMA SumSplit ==
    ASSUME NEW f, NEW S, IsFiniteSet(S), \A x \in S : f[x] \in Nat, NEW a \in S
    PROVE  SumFunctionOnSet(f, S) = f[a] + SumFunctionOnSet(f, S \ {a})
<1> DEFINE Splits(s, x) == SumFunctionOnSet(f, s) = f[x] + SumFunctionOnSet(f, s \ {x})
           C == {s \in SUBSET S : \E x \in s : ~ Splits(s, x)}
<1> SUFFICES ASSUME C # {} PROVE FALSE
  OBVIOUS
<1>1. C \in SUBSET SUBSET S
  OBVIOUS
<1>2. PICK T \in C : \A U \in C : U \subseteq T => U = T
  <2> HIDE DEF C
  <2> QED
    BY <1>1, SmallestSet
<1>3. T \in SUBSET S /\ IsFiniteSet(T)
  BY FS_Subset
<1>4. PICK x \in T : ~ Splits(T, x)
  BY <1>2
<1> DEFINE p == Pick(T)
<1>5. p \in T /\ Splits(T, p)
  BY <1>3, <1>4, SumRule
<1>6. p # x
  BY <1>4, <1>5
<1>7. ASSUME NEW U \in SUBSET T, U # T, NEW y \in U PROVE Splits(U, y)
  BY <1>2, <1>3, <1>7
<1>8. Splits(T \ {p}, x) /\ Splits(T \ {x}, p)
  <2>1. /\ T \ {p} \in SUBSET T /\ T \ {p} # T /\ x \in T \ {p}
        /\ T \ {x} \in SUBSET T /\ T \ {x} # T /\ p \in T \ {x}
    BY <1>4, <1>5, <1>6
  <2> HIDE DEF Splits, p
  <2> QED
    BY <1>7, <2>1
<1> DEFINE rest == SumFunctionOnSet(f, (T \ {p}) \ {x})
<1>9. f[p] \in Nat /\ f[x] \in Nat /\ rest \in Nat
  <2>1. IsFiniteSet((T \ {p}) \ {x}) /\ (T \ {p}) \ {x} \subseteq S
    BY <1>3, FS_Subset
  <2>2. rest \in Nat
    BY <2>1, SumIsNat
  <2> QED
    BY <1>3, <1>4, <1>5, <2>2
<1>10. (T \ {x}) \ {p} = (T \ {p}) \ {x}
  OBVIOUS
<1>11. SumFunctionOnSet(f, T) = f[p] + (f[x] + rest)
  BY <1>5, <1>8
<1>12. SumFunctionOnSet(f, T \ {x}) = f[p] + rest
  BY <1>8, <1>10
<1>13. f[p] + (f[x] + rest) = f[x] + (f[p] + rest)
  BY <1>9
<1> QED
  BY <1>4, <1>11, <1>12, <1>13

\* A sum grows with what is summed.
LEMMA SumGrows ==
    ASSUME NEW f, NEW g, NEW S, IsFiniteSet(S),
           \A x \in S : f[x] \in Nat /\ g[x] \in Nat /\ f[x] <= g[x]
    PROVE  SumFunctionOnSet(f, S) <= SumFunctionOnSet(g, S)
<1> DEFINE C == {s \in SUBSET S : ~ (SumFunctionOnSet(f, s) <= SumFunctionOnSet(g, s))}
<1> SUFFICES ASSUME C # {} PROVE FALSE
  OBVIOUS
<1>1. C \in SUBSET SUBSET S
  OBVIOUS
<1>2. PICK T \in C : \A U \in C : U \subseteq T => U = T
  <2> HIDE DEF C
  <2> QED
    BY <1>1, SmallestSet
<1>3. IsFiniteSet(T) /\ T \in SUBSET S
  BY FS_Subset
<1>4. ASSUME T = {} PROVE FALSE
  <2>1. SumFunctionOnSet(f, T) = 0 /\ SumFunctionOnSet(g, T) = 0
    BY <1>3, <1>4, SumRule
  <2>2. ~ (SumFunctionOnSet(f, T) <= SumFunctionOnSet(g, T))
    OBVIOUS
  <2> QED
    BY <2>1, <2>2
<1>5. PICK a : a \in T
  BY <1>4
<1> DEFINE U == T \ {a}
<1>6. /\ SumFunctionOnSet(f, T) = f[a] + SumFunctionOnSet(f, U)
      /\ SumFunctionOnSet(g, T) = g[a] + SumFunctionOnSet(g, U)
  BY <1>3, <1>5, SumSplit
<1>7. /\ SumFunctionOnSet(f, U) \in Nat /\ SumFunctionOnSet(g, U) \in Nat
      /\ SumFunctionOnSet(f, U) <= SumFunctionOnSet(g, U)
  <2>1. U \subseteq T /\ U # T /\ U \in SUBSET S /\ IsFiniteSet(U)
    BY <1>3, <1>5, FS_Subset
  <2>2. SumFunctionOnSet(f, U) <= SumFunctionOnSet(g, U)
    BY <1>2, <2>1
  <2>3. SumFunctionOnSet(f, U) \in Nat /\ SumFunctionOnSet(g, U) \in Nat
    <3> HIDE DEF U
    <3> QED
      BY <2>1, SumIsNat
  <2> QED
    BY <2>2, <2>3
<1>8. f[a] \in Nat /\ g[a] \in Nat /\ f[a] <= g[a]
  BY <1>3, <1>5
<1>9. SumFunctionOnSet(f, T) <= SumFunctionOnSet(g, T)
  BY <1>6, <1>7, <1>8
<1> QED
  BY <1>2, <1>9

\* A sum of nothing but zeros.
LEMMA SumOfZeros ==
    ASSUME NEW f, NEW S, IsFiniteSet(S), \A x \in S : f[x] = 0
    PROVE  SumFunctionOnSet(f, S) = 0
<1> DEFINE C == {s \in SUBSET S : SumFunctionOnSet(f, s) # 0}
<1> SUFFICES ASSUME C # {} PROVE FALSE
  OBVIOUS
<1>1. C \in SUBSET SUBSET S
  OBVIOUS
<1>2. PICK T \in C : \A U \in C : U \subseteq T => U = T
  <2> HIDE DEF C
  <2> QED
    BY <1>1, SmallestSet
<1>3. IsFiniteSet(T) /\ T \in SUBSET S
  BY FS_Subset
<1>4. ASSUME T = {} PROVE FALSE
  BY <1>3, <1>4, SumRule
<1>5. Pick(T) \in T /\ SumFunctionOnSet(f, T) = f[Pick(T)] + SumFunctionOnSet(f, T \ {Pick(T)})
  BY <1>3, <1>4, SumRule
<1>6. SumFunctionOnSet(f, T \ {Pick(T)}) = 0
  BY <1>2, <1>3, <1>5
<1> QED
  BY <1>3, <1>5, <1>6

\* A sum of which only one element counts.
LEMMA SumOfOne ==
    ASSUME NEW f, NEW S, IsFiniteSet(S), NEW a \in S, f[a] \in Nat,
           \A x \in S \ {a} : f[x] = 0
    PROVE  SumFunctionOnSet(f, S) = f[a]
<1>1. \A x \in S : f[x] \in Nat
  OBVIOUS
<1>2. SumFunctionOnSet(f, S) = f[a] + SumFunctionOnSet(f, S \ {a})
  BY <1>1, SumSplit
<1>3. IsFiniteSet(S \ {a})
  BY FS_Subset
<1>4. SumFunctionOnSet(f, S \ {a}) = 0
  BY <1>3, SumOfZeros
<1> QED
  BY <1>2, <1>4

\* The sum of two integers.
LEMMA SumOfTwo ==
    ASSUME NEW f, NEW a, NEW b, a # b, f[a] \in Int, f[b] \in Int
    PROVE  SumFunctionOnSet(f, {a, b}) = f[a] + f[b]
<1>1. ASSUME NEW S, NEW c \in S, S = {c}, f[c] \in Int PROVE SumFunctionOnSet(f, S) = f[c]
  <2>1. IsFiniteSet(S)
    BY <1>1, FS_Singleton
  <2>2. /\ Pick(S) \in S
        /\ SumFunctionOnSet(f, S) = f[Pick(S)] + SumFunctionOnSet(f, S \ {Pick(S)})
        /\ SumFunctionOnSet(f, {}) = 0
    BY <2>1, SumRule
  <2>3. Pick(S) = c /\ S \ {Pick(S)} = {}
    BY <1>1, <2>2
  <2>4. SumFunctionOnSet(f, S) = f[c] + 0
    BY <2>2, <2>3
  <2> QED
    BY <1>1, <2>4
<1>2. PICK S : S = {a, b}
  OBVIOUS
<1>3. IsFiniteSet(S)
  <2>1. IsFiniteSet({a}) /\ S = {a} \cup {b}
    BY <1>2, FS_Singleton
  <2> QED
    BY <2>1, FS_AddElement
<1>4. /\ Pick(S) \in S
      /\ SumFunctionOnSet(f, S) = f[Pick(S)] + SumFunctionOnSet(f, S \ {Pick(S)})
  BY <1>2, <1>3, SumRule
<1>5. CASE Pick(S) = a
  <2>1. S \ {a} = {b} /\ b \in S \ {a}
    BY <1>2
  <2>2. SumFunctionOnSet(f, S \ {a}) = f[b]
    BY <1>1, <2>1
  <2> QED
    BY <1>2, <1>4, <1>5, <2>2
<1>6. CASE Pick(S) = b
  <2>1. S \ {b} = {a} /\ a \in S \ {b}
    BY <1>2
  <2>2. SumFunctionOnSet(f, S \ {b}) = f[a]
    BY <1>1, <2>1
  <2>3. SumFunctionOnSet(f, S) = f[b] + f[a]
    BY <1>4, <1>6, <2>2
  <2> QED
    BY <1>2, <2>3
<1> QED
  BY <1>2, <1>4, <1>5, <1>6

\* Equal elements have equal sums.
LEMMA SumOfSame ==
    ASSUME NEW f, NEW g, NEW S, IsFiniteSet(S), \A x \in S : f[x] \in Nat /\ f[x] = g[x]
    PROVE  SumFunctionOnSet(f, S) = SumFunctionOnSet(g, S)
<1>1. \A x \in S : f[x] \in Nat /\ g[x] \in Nat /\ f[x] <= g[x] /\ g[x] <= f[x]
  OBVIOUS
<1>2. SumFunctionOnSet(f, S) \in Nat /\ SumFunctionOnSet(g, S) \in Nat
  BY <1>1, SumIsNat
<1>3. SumFunctionOnSet(f, S) <= SumFunctionOnSet(g, S)
  BY <1>1, SumGrows
<1>4. SumFunctionOnSet(g, S) <= SumFunctionOnSet(f, S)
  BY <1>1, SumGrows
<1> QED
  BY <1>2, <1>3, <1>4

\* One element more, of a function that is otherwise the same.
LEMMA SumOfMore ==
    ASSUME NEW f, NEW g, NEW S, IsFiniteSet(S), NEW a, a \notin S, f[a] \in Nat,
           \A x \in S : f[x] \in Nat /\ f[x] = g[x]
    PROVE  SumFunctionOnSet(f, S \cup {a}) = f[a] + SumFunctionOnSet(g, S)
<1> PICK T : T = S \cup {a}
  OBVIOUS
<1>1. IsFiniteSet(T) /\ a \in T /\ \A x \in T : f[x] \in Nat
  BY FS_AddElement
<1>2. SumFunctionOnSet(f, T) = f[a] + SumFunctionOnSet(f, T \ {a})
  BY <1>1, SumSplit
<1>3. T \ {a} = S
  OBVIOUS
<1>4. SumFunctionOnSet(f, S) = SumFunctionOnSet(g, S)
  BY SumOfSame
<1> QED
  BY <1>2, <1>3, <1>4

\* A sum under other names.
LEMMA SumRenamed ==
    ASSUME NEW f, NEW g, NEW h, NEW S, IsFiniteSet(S),
           \A x \in S : f[x] \in Nat /\ f[x] = g[h[x]],
           \A x, y \in S : h[x] = h[y] => x = y
    PROVE  SumFunctionOnSet(f, S) = SumFunctionOnSet(g, {h[x] : x \in S})
<1> DEFINE C == {s \in SUBSET S :
                   SumFunctionOnSet(f, s) # SumFunctionOnSet(g, {h[x] : x \in s})}
<1> SUFFICES ASSUME C # {} PROVE FALSE
  OBVIOUS
<1>1. C \in SUBSET SUBSET S
  OBVIOUS
<1>2. PICK T \in C : \A U \in C : U \subseteq T => U = T
  <2> HIDE DEF C
  <2> QED
    BY <1>1, SmallestSet
<1>3. IsFiniteSet(T) /\ T \in SUBSET S
  BY FS_Subset
<1>4. ASSUME T = {} PROVE FALSE
  <2>1. {h[x] : x \in T} = {}
    BY <1>4
  <2>2. IsFiniteSet({})
    BY FS_EmptySet
  <2>3. SumFunctionOnSet(f, {}) = 0 /\ SumFunctionOnSet(g, {}) = 0
    BY <2>2, SumRule
  <2>4. SumFunctionOnSet(f, T) # SumFunctionOnSet(g, {h[x] : x \in T})
    OBVIOUS
  <2> QED
    BY <1>4, <2>1, <2>3, <2>4
<1>5. PICK a : a \in T
  BY <1>4
<1> PICK U : U = T \ {a}
  OBVIOUS
<1> PICK B : B = {h[x] : x \in T}
  OBVIOUS
<1>6. SumFunctionOnSet(f, T) = f[a] + SumFunctionOnSet(f, U)
  BY <1>3, <1>5, SumSplit
<1>7. SumFunctionOnSet(f, U) = SumFunctionOnSet(g, {h[x] : x \in U})
  <2>1. U \in SUBSET S /\ U \subseteq T /\ U # T
    BY <1>3, <1>5
  <2> QED
    BY <1>2, <2>1
<1>8. SumFunctionOnSet(g, B) = g[h[a]] + SumFunctionOnSet(g, B \ {h[a]})
  <2>1. IsFiniteSet(B)
    <3> DEFINE image == [x \in T |-> h[x]]
    <3>1. image \in Surjection(T, B)
      BY DEF Surjection
    <3> QED
      BY <1>3, <3>1, FS_Surjection
  <2>2. \A y \in B : g[y] \in Nat
    BY <1>3
  <2> QED
    BY <1>5, <2>1, <2>2, SumSplit
<1>9. B \ {h[a]} = {h[x] : x \in U}
  BY <1>3, <1>5
<1>10. SumFunctionOnSet(f, T) = SumFunctionOnSet(g, B)
  BY <1>3, <1>5, <1>6, <1>7, <1>8, <1>9
<1> QED
  BY <1>2, <1>10
=============================================================================
