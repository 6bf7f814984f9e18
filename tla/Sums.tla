--------------------------------- MODULE Sums ----------------------------------
(***************************************************************************)
(* Sums over finite sets, the way the other modules write them, and the       *)
(* induction their theorems need.  The induction rules of the library take    *)
(* the induction hypothesis as an operator; what they rest on, that a         *)
(* well-founded relation has minimal elements, is about sets, and a           *)
(* minimal counterexample serves as well.                                     *)
(***************************************************************************)
EXTENDS Integers, FiniteSetsExt, FiniteSetTheorems, WellFoundedInduction, TLAPS

\* The sum of f over the elements of S.
SumOver(f, S) == MapThenSumSet(LAMBDA x : f[x], S)

Chosen(s) == CHOOSE x \in s : TRUE

\* One unfolding of the fold that adds the elements up.
Unfolded(f, S, g) ==
    [s \in SUBSET S |-> IF s = {} THEN 0 ELSE f[Chosen(s)] + g[s \ {Chosen(s)}]]

Partial(f, S) == CHOOSE g : g = Unfolded(f, S, g)

\* Among finite sets there is always one that has none of the others below it.
LEMMA SmallestSet ==
    ASSUME NEW S, IsFiniteSet(S), NEW T \in SUBSET SUBSET S, T # {}
    PROVE  \E x \in T : \A y \in T : y \subseteq x => y = x
<1>1. IsWellFoundedOn(StrictSubsetOrdering(S), FiniteSubsetsOf(S))
  BY FS_StrictSubsetOrderingWellFounded, Zenon
<1>2. T \subseteq FiniteSubsetsOf(S)
  BY FS_FiniteSubsetsOfFinite, Zenon
<1>3. PICK x \in T : \A y \in T : ~ (<<y, x>> \in StrictSubsetOrdering(S))
  BY <1>1, <1>2, WFMin, Zenon
<1>. QED
  BY <1>3, Zenon DEF StrictSubsetOrdering

\* A set of naturals has a least element.
LEMMA LeastNatural ==
    ASSUME NEW S \in SUBSET Nat, S # {}
    PROVE  \E n \in S : \A m \in S : n <= m
<1> DEFINE Below == {p \in Nat \X Nat : p[1] < p[2]}
<1>1. Below = OpToRel(<, Nat)
  BY Zenon DEF OpToRel
<1>2. IsWellFoundedOn(Below, Nat)
  BY <1>1, NatLessThanWellFounded, Zenon
<1>3. PICK n \in S : \A m \in S : ~ (<<m, n>> \in Below)
  BY <1>2, WFMin, Zenon
<1>4. ASSUME NEW m \in S PROVE n <= m
  <2>1. n \in Nat /\ m \in Nat /\ ~ (<<m, n>> \in Below)
    BY <1>3, Zenon
  <2>2. m < n => <<m, n>> \in Below
    BY <2>1, Zenon
  <2>. QED
    BY <2>1, <2>2
<1>. QED
  BY <1>4, Zenon

\* The element a fold takes next is one of those left.
LEMMA ChosenIsIn ==
    ASSUME NEW s, s # {}
    PROVE  Chosen(s) \in s
  BY Zenon DEF Chosen

\* The sum is the fold, taken at the whole set.
LEMMA SumIsPartial ==
    ASSUME NEW f, NEW S
    PROVE  SumOver(f, S) = Partial(f, S)[S]
  BY Zenon DEF SumOver, MapThenSumSet, MapThenFoldSet, Partial, Unfolded, Chosen

\* Two unfoldings agree where both are defined.
LEMMA UnfoldingsAgree ==
    ASSUME NEW f, NEW S, IsFiniteSet(S), NEW T, NEW g, NEW h,
           g = Unfolded(f, S, g), h = Unfolded(f, T, h)
    PROVE  \A v \in SUBSET (S \cap T) : g[v] = h[v]
<1> DEFINE Bad == {v \in SUBSET (S \cap T) : g[v] # h[v]}
<1>1. SUFFICES ASSUME Bad # {} PROVE FALSE
  BY Zenon
<1>2. Bad \in SUBSET SUBSET S
  BY Zenon
<1>3. PICK x \in Bad : \A y \in Bad : y \subseteq x => y = x
  <2> HIDE DEF Bad
  <2>. QED
    BY <1>1, <1>2, SmallestSet
<1> DEFINE y == x \ {Chosen(x)}
<1>4. x # {}
  BY <1>3, Zenon DEF Unfolded
<1>5. y # x /\ y \subseteq x /\ y \in SUBSET (S \cap T)
  BY <1>3, <1>4, ChosenIsIn, Zenon
<1>6. g[y] = h[y]
  BY <1>3, <1>5, Zenon
<1>7. g[x] = f[Chosen(x)] + g[y] /\ h[x] = f[Chosen(x)] + h[y]
  BY <1>3, <1>4, Zenon DEF Unfolded
<1>. QED
  BY <1>3, <1>6, <1>7, Zenon

\* The fold is defined: it satisfies its own recursion.
LEMMA PartialUnfolds ==
    ASSUME NEW f, NEW S, IsFiniteSet(S)
    PROVE  Partial(f, S) = Unfolded(f, S, Partial(f, S))
<1> DEFINE Bad == {T \in SUBSET S : ~ \E g : g = Unfolded(f, T, g)}
<1>1. ASSUME Bad # {} PROVE FALSE
  <2>1. Bad \in SUBSET SUBSET S
    BY Zenon
  <2>2. PICK T \in Bad : \A y \in Bad : y \subseteq T => y = T
    <3> HIDE DEF Bad
    <3>. QED
      BY <1>1, <2>1, SmallestSet
  <2>3. ASSUME NEW U \in SUBSET T, U # T
        PROVE  Partial(f, U) = Unfolded(f, U, Partial(f, U))
    <3>1. \E g : g = Unfolded(f, U, g)
      BY <2>2, <2>3, Zenon
    <3>. QED
      BY <3>1, Zenon DEF Partial
  <2>4. \A U \in SUBSET T : IsFiniteSet(U)
    BY <2>2, FS_Subset, Zenon
  <2> DEFINE Rest(s) == s \ {Chosen(s)}
             g == [s \in SUBSET T |->
                      IF s = {} THEN 0 ELSE f[Chosen(s)] + Partial(f, Rest(s))[Rest(s)]]
  <2>5. ASSUME NEW u \in SUBSET T, u # T
        PROVE  g[u] = Partial(f, u)[u]
    <3>1. CASE u = {}
      BY <3>1, <2>3, <2>5, Zenon DEF Unfolded
    <3>2. CASE u # {}
      <4>1. Rest(u) \in SUBSET u /\ Rest(u) # u /\ Rest(u) \in SUBSET T /\ Rest(u) # T
        BY <3>2, <2>5, ChosenIsIn, Zenon
      <4>2. Partial(f, u)[u] = f[Chosen(u)] + Partial(f, u)[Rest(u)]
        BY <2>3, <2>5, <3>2, Zenon DEF Unfolded
      <4>3. Partial(f, u)[Rest(u)] = Partial(f, Rest(u))[Rest(u)]
        <5>1. Partial(f, u) = Unfolded(f, u, Partial(f, u))
          BY <2>3, <2>5, Zenon
        <5>2. Partial(f, Rest(u)) = Unfolded(f, Rest(u), Partial(f, Rest(u)))
          BY <2>3, <4>1, Zenon
        <5>3. IsFiniteSet(u) /\ Rest(u) \in SUBSET (u \cap Rest(u))
          BY <2>4, Zenon
        <5> HIDE DEF Rest
        <5>. QED
          BY <5>1, <5>2, <5>3, UnfoldingsAgree
      <4>. QED
        BY <3>2, <4>2, <4>3, Zenon
    <3>. QED
      BY <3>1, <3>2, Zenon
  <2>6. ASSUME NEW s \in SUBSET T, s # {}
        PROVE  g[s] = f[Chosen(s)] + g[Rest(s)]
    <3>1. Rest(s) \in SUBSET T /\ Rest(s) # T
      BY <2>6, ChosenIsIn, Zenon
    <3>2. g[Rest(s)] = Partial(f, Rest(s))[Rest(s)]
      BY <2>5, <3>1, Zenon
    <3>3. g[s] = f[Chosen(s)] + Partial(f, Rest(s))[Rest(s)]
      BY <2>6, Zenon
    <3> HIDE DEF g
    <3>. QED
      BY <3>2, <3>3, Zenon
  <2>7. g = Unfolded(f, T, g)
    <3>1. g = [s \in SUBSET T |-> g[s]] /\ g[{}] = 0
      BY Zenon
    <3> HIDE DEF g
    <3>. QED
      BY <2>6, <3>1, Zenon DEF Unfolded
  <2> HIDE DEF g
  <2>. QED
    BY <2>2, <2>7, Zenon
<1>2. \E g : g = Unfolded(f, S, g)
  BY <1>1, Zenon
<1>. QED
  BY <1>2, Zenon DEF Partial

\* Nothing adds up to zero.
LEMMA SumEmpty ==
    ASSUME NEW f
    PROVE  SumOver(f, {}) = 0
<1>1. Partial(f, {}) = Unfolded(f, {}, Partial(f, {}))
  BY FS_EmptySet, PartialUnfolds, Zenon
<1>. QED
  BY <1>1, SumIsPartial, Zenon DEF Unfolded

\* A sum is one element and the sum of the rest.
LEMMA SumUnfolds ==
    ASSUME NEW f, NEW S, IsFiniteSet(S), S # {}
    PROVE  SumOver(f, S) = f[Chosen(S)] + SumOver(f, S \ {Chosen(S)})
<1> DEFINE T == S \ {Chosen(S)}
<1>1. Partial(f, S) = Unfolded(f, S, Partial(f, S))
  BY PartialUnfolds, Zenon
<1>2. Partial(f, T) = Unfolded(f, T, Partial(f, T))
  BY PartialUnfolds, FS_Subset, Zenon
<1>3. Partial(f, S)[T] = Partial(f, T)[T]
  BY <1>1, <1>2, UnfoldingsAgree
<1>4. Partial(f, S)[S] = f[Chosen(S)] + Partial(f, S)[T]
  BY <1>1, Zenon DEF Unfolded
<1> HIDE DEF T
<1>. QED
  BY <1>3, <1>4, SumIsPartial, Zenon DEF T

\* A sum of integers is an integer,
LEMMA SumIsInteger ==
    ASSUME NEW f, NEW S, IsFiniteSet(S), \A x \in S : f[x] \in Int
    PROVE  SumOver(f, S) \in Int
<1> DEFINE Bad == {T \in SUBSET S : SumOver(f, T) \notin Int}
<1>1. SUFFICES ASSUME Bad # {} PROVE FALSE
  BY Zenon
<1>2. PICK T \in Bad : \A y \in Bad : y \subseteq T => y = T
  <2>1. Bad \in SUBSET SUBSET S
    BY Zenon
  <2> HIDE DEF Bad
  <2>. QED
    BY <1>1, <2>1, SmallestSet
<1>3. T # {}
  BY <1>2, SumEmpty, SMTT(30)
<1> DEFINE U == T \ {Chosen(T)}
<1>4. Chosen(T) \in S /\ U \in SUBSET S /\ U \subseteq T /\ U # T
  BY <1>2, <1>3, ChosenIsIn, Zenon
<1>5. SumOver(f, U) \in Int
  BY <1>2, <1>4, Zenon
<1>6. SumOver(f, T) = f[Chosen(T)] + SumOver(f, U)
  BY <1>2, <1>3, SumUnfolds, FS_Subset, Zenon
<1>. QED
  BY <1>2, <1>4, <1>5, <1>6

\* The order in which the elements are added up does not matter.
LEMMA SumRemove ==
    ASSUME NEW f, NEW S, IsFiniteSet(S), \A x \in S : f[x] \in Int, NEW e \in S
    PROVE  SumOver(f, S) = f[e] + SumOver(f, S \ {e})
<1> DEFINE Bad == {T \in SUBSET S : \E x \in T : SumOver(f, T) # f[x] + SumOver(f, T \ {x})}
<1>1. SUFFICES ASSUME Bad # {} PROVE FALSE
  BY Zenon
<1>2. PICK T \in Bad : \A y \in Bad : y \subseteq T => y = T
  <2>1. Bad \in SUBSET SUBSET S
    BY Zenon
  <2> HIDE DEF Bad
  <2>. QED
    BY <1>1, <2>1, SmallestSet
<1>3. T \in SUBSET S
  BY Zenon
<1>4. PICK x \in T : SumOver(f, T) # f[x] + SumOver(f, T \ {x})
  BY <1>2, Zenon
<1> DEFINE c == Chosen(T)
           U == (T \ {c}) \ {x}
<1>5. c \in T /\ c \in S /\ x \in S
  BY <1>3, <1>4, ChosenIsIn, Zenon
<1>6. SumOver(f, T) = f[c] + SumOver(f, T \ {c})
  BY <1>3, <1>4, SumUnfolds, FS_Subset, Zenon
<1>7. c # x
  BY <1>4, <1>6, Zenon
<1>8. SumOver(f, T \ {c}) = f[x] + SumOver(f, U)
  <2>1. T \ {c} \notin Bad
    BY <1>2, <1>5, Zenon
  <2>. QED
    BY <2>1, <1>3, <1>4, <1>7, Zenon
<1>9. SumOver(f, T \ {x}) = f[c] + SumOver(f, U)
  <2>1. T \ {x} \notin Bad
    BY <1>2, <1>4, Zenon
  <2>2. U = (T \ {x}) \ {c}
    BY Zenon
  <2>. QED
    BY <2>1, <2>2, <1>3, <1>5, <1>7, Zenon
<1>10. f[c] \in Int /\ f[x] \in Int /\ SumOver(f, U) \in Int
  BY <1>3, <1>5, SumIsInteger, FS_Subset, Zenon
<1> HIDE DEF U, c
<1>. QED
  BY <1>4, <1>6, <1>8, <1>9, <1>10

\* Only the values on the set count.
LEMMA SumSame ==
    ASSUME NEW f, NEW g, NEW S, IsFiniteSet(S), \A x \in S : f[x] = g[x]
    PROVE  SumOver(f, S) = SumOver(g, S)
<1> DEFINE Bad == {T \in SUBSET S : SumOver(f, T) # SumOver(g, T)}
<1>1. SUFFICES ASSUME Bad # {} PROVE FALSE
  BY Zenon
<1>2. PICK T \in Bad : \A y \in Bad : y \subseteq T => y = T
  <2>1. Bad \in SUBSET SUBSET S
    BY Zenon
  <2> HIDE DEF Bad
  <2>. QED
    BY <1>1, <2>1, SmallestSet
<1>3. T \in SUBSET S /\ T # {}
  BY <1>2, SumEmpty, Zenon
<1> DEFINE c == Chosen(T)
<1>4. c \in T /\ c \in S
  BY <1>3, ChosenIsIn, Zenon
<1>5. SumOver(f, T) = f[c] + SumOver(f, T \ {c}) /\ SumOver(g, T) = g[c] + SumOver(g, T \ {c})
  BY <1>3, SumUnfolds, FS_Subset, Zenon
<1>6. T \ {c} \notin Bad
  BY <1>2, <1>4, Zenon
<1>7. SumOver(f, T \ {c}) = SumOver(g, T \ {c})
  BY <1>3, <1>6, Zenon
<1>. QED
  BY <1>2, <1>4, <1>5, <1>7, Zenon

\* Changing one value changes the sum by as much.
LEMMA SumUpdate ==
    ASSUME NEW f, NEW g, NEW S, IsFiniteSet(S), NEW e \in S,
           \A x \in S : f[x] \in Int /\ g[x] \in Int,
           \A x \in S \ {e} : g[x] = f[x]
    PROVE  SumOver(g, S) = SumOver(f, S) + g[e] - f[e]
<1>1. SumOver(f, S) = f[e] + SumOver(f, S \ {e}) /\ SumOver(g, S) = g[e] + SumOver(g, S \ {e})
  BY SumRemove
<1>2. IsFiniteSet(S \ {e})
  BY FS_Subset, Zenon
<1>3. SumOver(f, S \ {e}) = SumOver(g, S \ {e})
  BY <1>2, SumSame
<1>4. SumOver(f, S \ {e}) \in Int
  BY <1>2, SumIsInteger, Zenon
<1>. QED
  BY <1>1, <1>3, <1>4

\* and one of naturals a natural.
LEMMA SumIsNatural ==
    ASSUME NEW f, NEW S, IsFiniteSet(S), \A x \in S : f[x] \in Nat
    PROVE  SumOver(f, S) \in Nat
<1> DEFINE Bad == {T \in SUBSET S : SumOver(f, T) \notin Nat}
<1>1. SUFFICES ASSUME Bad # {} PROVE FALSE
  BY Zenon
<1>2. PICK T \in Bad : \A y \in Bad : y \subseteq T => y = T
  <2>1. Bad \in SUBSET SUBSET S
    BY Zenon
  <2> HIDE DEF Bad
  <2>. QED
    BY <1>1, <2>1, SmallestSet
<1>3. T \in SUBSET S /\ T # {}
  <2>1. SumOver(f, {}) \in Nat
    BY SumEmpty
  <2>. QED
    BY <1>2, <2>1, Zenon
<1> DEFINE c == Chosen(T)
<1>4. c \in T /\ c \in S
  BY <1>3, ChosenIsIn, Zenon
<1>5. SumOver(f, T) = f[c] + SumOver(f, T \ {c})
  BY <1>3, SumUnfolds, FS_Subset, Zenon
<1>6. T \ {c} \notin Bad
  BY <1>2, <1>4, Zenon
<1>7. SumOver(f, T \ {c}) \in Nat
  BY <1>3, <1>6, Zenon
<1>. QED
  BY <1>2, <1>4, <1>5, <1>7

\* The sum of all is at least any one of them.
LEMMA SumBounds ==
    ASSUME NEW f, NEW S, IsFiniteSet(S), NEW e \in S, \A x \in S : f[x] \in Nat
    PROVE  f[e] <= SumOver(f, S)
<1>1. SumOver(f, S) = f[e] + SumOver(f, S \ {e})
  BY SumRemove
<1>2. SumOver(f, S \ {e}) \in Nat
  BY SumIsNatural, FS_Subset, Zenon
<1>. QED
  BY <1>1, <1>2

\* A sum of nothing but zeros.
LEMMA SumOfZeros ==
    ASSUME NEW f, NEW S, IsFiniteSet(S), \A x \in S : f[x] = 0
    PROVE  SumOver(f, S) = 0
<1> DEFINE Bad == {T \in SUBSET S : SumOver(f, T) # 0}
<1>1. SUFFICES ASSUME Bad # {} PROVE FALSE
  BY Zenon
<1>2. PICK T \in Bad : \A y \in Bad : y \subseteq T => y = T
  <2>1. Bad \in SUBSET SUBSET S
    BY Zenon
  <2> HIDE DEF Bad
  <2>. QED
    BY <1>1, <2>1, SmallestSet
<1>3. T \in SUBSET S /\ T # {} /\ IsFiniteSet(T)
  BY <1>2, SumEmpty, FS_Subset, Zenon
<1> DEFINE c == Chosen(T)
<1>4. c \in T /\ c \in S
  BY <1>3, ChosenIsIn, Zenon
<1>5. SumOver(f, T) = f[c] + SumOver(f, T \ {c})
  BY <1>3, SumUnfolds, Zenon
<1>6. SumOver(f, T \ {c}) = 0
  BY <1>2, <1>3, <1>4
<1>. QED
  BY <1>2, <1>4, <1>5, <1>6

\* A sum over one element more.
LEMMA SumAdd ==
    ASSUME NEW f, NEW S, IsFiniteSet(S), NEW e, e \notin S, \A x \in S \union {e} : f[x] \in Int
    PROVE  SumOver(f, S \union {e}) = SumOver(f, S) + f[e]
<1>. DEFINE T == S \union {e}
<1>1. IsFiniteSet(T) /\ e \in T /\ T \ {e} = S /\ \A x \in T : f[x] \in Int
  BY FS_AddElement, Zenon
<1>. HIDE DEF T
<1>2. SumOver(f, T) = f[e] + SumOver(f, T \ {e})  BY ONLY <1>1, SumRemove, SMT
<1>3. SumOver(f, S) \in Int  BY <1>1, SumIsInteger, Zenon DEF T
<1>4. f[e] \in Int  BY <1>1, Zenon
<1>5. SumOver(f, T) = f[e] + SumOver(f, S)  BY ONLY <1>1, <1>2, Zenon
<1>6. SumOver(f, T) = SumOver(f, S) + f[e]  BY ONLY <1>3, <1>4, <1>5, SMT
<1>. QED  BY <1>6, Zenon DEF T

\* The sums of Functions are these sums.
LEMMA SumOfFunction ==
    ASSUME NEW f, NEW S
    PROVE  SumFunctionOnSet(f, S) = SumOver(f, S)
  BY Zenon DEF SumFunctionOnSet, FoldFunctionOnSet, SumOver, MapThenSumSet
===============================================================================
