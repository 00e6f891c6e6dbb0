--------------------------------- MODULE Sums ---------------------------------
(***************************************************************************)
(* The laws of SumFunctionOnSet(f, S), the sum of f[x] over a finite set S,*)
(* which the models use wherever the code adds up a map or a slice: the    *)
(* logs of the shards, the charges of a cycle, the hours of a period.      *)
(*                                                                         *)
(* The library defines the sum with a recursive function on the subsets of *)
(* S.  That this function exists, and that it does not depend on the order *)
(* in which elements are chosen, is proved here by minimal counterexample: *)
(* a non-empty set of subsets of a finite set has a member without a proper*)
(* subset in it.  The sum may also be taken over the parts of a partition, *)
(* or only where the function is not zero.                                 *)
(***************************************************************************)
EXTENDS FiniteSets, FiniteSetTheorems, Functions, Integers, TLAPS

-----------------------------------------------------------------------------
(* Induction on the subsets of a finite set.                                *)

\* To show that every subset of a finite set is in G it is enough to show it
\* for a subset whose proper subsets are all in G.
LEMMA SubsetInduction ==
  ASSUME NEW S, IsFiniteSet(S), NEW G,
         \A T \in SUBSET S : (\A U \in SUBSET T : U # T => U \in G) => T \in G
  PROVE  \A T \in SUBSET S : T \in G
<1>. DEFINE C == (SUBSET S) \ G
<1>. SUFFICES ASSUME C # {} PROVE FALSE
  OBVIOUS
<1>. HIDE DEF C
<1>1. IsWellFoundedOn(StrictSubsetOrdering(S), SUBSET S)
  <2>1. FiniteSubsetsOf(S) = SUBSET S
    BY FS_FiniteSubsetsOfFinite
  <2>. QED BY <2>1, FS_StrictSubsetOrderingWellFounded, Zenon
<1>2. C \subseteq SUBSET S /\ C # {}
  BY DEF C
<1>3. PICK T \in C : \A U \in C : <<U, T>> \notin StrictSubsetOrdering(S)
  BY <1>1, <1>2, WFMin
<1>4. \A U \in SUBSET T : U # T => U \notin C
  BY <1>2, <1>3 DEF StrictSubsetOrdering
<1>5. \A U \in SUBSET T : U # T => U \in G
  BY <1>2, <1>4 DEF C
<1>6. T \in SUBSET S /\ T \notin G
  BY <1>2, <1>3 DEF C
<1>. QED BY <1>5, <1>6

\* A finite set of numbers has a least one.
LEMMA LeastExists ==
  ASSUME NEW S \in SUBSET Int, IsFiniteSet(S), S # {}
  PROVE  \E m \in S : \A x \in S : m <= x
<1>. DEFINE G == {T \in SUBSET S : T # {} => \E m \in T : \A x \in T : m <= x}
<1>1. ASSUME NEW T \in SUBSET S, \A U \in SUBSET T : U # T => U \in G
      PROVE  T \in G
  <2>. SUFFICES ASSUME T # {} PROVE \E m \in T : \A x \in T : m <= x
    BY DEF G
  <2>1. PICK y \in T : TRUE
    OBVIOUS
  <2>. DEFINE U == T \ {y}
  <2>2. U \in G
    BY <1>1, <2>1
  <2>3. CASE U = {}
    BY <2>1, <2>3
  <2>4. CASE U # {}
    <3>1. PICK m \in U : \A x \in U : m <= x
      BY <2>2, <2>4
    <3>2. CASE m <= y
      BY <2>1, <3>1, <3>2
    <3>3. CASE ~(m <= y)
      BY <2>1, <3>1, <3>3
    <3>. QED BY <3>2, <3>3
  <2>. QED BY <2>3, <2>4
<1>. HIDE DEF G
<1>2. S \in G
  BY <1>1, SubsetInduction
<1>. QED BY <1>2 DEF G

-----------------------------------------------------------------------------
(* The recursive function behind a sum.                                     *)

Picked(s) == CHOOSE x \in s : TRUE

\* h is the function that the library's fold defines on the subsets of S.
Solves(h, f, S) ==
  h = [s \in SUBSET S |-> IF s = {} THEN 0 ELSE f[Picked(s)] + h[s \ {Picked(s)}]]

\* A sum is the value of such a function at S.
LEMMA SumDef ==
  ASSUME NEW f, NEW S
  PROVE  SumFunctionOnSet(f, S) = (CHOOSE h : Solves(h, f, S))[S]
BY DEF SumFunctionOnSet, FoldFunctionOnSet, MapThenFoldSet, Solves, Picked

\* Two such functions agree where both are defined.
LEMMA SolutionsAgree ==
  ASSUME NEW f, NEW S, IsFiniteSet(S), NEW T \in SUBSET S,
         NEW g, Solves(g, f, T), NEW h, Solves(h, f, S)
  PROVE  g[T] = h[T]
<1>. DEFINE G == {U \in SUBSET T : g[U] = h[U]}
<1>1. IsFiniteSet(T)
  BY FS_Subset
<1>2. ASSUME NEW U \in SUBSET T, \A V \in SUBSET U : V # U => V \in G
      PROVE  U \in G
  <2>1. /\ g[U] = IF U = {} THEN 0 ELSE f[Picked(U)] + g[U \ {Picked(U)}]
        /\ h[U] = IF U = {} THEN 0 ELSE f[Picked(U)] + h[U \ {Picked(U)}]
    BY DEF Solves
  <2>2. CASE U = {}
    BY <2>1, <2>2
  <2>3. CASE U # {}
    <3>1. Picked(U) \in U
      BY <2>3 DEF Picked
    <3>2. U \ {Picked(U)} \in G
      BY <1>2, <3>1
    <3>. QED BY <2>1, <2>3, <3>2
  <2>. QED BY <2>2, <2>3
<1>. HIDE DEF G
<1>3. \A U \in SUBSET T : U \in G
  BY <1>1, <1>2, SubsetInduction
<1>. QED BY <1>3 DEF G

\* For a finite set there is one.
LEMMA SolutionExists ==
  ASSUME NEW f, NEW S, IsFiniteSet(S)
  PROVE  \A T \in SUBSET S : \E h : Solves(h, f, T)
<1>. DEFINE G == {T \in SUBSET S : \E h : Solves(h, f, T)}
            sum(T) == (CHOOSE h : Solves(h, f, T))[T]
<1>1. ASSUME NEW T \in SUBSET S, \A U \in SUBSET T : U # T => U \in G
      PROVE  T \in G
  <2>. DEFINE h == [s \in SUBSET T |-> IF s = {} THEN 0
                                       ELSE f[Picked(s)] + sum(s \ {Picked(s)})]
  <2>1. ASSUME NEW U \in SUBSET T, U # T
        PROVE  sum(U) = h[U]
    <3>. DEFINE k == CHOOSE i : Solves(i, f, U)
    <3>1. Solves(k, f, U)
      BY <1>1, <2>1
    <3>. HIDE DEF k
    <3>2. k[U] = IF U = {} THEN 0 ELSE f[Picked(U)] + k[U \ {Picked(U)}]
      BY <3>1 DEF Solves
    <3>3. ASSUME U # {}
          PROVE  k[U \ {Picked(U)}] = sum(U \ {Picked(U)})
      <4>. DEFINE V == U \ {Picked(U)}
      <4>1. V \in SUBSET U /\ V # T /\ V \in SUBSET T
        BY <2>1
      <4>2. Solves(CHOOSE i : Solves(i, f, V), f, V)
        BY <1>1, <4>1
      <4>3. IsFiniteSet(U)
        BY FS_Subset
      <4>. QED BY <3>1, <4>1, <4>2, <4>3, SolutionsAgree
    <3>4. sum(U) = k[U]
      BY DEF k
    <3>. QED BY <3>2, <3>3, <3>4
  <2>2. ASSUME NEW U \in SUBSET T, U # {}
        PROVE  h[U \ {Picked(U)}] = sum(U \ {Picked(U)})
    <3>1. Picked(U) \in U
      BY <2>2 DEF Picked
    <3>2. U \ {Picked(U)} \in SUBSET T /\ U \ {Picked(U)} # T
      BY <3>1
    <3>. QED BY <2>1, <3>2
  <2>. HIDE DEF sum
  <2>3. h = [s \in SUBSET T |-> IF s = {} THEN 0 ELSE f[Picked(s)] + h[s \ {Picked(s)}]]
    BY <2>2
  <2>. HIDE DEF h
  <2>4. Solves(h, f, T)
    BY <2>3 DEF Solves
  <2>. QED BY <2>4
<1>. HIDE DEF G
<1>2. \A T \in SUBSET S : T \in G
  BY <1>1, SubsetInduction
<1>. QED BY <1>2 DEF G

\* The equations of a sum: nothing adds up to 0, and otherwise one element
\* after the other is taken.
LEMMA SumEquations ==
  ASSUME NEW f, NEW S, IsFiniteSet(S)
  PROVE  IF S = {} THEN SumFunctionOnSet(f, S) = 0
         ELSE /\ Picked(S) \in S
              /\ SumFunctionOnSet(f, S) = f[Picked(S)] + SumFunctionOnSet(f, S \ {Picked(S)})
<1>. DEFINE h(T) == CHOOSE i : Solves(i, f, T)
            V == S \ {Picked(S)}
<1>1. Solves(h(S), f, S) /\ Solves(h(V), f, V)
  BY SolutionExists
<1>. HIDE DEF h
<1>2. h(S)[S] = IF S = {} THEN 0 ELSE f[Picked(S)] + h(S)[V]
  BY <1>1 DEF Solves
<1>3. V \in SUBSET S
  OBVIOUS
<1>. HIDE DEF V
<1>4. h(V)[V] = h(S)[V]
  BY <1>1, <1>3, SolutionsAgree
<1>5. SumFunctionOnSet(f, S) = h(S)[S] /\ SumFunctionOnSet(f, V) = h(V)[V]
  BY SumDef DEF h
<1>6. S # {} => Picked(S) \in S
  BY DEF Picked
<1>. QED BY <1>2, <1>4, <1>5, <1>6 DEF V

-----------------------------------------------------------------------------
(* The laws.                                                                *)

IntsOn(f, S) == \A x \in S : f[x] \in Int
NatsOn(f, S) == \A x \in S : f[x] \in Nat

\* Nothing adds up to zero.
LEMMA SumEmpty ==
  ASSUME NEW f
  PROVE  SumFunctionOnSet(f, {}) = 0
BY SumEquations, FS_EmptySet

\* A sum of integers is one.
LEMMA SumInt ==
  ASSUME NEW f, NEW S, IsFiniteSet(S), IntsOn(f, S)
  PROVE  SumFunctionOnSet(f, S) \in Int
<1>. DEFINE G == {T \in SUBSET S : SumFunctionOnSet(f, T) \in Int}
<1>1. ASSUME NEW T \in SUBSET S, \A U \in SUBSET T : U # T => U \in G
      PROVE  T \in G
  <2>1. CASE T = {}
    BY <2>1, SumEmpty
  <2>2. CASE T # {}
    <3>1. IsFiniteSet(T)
      BY FS_Subset
    <3>2. Picked(T) \in T /\ SumFunctionOnSet(f, T) = f[Picked(T)] + SumFunctionOnSet(f, T \ {Picked(T)})
      BY <2>2, <3>1, SumEquations
    <3>3. T \ {Picked(T)} \in G /\ f[Picked(T)] \in Int
      BY <1>1, <3>2 DEF IntsOn
    <3>. QED BY <3>2, <3>3
  <2>. QED BY <2>1, <2>2
<1>. HIDE DEF G
<1>2. \A T \in SUBSET S : T \in G
  BY <1>1, SubsetInduction
<1>. QED BY <1>2 DEF G

\* The order in which elements are taken does not matter.
LEMMA SumRemove ==
  ASSUME NEW f, NEW S, IsFiniteSet(S), IntsOn(f, S), NEW x \in S
  PROVE  SumFunctionOnSet(f, S) = f[x] + SumFunctionOnSet(f, S \ {x})
<1>. DEFINE sum(T) == SumFunctionOnSet(f, T)
            G == {T \in SUBSET S : \A y \in T : sum(T) = f[y] + sum(T \ {y})}
<1>0. \A T \in SUBSET S : IsFiniteSet(T) /\ sum(T) \in Int
  BY FS_Subset, SumInt DEF IntsOn
<1>1. ASSUME NEW T \in SUBSET S, \A U \in SUBSET T : U # T => U \in G
      PROVE  T \in G
  <2>. SUFFICES ASSUME NEW y \in T PROVE sum(T) = f[y] + sum(T \ {y})
    OBVIOUS
  <2>. DEFINE p == Picked(T)
  <2>1. p \in T /\ sum(T) = f[p] + sum(T \ {p})
    BY <1>0, SumEquations
  <2>. HIDE DEF sum, p
  <2>2. CASE p = y
    BY <2>1, <2>2
  <2>3. CASE p # y
    <3>1. T \ {p} \in G /\ y \in T \ {p} /\ T \ {y} \in G /\ p \in T \ {y}
      BY <1>1, <2>1, <2>3
    <3>2. /\ sum(T \ {p}) = f[y] + sum((T \ {p}) \ {y})
          /\ sum(T \ {y}) = f[p] + sum((T \ {y}) \ {p})
      BY <3>1
    <3>. DEFINE W == (T \ {p}) \ {y}
    <3>3. (T \ {y}) \ {p} = W /\ W \in SUBSET S
      OBVIOUS
    <3>4. sum(W) \in Int /\ f[p] \in Int /\ f[y] \in Int
      BY <1>0, <2>1, <3>3 DEF IntsOn
    <3>5. sum(T \ {p}) = f[y] + sum(W) /\ sum(T \ {y}) = f[p] + sum(W)
      BY <3>2, <3>3
    <3>. HIDE DEF W
    <3>. QED BY <2>1, <3>4, <3>5
  <2>. QED BY <2>2, <2>3
<1>. HIDE DEF G
<1>2. \A T \in SUBSET S : T \in G
  BY <1>1, SubsetInduction
<1>. QED BY <1>2 DEF G

\* A new element adds its value.
LEMMA SumAddElement ==
  ASSUME NEW f, NEW S, IsFiniteSet(S), NEW x, x \notin S, IntsOn(f, S \cup {x})
  PROVE  SumFunctionOnSet(f, S \cup {x}) = f[x] + SumFunctionOnSet(f, S)
<1>. DEFINE T == S \cup {x}
<1>1. IsFiniteSet(T) /\ T \ {x} = S /\ x \in T /\ IntsOn(f, T)
  BY FS_AddElement
<1>. HIDE DEF T
<1>2. SumFunctionOnSet(f, T) = f[x] + SumFunctionOnSet(f, S)
  BY <1>1, SumRemove
<1>. QED BY <1>2 DEF T

\* One element alone is its value.
LEMMA SumSingleton ==
  ASSUME NEW f, NEW x, f[x] \in Int
  PROVE  SumFunctionOnSet(f, {x}) = f[x]
<1>1. IsFiniteSet({}) /\ IntsOn(f, {} \cup {x}) /\ {} \cup {x} = {x}
  BY FS_EmptySet DEF IntsOn
<1>2. SumFunctionOnSet(f, {} \cup {x}) = f[x] + SumFunctionOnSet(f, {})
  BY <1>1, SumAddElement
<1>. QED BY <1>1, <1>2, SumEmpty

\* Sums add up element by element.
LEMMA SumPointwise ==
  ASSUME NEW S, IsFiniteSet(S), NEW f, NEW g, NEW h, IntsOn(f, S), IntsOn(g, S),
         \A x \in S : h[x] = f[x] + g[x]
  PROVE  SumFunctionOnSet(h, S) = SumFunctionOnSet(f, S) + SumFunctionOnSet(g, S)
<1>. DEFINE sum(e, T) == SumFunctionOnSet(e, T)
            G == {T \in SUBSET S : sum(h, T) = sum(f, T) + sum(g, T)}
<1>0. \A T \in SUBSET S : IsFiniteSet(T) /\ sum(f, T) \in Int /\ sum(g, T) \in Int
  BY FS_Subset, SumInt DEF IntsOn
<1>1. ASSUME NEW T \in SUBSET S, \A U \in SUBSET T : U # T => U \in G
      PROVE  T \in G
  <2>1. CASE T = {}
    BY <2>1, SumEmpty
  <2>2. CASE T # {}
    <3>. DEFINE p == Picked(T)
                V == T \ {p}
    <3>1. /\ p \in T
          /\ sum(f, T) = f[p] + sum(f, V)
          /\ sum(g, T) = g[p] + sum(g, V)
          /\ sum(h, T) = h[p] + sum(h, V)
      BY <1>0, <2>2, SumEquations
    <3>2. V \in G /\ V \in SUBSET S
      BY <1>1, <3>1
    <3>. HIDE DEF sum, p, V
    <3>3. sum(h, V) = sum(f, V) + sum(g, V) /\ sum(f, V) \in Int /\ sum(g, V) \in Int
      BY <1>0, <3>2
    <3>4. h[p] = f[p] + g[p] /\ f[p] \in Int /\ g[p] \in Int
      BY <3>1 DEF IntsOn
    <3>. QED BY <3>1, <3>3, <3>4
  <2>. QED BY <2>1, <2>2
<1>. HIDE DEF G
<1>2. \A T \in SUBSET S : T \in G
  BY <1>1, SubsetInduction
<1>. QED BY <1>2 DEF G

\* All zeros add up to zero.
LEMMA SumZero ==
  ASSUME NEW S, IsFiniteSet(S), NEW f, \A x \in S : f[x] = 0
  PROVE  SumFunctionOnSet(f, S) = 0
<1>1. IntsOn(f, S) /\ \A x \in S : f[x] = f[x] + f[x]
  BY DEF IntsOn
<1>2. SumFunctionOnSet(f, S) = SumFunctionOnSet(f, S) + SumFunctionOnSet(f, S)
  BY <1>1, SumPointwise
<1>. QED BY <1>1, <1>2, SumInt

\* What agrees on the set has the same sum.
LEMMA SumEqual ==
  ASSUME NEW S, IsFiniteSet(S), NEW f, NEW g, IntsOn(f, S), \A x \in S : g[x] = f[x]
  PROVE  SumFunctionOnSet(g, S) = SumFunctionOnSet(f, S)
<1>. DEFINE zero == [x \in S |-> 0]
<1>1. IntsOn(zero, S) /\ \A x \in S : g[x] = f[x] + zero[x]
  BY DEF IntsOn
<1>2. SumFunctionOnSet(zero, S) = 0
  BY SumZero
<1>. HIDE DEF zero
<1>3. SumFunctionOnSet(g, S) = SumFunctionOnSet(f, S) + SumFunctionOnSet(zero, S)
  BY <1>1, SumPointwise
<1>. QED BY <1>2, <1>3, SumInt

\* Changing one value changes the sum by as much.
LEMMA SumChange ==
  ASSUME NEW S, IsFiniteSet(S), NEW f, NEW g, NEW y \in S, NEW d \in Int,
         IntsOn(f, S), g[y] = f[y] + d, \A x \in S \ {y} : g[x] = f[x]
  PROVE  SumFunctionOnSet(g, S) = SumFunctionOnSet(f, S) + d
<1>. DEFINE sum(e, T) == SumFunctionOnSet(e, T)
            V == S \ {y}
<1>1. IsFiniteSet(V) /\ IntsOn(f, V) /\ IntsOn(g, S) /\ \A x \in V : g[x] = f[x]
  BY FS_Subset DEF IntsOn
<1>2. sum(f, S) = f[y] + sum(f, V) /\ sum(g, S) = g[y] + sum(g, V)
  BY <1>1, SumRemove
<1>3. sum(g, V) = sum(f, V)
  BY <1>1, SumEqual
<1>4. sum(f, V) \in Int /\ f[y] \in Int
  BY <1>1, SumInt DEF IntsOn
<1>. HIDE DEF sum, V
<1>5. sum(g, S) = sum(f, S) + d
  BY <1>2, <1>3, <1>4
<1>. QED BY <1>5 DEF sum

\* A sum of natural numbers is one.
LEMMA SumNat ==
  ASSUME NEW S, IsFiniteSet(S), NEW f, NatsOn(f, S)
  PROVE  SumFunctionOnSet(f, S) \in Nat
<1>. DEFINE G == {T \in SUBSET S : SumFunctionOnSet(f, T) \in Nat}
<1>1. ASSUME NEW T \in SUBSET S, \A U \in SUBSET T : U # T => U \in G
      PROVE  T \in G
  <2>1. CASE T = {}
    BY <2>1, SumEmpty
  <2>2. CASE T # {}
    <3>1. IsFiniteSet(T)
      BY FS_Subset
    <3>2. Picked(T) \in T /\ SumFunctionOnSet(f, T) = f[Picked(T)] + SumFunctionOnSet(f, T \ {Picked(T)})
      BY <2>2, <3>1, SumEquations
    <3>3. T \ {Picked(T)} \in G /\ f[Picked(T)] \in Nat
      BY <1>1, <3>2 DEF NatsOn
    <3>. QED BY <3>2, <3>3
  <2>. QED BY <2>1, <2>2
<1>. HIDE DEF G
<1>2. \A T \in SUBSET S : T \in G
  BY <1>1, SubsetInduction
<1>. QED BY <1>2 DEF G

\* A part of a sum of natural numbers is not more than the whole.
LEMMA SumMember ==
  ASSUME NEW S, IsFiniteSet(S), NEW f, NatsOn(f, S), NEW x \in S
  PROVE  f[x] <= SumFunctionOnSet(f, S)
<1>1. IntsOn(f, S) /\ NatsOn(f, S \ {x}) /\ IsFiniteSet(S \ {x}) /\ f[x] \in Nat
  BY FS_Subset DEF IntsOn, NatsOn
<1>2. SumFunctionOnSet(f, S \ {x}) \in Nat
  BY <1>1, SumNat
<1>3. SumFunctionOnSet(f, S) = f[x] + SumFunctionOnSet(f, S \ {x})
  BY <1>1, SumRemove
<1>. QED BY <1>1, <1>2, <1>3

\* A sum of smaller numbers is smaller.
LEMMA SumAtMost ==
  ASSUME NEW S, IsFiniteSet(S), NEW f, NEW g, NatsOn(f, S), NatsOn(g, S),
         \A x \in S : f[x] <= g[x]
  PROVE  SumFunctionOnSet(f, S) <= SumFunctionOnSet(g, S)
<1>. DEFINE d == [x \in S |-> g[x] - f[x]]
            sumF == SumFunctionOnSet(f, S)
            sumD == SumFunctionOnSet(d, S)
            sumG == SumFunctionOnSet(g, S)
<1>1. /\ IntsOn(f, S) /\ IntsOn(d, S) /\ NatsOn(d, S)
      /\ \A x \in S : g[x] = f[x] + d[x]
  BY DEF IntsOn, NatsOn
<1>. HIDE DEF d
<1>2. sumF \in Nat /\ sumD \in Nat /\ sumG \in Nat
  BY <1>1, SumNat
<1>3. sumG = sumF + sumD
  BY <1>1, SumPointwise
<1>. HIDE DEF sumF, sumD, sumG
<1>4. sumF <= sumG
  BY <1>2, <1>3
<1>. QED BY <1>4 DEF sumF, sumG

\* A sum does not need the elements that add nothing.
LEMMA SumOnPart ==
  ASSUME NEW S, IsFiniteSet(S), NEW A \in SUBSET S, NEW f, IntsOn(f, S), \A x \in S \ A : f[x] = 0
  PROVE  SumFunctionOnSet(f, A) = SumFunctionOnSet(f, S)
<1>. DEFINE sum(T) == SumFunctionOnSet(f, T)
            G == {T \in SUBSET S : sum(A \cap T) = sum(T)}
<1>1. ASSUME NEW T \in SUBSET S, \A U \in SUBSET T : U # T => U \in G
      PROVE  T \in G
  <2>1. CASE T = {}
    <3>1. A \cap T = T
      BY <2>1
    <3>. QED BY <3>1
  <2>2. CASE T # {}
    <3>1. PICK y \in T : TRUE
      BY <2>2
    <3>. DEFINE U == T \ {y}
    <3>2. sum(A \cap U) = sum(U)
      BY <1>1, <3>1
    <3>3. IsFiniteSet(T) /\ IsFiniteSet(A \cap T) /\ IntsOn(f, T) /\ IntsOn(f, A \cap T)
      BY FS_Subset DEF IntsOn
    <3>4. sum(T) = f[y] + sum(U)
      BY <3>1, <3>3, SumRemove
    <3>5. IsFiniteSet(U) /\ IntsOn(f, U)
      BY <3>3, FS_Subset DEF IntsOn
    <3>6. sum(U) \in Int
      BY <3>5, SumInt
    <3>7. CASE y \in A
      <4>1. (A \cap T) \ {y} = A \cap U /\ y \in A \cap T
        BY <3>1, <3>7
      <4>2. sum(A \cap T) = f[y] + sum((A \cap T) \ {y})
        BY <3>3, <4>1, SumRemove
      <4>. QED BY <3>2, <3>4, <4>1, <4>2
    <3>8. CASE y \notin A
      <4>1. A \cap T = A \cap U /\ f[y] = 0
        BY <3>1, <3>8
      <4>2. sum(A \cap T) = sum(A \cap U)
        BY <4>1
      <4>. DEFINE b == sum(U)
      <4>3. sum(T) = f[y] + b /\ b \in Int
        BY <3>4, <3>6
      <4>. HIDE DEF sum, U, b
      <4>4. sum(T) = b
        BY <4>1, <4>3
      <4>. QED BY <3>2, <4>2, <4>4 DEF b
    <3>. QED BY <3>7, <3>8
  <2>. QED BY <2>1, <2>2
<1>. HIDE DEF G
<1>2. S \in G
  BY <1>1, SubsetInduction
<1>3. A \cap S = A
  OBVIOUS
<1>. QED BY <1>2, <1>3 DEF G

\* The sums of the parts of a partition make up the sum of the whole.
LEMMA SumPartition ==
  ASSUME NEW S, IsFiniteSet(S), NEW I, IsFiniteSet(I), NEW f, IntsOn(f, S),
         NEW h, \A x \in S : h[x] \in I
  PROVE  SumFunctionOnSet([i \in I |-> SumFunctionOnSet(f, {x \in S : h[x] = i})], I)
           = SumFunctionOnSet(f, S)
<1>. DEFINE part(T, i) == {x \in T : h[x] = i}
            parts(T) == [i \in I |-> SumFunctionOnSet(f, part(T, i))]
            G == {T \in SUBSET S : SumFunctionOnSet(parts(T), I) = SumFunctionOnSet(f, T)}
<1>0. ASSUME NEW T \in SUBSET S
      PROVE  /\ IsFiniteSet(T) /\ IntsOn(f, T) /\ IntsOn(parts(T), I)
             /\ \A i \in I : IsFiniteSet(part(T, i)) /\ IntsOn(f, part(T, i))
  <2>1. IsFiniteSet(T) /\ IntsOn(f, T)
    BY FS_Subset DEF IntsOn
  <2>2. ASSUME NEW i \in I
        PROVE  IsFiniteSet(part(T, i)) /\ IntsOn(f, part(T, i)) /\ parts(T)[i] \in Int
    <3>1. part(T, i) \in SUBSET T
      OBVIOUS
    <3>. HIDE DEF part
    <3>2. IsFiniteSet(part(T, i)) /\ IntsOn(f, part(T, i))
      BY <2>1, <3>1, FS_Subset DEF IntsOn
    <3>3. SumFunctionOnSet(f, part(T, i)) \in Int
      BY <3>2, SumInt
    <3>. QED BY <3>2, <3>3
  <2>. QED BY <2>1, <2>2 DEF IntsOn
<1>1. ASSUME NEW T \in SUBSET S, \A U \in SUBSET T : U # T => U \in G
      PROVE  T \in G
  <2>1. CASE T = {}
    <3>1. \A i \in I : part(T, i) = {}
      BY <2>1
    <3>2. \A i \in I : parts(T)[i] = 0
      BY <3>1, SumEmpty
    <3>. HIDE DEF parts
    <3>3. SumFunctionOnSet(parts(T), I) = 0
      BY <3>2, SumZero
    <3>. QED BY <2>1, <3>3, SumEmpty
  <2>2. CASE T # {}
    <3>1. PICK y \in T : TRUE
      BY <2>2
    <3>. DEFINE U == T \ {y}
                j == h[y]
    <3>2. U \in G /\ U \in SUBSET S /\ j \in I /\ f[y] \in Int
      BY <1>1, <3>1 DEF IntsOn
    <3>3. ASSUME NEW i \in I \ {j} PROVE parts(T)[i] = parts(U)[i]
      <4>1. part(T, i) = part(U, i)
        OBVIOUS
      <4>. QED BY <4>1
    <3>4. parts(T)[j] = parts(U)[j] + f[y]
      <4>1. y \in part(T, j) /\ part(T, j) \ {y} = part(U, j)
        BY <3>1
      <4>2. IsFiniteSet(part(T, j)) /\ IntsOn(f, part(T, j)) /\ parts(U)[j] \in Int
        BY <1>0, <3>2 DEF IntsOn
      <4>. HIDE DEF part, j
      <4>3. SumFunctionOnSet(f, part(T, j)) = f[y] + SumFunctionOnSet(f, part(U, j))
        <5>1. SumFunctionOnSet(f, part(T, j)) = f[y] + SumFunctionOnSet(f, part(T, j) \ {y})
          BY <4>1, <4>2, SumRemove
        <5>. QED BY <4>1, <5>1
      <4>4. /\ parts(T)[j] = SumFunctionOnSet(f, part(T, j))
            /\ parts(U)[j] = SumFunctionOnSet(f, part(U, j))
        BY <3>2
      <4>. DEFINE a == parts(T)[j]
                  b == parts(U)[j]
      <4>5. a = f[y] + b /\ b \in Int
        BY <4>2, <4>3, <4>4
      <4>. HIDE DEF a, b
      <4>6. a = b + f[y]
        BY <3>2, <4>5
      <4>. QED BY <4>6 DEF a, b
    <3>5. SumFunctionOnSet(f, T) = f[y] + SumFunctionOnSet(f, U)
      BY <1>0, <3>1, SumRemove, ZenonT(30)
    <3>6. IntsOn(parts(U), I) /\ SumFunctionOnSet(f, U) \in Int
      BY <1>0, <3>2, SumInt
    <3>7. SumFunctionOnSet(parts(U), I) = SumFunctionOnSet(f, U)
      BY <3>2
    <3>. HIDE DEF parts, U, j
    <3>8. SumFunctionOnSet(parts(T), I) = SumFunctionOnSet(parts(U), I) + f[y]
      BY <3>2, <3>3, <3>4, <3>6, SumChange
    <3>. QED BY <3>2, <3>5, <3>6, <3>7, <3>8
  <2>. QED BY <2>1, <2>2
<1>. HIDE DEF G
<1>2. S \in G
  BY <1>1, SubsetInduction
<1>. QED BY <1>2 DEF G
==============================================================================
