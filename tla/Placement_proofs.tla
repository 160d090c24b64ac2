--------------------------- MODULE Placement_proofs --------------------------
(***************************************************************************)
(* Facts about the sums of Placement: SumFunctionOnSet is a recursive      *)
(* function over the subsets of a set, and adding an element to the set    *)
(* adds its value to the sum.                                              *)
(***************************************************************************)
EXTENDS Placement, FiniteSetTheorems, TLAPS

\* Induction over the subsets of a finite set, stated for a family F of them.
LEMMA SubsetInduction ==
  ASSUME NEW S, IsFiniteSet(S), NEW F,
         \A T \in SUBSET S : (\A U \in (SUBSET T) \ {T} : U \in F) => T \in F
  PROVE  S \in F
<1> SUFFICES ASSUME S \notin F
             PROVE  FALSE
  OBVIOUS
<1> DEFINE Bad == {T \in SUBSET S : T \notin F}
<1>1. IsWellFoundedOn(StrictSubsetOrdering(S), SUBSET S)
  <2>1. FiniteSubsetsOf(S) = SUBSET S
    BY FS_FiniteSubsetsOfFinite
  <2>2. IsWellFoundedOn(StrictSubsetOrdering(S), FiniteSubsetsOf(S))
    BY FS_StrictSubsetOrderingWellFounded
  <2> QED  BY <2>1, <2>2
<1>2. Bad \subseteq SUBSET S /\ Bad # {}
  OBVIOUS
<1>3. PICK T \in Bad : \A U \in Bad : ~ (<<U, T>> \in StrictSubsetOrdering(S))
  <2> HIDE DEF Bad
  <2> QED  BY <1>1, <1>2, WFMin
<1>4. ASSUME NEW U \in (SUBSET T) \ {T}
      PROVE  U \in F
  <2>1. <<U, T>> \in StrictSubsetOrdering(S) /\ U \in SUBSET S
    BY <1>3 DEF StrictSubsetOrdering
  <2> QED  BY <1>3, <2>1
<1> QED
  BY <1>3, <1>4

\* Induction that adds one element at a time.
LEMMA InsertInduction ==
  ASSUME NEW S, IsFiniteSet(S), NEW F, {} \in F,
         \A T \in SUBSET S : \A x \in S \ T : T \in F => T \cup {x} \in F
  PROVE  S \in F
<1>1. ASSUME NEW T \in SUBSET S, \A U \in (SUBSET T) \ {T} : U \in F
      PROVE  T \in F
  <2>1. CASE T = {}
    BY <2>1
  <2>2. CASE T # {}
    <3>1. PICK x \in T : TRUE
      BY <2>2
    <3>2. /\ T \ {x} \in SUBSET S /\ x \in S \ (T \ {x})
          /\ (T \ {x}) \cup {x} = T /\ T \ {x} \in F
      BY <1>1, <3>1
    <3> QED  BY <3>2
  <2> QED  BY <2>1, <2>2
<1> QED  BY <1>1, SubsetInduction

\* g gives the sum of f over any subset of S, whatever the order.
Additive(g, f, S) ==
  /\ g \in [SUBSET S -> Int]
  /\ g[{}] = 0
  /\ \A T \in SUBSET S : \A x \in S \ T : g[T \cup {x}] = g[T] + f[x]

\* Such a function exists for every finite set.
LEMMA AdditiveExists ==
  ASSUME NEW S, IsFiniteSet(S), NEW f, \A x \in S : f[x] \in Int
  PROVE  \E g : Additive(g, f, S)
<1> DEFINE F == {T \in SUBSET S : \E g : Additive(g, f, T)}
<1>1. {} \in F
  <2>1. Additive([T \in SUBSET {} |-> 0], f, {})
    BY DEF Additive
  <2> QED
    BY <2>1
<1>2. ASSUME NEW V \in SUBSET S, NEW x \in V, V \ {x} \in F
      PROVE  V \in F
  <2> DEFINE T == V \ {x}
  <2>0. T \cup {x} = V /\ x \in S \ T
    OBVIOUS
  <2>1. PICK g : Additive(g, f, T)
    BY <1>2
  <2> HIDE DEF T
  <2> DEFINE h == [U \in SUBSET (T \cup {x}) |->
                     IF x \in U THEN g[U \ {x}] + f[x] ELSE g[U]]
  <2>2. h[{}] = 0
    BY <2>1 DEF Additive
  <2>3. ASSUME NEW U \in SUBSET (T \cup {x})
        PROVE  h[U] \in Int
    BY <2>1 DEF Additive
  <2>4. ASSUME NEW U \in SUBSET (T \cup {x}), NEW y \in (T \cup {x}) \ U
        PROVE  h[U \cup {y}] = h[U] + f[y]
    <3>1. CASE y = x
      <4>1. (U \cup {y}) \ {x} = U /\ U \cup {y} \in SUBSET (T \cup {x})
        BY <3>1
      <4> QED  BY <3>1, <4>1
    <3>2. CASE y # x /\ x \in U
      <4>1. /\ (U \cup {y}) \ {x} = (U \ {x}) \cup {y}
            /\ U \ {x} \in SUBSET T /\ y \in T \ (U \ {x})
            /\ U \cup {y} \in SUBSET (T \cup {x})
        BY <3>2
      <4>2. g[(U \ {x}) \cup {y}] = g[U \ {x}] + f[y]
        BY <4>1, <2>1 DEF Additive
      <4>3. g[U \ {x}] \in Int /\ f[x] \in Int /\ f[y] \in Int
        BY <4>1, <2>0, <2>1 DEF Additive
      <4>4. h[U \cup {y}] = g[(U \ {x}) \cup {y}] + f[x] /\ h[U] = g[U \ {x}] + f[x]
        BY <3>2, <4>1
      <4> HIDE DEF h
      <4> QED  BY <4>2, <4>3, <4>4
    <3>3. CASE y # x /\ x \notin U
      <4>1. U \in SUBSET T /\ y \in T \ U /\ U \cup {y} \in SUBSET (T \cup {x})
        BY <3>3
      <4>2. h[U \cup {y}] = g[U \cup {y}] /\ h[U] = g[U]
        BY <3>3, <4>1
      <4> HIDE DEF h
      <4> QED  BY <4>1, <4>2, <2>1 DEF Additive
    <3> QED  BY <3>1, <3>2, <3>3
  <2>5. h \in [SUBSET (T \cup {x}) -> Int]
    BY <2>3
  <2>6. Additive(h, f, V)
    <3> HIDE DEF h
    <3> QED  BY <2>0, <2>2, <2>4, <2>5 DEF Additive
  <2> QED
    BY <2>6
<1> HIDE DEF F
<1>3. ASSUME NEW V \in SUBSET S, \A U \in (SUBSET V) \ {V} : U \in F
      PROVE  V \in F
  <2>1. CASE V = {}
    BY <1>1, <2>1
  <2>2. CASE V # {}
    <3>1. PICK x \in V : TRUE
      BY <2>2
    <3>2. V \ {x} \in F
      BY <1>3, <3>1
    <3> QED  BY <1>2, <3>1, <3>2
  <2> QED  BY <2>1, <2>2
<1>4. S \in F
  BY <1>3, SubsetInduction
<1> QED
  BY <1>4 DEF F

\* The equation of the fold's recursive function.
Step(h, f, S) ==
  h = [s \in SUBSET S |->
         IF s = {} THEN 0
         ELSE LET x == CHOOSE x \in s : TRUE IN f[x] + h[s \ {x}]]

\* SumFunctionOnSet is the value of a function that satisfies the equation.
LEMMA SumIsFold ==
  ASSUME NEW f, NEW S
  PROVE  SumFunctionOnSet(f, S) = (CHOOSE h : Step(h, f, S))[S]
BY Zenon DEF SumFunctionOnSet, FoldFunctionOnSet, MapThenFoldSet, Step

\* The equation has one solution, so the sum is the value of any additive g.
LEMMA SumIsAdditive ==
  ASSUME NEW S, IsFiniteSet(S), NEW f, \A x \in S : f[x] \in Int, NEW g, Additive(g, f, S)
  PROVE  SumFunctionOnSet(f, S) = g[S]
<1>1. Step(g, f, S)
  <2>1. ASSUME NEW s \in SUBSET S, s # {}
        PROVE  g[s] = f[CHOOSE x \in s : TRUE] + g[s \ {CHOOSE x \in s : TRUE}]
    <3> DEFINE x == CHOOSE y \in s : TRUE
    <3>1. x \in s
      BY <2>1
    <3> HIDE DEF x
    <3>2. s \ {x} \in SUBSET S /\ x \in S \ (s \ {x}) /\ (s \ {x}) \cup {x} = s
      BY <3>1
    <3>3. g[s] = g[s \ {x}] + f[x] /\ g[s \ {x}] \in Int /\ f[x] \in Int
      BY <3>2 DEF Additive
    <3>4. g[s] = f[x] + g[s \ {x}]
      BY <3>3
    <3> QED  BY <3>4 DEF x
  <2> QED
    BY <2>1 DEF Additive, Step
<1> DEFINE h == CHOOSE k : Step(k, f, S)
<1>2. Step(h, f, S)
  BY <1>1
<1> HIDE DEF h
<1> DEFINE F == {T \in SUBSET S : h[T] = g[T]}
<1>3. ASSUME NEW T \in SUBSET S, \A U \in (SUBSET T) \ {T} : U \in F
      PROVE  T \in F
  <2>1. CASE T = {}
    BY <1>1, <1>2, <2>1 DEF Step
  <2>2. CASE T # {}
    <3> DEFINE x == CHOOSE y \in T : TRUE
    <3>1. x \in T
      BY <2>2
    <3>2. h[T] = f[x] + h[T \ {x}]
      BY <1>2, <2>2 DEF Step
    <3>3. g[T] = f[x] + g[T \ {x}]
      BY <1>1, <2>2 DEF Step
    <3> HIDE DEF x
    <3>4. h[T \ {x}] = g[T \ {x}]
      BY <1>3, <3>1
    <3> QED  BY <3>2, <3>3, <3>4
  <2> QED  BY <2>1, <2>2
<1>4. S \in F
  <2> HIDE DEF F
  <2> QED  BY <1>3, SubsetInduction
<1> QED
  BY <1>4, SumIsFold DEF h

\* An additive function on S is additive on each part of S.
LEMMA AdditiveRestricts ==
  ASSUME NEW S, NEW f, NEW g, Additive(g, f, S), NEW T \in SUBSET S
  PROVE  Additive([U \in SUBSET T |-> g[U]], f, T)
<1> DEFINE h == [U \in SUBSET T |-> g[U]]
<1>1. h \in [SUBSET T -> Int] /\ h[{}] = 0
  BY DEF Additive
<1>2. ASSUME NEW U \in SUBSET T, NEW x \in T \ U
      PROVE  h[U \cup {x}] = h[U] + f[x]
  <2>1. U \in SUBSET S /\ x \in S \ U /\ U \cup {x} \in SUBSET T
    OBVIOUS
  <2> QED  BY <2>1 DEF Additive
<1> HIDE DEF h
<1> QED
  BY <1>1, <1>2 DEF Additive, h

\* What the sums of Placement are: adding an element adds its value.
LEMMA SumAdd ==
  ASSUME NEW S, IsFiniteSet(S), NEW f, \A x \in S : f[x] \in Int
  PROVE  /\ SumFunctionOnSet(f, {}) = 0
         /\ \A T \in SUBSET S : SumFunctionOnSet(f, T) \in Int
         /\ \A T \in SUBSET S : \A x \in S \ T :
              SumFunctionOnSet(f, T \cup {x}) = SumFunctionOnSet(f, T) + f[x]
<1>1. PICK g : Additive(g, f, S)
  BY AdditiveExists
<1>2. ASSUME NEW U \in SUBSET S
      PROVE  SumFunctionOnSet(f, U) = g[U]
  <2> DEFINE h == [W \in SUBSET U |-> g[W]]
  <2>1. Additive(h, f, U)
    BY <1>1, AdditiveRestricts
  <2>2. IsFiniteSet(U) /\ h[U] = g[U]
    BY FS_Subset
  <2> HIDE DEF h
  <2> QED  BY <2>1, <2>2, SumIsAdditive
<1> QED
  BY <1>1, <1>2 DEF Additive

\* The sum over two disjoint sets is the sum of their sums.
LEMMA SumDisjoint ==
  ASSUME NEW S, IsFiniteSet(S), NEW f, \A x \in S : f[x] \in Int
  PROVE  \A T, U \in SUBSET S : T \cap U = {} =>
           SumFunctionOnSet(f, T \cup U) = SumFunctionOnSet(f, T) + SumFunctionOnSet(f, U)
<1> SUFFICES ASSUME NEW T \in SUBSET S, NEW U \in SUBSET S, T \cap U = {}
             PROVE  SumFunctionOnSet(f, T \cup U) =
                      SumFunctionOnSet(f, T) + SumFunctionOnSet(f, U)
  OBVIOUS
<1> DEFINE Sum(W) == SumFunctionOnSet(f, W)
<1>1. /\ Sum({}) = 0
      /\ \A W \in SUBSET S : Sum(W) \in Int
      /\ \A W \in SUBSET S : \A x \in S \ W : Sum(W \cup {x}) = Sum(W) + f[x]
  BY SumAdd
<1> HIDE DEF Sum
<1> DEFINE F == {W \in SUBSET U : Sum(T \cup W) = Sum(T) + Sum(W)}
<1>2. {} \in F
  <2>1. T \cup {} = T
    OBVIOUS
  <2>2. Sum(T) = Sum(T) + 0
    BY <1>1
  <2> QED  BY <1>1, <2>1, <2>2
<1>3. ASSUME NEW W \in SUBSET U, NEW x \in U \ W, W \in F
      PROVE  W \cup {x} \in F
  <2>1. /\ T \cup (W \cup {x}) = (T \cup W) \cup {x}
        /\ T \cup W \in SUBSET S /\ x \in S \ (T \cup W) /\ x \in S \ W
        /\ W \in SUBSET S
    OBVIOUS
  <2>2. Sum((T \cup W) \cup {x}) = Sum(T \cup W) + f[x] /\ Sum(W \cup {x}) = Sum(W) + f[x]
    BY <1>1, <2>1
  <2>3. Sum(T \cup W) = Sum(T) + Sum(W) /\ Sum(T) \in Int /\ Sum(W) \in Int /\ f[x] \in Int
    BY <1>1, <1>3, <2>1
  <2>4. Sum((T \cup W) \cup {x}) = Sum(T) + Sum(W \cup {x})
    BY <2>2, <2>3
  <2> QED  BY <2>1, <2>4
<1> HIDE DEF F
<1>4. U \in F
  BY <1>2, <1>3, InsertInduction, FS_Subset
<1> QED
  BY <1>1, <1>4 DEF F, Sum

\* Sums of natural numbers are natural numbers, and grow with the set.
LEMMA SumMonotone ==
  ASSUME NEW S, IsFiniteSet(S), NEW f, \A x \in S : f[x] \in Nat,
         NEW T \in SUBSET S, NEW U \in SUBSET T
  PROVE  /\ SumFunctionOnSet(f, T) \in Nat /\ SumFunctionOnSet(f, U) \in Nat
         /\ SumFunctionOnSet(f, U) <= SumFunctionOnSet(f, T)
<1> DEFINE Sum(W) == SumFunctionOnSet(f, W)
<1>1. /\ Sum({}) = 0
      /\ \A W \in SUBSET S : Sum(W) \in Int
      /\ \A W \in SUBSET S : \A x \in S \ W : Sum(W \cup {x}) = Sum(W) + f[x]
  BY SumAdd
<1> HIDE DEF Sum
<1>2. ASSUME NEW W \in SUBSET S
      PROVE  Sum(W) \in Nat
  <2> DEFINE F == {X \in SUBSET W : Sum(X) \in Nat}
  <2>1. {} \in F
    BY <1>1
  <2>2. ASSUME NEW X \in SUBSET W, NEW x \in W \ X, X \in F
        PROVE  X \cup {x} \in F
    <3>1. Sum(X \cup {x}) = Sum(X) + f[x] /\ f[x] \in Nat /\ Sum(X) \in Nat
      BY <1>1, <2>2
    <3> QED  BY <3>1
  <2> HIDE DEF F
  <2>3. W \in F
    BY <2>1, <2>2, InsertInduction, FS_Subset
  <2> QED  BY <2>3 DEF F
<1>3. U \cup (T \ U) = T
  OBVIOUS
<1>4. Sum(U \cup (T \ U)) = Sum(U) + Sum(T \ U)
  <2>1. \A X, Y \in SUBSET S : X \cap Y = {} => Sum(X \cup Y) = Sum(X) + Sum(Y)
    BY SumDisjoint DEF Sum
  <2> QED  BY <2>1
<1>5. Sum(T) \in Nat /\ Sum(U) \in Nat /\ Sum(T \ U) \in Nat
  BY <1>2
<1>6. Sum(T) = Sum(U) + Sum(T \ U)
  BY <1>3, <1>4
<1>7. Sum(U) <= Sum(T)
  BY <1>5, <1>6
<1> QED
  BY <1>5, <1>7 DEF Sum

\* Sums of smaller values are smaller.
LEMMA SumLeq ==
  ASSUME NEW S, IsFiniteSet(S), NEW f, NEW g,
         \A x \in S : f[x] \in Int /\ g[x] \in Int /\ f[x] <= g[x]
  PROVE  SumFunctionOnSet(f, S) <= SumFunctionOnSet(g, S)
<1> DEFINE Lo(W) == SumFunctionOnSet(f, W)
           Hi(W) == SumFunctionOnSet(g, W)
<1>1. /\ Lo({}) = 0
      /\ \A W \in SUBSET S : Lo(W) \in Int
      /\ \A W \in SUBSET S : \A x \in S \ W : Lo(W \cup {x}) = Lo(W) + f[x]
  BY SumAdd
<1>2. /\ Hi({}) = 0
      /\ \A W \in SUBSET S : Hi(W) \in Int
      /\ \A W \in SUBSET S : \A x \in S \ W : Hi(W \cup {x}) = Hi(W) + g[x]
  BY SumAdd
<1> HIDE DEF Lo, Hi
<1> DEFINE F == {W \in SUBSET S : Lo(W) <= Hi(W)}
<1>3. {} \in F
  BY <1>1, <1>2
<1>4. ASSUME NEW W \in SUBSET S, NEW x \in S \ W, W \in F
      PROVE  W \cup {x} \in F
  <2>1. /\ Lo(W \cup {x}) = Lo(W) + f[x] /\ Hi(W \cup {x}) = Hi(W) + g[x]
        /\ Lo(W) \in Int /\ Hi(W) \in Int /\ f[x] \in Int /\ g[x] \in Int
        /\ Lo(W) <= Hi(W) /\ f[x] <= g[x]
    BY <1>1, <1>2, <1>4
  <2>2. Lo(W \cup {x}) <= Hi(W \cup {x})
    BY <2>1
  <2> QED  BY <2>2
<1> HIDE DEF F
<1>5. S \in F
  BY <1>3, <1>4, InsertInduction
<1> QED
  BY <1>5 DEF F, Lo, Hi

----------------------------------------------------------------------------
(* The placement rules.                                                    *)

\* There are finitely many services.
LEMMA ServicesFinite == IsFiniteSet(Services)
  BY FS_Interval, ServicesAssumption DEF Services

\* What a server reserves for a set of services.
LEMMA Reserved ==
  ASSUME NEW s \in Servers, NEW T \in SUBSET Services, NEW U \in SUBSET T
  PROVE  /\ SumFunctionOnSet(EffMips[s], {}) = 0
         /\ SumFunctionOnSet(EffMips[s], T) \in Nat
         /\ SumFunctionOnSet(EffMips[s], U) <= SumFunctionOnSet(EffMips[s], T)
         /\ SumFunctionOnSet(EffMips[s], T) = SumFunctionOnSet(EffMips[s], U)
                                            + SumFunctionOnSet(EffMips[s], T \ U)
         /\ \A v \in Services \ T :
              SumFunctionOnSet(EffMips[s], T \cup {v}) =
                SumFunctionOnSet(EffMips[s], T) + EffMips[s][v]
<1>1. \A v \in Services : EffMips[s][v] \in Nat /\ EffMips[s][v] \in Int
  BY DemandAssumption
<1>2. /\ T = U \cup (T \ U) /\ U \cap (T \ U) = {}
      /\ U \in SUBSET Services /\ T \ U \in SUBSET Services
  OBVIOUS
<1>3. SumFunctionOnSet(EffMips[s], U \cup (T \ U)) = SumFunctionOnSet(EffMips[s], U)
                                            + SumFunctionOnSet(EffMips[s], T \ U)
  <2>1. \A X, Y \in SUBSET Services : X \cap Y = {} =>
          SumFunctionOnSet(EffMips[s], X \cup Y) =
            SumFunctionOnSet(EffMips[s], X) + SumFunctionOnSet(EffMips[s], Y)
    BY <1>1, ServicesFinite, SumDisjoint
  <2> QED  BY <1>2, <2>1
<1>4. /\ SumFunctionOnSet(EffMips[s], T) \in Nat
      /\ SumFunctionOnSet(EffMips[s], U) <= SumFunctionOnSet(EffMips[s], T)
  BY <1>1, ServicesFinite, SumMonotone
<1>5. /\ SumFunctionOnSet(EffMips[s], {}) = 0
      /\ \A W \in SUBSET Services : \A x \in Services \ W :
           SumFunctionOnSet(EffMips[s], W \cup {x}) = SumFunctionOnSet(EffMips[s], W) + EffMips[s][x]
  BY <1>1, ServicesFinite, SumAdd
<1> QED
  BY <1>2, <1>3, <1>4, <1>5

\* _initial_placement overloads no server.
LEMMA InitialFits ==
  ASSUME NEW selected \in SUBSET Servers, NEW m \in InitialPlacements(selected),
         NEW s \in selected
  PROVE  SumFunctionOnSet(EffMips[s], {v \in Services : m[v] = s}) <= Capacity[s]
<1> DEFINE At(T) == {v \in T : m[v] = s}
           Fits(T) == SumFunctionOnSet(EffMips[s], At(T)) <= Capacity[s]
           F == {T \in SUBSET Services : \A n \in 0..NServices : T = 1..n => Fits(T)}
<1>1. NServices \in Nat /\ Services = 1..NServices
  BY ServicesAssumption DEF Services
<1>2. ASSUME NEW T \in SUBSET Services, \A U \in (SUBSET T) \ {T} : U \in F
      PROVE  T \in F
  <2> SUFFICES ASSUME NEW n \in 0..NServices, T = 1..n
               PROVE  Fits(T)
    OBVIOUS
  <2>1. CASE n = 0
    <3>1. At(T) = {}
      BY <2>1
    <3>2. {} \in SUBSET Services /\ {} \in SUBSET {} /\ s \in Servers
      OBVIOUS
    <3>3. SumFunctionOnSet(EffMips[s], {}) = 0 /\ Capacity[s] \in Nat
      BY <3>2, Reserved, DemandAssumption
    <3>4. SumFunctionOnSet(EffMips[s], At(T)) = 0
      BY <3>1, <3>3
    <3> HIDE DEF At
    <3> QED  BY <3>3, <3>4
  <2>2. CASE n # 0
    <3> DEFINE U == 1..(n - 1)
    <3>1. /\ n \in Services /\ n - 1 \in 0..NServices
          /\ U \in (SUBSET T) \ {T} /\ T = U \cup {n} /\ n \notin U
      BY <1>1, <2>2
    <3>2. Fits(U)
      BY <1>2, <3>1
    <3>3. CASE m[n] = s
      <4>1. At(T) = At(U) \cup {n} /\ At(U) \in SUBSET Services /\ n \in Services \ At(U)
        BY <1>1, <3>1, <3>3
      <4>2. SumFunctionOnSet(EffMips[s], At(U)) + EffMips[s][n] <= Capacity[s]
        <5>1. m[n] # None
          BY <3>3, ServersAssumption
        <5> QED  BY <3>1, <3>3, <5>1 DEF InitialPlacements, Load
      <4>3. SumFunctionOnSet(EffMips[s], At(U) \cup {n}) =
              SumFunctionOnSet(EffMips[s], At(U)) + EffMips[s][n]
        <5> HIDE DEF At, U
        <5> QED  BY <4>1, Reserved
      <4> QED  BY <4>1, <4>2, <4>3
    <3>4. CASE m[n] # s
      <4>1. At(T) = At(U)
        BY <3>1, <3>4
      <4> QED  BY <3>2, <4>1
    <3> QED  BY <3>3, <3>4
  <2> QED  BY <2>1, <2>2
<1> HIDE DEF F
<1>3. Services \in F
  BY <1>2, ServicesFinite, SubsetInduction
<1>4. Fits(Services)
  <2> HIDE DEF Fits
  <2>1. NServices \in 0..NServices
    BY <1>1
  <2>2. \A n \in 0..NServices : Services = 1..n => Fits(Services)
    BY <1>3 DEF F
  <2> QED  BY <1>1, <2>1, <2>2
<1> QED
  BY <1>4

\* When all services of a plan fit by their raw demand, the pass by effective
\* demand leaves none out.
LEMMA NothingLeftOut ==
  ASSUME NEW V \in SUBSET Services, NEW m \in [V -> Servers \cup {None}],
         NEW room \in [Servers -> Int], V \in Packings(RawMips, m, room),
         NEW P \in Packings(EffMips, m, room)
  PROVE  P = V
<1> SUFFICES ASSUME NEW v \in V, v \notin P
             PROVE  FALSE
  BY DEF Packings
<1> DEFINE t == m[v]
           Here(W) == {u \in W : m[u] = t}
<1>1. P \in SUBSET V /\ v \in V \ P /\ t \in Servers
  BY DEF Packings
<1>2. SumFunctionOnSet(EffMips[t], Here(P)) + EffMips[t][v] > room[t]
  <2>1. Load(EffMips, m, P, m[v]) + EffMips[m[v]][v] > room[m[v]]
    BY <1>1 DEF Packings
  <2> QED  BY <2>1 DEF Load
<1>3. SumFunctionOnSet(RawMips[t], Here(V)) <= room[t]
  <2>1. Load(RawMips, m, V, m[v]) <= room[m[v]]
    BY DEF Packings
  <2> QED  BY <2>1 DEF Load
<1>4. /\ Here(V) \in SUBSET Services /\ Here(P) \in SUBSET Here(V)
      /\ v \in Here(V) /\ v \in Services \ Here(P)
      /\ Here(P) \cup {v} \in SUBSET Here(V) /\ Here(P) \in SUBSET Services
  BY <1>1
<1>5. room[t] \in Int /\ EffMips[t][v] \in Nat
  BY <1>1, DemandAssumption
<1> HIDE DEF t, Here
<1>6. SumFunctionOnSet(EffMips[t], Here(P) \cup {v}) =
        SumFunctionOnSet(EffMips[t], Here(P)) + EffMips[t][v]
  BY <1>1, <1>4, Reserved
<1>7. /\ SumFunctionOnSet(EffMips[t], Here(P) \cup {v}) <= SumFunctionOnSet(EffMips[t], Here(V))
      /\ SumFunctionOnSet(EffMips[t], Here(V)) \in Nat
      /\ SumFunctionOnSet(EffMips[t], Here(P)) \in Nat
  BY <1>1, <1>4, Reserved
<1>8. /\ SumFunctionOnSet(EffMips[t], Here(V)) <= SumFunctionOnSet(RawMips[t], Here(V))
      /\ SumFunctionOnSet(RawMips[t], Here(V)) \in Nat
  <2>1. \A u \in Here(V) : /\ EffMips[t][u] \in Int /\ RawMips[t][u] \in Int
                           /\ RawMips[t][u] \in Nat
                           /\ EffMips[t][u] <= RawMips[t][u]
    BY <1>1, <1>4, DemandAssumption, SpeedAssumption DEF RawMips
  <2>2. IsFiniteSet(Here(V)) /\ Here(V) \in SUBSET Here(V)
    BY <1>4, ServicesFinite, FS_Subset
  <2>3. SumFunctionOnSet(EffMips[t], Here(V)) <= SumFunctionOnSet(RawMips[t], Here(V))
    BY <2>1, <2>2, SumLeq
  <2>4. SumFunctionOnSet(RawMips[t], Here(V)) \in Nat
    BY <2>1, <2>2, SumMonotone
  <2> QED  BY <2>3, <2>4
<1> QED
  BY <1>2, <1>3, <1>5, <1>6, <1>7, <1>8
=============================================================================
