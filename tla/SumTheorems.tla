---------------------------- MODULE SumTheorems ----------------------------
(***************************************************************************)
(* What SumFunctionOnSet of module Functions returns.  It is a fold, that  *)
(* is, a recursive function on the subsets of its argument, and the        *)
(* induction theorems of the library cannot be used for it: they take a    *)
(* predicate as a parameter.  But one of them speaks of sets only: strict  *)
(* inclusion is well founded on finite sets.  So every induction here is   *)
(* on a set of sets that would be counterexamples, of which a minimal one  *)
(* is picked.                                                              *)
(***************************************************************************)
EXTENDS Integers, Functions, FiniteSetTheorems, TLAPS

\* Among finite sets one is minimal: a proof by induction looks at the sets
\* without a property, and shows that none of them is minimal.
LEMMA MinimalSet ==
  ASSUME NEW S, IsFiniteSet(S), NEW Bad \in SUBSET (SUBSET S), Bad # {}
  PROVE  \E T \in Bad : \A U \in Bad : U \subseteq T => U = T
<1>1. IsWellFoundedOn(StrictSubsetOrdering(S), FiniteSubsetsOf(S))
  BY FS_StrictSubsetOrderingWellFounded
<1>2. Bad \subseteq FiniteSubsetsOf(S)
  BY FS_FiniteSubsetsOfFinite
<1>3. PICK T \in Bad :
        \A U \in Bad : <<U, T>> \notin StrictSubsetOrdering(S)
  BY <1>1, <1>2, WFMin
<1> QED
  BY <1>3 DEF StrictSubsetOrdering

-----------------------------------------------------------------------------
(* The recursion is well defined. *)

\* The element that the fold takes out of a set.
Pick(s) == CHOOSE x \in s : TRUE

\* A set that is not empty has an element to pick.
LEMMA PickIsMember == \A s : s # {} => Pick(s) \in s
  BY DEF Pick

\* The sum over s, from the sums that g holds for smaller sets.
Unfold(f, g, s) == IF s = {} THEN 0 ELSE f[Pick(s)] + g[s \ {Pick(s)}]

\* g holds the sum of f over every subset of T.
Sums(f, g, T) == g = [s \in SUBSET T |-> Unfold(f, g, s)]

\* SumFunctionOnSet is the value of some table of sums, if there is one.
LEMMA SumIsChosen ==
  ASSUME NEW f, NEW S
  PROVE  SumFunctionOnSet(f, S) = (CHOOSE g : Sums(f, g, S))[S]
  BY DEF SumFunctionOnSet, FoldFunctionOnSet, MapThenFoldSet, Sums, Unfold, Pick

\* Two tables of sums agree on the sets that both contain.
LEMMA SumsAgree ==
  ASSUME NEW f, NEW S, IsFiniteSet(S),
         NEW T \in SUBSET S, NEW U \in SUBSET S, NEW g, NEW h,
         Sums(f, g, T), Sums(f, h, U)
  PROVE  \A s \in SUBSET (T \cap U) : g[s] = h[s]
<1> DEFINE Bad == {s \in SUBSET (T \cap U) : g[s] # h[s]}
<1> SUFFICES ASSUME Bad # {} PROVE FALSE
    OBVIOUS
<1>1. PICK s \in Bad : \A r \in Bad : r \subseteq s => r = s
  <2>1. Bad \in SUBSET (SUBSET S)
    OBVIOUS
  <2> HIDE DEF Bad
  <2> QED
    BY <2>1, MinimalSet
<1>2. g[s] = Unfold(f, g, s) /\ h[s] = Unfold(f, h, s)
  BY DEF Sums
<1>3. CASE s = {}
  BY <1>2, <1>3 DEF Unfold
<1>4. CASE s # {}
  <2>1. Pick(s) \in s
    BY <1>4, PickIsMember
  <2>2. g[s \ {Pick(s)}] = h[s \ {Pick(s)}]
    BY <1>1, <2>1
  <2> QED
    BY <1>2, <1>4, <2>2 DEF Unfold
<1> QED
  BY <1>3, <1>4

\* There is a table of sums for every finite set: the one of a set is put
\* together from those of its subsets.
LEMMA SumsExist ==
  ASSUME NEW f, NEW S, IsFiniteSet(S)
  PROVE  \A T \in SUBSET S : \E g : Sums(f, g, T)
<1> DEFINE Bad == {T \in SUBSET S : ~ \E g : Sums(f, g, T)}
<1> SUFFICES ASSUME Bad # {} PROVE FALSE
    OBVIOUS
<1>1. PICK T \in Bad : \A U \in Bad : U \subseteq T => U = T
  <2>1. Bad \in SUBSET (SUBSET S)
    OBVIOUS
  <2> HIDE DEF Bad
  <2> QED
    BY <2>1, MinimalSet
<1> DEFINE table(U) == CHOOSE g : Sums(f, g, U)
           h == [s \in SUBSET T |-> Unfold(f, table(s \ {Pick(s)}), s)]
<1>2. \A U \in SUBSET T : U # T => Sums(f, table(U), U)
  BY <1>1
<1>3. ASSUME NEW s \in SUBSET T, s # {}
      PROVE  table(s \ {Pick(s)})[s \ {Pick(s)}] = h[s \ {Pick(s)}]
  <2> DEFINE r == s \ {Pick(s)}
  <2>1. r \in SUBSET T /\ r # T
    BY <1>3, PickIsMember
  <2>2. Sums(f, table(r), r)
    BY <1>2, <2>1
  <2>3. table(r)[r] = Unfold(f, table(r), r)
    BY <2>2 DEF Sums
  <2>4. h[r] = Unfold(f, table(r \ {Pick(r)}), r)
    BY <2>1
  <2>5. CASE r = {}
    BY <2>3, <2>4, <2>5 DEF Unfold
  <2>6. CASE r # {}
    <3> DEFINE q == r \ {Pick(r)}
    <3>1. q \in SUBSET r /\ q # T
      BY <2>1, <2>6, PickIsMember
    <3>2. Sums(f, table(q), q)
      BY <1>2, <2>1, <3>1
    <3>3. table(r)[q] = table(q)[q]
      <4> HIDE DEF table, q, r
      <4>1. q \in SUBSET (r \cap q) /\ r \in SUBSET S /\ q \in SUBSET S
        BY <2>1, <3>1
      <4> QED
        BY <2>2, <3>2, <4>1, SumsAgree
    <3> QED
      BY <2>3, <2>4, <2>6, <3>3 DEF Unfold
  <2> QED
    BY <2>5, <2>6
<1>4. Sums(f, h, T)
  <2>1. \A s \in SUBSET T : Unfold(f, table(s \ {Pick(s)}), s) = Unfold(f, h, s)
    <3> HIDE DEF table, h, Bad
    <3> QED
      BY <1>3 DEF Unfold
  <2> HIDE DEF table
  <2>2. h = [s \in SUBSET T |-> Unfold(f, h, s)]
    BY <2>1
  <2> HIDE DEF h
  <2> QED
    BY <2>2 DEF Sums
<1> QED
  BY <1>1, <1>4

\* The recursion equation: nothing adds up to zero, and the sum over a set is
\* what is picked from it plus the sum over the rest.
LEMMA SumUnfolds ==
  ASSUME NEW f, NEW S, IsFiniteSet(S)
  PROVE  SumFunctionOnSet(f, S) =
           IF S = {} THEN 0
           ELSE f[Pick(S)] + SumFunctionOnSet(f, S \ {Pick(S)})
<1> DEFINE table(U) == CHOOSE g : Sums(f, g, U)
           R == S \ {Pick(S)}
<1>1. Sums(f, table(S), S) /\ Sums(f, table(R), R)
  BY SumsExist
<1> HIDE DEF table
<1>2. table(S)[S] = Unfold(f, table(S), S)
  BY <1>1 DEF Sums
<1>3. table(S)[R] = table(R)[R]
  <2>1. R \in SUBSET (S \cap R) /\ R \in SUBSET S /\ S \in SUBSET S
    OBVIOUS
  <2> HIDE DEF R
  <2> QED
    BY <1>1, <2>1, SumsAgree
<1>4. SumFunctionOnSet(f, S) = table(S)[S] /\ SumFunctionOnSet(f, R) = table(R)[R]
  BY SumIsChosen DEF table
<1> QED
  BY <1>2, <1>3, <1>4 DEF Unfold

-----------------------------------------------------------------------------
(* The laws of sums. *)

\* f has integer values on S.
IntegersOn(f, S) == \A x \in S : f[x] \in Int

\* Nothing adds up to zero.
LEMMA SumOfNothing == \A f : SumFunctionOnSet(f, {}) = 0
  BY SumUnfolds, FS_EmptySet

\* A sum of integers is an integer.
LEMMA SumIsInteger ==
  ASSUME NEW f, NEW S, IsFiniteSet(S), IntegersOn(f, S)
  PROVE  SumFunctionOnSet(f, S) \in Int
<1> DEFINE Bad == {T \in SUBSET S : SumFunctionOnSet(f, T) \notin Int}
<1> SUFFICES ASSUME Bad # {} PROVE FALSE
    OBVIOUS
<1>1. PICK T \in Bad : \A U \in Bad : U \subseteq T => U = T
  <2>1. Bad \in SUBSET (SUBSET S)
    OBVIOUS
  <2> HIDE DEF Bad
  <2> QED
    BY <2>1, MinimalSet
<1>2. T # {}
  BY SumOfNothing
<1>3. Pick(T) \in T
  BY <1>2, PickIsMember
<1>4. SumFunctionOnSet(f, T \ {Pick(T)}) \in Int
  BY <1>1, <1>3
<1>5. SumFunctionOnSet(f, T) = f[Pick(T)] + SumFunctionOnSet(f, T \ {Pick(T)})
  BY <1>2, SumUnfolds, FS_Subset
<1> QED
  BY <1>3, <1>4, <1>5 DEF IntegersOn

\* Whatever element is taken out of a set, the sum goes down by its value: the
\* order in which the fold picks the elements does not matter.
LEMMA SumWithout ==
  ASSUME NEW f, NEW S, IsFiniteSet(S), IntegersOn(f, S), NEW x \in S
  PROVE  SumFunctionOnSet(f, S) = f[x] + SumFunctionOnSet(f, S \ {x})
<1> DEFINE Sum(T) == SumFunctionOnSet(f, T)
           Law(T) == \A y \in T : Sum(T) = f[y] + Sum(T \ {y})
           Bad == {T \in SUBSET S : ~ Law(T)}
<1> SUFFICES ASSUME Bad # {} PROVE FALSE
    OBVIOUS
<1>1. PICK T \in Bad : \A U \in Bad : U \subseteq T => U = T
  <2>1. Bad \in SUBSET (SUBSET S)
    OBVIOUS
  <2> HIDE DEF Bad
  <2> QED
    BY <2>1, MinimalSet
<1>2. \A U \in SUBSET T : U # T => Law(U)
  BY <1>1
<1>3. PICK y \in T : Sum(T) # f[y] + Sum(T \ {y})
  BY <1>1
<1> DEFINE p == Pick(T)
           rest == T \ {p, y}
<1>4. T \in SUBSET S /\ p \in T
  BY <1>1, <1>3, PickIsMember
<1>5. Sum(T) = f[p] + Sum(T \ {p})
  BY <1>3, <1>4, SumUnfolds, FS_Subset
<1>6. p # y
  BY <1>3, <1>5
<1>7. Sum(T \ {p}) = f[y] + Sum(rest)
  <2>1. Law(T \ {p}) /\ y \in T \ {p} /\ rest = (T \ {p}) \ {y}
    BY <1>2, <1>3, <1>4, <1>6
  <2> HIDE DEF p, rest, Sum
  <2> QED
    BY <2>1
<1>8. Sum(T \ {y}) = f[p] + Sum(rest)
  <2>1. Law(T \ {y}) /\ p \in T \ {y} /\ rest = (T \ {y}) \ {p}
    BY <1>2, <1>3, <1>4, <1>6
  <2> HIDE DEF p, rest, Sum
  <2> QED
    BY <2>1
<1>9. f[p] \in Int /\ f[y] \in Int /\ Sum(rest) \in Int
  <2>1. rest \in SUBSET S /\ IsFiniteSet(rest) /\ IntegersOn(f, rest)
    BY <1>4, FS_Subset DEF IntegersOn
  <2> HIDE DEF rest
  <2> QED
    BY <1>3, <1>4, <2>1, SumIsInteger DEF IntegersOn
<1> HIDE DEF Sum, rest, p
<1> QED
  BY <1>3, <1>5, <1>7, <1>8, <1>9

\* An element that joins a set adds its value.
LEMMA SumWith ==
  ASSUME NEW f, NEW S, IsFiniteSet(S), NEW x, x \notin S,
         IntegersOn(f, S \cup {x})
  PROVE  SumFunctionOnSet(f, S \cup {x}) = SumFunctionOnSet(f, S) + f[x]
<1>1. IsFiniteSet(S \cup {x}) /\ (S \cup {x}) \ {x} = S
  BY FS_AddElement
<1>2. SumFunctionOnSet(f, S \cup {x}) = f[x] + SumFunctionOnSet(f, S)
  BY <1>1, SumWithout
<1>3. SumFunctionOnSet(f, S) \in Int /\ f[x] \in Int
  BY SumIsInteger DEF IntegersOn
<1> QED
  BY <1>2, <1>3

\* Functions with the same values have the same sum.
LEMMA SumOfEqual ==
  ASSUME NEW f, NEW g, NEW S, IsFiniteSet(S), \A x \in S : f[x] = g[x]
  PROVE  SumFunctionOnSet(f, S) = SumFunctionOnSet(g, S)
<1> DEFINE Bad == {T \in SUBSET S :
                     SumFunctionOnSet(f, T) # SumFunctionOnSet(g, T)}
<1> SUFFICES ASSUME Bad # {} PROVE FALSE
    OBVIOUS
<1>1. PICK T \in Bad : \A U \in Bad : U \subseteq T => U = T
  <2>1. Bad \in SUBSET (SUBSET S)
    OBVIOUS
  <2> HIDE DEF Bad
  <2> QED
    BY <2>1, MinimalSet
<1> DEFINE rest == T \ {Pick(T)}
<1>2. T # {}
  BY <1>1, SumOfNothing
<1>3. Pick(T) \in T /\ T \in SUBSET S
  BY <1>1, <1>2, PickIsMember
<1>4. SumFunctionOnSet(f, rest) = SumFunctionOnSet(g, rest)
  BY <1>1, <1>3
<1>5. /\ SumFunctionOnSet(f, T) = f[Pick(T)] + SumFunctionOnSet(f, rest)
      /\ SumFunctionOnSet(g, T) = g[Pick(T)] + SumFunctionOnSet(g, rest)
  BY <1>2, <1>3, SumUnfolds, FS_Subset
<1> HIDE DEF rest
<1> QED
  BY <1>1, <1>3, <1>4, <1>5

\* Zeros add up to zero.
LEMMA SumOfZeros ==
  ASSUME NEW f, NEW S, IsFiniteSet(S), \A x \in S : f[x] = 0
  PROVE  SumFunctionOnSet(f, S) = 0
<1> DEFINE Bad == {T \in SUBSET S : SumFunctionOnSet(f, T) # 0}
<1> SUFFICES ASSUME Bad # {} PROVE FALSE
    OBVIOUS
<1>1. PICK T \in Bad : \A U \in Bad : U \subseteq T => U = T
  <2>1. Bad \in SUBSET (SUBSET S)
    OBVIOUS
  <2> HIDE DEF Bad
  <2> QED
    BY <2>1, MinimalSet
<1>2. T # {} /\ T \in SUBSET S
  BY <1>1, SumOfNothing
<1>3. Pick(T) \in T
  BY <1>2, PickIsMember
<1>4. SumFunctionOnSet(f, T \ {Pick(T)}) = 0
  BY <1>1, <1>3
<1>5. SumFunctionOnSet(f, T) = f[Pick(T)] + SumFunctionOnSet(f, T \ {Pick(T)})
  BY <1>2, SumUnfolds, FS_Subset
<1> QED
  BY <1>2, <1>3, <1>4, <1>5

\* A function that changes at one place changes its sum by as much.
LEMMA SumChanges ==
  ASSUME NEW f, NEW g, NEW S, IsFiniteSet(S), IntegersOn(f, S),
         NEW x \in S, g[x] \in Int, \A y \in S \ {x} : g[y] = f[y]
  PROVE  SumFunctionOnSet(g, S) = SumFunctionOnSet(f, S) + g[x] - f[x]
<1> DEFINE rest == S \ {x}
<1>1. IsFiniteSet(rest) /\ IntegersOn(f, rest) /\ IntegersOn(g, S)
  BY FS_Subset DEF IntegersOn
<1>2. /\ SumFunctionOnSet(f, S) = f[x] + SumFunctionOnSet(f, rest)
      /\ SumFunctionOnSet(g, S) = g[x] + SumFunctionOnSet(g, rest)
  BY <1>1, SumWithout
<1> HIDE DEF rest
<1>3. SumFunctionOnSet(f, rest) = SumFunctionOnSet(g, rest)
  <2>1. \A y \in rest : f[y] = g[y]
    BY DEF rest
  <2> QED
    BY <1>1, <2>1, SumOfEqual
<1>4. SumFunctionOnSet(f, rest) \in Int /\ f[x] \in Int
  BY <1>1, SumIsInteger DEF IntegersOn
<1> QED
  BY <1>2, <1>3, <1>4

\* No summand that is a natural number exceeds a sum of such numbers.
LEMMA SumIsNatural ==
  ASSUME NEW f, NEW S, IsFiniteSet(S), \A x \in S : f[x] \in Nat
  PROVE  /\ SumFunctionOnSet(f, S) \in Nat
         /\ \A x \in S : f[x] <= SumFunctionOnSet(f, S)
<1> DEFINE Bad == {T \in SUBSET S : SumFunctionOnSet(f, T) \notin Nat}
<1>1. \A T \in SUBSET S : SumFunctionOnSet(f, T) \in Nat
  <2> SUFFICES ASSUME Bad # {} PROVE FALSE
      OBVIOUS
  <2>1. PICK T \in Bad : \A U \in Bad : U \subseteq T => U = T
    <3>1. Bad \in SUBSET (SUBSET S)
      OBVIOUS
    <3> HIDE DEF Bad
    <3> QED
      BY <3>1, MinimalSet
  <2>2. T # {}
    <3>1. SumFunctionOnSet(f, {}) \in Nat
      BY SumOfNothing
    <3> QED
      BY <2>1, <3>1
  <2>3. Pick(T) \in T
    BY <2>2, PickIsMember
  <2>4. SumFunctionOnSet(f, T \ {Pick(T)}) \in Nat
    BY <2>1, <2>3
  <2>5. SumFunctionOnSet(f, T) = f[Pick(T)] + SumFunctionOnSet(f, T \ {Pick(T)})
    BY <2>2, SumUnfolds, FS_Subset
  <2> QED
    BY <2>3, <2>4, <2>5
<1>2. ASSUME NEW x \in S PROVE f[x] <= SumFunctionOnSet(f, S)
  <2>1. SumFunctionOnSet(f, S) = f[x] + SumFunctionOnSet(f, S \ {x})
    BY SumWithout DEF IntegersOn
  <2>2. SumFunctionOnSet(f, S \ {x}) \in Nat
    BY <1>1
  <2> QED
    BY <2>1, <2>2
<1> QED
  BY <1>1, <1>2
=============================================================================
