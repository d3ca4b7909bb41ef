---------------------------- MODULE TotalsProofs ----------------------------
(***************************************************************************)
(* Facts about Total for any function and any finite set, about folds over *)
(* finite sets and over sequences, about sequences joined to one, and      *)
(* about recursion over what is made of parts.  The induction theorems of  *)
(* the library take a predicate, which none of the provers instantiates;   *)
(* that subsets of a finite set, and the numbers up to n, are well-founded *)
(* is stated without one, and a property is a set here: the set of what    *)
(* has it.                                                                 *)
(***************************************************************************)
EXTENDS Totals, SequencesExt, SequenceTheorems, FiniteSetTheorems, WellFoundedInduction, TLAPS

\* Induction over the subsets of a finite set, for a property given as the set G of those
\* that have it.
LEMMA SubsetInduction ==
  ASSUME NEW S, IsFiniteSet(S), NEW G,
         \A T \in SUBSET S : (\A U \in SUBSET T : U # T => U \in G) => T \in G
  PROVE  \A T \in SUBSET S : T \in G
  <1> DEFINE bad == {T \in SUBSET S : T \notin G}
  <1> SUFFICES ASSUME bad # {} PROVE FALSE
    OBVIOUS
  <1>1. bad \subseteq FiniteSubsetsOf(S)
    BY FS_Subset DEF FiniteSubsetsOf
  <1> HIDE DEF bad
  <1>2. PICK T \in bad : \A U \in bad : <<U, T>> \notin StrictSubsetOrdering(S)
    BY <1>1, FS_StrictSubsetOrderingWellFounded, WFMin
  <1>3. \A U \in SUBSET T : U # T => U \in G
    BY <1>2 DEF StrictSubsetOrdering, bad
  <1> QED BY <1>2, <1>3 DEF bad

\* The element the fold takes first, and what it means for g to be the fold's iteration
\* over the subsets of S.
Pick(T) == CHOOSE x \in T : TRUE
Sums(f, S, g) == g = [T \in SUBSET S |-> IF T = {} THEN 0 ELSE f[Pick(T)] + g[T \ {Pick(T)}]]


\* Two such functions agree wherever both are defined.
LEMMA SumsAgree ==
  ASSUME NEW f, NEW A, NEW B, NEW g, NEW h, Sums(f, A, g), Sums(f, B, h), IsFiniteSet(A)
  PROVE  \A T \in SUBSET (A \cap B) : g[T] = h[T]
  <1> DEFINE G == {T \in SUBSET (A \cap B) : g[T] = h[T]}
  <1>1. IsFiniteSet(A \cap B)
    BY FS_Subset
  <1>2. ASSUME NEW T \in SUBSET (A \cap B), \A U \in SUBSET T : U # T => U \in G
        PROVE  T \in G
    <2>1. CASE T = {}
      BY <2>1 DEF Sums
    <2>2. CASE T # {}
      <3>1. Pick(T) \in T
        BY <2>2 DEF Pick
      <3>2. T \ {Pick(T)} \in G
        BY <1>2, <3>1
      <3>3. /\ g[T] = f[Pick(T)] + g[T \ {Pick(T)}]
            /\ h[T] = f[Pick(T)] + h[T \ {Pick(T)}]
        BY <2>2 DEF Sums
      <3> QED BY <3>2, <3>3
    <2> QED BY <2>1, <2>2
  <1> HIDE DEF G
  <1>3. \A T \in SUBSET (A \cap B) : T \in G
    BY <1>1, <1>2, SubsetInduction
  <1> QED BY <1>3 DEF G

\* There is such a function for every finite set.
LEMMA SumsExist ==
  ASSUME NEW f, NEW S, IsFiniteSet(S)
  PROVE  \A A \in SUBSET S : \E g : Sums(f, A, g)
  <1> DEFINE G == {A \in SUBSET S : \E g : Sums(f, A, g)}
  <1>1. ASSUME NEW A \in SUBSET S, \A U \in SUBSET A : U # A => U \in G
        PROVE  A \in G
    <2> DEFINE Of(U) == CHOOSE g : Sums(f, U, g)
               h == [T \in SUBSET A |->
                       IF T = {} THEN 0 ELSE f[Pick(T)] + Of(T \ {Pick(T)})[T \ {Pick(T)}]]
    <2>1. \A T \in SUBSET A : T # A => Sums(f, T, Of(T))
      BY <1>1
    <2>2. ASSUME NEW T \in SUBSET A, T # {}
          PROVE  h[T \ {Pick(T)}] = Of(T \ {Pick(T)})[T \ {Pick(T)}]
      <3> DEFINE U == T \ {Pick(T)}
      <3>1. Pick(T) \in T
        BY <2>2 DEF Pick
      <3>2. U \in SUBSET A /\ U # A
        BY <3>1
      <3>3. Sums(f, U, Of(U))
        BY <2>1, <3>2
      <3> HIDE DEF U, Of
      <3>4. CASE U = {}
        <4>1. h[U] = 0
          BY <3>2, <3>4
        <4>2. Of(U)[U] = 0
          BY <3>3, <3>4 DEF Sums
        <4> HIDE DEF h
        <4> QED BY <4>1, <4>2 DEF U
      <3>5. CASE U # {}
        <4> DEFINE V == U \ {Pick(U)}
        <4>1. Pick(U) \in U
          BY <3>5 DEF Pick
        <4>2. V \in SUBSET A /\ V # A /\ V \in SUBSET (U \cap V)
          BY <3>2, <4>1
        <4>3. Sums(f, V, Of(V))
          BY <2>1, <4>2
        <4>4. IsFiniteSet(U)
          BY <3>2, FS_Subset
        <4> HIDE DEF V
        <4>5. Of(U)[V] = Of(V)[V]
          BY <3>3, <4>2, <4>3, <4>4, SumsAgree
        <4>6. Of(U)[U] = f[Pick(U)] + Of(U)[V]
          BY <3>3, <3>5 DEF Sums, V
        <4>7. h[U] = f[Pick(U)] + Of(V)[V]
          BY <3>2, <3>5 DEF V
        <4> HIDE DEF h
        <4>8. h[U] = Of(U)[U]
          BY <4>5, <4>6, <4>7
        <4> QED BY <4>8 DEF U
      <3> QED BY <3>4, <3>5 DEF U
    <2>3. \A T \in SUBSET A : h[T] = IF T = {} THEN 0 ELSE f[Pick(T)] + h[T \ {Pick(T)}]
      <3> SUFFICES ASSUME NEW T \in SUBSET A
                   PROVE  h[T] = IF T = {} THEN 0 ELSE f[Pick(T)] + h[T \ {Pick(T)}]
        OBVIOUS
      <3>1. h[T] = IF T = {} THEN 0 ELSE f[Pick(T)] + Of(T \ {Pick(T)})[T \ {Pick(T)}]
        OBVIOUS
      <3> HIDE DEF h, Of
      <3> QED BY <2>2, <3>1
    <2>4. h = [T \in SUBSET A |-> h[T]]
      OBVIOUS
    <2>5. h = [T \in SUBSET A |-> IF T = {} THEN 0 ELSE f[Pick(T)] + h[T \ {Pick(T)}]]
      <3> HIDE DEF h
      <3> QED BY <2>3, <2>4
    <2> QED BY <2>5 DEF Sums
  <1> HIDE DEF G
  <1>2. \A A \in SUBSET S : A \in G
    BY <1>1, SubsetInduction
  <1> QED BY <1>2 DEF G

\* A sum is that of its summands but one, and that one.
LEMMA TotalEquation ==
  ASSUME NEW f, NEW S, IsFiniteSet(S)
  PROVE  Total(f, S) = IF S = {} THEN 0 ELSE f[Pick(S)] + Total(f, S \ {Pick(S)})
  <1> DEFINE Of(A) == CHOOSE g : Sums(f, A, g)
  <1>1. \A A \in SUBSET S : Sums(f, A, Of(A))
    BY SumsExist
  <1>2. \A A : Total(f, A) = Of(A)[A]
    BY DEF Total, MapThenSumSet, MapThenFoldSet, Sums, Pick
  <1> HIDE DEF Of
  <1>3. Of(S)[S] = IF S = {} THEN 0 ELSE f[Pick(S)] + Of(S)[S \ {Pick(S)}]
    BY <1>1 DEF Sums
  <1> DEFINE T == S \ {Pick(S)}
  <1>4. Sums(f, S, Of(S)) /\ Sums(f, T, Of(T)) /\ T \in SUBSET (S \cap T)
    BY <1>1
  <1>5. Of(S)[T] = Of(T)[T]
    BY <1>4, SumsAgree
  <1> QED BY <1>2, <1>3, <1>5

\* Nothing adds up to nothing.
LEMMA TotalOfNone == ASSUME NEW f PROVE Total(f, {}) = 0
  BY TotalEquation, FS_EmptySet

\* Sums of whole numbers are whole numbers.
LEMMA TotalInt ==
  ASSUME NEW f, NEW S, IsFiniteSet(S), \A x \in S : f[x] \in Int
  PROVE  \A T \in SUBSET S : Total(f, T) \in Int
  <1> DEFINE G == {T \in SUBSET S : Total(f, T) \in Int}
  <1>1. ASSUME NEW T \in SUBSET S, \A U \in SUBSET T : U # T => U \in G PROVE T \in G
    <2>1. CASE T = {}
      BY <2>1, TotalOfNone
    <2>2. CASE T # {}
      <3>1. Pick(T) \in T
        BY <2>2 DEF Pick
      <3>2. T \ {Pick(T)} \in G
        BY <1>1, <3>1
      <3>3. Total(f, T) = f[Pick(T)] + Total(f, T \ {Pick(T)})
        BY <2>2, TotalEquation, FS_Subset
      <3> QED BY <3>1, <3>2, <3>3
    <2> QED BY <2>1, <2>2
  <1> HIDE DEF G
  <1>2. \A T \in SUBSET S : T \in G
    BY <1>1, SubsetInduction
  <1> QED BY <1>2 DEF G

\* A sum does not depend on which summand is taken first.
LEMMA TotalTakes ==
  ASSUME NEW f, NEW S, IsFiniteSet(S), \A x \in S : f[x] \in Int
  PROVE  \A T \in SUBSET S : \A x \in T : Total(f, T) = f[x] + Total(f, T \ {x})
  <1> DEFINE G == {T \in SUBSET S : \A x \in T : Total(f, T) = f[x] + Total(f, T \ {x})}
  <1>1. ASSUME NEW T \in SUBSET S, \A U \in SUBSET T : U # T => U \in G, NEW x \in T
        PROVE  Total(f, T) = f[x] + Total(f, T \ {x})
    <2> DEFINE y == Pick(T)
    <2>1. y \in T
      BY DEF Pick
    <2>2. \A U \in SUBSET S : IsFiniteSet(U) /\ Total(f, U) \in Int
      BY FS_Subset, TotalInt
    <2>3. Total(f, T) = f[y] + Total(f, T \ {y})
      BY <2>2, TotalEquation
    <2> HIDE DEF y
    <2>4. CASE x = y
      BY <2>3, <2>4
    <2>5. CASE x # y
      <3>1. Total(f, T \ {y}) = f[x] + Total(f, (T \ {y}) \ {x})
        <4>1. T \ {y} \in G /\ x \in T \ {y}
          BY <1>1, <2>1, <2>5
        <4> QED BY <4>1
      <3>2. Total(f, T \ {x}) = f[y] + Total(f, (T \ {x}) \ {y})
        <4>1. T \ {x} \in G /\ y \in T \ {x}
          BY <1>1, <2>1, <2>5
        <4> QED BY <4>1
      <3>3. (T \ {x}) \ {y} = (T \ {y}) \ {x}
        OBVIOUS
      <3>4. f[x] \in Int /\ f[y] \in Int /\ Total(f, (T \ {y}) \ {x}) \in Int
        BY <2>1, <2>2
      <3> DEFINE rest == Total(f, (T \ {y}) \ {x})
      <3>5. Total(f, T) = f[y] + (f[x] + rest) /\ Total(f, T \ {x}) = f[y] + rest
        BY <2>3, <3>1, <3>2, <3>3
      <3>6. rest \in Int
        BY <3>4
      <3> HIDE DEF rest
      <3> QED BY <3>4, <3>5, <3>6
    <2> QED BY <2>4, <2>5
  <1>2. \A T \in SUBSET S : (\A U \in SUBSET T : U # T => U \in G) => T \in G
    BY <1>1
  <1> HIDE DEF G
  <1>3. \A T \in SUBSET S : T \in G
    BY <1>2, SubsetInduction
  <1> QED BY <1>3 DEF G

\* Where no summand of one function is more than that of the other, neither is the sum.
LEMMA TotalAtMost ==
  ASSUME NEW f, NEW g, NEW S, IsFiniteSet(S),
         \A x \in S : f[x] \in Int /\ g[x] \in Int /\ f[x] <= g[x]
  PROVE  Total(f, S) <= Total(g, S)
  <1> DEFINE G == {T \in SUBSET S : Total(f, T) <= Total(g, T)}
  <1>1. ASSUME NEW T \in SUBSET S, \A U \in SUBSET T : U # T => U \in G PROVE T \in G
    <2>1. CASE T = {}
      BY <2>1, TotalOfNone
    <2>2. CASE T # {}
      <3>1. PICK x \in T : TRUE
        BY <2>2
      <3>2. T \ {x} \in G
        BY <1>1, <3>1
      <3>3. Total(f, T) = f[x] + Total(f, T \ {x}) /\ Total(g, T) = g[x] + Total(g, T \ {x})
        BY TotalTakes
      <3>4. Total(f, T \ {x}) \in Int /\ Total(g, T \ {x}) \in Int
        BY TotalInt
      <3> QED BY <3>2, <3>3, <3>4
    <2> QED BY <2>1, <2>2
  <1> HIDE DEF G
  <1>2. \A T \in SUBSET S : T \in G
    BY <1>1, SubsetInduction
  <1> QED BY <1>2 DEF G

\* Functions that agree on a set add up to the same there.
LEMMA TotalSame ==
  ASSUME NEW f, NEW g, NEW S, IsFiniteSet(S), \A x \in S : f[x] \in Int /\ f[x] = g[x]
  PROVE  Total(f, S) = Total(g, S)
  <1>1. Total(f, S) <= Total(g, S) /\ Total(g, S) <= Total(f, S)
    BY TotalAtMost
  <1>2. Total(f, S) \in Int /\ Total(g, S) \in Int
    BY TotalInt
  <1> QED BY <1>1, <1>2

\* A sum over two disjoint sets is the sum of their sums.
LEMMA TotalOfUnion ==
  ASSUME NEW f, NEW A, NEW B, IsFiniteSet(A), IsFiniteSet(B), A \cap B = {},
         \A x \in A \cup B : f[x] \in Int
  PROVE  Total(f, A \cup B) = Total(f, A) + Total(f, B)
  <1> DEFINE G == {T \in SUBSET B : Total(f, A \cup T) = Total(f, A) + Total(f, T)}
  <1>1. IsFiniteSet(A \cup B)
    BY FS_Union
  <1>2. \A T \in SUBSET (A \cup B) : Total(f, T) \in Int
    BY <1>1, TotalInt
  <1>3. ASSUME NEW T \in SUBSET B, \A U \in SUBSET T : U # T => U \in G PROVE T \in G
    <2>1. CASE T = {}
      <3>1. A \cup T = A /\ Total(f, A) \in Int
        BY <1>2, <2>1
      <3> QED BY <2>1, <3>1, TotalOfNone
    <2>2. CASE T # {}
      <3>1. PICK x \in T : TRUE
        BY <2>2
      <3>2. T \ {x} \in G
        BY <1>3, <3>1
      <3>3. Total(f, T) = f[x] + Total(f, T \ {x})
        BY TotalTakes
      <3>4. Total(f, A \cup T) = f[x] + Total(f, (A \cup T) \ {x})
        BY <1>1, TotalTakes
      <3>5. (A \cup T) \ {x} = A \cup (T \ {x})
        OBVIOUS
      <3>6. Total(f, A) \in Int /\ Total(f, T \ {x}) \in Int /\ f[x] \in Int
        BY <1>2
      <3> DEFINE rest == Total(f, T \ {x})
      <3>7. Total(f, A \cup (T \ {x})) = Total(f, A) + rest
        BY <3>2
      <3>8. Total(f, A \cup T) = f[x] + (Total(f, A) + rest) /\ Total(f, T) = f[x] + rest
        BY <3>3, <3>4, <3>5, <3>7
      <3>9. rest \in Int
        BY <3>6
      <3> HIDE DEF rest
      <3>10. Total(f, A \cup T) = Total(f, A) + Total(f, T)
        BY <3>6, <3>8, <3>9
      <3> QED BY <3>10
    <2> QED BY <2>1, <2>2
  <1> HIDE DEF G
  <1>4. \A T \in SUBSET B : T \in G
    BY <1>3, SubsetInduction
  <1> QED BY <1>4 DEF G

\* Sums of natural numbers are natural numbers, and grow with the set.
LEMMA TotalNat ==
  ASSUME NEW f, NEW S, IsFiniteSet(S), \A x \in S : f[x] \in Nat
  PROVE  \A T \in SUBSET S : Total(f, T) \in Nat /\ Total(f, T) <= Total(f, S)
  <1> DEFINE G == {T \in SUBSET S : Total(f, T) \in Nat}
  <1>1. ASSUME NEW T \in SUBSET S, \A U \in SUBSET T : U # T => U \in G PROVE T \in G
    <2>1. CASE T = {}
      BY <2>1, TotalOfNone
    <2>2. CASE T # {}
      <3>1. PICK x \in T : TRUE
        BY <2>2
      <3>2. T \ {x} \in G
        BY <1>1, <3>1
      <3>3. Total(f, T) = f[x] + Total(f, T \ {x})
        BY TotalTakes
      <3> QED BY <3>2, <3>3
    <2> QED BY <2>1, <2>2
  <1> HIDE DEF G
  <1>2. \A T \in SUBSET S : T \in G
    BY <1>1, SubsetInduction
  <1>3. ASSUME NEW T \in SUBSET S PROVE Total(f, T) <= Total(f, S)
    <2>1. S = T \cup (S \ T) /\ T \cap (S \ T) = {}
      OBVIOUS
    <2>2. IsFiniteSet(T) /\ IsFiniteSet(S \ T)
      BY FS_Subset
    <2>3. Total(f, T \cup (S \ T)) = Total(f, T) + Total(f, S \ T)
      BY <2>1, <2>2, TotalOfUnion
    <2>4. Total(f, T) \in Nat /\ Total(f, S \ T) \in Nat
      BY <1>2 DEF G
    <2>5. Total(f, S) = Total(f, T) + Total(f, S \ T)
      BY <2>1, <2>3
    <2> QED BY <2>4, <2>5
  <1> QED BY <1>2, <1>3 DEF G

\* Where one summand changes, the sum changes as much.
LEMMA TotalChanges ==
  ASSUME NEW f, NEW g, NEW S, IsFiniteSet(S), NEW y \in S,
         \A x \in S : f[x] \in Int /\ g[x] \in Int,
         \A x \in S \ {y} : f[x] = g[x]
  PROVE  Total(g, S) = Total(f, S) + g[y] - f[y]
  <1>1. Total(f, S \ {y}) = Total(g, S \ {y})
    BY FS_Subset, TotalSame
  <1>2. Total(f, S) = f[y] + Total(f, S \ {y}) /\ Total(g, S) = g[y] + Total(g, S \ {y})
    BY TotalTakes
  <1>3. Total(f, S \ {y}) \in Int
    BY TotalInt
  <1> QED BY <1>1, <1>2, <1>3

\* Zeros add up to zero.
LEMMA TotalOfZeros ==
  ASSUME NEW f, NEW S, IsFiniteSet(S), \A x \in S : f[x] = 0
  PROVE  Total(f, S) = 0
  <1> DEFINE G == {T \in SUBSET S : Total(f, T) = 0}
  <1>1. ASSUME NEW T \in SUBSET S, \A U \in SUBSET T : U # T => U \in G PROVE T \in G
    <2>1. CASE T = {}
      BY <2>1, TotalOfNone
    <2>2. CASE T # {}
      <3>1. PICK x \in T : TRUE
        BY <2>2
      <3>2. T \ {x} \in G
        BY <1>1, <3>1
      <3>3. Total(f, T) = f[x] + Total(f, T \ {x})
        BY TotalTakes
      <3> QED BY <3>2, <3>3
    <2> QED BY <2>1, <2>2
  <1> HIDE DEF G
  <1>2. \A T \in SUBSET S : T \in G
    BY <1>1, SubsetInduction
  <1> QED BY <1>2 DEF G

\* The sum over a part is the sum over the whole with zeros outside the part.
LEMMA TotalWhere ==
  ASSUME NEW f, NEW g, NEW S, IsFiniteSet(S), NEW T \in SUBSET S,
         \A x \in S : f[x] \in Int /\ g[x] = IF x \in T THEN f[x] ELSE 0
  PROVE  Total(f, T) = Total(g, S)
  <1>1. IsFiniteSet(T) /\ IsFiniteSet(S \ T)
    BY FS_Subset
  <1>2. Total(g, T \cup (S \ T)) = Total(g, T) + Total(g, S \ T)
    BY <1>1, TotalOfUnion
  <1>3. Total(g, S \ T) = 0
    BY <1>1, TotalOfZeros
  <1>4. Total(f, T) = Total(g, T) /\ Total(g, T) \in Int
    BY <1>1, TotalSame, TotalInt
  <1>5. T \cup (S \ T) = S
    OBVIOUS
  <1>6. Total(g, S) = Total(g, T) + Total(g, S \ T)
    BY <1>2, <1>5
  <1> QED BY <1>3, <1>4, <1>6

\* GROUP BY: the sums of the groups add up to the sum of all, whatever the grouping.
LEMMA TotalOfGroups ==
  ASSUME NEW f, NEW S, IsFiniteSet(S), \A x \in S : f[x] \in Int,
         NEW V, NEW key \in Surjection(S, V),
         NEW g, \A v \in V : g[v] = Total(f, {x \in S : key[x] = v})
  PROVE  IsFiniteSet(V) /\ Total(g, V) = Total(f, S)
  <1> DEFINE Part(W) == {x \in S : key[x] \in W}
             G == {W \in SUBSET V : Total(g, W) = Total(f, Part(W))}
  <1>1. IsFiniteSet(V) /\ \A x \in S : key[x] \in V
    BY FS_Surjection DEF Surjection
  <1>2. \A W \in SUBSET S : IsFiniteSet(W) /\ Total(f, W) \in Int
    BY FS_Subset, TotalInt
  <1>3. \A v \in V : g[v] \in Int
    BY <1>2
  <1>4. ASSUME NEW W \in SUBSET V, \A U \in SUBSET W : U # W => U \in G PROVE W \in G
    <2>1. CASE W = {}
      <3>1. Part(W) = {}
        BY <2>1
      <3> QED BY <2>1, <3>1, TotalOfNone
    <2>2. CASE W # {}
      <3>1. PICK v \in W : TRUE
        BY <2>2
      <3> DEFINE rest == Part(W \ {v})
                 one == {x \in S : key[x] = v}
      <3>2. W \ {v} \in G
        BY <1>4, <3>1
      <3>3. Total(g, W) = g[v] + Total(g, W \ {v})
        BY <1>1, <1>3, <3>1, TotalTakes
      <3>4. Part(W) = one \cup rest /\ one \cap rest = {} /\ one \subseteq S /\ rest \subseteq S
        BY <3>1
      <3>5. Total(g, W \ {v}) = Total(f, rest) /\ g[v] = Total(f, one)
        BY <3>1, <3>2
      <3> HIDE DEF one, rest, Part
      <3>6. Total(f, one \cup rest) = Total(f, one) + Total(f, rest)
        BY <1>2, <3>4, TotalOfUnion
      <3>7. Total(g, W) = Total(f, Part(W))
        BY <3>3, <3>4, <3>5, <3>6
      <3> QED BY <3>7
    <2> QED BY <2>1, <2>2
  <1>5. Part(V) = S
    BY <1>1
  <1>6. \A W \in SUBSET V : W \in G
    <2>1. \A W \in SUBSET V : (\A U \in SUBSET W : U # W => U \in G) => W \in G
      BY <1>4
    <2> HIDE DEF G
    <2> QED BY <1>1, <2>1, SubsetInduction
  <1>7. Total(g, V) = Total(f, Part(V))
    BY <1>6 DEF G
  <1> QED BY <1>1, <1>5, <1>7

-----------------------------------------------------------------------------
(* Any fold whose values stay in a set V: step takes a value and the         *)
(* element taken next, pick says which element of a set that is.             *)

Folds(V, base, pick, step, S, g) ==
    /\ g \in [SUBSET S -> V]
    /\ \A T \in SUBSET S :
          g[T] = IF T = {} THEN base ELSE step[<<g[T \ {pick[T]}], pick[T]>>]

\* Two such functions agree wherever both are defined.
LEMMA FoldsAgree ==
  ASSUME NEW V, NEW base, NEW pick, NEW step, NEW A, NEW B, NEW g, NEW h, IsFiniteSet(A),
         \A T \in SUBSET A : T # {} => pick[T] \in T,
         Folds(V, base, pick, step, A, g), Folds(V, base, pick, step, B, h)
  PROVE  \A T \in SUBSET (A \cap B) : g[T] = h[T]
  <1> DEFINE G == {T \in SUBSET (A \cap B) : g[T] = h[T]}
  <1>1. IsFiniteSet(A \cap B)
    BY FS_Subset
  <1>2. ASSUME NEW T \in SUBSET (A \cap B), \A U \in SUBSET T : U # T => U \in G
        PROVE  T \in G
    <2>1. CASE T = {}
      BY <2>1 DEF Folds
    <2>2. CASE T # {}
      <3>1. T \ {pick[T]} \in G
        BY <1>2, <2>2
      <3>2. /\ g[T] = step[<<g[T \ {pick[T]}], pick[T]>>]
            /\ h[T] = step[<<h[T \ {pick[T]}], pick[T]>>]
        BY <2>2 DEF Folds
      <3> QED BY <3>1, <3>2
    <2> QED BY <2>1, <2>2
  <1>3. \A T \in SUBSET (A \cap B) : T \in G
    <2> DEFINE C == A \cap B
    <2>1. \A T \in SUBSET C : (\A U \in SUBSET T : U # T => U \in G) => T \in G
      BY <1>2
    <2>2. IsFiniteSet(C)
      BY <1>1
    <2> HIDE DEF G, C
    <2>3. \A T \in SUBSET C : T \in G
      BY <2>1, <2>2, SubsetInduction
    <2> QED BY <2>3 DEF C
  <1> QED BY <1>3 DEF G

\* There is such a function for every finite set.
LEMMA FoldsExist ==
  ASSUME NEW S, IsFiniteSet(S), NEW V, NEW base \in V, NEW pick, NEW step \in [V \X S -> V],
         \A T \in SUBSET S : T # {} => pick[T] \in T
  PROVE  \E g : Folds(V, base, pick, step, S, g)
  <1> DEFINE Is(A, g) == Folds(V, base, pick, step, A, g)
             G == {A \in SUBSET S : \E g : Is(A, g)}
  <1>1. ASSUME NEW A \in SUBSET S, \A U \in SUBSET A : U # A => U \in G
        PROVE  A \in G
    <2> DEFINE Of(U) == CHOOSE g : Is(U, g)
               Before(T) == T \ {pick[T]}
               h == [T \in SUBSET A |->
                       IF T = {} THEN base ELSE step[<<Of(Before(T))[Before(T)], pick[T]>>]]
    <2>1. \A T \in SUBSET A : T # A => Is(T, Of(T))
      BY <1>1
    <2>2. \A T \in SUBSET A : T # {} => /\ pick[T] \in T /\ pick[T] \in S
                                       /\ Before(T) \in SUBSET A /\ Before(T) # A
      OBVIOUS
    <2>3. \A T \in SUBSET A : T # {} => Of(Before(T))[Before(T)] \in V
      <3> HIDE DEF Of, Before
      <3> QED BY <2>1, <2>2 DEF Folds
    <2>4. h \in [SUBSET A -> V]
      <3>1. \A T \in SUBSET A : T # {} => step[<<Of(Before(T))[Before(T)], pick[T]>>] \in V
        <4> HIDE DEF Of, Before
        <4> QED BY <2>2, <2>3
      <3> HIDE DEF Of, Before
      <3> QED BY <3>1
    <2>5. ASSUME NEW T \in SUBSET A, T # {}
          PROVE  h[Before(T)] = Of(Before(T))[Before(T)]
      <3> DEFINE U == Before(T)
      <3>1. U \in SUBSET A /\ U # A /\ IsFiniteSet(U)
        BY <2>2, <2>5, FS_Subset
      <3>2. Is(U, Of(U))
        BY <2>1, <3>1
      <3> HIDE DEF U, Of
      <3>3. CASE U = {}
        <4>1. h[U] = base
          BY <3>1, <3>3
        <4>2. Of(U)[U] = base
          BY <3>2, <3>3 DEF Folds
        <4> QED BY <4>1, <4>2 DEF U
      <3>4. CASE U # {}
        <4> DEFINE W == Before(U)
        <4>1. W \in SUBSET A /\ W # A /\ W \in SUBSET (U \cap W)
          BY <2>2, <3>1, <3>4
        <4>2. Is(W, Of(W))
          BY <2>1, <4>1
        <4>3. h[U] = step[<<Of(W)[W], pick[U]>>]
          BY <3>1, <3>4
        <4>4. Of(U)[U] = step[<<Of(U)[W], pick[U]>>]
          BY <3>2, <3>4 DEF Folds
        <4> HIDE DEF W
        <4>5. \A X \in SUBSET U : X # {} => pick[X] \in X
          BY <3>1
        <4>6. Of(U)[W] = Of(W)[W]
          BY <3>1, <3>2, <4>1, <4>2, <4>5, FoldsAgree
        <4> HIDE DEF h
        <4> QED BY <4>3, <4>4, <4>6 DEF U
      <3> QED BY <3>3, <3>4
    <2>6. \A T \in SUBSET A : h[T] = IF T = {} THEN base ELSE step[<<h[Before(T)], pick[T]>>]
      <3> SUFFICES ASSUME NEW T \in SUBSET A
                   PROVE  h[T] = IF T = {} THEN base ELSE step[<<h[Before(T)], pick[T]>>]
        OBVIOUS
      <3>1. h[T] = IF T = {} THEN base ELSE step[<<Of(Before(T))[Before(T)], pick[T]>>]
        OBVIOUS
      <3> HIDE DEF h, Of, Before
      <3> QED BY <2>5, <3>1
    <2> HIDE DEF h
    <2> QED BY <2>4, <2>6 DEF Folds
  <1> HIDE DEF G
  <1>2. \A A \in SUBSET S : A \in G
    BY <1>1, SubsetInduction
  <1> QED BY <1>2 DEF G

\* A fold over a sequence takes the greatest index first: there is one.
LEMMA MaxIn ==
  ASSUME NEW n \in Nat
  PROVE  \A T \in SUBSET (1..n) : T # {} => Max(T) \in T /\ \A x \in T : x <= Max(T)
  <1> DEFINE S == 1..n
             HasMax(T) == \E m \in T : \A x \in T : m >= x
             G == {T \in SUBSET S : T # {} => HasMax(T)}
  <1>1. ASSUME NEW T \in SUBSET S, \A U \in SUBSET T : U # T => U \in G, T # {} PROVE HasMax(T)
    <2>1. PICK y \in T : TRUE
      BY <1>1
    <2>2. CASE T = {y}
      BY <2>2
    <2>3. CASE T # {y}
      <3>1. T \ {y} \in G /\ T \ {y} # {}
        BY <1>1, <2>1, <2>3
      <3>2. PICK m \in T \ {y} : \A x \in T \ {y} : m >= x
        BY <3>1
      <3>3. CASE m >= y
        BY <3>2, <3>3
      <3>4. CASE ~(m >= y)
        <4>1. \A x \in T : x \in Int
          OBVIOUS
        <4>2. \A x \in T : y >= x
          BY <2>1, <3>2, <3>4, <4>1
        <4> QED BY <4>2
      <3> QED BY <3>3, <3>4
    <2> QED BY <2>2, <2>3
  <1>2. \A T \in SUBSET S : (\A U \in SUBSET T : U # T => U \in G) => T \in G
    BY <1>1
  <1>3. IsFiniteSet(S)
    BY FS_Interval
  <1>4. \A T \in SUBSET S : T \in G
    <2> HIDE DEF G, S
    <2> QED BY <1>2, <1>3, SubsetInduction
  <1>5. \A T \in SUBSET S : T # {} => Max(T) \in T /\ \A x \in T : Max(T) >= x
    BY <1>4 DEF Max
  <1>6. \A T \in SUBSET S : \A x \in T : x \in Int
    OBVIOUS
  <1> QED BY <1>5, <1>6

\* Induction over 0..n, for a property given as the set G of the numbers that have it.
LEMMA CountingInduction ==
  ASSUME NEW n \in Nat, NEW G, 0 \in G, \A k \in 0..(n - 1) : k \in G => k + 1 \in G
  PROVE  \A k \in 0..n : k \in G
  <1> DEFINE S == 1..n
             H == {T \in SUBSET S : \A k \in 0..n : T = 1..k => k \in G}
  <1>1. ASSUME NEW T \in SUBSET S, \A U \in SUBSET T : U # T => U \in H,
               NEW k \in 0..n, T = 1..k
        PROVE  k \in G
    <2>1. CASE k = 0
      BY <2>1
    <2>2. CASE k # 0
      <3>1. k - 1 \in 0..(n - 1) /\ k - 1 \in 0..n /\ k \in 1..k /\ k \notin 1..(k - 1)
        BY <2>2
      <3>2. 1..(k - 1) \in SUBSET T /\ 1..(k - 1) # T
        BY <1>1, <3>1
      <3>3. 1..(k - 1) \in H
        BY <1>1, <3>2
      <3>4. k - 1 \in G
        BY <3>1, <3>3
      <3>5. (k - 1) + 1 \in G /\ (k - 1) + 1 = k
        BY <3>1, <3>4
      <3> QED BY <3>5
    <2> QED BY <2>1, <2>2
  <1>2. \A T \in SUBSET S : (\A U \in SUBSET T : U # T => U \in H) => T \in H
    BY <1>1
  <1>3. IsFiniteSet(S)
    BY FS_Interval
  <1>4. \A T \in SUBSET S : T \in H
    <2> HIDE DEF H, S
    <2> QED BY <1>2, <1>3, SubsetInduction
  <1>5. \A k \in 0..n : 1..k \in SUBSET S
    OBVIOUS
  <1> QED BY <1>4, <1>5

\* A set of numbers up to n has a smallest one.
LEMMA MinIn ==
  ASSUME NEW n \in Nat, NEW T \in SUBSET (1..n), T # {}
  PROVE  Min(T) \in T
  <1>1. \A x \in T : x \in Nat
    OBVIOUS
  <1>2. PICK m \in T : \A x \in T : m <= x
    <2> DEFINE S == {n + 1 - x : x \in T}
               M == Max(S)
    <2>1. S \in SUBSET (1..n) /\ S # {}
      <3>1. \A x \in T : n + 1 - x \in 1..n
        OBVIOUS
      <3> QED BY <3>1
    <2>2. M \in S /\ \A y \in S : y <= M
      BY <2>1, MaxIn
    <2>3. PICK m \in T : M = n + 1 - m
      BY <2>2
    <2>4. ASSUME NEW x \in T PROVE m <= x
      <3>1. n + 1 - x \in S
        OBVIOUS
      <3>2. n + 1 - x <= n + 1 - m
        BY <2>2, <2>3, <3>1
      <3> QED BY <1>1, <2>3, <3>2
    <2> QED BY <2>4
  <1> QED BY <1>2 DEF Min

\* The total over 1..n + 1 is that over 1..n and the last value.
LEMMA TotalNext ==
  ASSUME NEW f, NEW n \in Nat, \A x \in 1..(n + 1) : f[x] \in Int
  PROVE  Total(f, 1..(n + 1)) = f[n + 1] + Total(f, 1..n)
  <1> DEFINE S == 1..(n + 1)
  <1>1. IsFiniteSet(S) /\ S \in SUBSET S /\ n + 1 \in S /\ S \ {n + 1} = 1..n
    <2>1. IsFiniteSet(S)
      BY FS_Interval
    <2>2. S \ {n + 1} = 1..n
      OBVIOUS
    <2> QED BY <2>1, <2>2
  <1>2. \A x \in S : f[x] \in Int
    OBVIOUS
  <1> HIDE DEF S
  <1>3. Total(f, S) = f[n + 1] + Total(f, S \ {n + 1})
    BY <1>1, <1>2, TotalTakes
  <1> QED BY <1>1, <1>3 DEF S

-----------------------------------------------------------------------------
(* What is made of parts *)

\* Every value of S is at most n deep, and each of its parts is a value that is not as deep.
Layered(S, n, depth, parts) ==
    /\ depth \in [S -> 0..n] /\ parts \in [S -> SUBSET S]
    /\ \A v \in S : \A w \in parts[v] : depth[w] < depth[v]

\* What body makes of a value depends on what is there for its parts only; and g is what
\* there is for every value.
OfParts(S, parts, W, body) ==
    /\ body \in [[S -> W] \X S -> W]
    /\ \A g, h \in [S -> W] : \A v \in S :
          (\A w \in parts[v] : g[w] = h[w]) => body[<<g, v>>] = body[<<h, v>>]
Recurs(S, W, body, g) == g \in [S -> W] /\ \A v \in S : g[v] = body[<<g, v>>]

\* Induction over what is made of parts, for a property given as the set G of what has it:
\* no part is as deep as the whole.
LEMMA DepthInduction ==
  ASSUME NEW S, NEW n \in Nat, NEW depth, NEW parts, Layered(S, n, depth, parts),
         NEW G, \A v \in S : parts[v] \subseteq G => v \in G
  PROVE  S \subseteq G
  <1> DEFINE H == {k \in 0..n + 1 : \A v \in S : depth[v] < k => v \in G}
  <1>1. \A v \in S : depth[v] \in 0..n /\ \A w \in parts[v] : w \in S /\ depth[w] < depth[v]
    BY DEF Layered
  <1>2. 0 \in H
    BY <1>1
  <1>3. ASSUME NEW k \in 0..n, k \in H PROVE k + 1 \in H
    <2>1. ASSUME NEW v \in S, depth[v] < k + 1 PROVE v \in G
      <3>1. \A w \in parts[v] : w \in S /\ depth[w] < k
        BY <1>1, <2>1
      <3> QED BY <1>3, <3>1
    <2> QED BY <2>1
  <1> HIDE DEF H
  <1>4. n + 1 \in Nat /\ \A k \in 0..((n + 1) - 1) : k \in H => k + 1 \in H
    BY <1>3
  <1>5. n + 1 \in H
    <2>1. \A k \in 0..(n + 1) : k \in H
      BY <1>2, <1>4, CountingInduction
    <2> QED BY <2>1
  <1> QED BY <1>1, <1>5 DEF H

\* What is defined for a whole from what is for its parts can be defined for all.
LEMMA DepthRecursion ==
  ASSUME NEW S, NEW n \in Nat, NEW depth, NEW parts, Layered(S, n, depth, parts),
         NEW W, NEW start \in W, NEW body, OfParts(S, parts, W, body)
  PROVE  \E g : Recurs(S, W, body, g)
  <1> DEFINE Upto(g, k) == \A v \in S : depth[v] < k => g[v] = body[<<g, v>>]
             H == {k \in 0..n + 1 : \E g \in [S -> W] : Upto(g, k)}
  <1>1. \A v \in S : depth[v] \in 0..n /\ \A w \in parts[v] : w \in S /\ depth[w] < depth[v]
    BY DEF Layered
  <1>2. 0 \in H
    <2> DEFINE g0 == [v \in S |-> start]
    <2>1. g0 \in [S -> W]
      OBVIOUS
    <2>2. Upto(g0, 0)
      BY <1>1
    <2> HIDE DEF g0, Upto
    <2> QED BY <2>1, <2>2
  <1>3. ASSUME NEW k \in 0..n, k \in H PROVE k + 1 \in H
    <2>1. PICK g \in [S -> W] : Upto(g, k)
      BY <1>3
    <2> DEFINE h == [v \in S |-> body[<<g, v>>]]
    <2>2. h \in [S -> W]
      BY DEF OfParts
    <2>3. ASSUME NEW v \in S, depth[v] < k + 1 PROVE h[v] = body[<<h, v>>]
      <3>1. \A w \in parts[v] : w \in S /\ depth[w] < k
        BY <1>1, <2>3
      <3>2. \A w \in parts[v] : g[w] = h[w]
        BY <2>1, <3>1
      <3>3. h[v] = body[<<g, v>>]
        OBVIOUS
      <3> HIDE DEF h
      <3> QED BY <2>2, <3>2, <3>3 DEF OfParts
    <2> HIDE DEF h
    <2>4. Upto(h, k + 1)
      BY <2>3
    <2> HIDE DEF Upto
    <2> QED BY <2>2, <2>4
  <1> HIDE DEF H
  <1>4. n + 1 \in Nat /\ \A k \in 0..((n + 1) - 1) : k \in H => k + 1 \in H
    BY <1>3
  <1>5. n + 1 \in H
    <2>1. \A k \in 0..(n + 1) : k \in H
      BY <1>2, <1>4, CountingInduction
    <2> QED BY <2>1
  <1>6. PICK g \in [S -> W] : Upto(g, n + 1)
    BY <1>5 DEF H
  <1>7. \A v \in S : depth[v] < n + 1
    BY <1>1
  <1> QED BY <1>6, <1>7 DEF Recurs

-----------------------------------------------------------------------------
(* Sequences joined *)

\* FlattenSeq joins a sequence of sequences from the left, one after the other.
LEMMA FlattenJoins ==
  ASSUME NEW S, NEW seqs \in Seq(Seq(S)), seqs # <<>>
  PROVE  \E f : /\ FlattenSeq(seqs) = f[Len(seqs)]
                /\ \A i \in 1..Len(seqs) :
                      f[i] \in Seq(S) /\ f[i] = IF i = 1 THEN seqs[i] ELSE f[i - 1] \o seqs[i]
  <1> DEFINE n == Len(seqs)
             Joins(g) == g = [i \in 1..n |-> IF i = 1 THEN seqs[i] ELSE g[i - 1] \o seqs[i]]
             V == Seq(S)
  <1>0. n \in Nat \ {0} /\ DOMAIN seqs = 1..n /\ \A i \in 1..n : seqs[i] \in V
    OBVIOUS
  <1> DEFINE step == [p \in V \X (1..n) |-> IF p[2] = 1 THEN seqs[p[2]] ELSE p[1] \o seqs[p[2]]]
             pick == [T \in SUBSET (1..n) |-> Max(T)]
  <1>1. step \in [V \X (1..n) -> V]
    BY <1>0
  <1>2. \A T \in SUBSET (1..n) : T # {} => pick[T] \in T
    BY <1>0, MaxIn
  <1>3. <<>> \in V /\ IsFiniteSet(1..n)
    BY <1>0, FS_Interval
  <1>4. PICK g : Folds(V, <<>>, pick, step, 1..n, g)
    <2> HIDE DEF step, pick, V, n
    <2> QED BY <1>1, <1>2, <1>3, FoldsExist
  <1> DEFINE h == [i \in 1..n |-> g[1..i]]
  <1>5. ASSUME NEW i \in 1..n
        PROVE  /\ g[1..i] = IF i = 1 THEN seqs[i] ELSE g[1..(i - 1)] \o seqs[i]
               /\ g[1..i] \in V
    <2>1. 1..i \in SUBSET (1..n) /\ 1..i # {} /\ 1..(i - 1) \in SUBSET (1..n)
      <3>1. n \in Nat /\ i \in 1..n
        BY <1>0
      <3> HIDE DEF n
      <3>2. \A j \in 1..i : j \in 1..n
        BY <3>1
      <3>3. \A j \in 1..(i - 1) : j \in 1..n
        BY <3>1
      <3>4. i \in 1..i
        BY <3>1
      <3> QED BY <3>2, <3>3, <3>4
    <2>2. pick[1..i] = i
      <3>1. Max(1..i) \in 1..i /\ \A x \in 1..i : x <= Max(1..i)
        BY <1>0, <2>1, MaxIn
      <3> QED BY <2>1, <3>1
    <2>3. (1..i) \ {i} = 1..(i - 1)
      OBVIOUS
    <2>4. g[1..i] = step[<<g[1..(i - 1)], i>>] /\ g[1..(i - 1)] \in V /\ g[1..i] \in V
      <3> HIDE DEF step, pick, V
      <3> QED BY <1>4, <2>1, <2>2, <2>3 DEF Folds
    <2>5. <<g[1..(i - 1)], i>> \in V \X (1..n)
      BY <2>4
    <2> QED BY <2>4, <2>5
  <1>6. Joins(h)
    <2>1. \A i \in 1..n : i # 1 => i - 1 \in 1..n
      BY <1>0
    <2>2. \A i \in 1..n : h[i] = IF i = 1 THEN seqs[i] ELSE h[i - 1] \o seqs[i]
      BY <1>5, <2>1
    <2>3. h = [i \in 1..n |-> h[i]]
      OBVIOUS
    <2> HIDE DEF h
    <2> QED BY <2>2, <2>3
  <1> DEFINE f == CHOOSE g1 : Joins(g1)
  <1>7. Joins(f)
    <2> HIDE DEF Joins, h
    <2> QED BY <1>6
  <1>8. FlattenSeq(seqs) = f[n]
    BY <1>0 DEF FlattenSeq
  <1> HIDE DEF f
  <1>9. \A i \in 1..n : f[i] = IF i = 1 THEN seqs[i] ELSE f[i - 1] \o seqs[i]
    BY <1>7
  <1> DEFINE G == {k \in 0..n : k # 0 => f[k] \in V}
  <1>10. 0 \in G
    BY <1>0
  <1>11. ASSUME NEW k \in 0..(n - 1), k \in G PROVE k + 1 \in G
    <2>1. k + 1 \in 1..n /\ k + 1 \in 0..n /\ seqs[k + 1] \in V
      BY <1>0
    <2>2. CASE k = 0
      BY <1>9, <2>1, <2>2
    <2>3. CASE k # 0
      <3>1. k + 1 # 1 /\ (k + 1) - 1 = k
        BY <2>3
      <3>2. f[k + 1] = f[k] \o seqs[k + 1] /\ f[k] \in V
        <4> HIDE DEF V, n
        <4> QED BY <1>9, <1>11, <2>1, <2>3, <3>1
      <3>3. f[k + 1] \in V
        BY <2>1, <3>2
      <3> QED BY <2>1, <3>3
    <2> QED BY <2>2, <2>3
  <1>12. \A k \in 0..n : k \in G
    <2> HIDE DEF G, n
    <2> QED BY <1>0, <1>10, <1>11, CountingInduction
  <1>13. \A i \in 1..n : f[i] \in V
    BY <1>0, <1>12
  <1> QED BY <1>8, <1>9, <1>13

\* In every order of the elements of a set each of them is met.
LEMMA OrdersCover ==
  ASSUME NEW P, IsFiniteSet(P), NEW order \in SetToSeqs(P)
  PROVE  order \in Seq(P) /\ \A p \in P : \E i \in DOMAIN order : order[i] = p
  <1> DEFINE n == Cardinality(P)
             D == 1..n
  <1>1. n \in Nat /\ order \in [D -> P] /\ \A i, j \in D : i # j => order[i] # order[j]
    BY FS_CardinalityType DEF SetToSeqs
  <1>2. order \in Injection(D, P)
    BY <1>1 DEF Injection, IsInjective
  <1>3. Cardinality(D) = n
    BY <1>1, FS_Interval
  <1>4. order \in Surjection(D, P)
    BY <1>2, <1>3, FS_Injection
  <1>5. \A p \in P : \E i \in D : order[i] = p
    BY <1>4 DEF Surjection
  <1> QED BY <1>1, <1>5

\* A finite set can be put into an order.
LEMMA OrdersExist ==
  ASSUME NEW P, IsFiniteSet(P)
  PROVE  SetToSeqs(P) # {}
  <1> DEFINE D == 1..Cardinality(P)
  <1>1. PICK order \in Bijection(D, P) : TRUE
    BY FS_CardinalityType DEF ExistsBijection
  <1>2. order \in [D -> P] /\ \A i, j \in D : i # j => order[i] # order[j]
    BY <1>1 DEF Bijection, Injection, IsInjective
  <1> QED BY <1>2 DEF SetToSeqs
=============================================================================
