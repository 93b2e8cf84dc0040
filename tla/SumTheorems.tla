---------------------------- MODULE SumTheorems ----------------------------
(***************************************************************************)
(* Facts about induction and sums the proofs of several components need.   *)
(* Each induction is over a set of what the claim holds for, so that it is *)
(* an instance of the minimum principle of well-founded orders.            *)
(***************************************************************************)
EXTENDS Integers, Functions, FiniteSetTheorems, WellFoundedInduction, TLAPS

-----------------------------------------------------------------------------
(* Induction                                                               *)

LEMMA FiniteMinimum ==
    ASSUME NEW S, IsFiniteSet(S), NEW G, G \subseteq SUBSET S, G # {}
    PROVE  \E T \in G : \A U \in G : U \subseteq T => U = T
<1>1. IsWellFoundedOn(StrictSubsetOrdering(S), SUBSET S)
    BY FS_StrictSubsetOrderingWellFounded, FS_FiniteSubsetsOfFinite
<1>2. PICK T \in G : \A U \in G : <<U, T>> \notin StrictSubsetOrdering(S)
    BY <1>1, WFMin
<1> QED BY <1>2 DEF StrictSubsetOrdering

\* What holds of a set whenever it holds of its proper subsets holds of S.
LEMMA SubsetInduction ==
    ASSUME NEW S, IsFiniteSet(S), NEW G,
           \A T \in SUBSET S : (\A U \in SUBSET T : U # T => U \in G) => T \in G
    PROVE  S \in G
<1> SUFFICES ASSUME S \notin G PROVE FALSE
    OBVIOUS
<1> DEFINE B == {T \in SUBSET S : T \notin G}
<1>1. B \subseteq SUBSET S /\ S \in B
    OBVIOUS
<1>2. PICK T \in B : \A U \in B : U \subseteq T => U = T
  <2> HIDE DEF B
  <2> QED BY <1>1, FiniteMinimum
<1> QED BY <1>2

\* What holds of the empty set and stays when an element is added holds of S.
LEMMA ElementInduction ==
    ASSUME NEW S, IsFiniteSet(S), NEW G, {} \in G,
           \A T \in SUBSET S : \A x \in S \ T : T \in G => T \cup {x} \in G
    PROVE  S \in G
<1>1. ASSUME NEW T \in SUBSET S, \A U \in SUBSET T : U # T => U \in G PROVE T \in G
  <2>1. ASSUME NEW x \in T PROVE T \in G
    <3>1. T \ {x} \in G /\ T \ {x} \in SUBSET S /\ x \in S \ (T \ {x})
        BY <1>1
    <3>2. (T \ {x}) \cup {x} = T
        OBVIOUS
    <3> QED BY <3>1, <3>2
  <2> QED BY <2>1
<1> QED BY <1>1, SubsetInduction

LEMMA NumberInduction ==
    ASSUME NEW G, 0 \in G, \A n \in Nat : n \in G => n + 1 \in G
    PROVE  Nat \subseteq G
<1> SUFFICES ASSUME NEW n \in Nat, n \notin G PROVE FALSE
    OBVIOUS
<1> DEFINE B == {m \in Nat : m \notin G}
           R == OpToRel(<, Nat)
<1>1. R = {p \in Nat \X Nat : p[1] < p[2]}
    BY DEF OpToRel
<1>2. IsWellFoundedOn(R, Nat)
    BY NatLessThanWellFounded
<1> HIDE DEF R
<1>3. PICK m \in B : \A k \in B : <<k, m>> \notin R
    BY <1>2, WFMin
<1>4. m # 0 /\ m - 1 \in Nat /\ <<m - 1, m>> \in R
    BY <1>1
<1>5. m - 1 \in G
    BY <1>3, <1>4
<1> QED BY <1>4, <1>5

-----------------------------------------------------------------------------
(* Sums are what their recursion says                                      *)

IsSum(g, f, S) ==
    g = [s \in SUBSET S |->
            IF s = {} THEN 0 ELSE f[CHOOSE x \in s : TRUE] + g[s \ {CHOOSE x \in s : TRUE}]]

Chosen(S) == CHOOSE x \in S : TRUE

LEMMA ChosenIn == ASSUME NEW S, S # {} PROVE Chosen(S) \in S
BY DEF Chosen

LEMMA SumUnfolds ==
    ASSUME NEW g, NEW f, NEW S, IsSum(g, f, S), NEW s \in SUBSET S
    PROVE  g[s] = IF s = {} THEN 0 ELSE f[Chosen(s)] + g[s \ {Chosen(s)}]
BY DEF IsSum, Chosen

LEMMA SumIsUnique ==
    ASSUME NEW f, NEW S, NEW T, IsFiniteSet(T), NEW U \in SUBSET S, U \subseteq T,
           NEW g, IsSum(g, f, S), NEW h, IsSum(h, f, T)
    PROVE  g[U] = h[U]
<1> DEFINE G == {s \in SUBSET U : g[s] = h[s]}
<1>1. ASSUME NEW s \in SUBSET U, \A r \in SUBSET s : r # s => r \in G PROVE s \in G
  <2>1. CASE s = {}
      BY <2>1, SumUnfolds
  <2>2. CASE s # {}
    <3>1. s \ {Chosen(s)} \in G
        BY <1>1, <2>2, ChosenIn
    <3>2. /\ g[s] = f[Chosen(s)] + g[s \ {Chosen(s)}]
          /\ h[s] = f[Chosen(s)] + h[s \ {Chosen(s)}]
        BY <2>2, SumUnfolds
    <3> QED BY <3>1, <3>2
  <2> QED BY <2>1, <2>2
<1> HIDE DEF G
<1>2. U \in G
    BY <1>1, SubsetInduction, FS_Subset
<1> QED BY <1>2 DEF G

LEMMA SumExists ==
    ASSUME NEW f, NEW S, IsFiniteSet(S)
    PROVE  \E g : IsSum(g, f, S)
<1> DEFINE G == {s \in SUBSET S : \E g : IsSum(g, f, s)}
<1>1. ASSUME NEW s \in SUBSET S, \A r \in SUBSET s : r # s => r \in G PROVE s \in G
  <2> DEFINE of(r) == CHOOSE g : IsSum(g, f, r)
             rest(r) == r \ {Chosen(r)}
             h == [r \in SUBSET s |->
                      IF r # s THEN of(r)[r]
                      ELSE IF s = {} THEN 0 ELSE f[Chosen(s)] + of(rest(s))[rest(s)]]
  <2>1. \A r \in SUBSET s : r # s => IsSum(of(r), f, r)
      BY <1>1
  <2>2. \A r \in SUBSET s : r # {} => rest(r) \in SUBSET s /\ rest(r) # s /\ rest(r) # r
      BY ChosenIn
  <2>3. ASSUME NEW r \in SUBSET s, r # s, r # {}
        PROVE  of(r)[r] = f[Chosen(r)] + of(rest(r))[rest(r)]
    <3> HIDE DEF of
    <3>1. IsSum(of(r), f, r) /\ IsSum(of(rest(r)), f, rest(r))
        BY <2>1, <2>2, <2>3
    <3>2. of(r)[r] = f[Chosen(r)] + of(r)[rest(r)]
        BY <2>3, <3>1, SumUnfolds
    <3>3. IsFiniteSet(rest(r))
        BY FS_Subset
    <3>4. of(r)[rest(r)] = of(rest(r))[rest(r)]
        BY <3>1, <3>3, SumIsUnique
    <3> QED BY <3>2, <3>4
  <2>4. ASSUME NEW r \in SUBSET s, r # s, r = {} PROVE of(r)[r] = 0
    <3> HIDE DEF of
    <3> QED BY <2>1, <2>4, SumUnfolds
  <2>5. \A r \in SUBSET s :
           h[r] = IF r = {} THEN 0 ELSE f[Chosen(r)] + h[rest(r)]
    <3> HIDE DEF of
    <3> QED BY <2>2, <2>3, <2>4
  <2>6. h = [r \in SUBSET s |-> IF r = {} THEN 0 ELSE f[Chosen(r)] + h[r \ {Chosen(r)}]]
    <3>1. h = [r \in SUBSET s |-> h[r]]
        OBVIOUS
    <3> HIDE DEF h
    <3> QED BY <3>1, <2>5
  <2> HIDE DEF h
  <2>7. IsSum(h, f, s)
      BY <2>6 DEF IsSum, Chosen
  <2> QED BY <2>7
<1> HIDE DEF G
<1>2. S \in G
    BY <1>1, SubsetInduction
<1> QED BY <1>2 DEF G

LEMMA SumIsSum ==
    ASSUME NEW f, NEW S, IsFiniteSet(S)
    PROVE  \E g : IsSum(g, f, S) /\ SumFunctionOnSet(f, S) = g[S]
<1> DEFINE g == CHOOSE g : IsSum(g, f, S)
<1>1. SumFunctionOnSet(f, S) = g[S]
    BY DEF SumFunctionOnSet, FoldFunctionOnSet, MapThenFoldSet, IsSum
<1>2. IsSum(g, f, S)
    BY SumExists
<1> QED BY <1>1, <1>2

LEMMA SumOfNone ==
    ASSUME NEW f
    PROVE  SumFunctionOnSet(f, {}) = 0
BY SumIsSum, SumUnfolds, FS_EmptySet

LEMMA SumOfChosen ==
    ASSUME NEW f, NEW S, IsFiniteSet(S), S # {}
    PROVE  SumFunctionOnSet(f, S) = f[Chosen(S)] + SumFunctionOnSet(f, S \ {Chosen(S)})
<1> DEFINE T == S \ {Chosen(S)}
<1>1. IsFiniteSet(T) /\ T \in SUBSET S
    BY FS_Subset
<1> HIDE DEF T
<1>2. PICK g : IsSum(g, f, S) /\ SumFunctionOnSet(f, S) = g[S]
    BY SumIsSum
<1>3. PICK h : IsSum(h, f, T) /\ SumFunctionOnSet(f, T) = h[T]
    BY <1>1, SumIsSum
<1>4. g[T] = h[T]
    BY <1>1, <1>2, <1>3, SumIsUnique
<1>5. g[S] = f[Chosen(S)] + g[T]
    BY <1>2, SumUnfolds DEF T
<1> QED BY <1>2, <1>3, <1>4, <1>5 DEF T


-----------------------------------------------------------------------------
(* Sums of integers                                                        *)

Integral(f, S) == \A x \in S : f[x] \in Int

LEMMA SumStep ==
    ASSUME NEW f, NEW S, IsFiniteSet(S), S # {}
    PROVE  /\ Chosen(S) \in S
           /\ IsFiniteSet(S \ {Chosen(S)})
           /\ SumFunctionOnSet(f, S) = f[Chosen(S)] + SumFunctionOnSet(f, S \ {Chosen(S)})
BY SumOfChosen, ChosenIn, FS_Subset

LEMMA SumIsInt ==
    ASSUME NEW f, NEW S, IsFiniteSet(S), Integral(f, S)
    PROVE  SumFunctionOnSet(f, S) \in Int
<1> DEFINE G == {T \in SUBSET S : SumFunctionOnSet(f, T) \in Int}
<1>1. ASSUME NEW T \in SUBSET S, \A U \in SUBSET T : U # T => U \in G PROVE T \in G
  <2>1. CASE T = {}
      BY <2>1, SumOfNone
  <2>2. CASE T # {}
    <3>1. /\ Chosen(T) \in T
          /\ SumFunctionOnSet(f, T) = f[Chosen(T)] + SumFunctionOnSet(f, T \ {Chosen(T)})
        BY <2>2, SumStep, FS_Subset
    <3>2. SumFunctionOnSet(f, T \ {Chosen(T)}) \in Int
        BY <1>1, <3>1
    <3> QED BY <3>1, <3>2 DEF Integral
  <2> QED BY <2>1, <2>2
<1> HIDE DEF G
<1>2. S \in G
    BY <1>1, SubsetInduction
<1> QED BY <1>2 DEF G

\* The order of the summands does not matter.
LEMMA SumWithout ==
    ASSUME NEW f, NEW S, IsFiniteSet(S), Integral(f, S), NEW a \in S
    PROVE  SumFunctionOnSet(f, S) = f[a] + SumFunctionOnSet(f, S \ {a})
<1> DEFINE G == {T \in SUBSET S :
                    \A x \in T : SumFunctionOnSet(f, T) = f[x] + SumFunctionOnSet(f, T \ {x})}
<1>1. ASSUME NEW T \in SUBSET S, \A U \in SUBSET T : U # T => U \in G PROVE T \in G
  <2> SUFFICES ASSUME NEW x \in T PROVE SumFunctionOnSet(f, T) = f[x] + SumFunctionOnSet(f, T \ {x})
      OBVIOUS
  <2> DEFINE c == Chosen(T)
             U == T \ {c}
             V == T \ {x}
             W == T \ {c, x}
  <2>1. c \in T /\ SumFunctionOnSet(f, T) = f[c] + SumFunctionOnSet(f, U)
      BY SumStep, FS_Subset
  <2> HIDE DEF c
  <2>2. CASE c = x
      BY <2>1, <2>2
  <2>3. CASE c # x
    <3>1. U \in G /\ V \in G /\ x \in U /\ c \in V /\ W = U \ {x} /\ W = V \ {c}
        BY <1>1, <2>1, <2>3
    <3>2. /\ SumFunctionOnSet(f, U) = f[x] + SumFunctionOnSet(f, W)
          /\ SumFunctionOnSet(f, V) = f[c] + SumFunctionOnSet(f, W)
        BY <3>1
    <3>3. f[c] \in Int /\ f[x] \in Int /\ SumFunctionOnSet(f, W) \in Int
      <4>1. IsFiniteSet(W) /\ Integral(f, W)
          BY FS_Subset DEF Integral
      <4> QED BY <2>1, <4>1, SumIsInt DEF Integral
    <3> QED BY <2>1, <3>2, <3>3
  <2> QED BY <2>2, <2>3
<1> HIDE DEF G
<1>2. S \in G
    BY <1>1, SubsetInduction
<1> QED BY <1>2 DEF G

LEMMA SumWith ==
    ASSUME NEW f, NEW S, IsFiniteSet(S), NEW a, a \notin S, Integral(f, S \cup {a})
    PROVE  SumFunctionOnSet(f, S \cup {a}) = f[a] + SumFunctionOnSet(f, S)
<1>1. IsFiniteSet(S \cup {a}) /\ (S \cup {a}) \ {a} = S
    BY FS_AddElement
<1> QED BY <1>1, SumWithout


\* Sums of two functions over a set are compared element by element.
LEMMA SumOfEqual ==
    ASSUME NEW f, NEW g, NEW S, IsFiniteSet(S), \A x \in S : f[x] = g[x]
    PROVE  SumFunctionOnSet(f, S) = SumFunctionOnSet(g, S)
<1> DEFINE G == {T \in SUBSET S : SumFunctionOnSet(f, T) = SumFunctionOnSet(g, T)}
<1>1. ASSUME NEW T \in SUBSET S, \A U \in SUBSET T : U # T => U \in G PROVE T \in G
  <2>1. CASE T = {}
      BY <2>1, SumOfNone
  <2>2. CASE T # {}
    <3>1. /\ Chosen(T) \in T
          /\ SumFunctionOnSet(f, T) = f[Chosen(T)] + SumFunctionOnSet(f, T \ {Chosen(T)})
          /\ SumFunctionOnSet(g, T) = g[Chosen(T)] + SumFunctionOnSet(g, T \ {Chosen(T)})
        BY <2>2, SumStep, FS_Subset
    <3>2. T \ {Chosen(T)} \in G
        BY <1>1, <3>1
    <3> QED BY <3>1, <3>2
  <2> QED BY <2>1, <2>2
<1> HIDE DEF G
<1>2. S \in G
    BY <1>1, SubsetInduction
<1> QED BY <1>2 DEF G

LEMMA SumOfSmaller ==
    ASSUME NEW f, NEW g, NEW S, IsFiniteSet(S), Integral(f, S), Integral(g, S),
           \A x \in S : f[x] <= g[x]
    PROVE  SumFunctionOnSet(f, S) <= SumFunctionOnSet(g, S)
<1> DEFINE G == {T \in SUBSET S : SumFunctionOnSet(f, T) <= SumFunctionOnSet(g, T)}
<1>1. {} \in G
    BY SumOfNone
<1>2. ASSUME NEW T \in SUBSET S, NEW a \in S \ T, T \in G PROVE T \cup {a} \in G
  <2>1. IsFiniteSet(T) /\ Integral(f, T \cup {a}) /\ Integral(g, T \cup {a})
        /\ Integral(f, T) /\ Integral(g, T)
      BY FS_Subset DEF Integral
  <2>2. /\ SumFunctionOnSet(f, T \cup {a}) = f[a] + SumFunctionOnSet(f, T)
        /\ SumFunctionOnSet(g, T \cup {a}) = g[a] + SumFunctionOnSet(g, T)
        /\ SumFunctionOnSet(f, T) \in Int /\ SumFunctionOnSet(g, T) \in Int
      BY <2>1, SumWith, SumIsInt
  <2>3. f[a] \in Int /\ g[a] \in Int /\ f[a] <= g[a]
      BY DEF Integral
  <2>4. SumFunctionOnSet(f, T) <= SumFunctionOnSet(g, T)
      BY <1>2
  <2> QED BY <2>2, <2>3, <2>4
<1> HIDE DEF G
<1>3. S \in G
    BY <1>1, <1>2, ElementInduction
<1> QED BY <1>3 DEF G

LEMMA SumOfMultiples ==
    ASSUME NEW f, NEW g, NEW S, IsFiniteSet(S), Integral(f, S), NEW c \in Int,
           \A x \in S : g[x] = c * f[x]
    PROVE  SumFunctionOnSet(g, S) = c * SumFunctionOnSet(f, S)
<1> DEFINE G == {T \in SUBSET S : SumFunctionOnSet(g, T) = c * SumFunctionOnSet(f, T)}
<1>1. {} \in G
    BY SumOfNone
<1>2. ASSUME NEW T \in SUBSET S, NEW a \in S \ T, T \in G PROVE T \cup {a} \in G
  <2>1. IsFiniteSet(T) /\ Integral(f, T \cup {a}) /\ Integral(g, T \cup {a}) /\ Integral(f, T)
      BY FS_Subset DEF Integral
  <2> DEFINE s == SumFunctionOnSet(f, T)
  <2>2. /\ SumFunctionOnSet(f, T \cup {a}) = f[a] + s
        /\ SumFunctionOnSet(g, T \cup {a}) = g[a] + SumFunctionOnSet(g, T)
        /\ s \in Int /\ f[a] \in Int
      BY <2>1, SumWith, SumIsInt DEF Integral
  <2>3. g[a] + SumFunctionOnSet(g, T) = c * f[a] + c * s
      BY <1>2
  <2> HIDE DEF s
  <2>4. c * f[a] + c * s = c * (f[a] + s)
      BY <2>2
  <2> QED BY <2>2, <2>3, <2>4
<1> HIDE DEF G
<1>3. S \in G
    BY <1>1, <1>2, ElementInduction
<1> QED BY <1>3 DEF G

LEMMA SumOfBoth ==
    ASSUME NEW f, NEW g, NEW h, NEW S, IsFiniteSet(S), Integral(f, S), Integral(g, S),
           \A x \in S : h[x] = f[x] + g[x]
    PROVE  SumFunctionOnSet(h, S) = SumFunctionOnSet(f, S) + SumFunctionOnSet(g, S)
<1> DEFINE G == {T \in SUBSET S : SumFunctionOnSet(h, T) =
                                     SumFunctionOnSet(f, T) + SumFunctionOnSet(g, T)}
<1>1. {} \in G
    BY SumOfNone
<1>2. ASSUME NEW T \in SUBSET S, NEW a \in S \ T, T \in G PROVE T \cup {a} \in G
  <2>1. IsFiniteSet(T) /\ Integral(f, T \cup {a}) /\ Integral(g, T \cup {a})
        /\ Integral(h, T \cup {a}) /\ Integral(f, T) /\ Integral(g, T)
      BY FS_Subset DEF Integral
  <2>2. /\ SumFunctionOnSet(f, T \cup {a}) = f[a] + SumFunctionOnSet(f, T)
        /\ SumFunctionOnSet(g, T \cup {a}) = g[a] + SumFunctionOnSet(g, T)
        /\ SumFunctionOnSet(h, T \cup {a}) = h[a] + SumFunctionOnSet(h, T)
        /\ SumFunctionOnSet(f, T) \in Int /\ SumFunctionOnSet(g, T) \in Int
      BY <2>1, SumWith, SumIsInt
  <2>3. f[a] \in Int /\ g[a] \in Int /\ h[a] = f[a] + g[a]
      BY DEF Integral
  <2>4. SumFunctionOnSet(h, T) = SumFunctionOnSet(f, T) + SumFunctionOnSet(g, T)
      BY <1>2
  <2> QED BY <2>2, <2>3, <2>4
<1> HIDE DEF G
<1>3. S \in G
    BY <1>1, <1>2, ElementInduction
<1> QED BY <1>3 DEF G

LEMMA SumOfUnion ==
    ASSUME NEW f, NEW S, IsFiniteSet(S), NEW T, IsFiniteSet(T), S \cap T = {},
           Integral(f, S \cup T)
    PROVE  SumFunctionOnSet(f, S \cup T) = SumFunctionOnSet(f, S) + SumFunctionOnSet(f, T)
<1> DEFINE G == {U \in SUBSET T : SumFunctionOnSet(f, S \cup U) =
                                     SumFunctionOnSet(f, S) + SumFunctionOnSet(f, U)}
<1>1. {} \in G
  <2>1. SumFunctionOnSet(f, S) \in Int /\ S \cup {} = S
      BY SumIsInt DEF Integral
  <2> QED BY <2>1, SumOfNone
<1>2. ASSUME NEW U \in SUBSET T, NEW a \in T \ U, U \in G PROVE U \cup {a} \in G
  <2>1. IsFiniteSet(U) /\ IsFiniteSet(S \cup U)
      BY FS_Subset, FS_Union
  <2>2. Integral(f, (S \cup U) \cup {a}) /\ Integral(f, U \cup {a}) /\ a \notin S \cup U
        /\ Integral(f, S) /\ Integral(f, U) /\ f[a] \in Int
      BY DEF Integral
  <2>3. /\ SumFunctionOnSet(f, (S \cup U) \cup {a}) = f[a] + SumFunctionOnSet(f, S \cup U)
        /\ SumFunctionOnSet(f, U \cup {a}) = f[a] + SumFunctionOnSet(f, U)
        /\ SumFunctionOnSet(f, S) \in Int /\ SumFunctionOnSet(f, U) \in Int
      BY <2>1, <2>2, SumWith, SumIsInt
  <2>4. (S \cup U) \cup {a} = S \cup (U \cup {a})
      OBVIOUS
  <2>5. SumFunctionOnSet(f, S \cup U) = SumFunctionOnSet(f, S) + SumFunctionOnSet(f, U)
      BY <1>2
  <2>6. SumFunctionOnSet(f, S \cup (U \cup {a})) =
           SumFunctionOnSet(f, S) + SumFunctionOnSet(f, U \cup {a})
    <3> HIDE DEF G
    <3>1. SumFunctionOnSet(f, (S \cup U) \cup {a}) =
             SumFunctionOnSet(f, S) + SumFunctionOnSet(f, U \cup {a})
        BY <2>2, <2>3, <2>5
    <3> QED BY <2>4, <3>1
  <2> QED BY <2>6
<1> HIDE DEF G
<1>3. T \in G
    BY <1>1, <1>2, ElementInduction
<1> QED BY <1>3 DEF G

LEMMA FiniteImage ==
    ASSUME NEW h, NEW S, IsFiniteSet(S)
    PROVE  IsFiniteSet({h[x] : x \in S})
<1> DEFINE f == [x \in S |-> h[x]]
<1>1. f \in Surjection(S, {h[x] : x \in S})
    BY DEF Surjection
<1> QED BY <1>1, FS_Surjection

\* What counts for nothing may be left out, and summands may be renamed.
LEMMA SumOfFilter ==
    ASSUME NEW f, NEW g, NEW S, IsFiniteSet(S), NEW T \in SUBSET S, Integral(f, T),
           \A x \in T : g[x] = f[x], \A x \in S \ T : g[x] = 0
    PROVE  SumFunctionOnSet(g, S) = SumFunctionOnSet(f, T)
<1> DEFINE R == S \ T
<1>1. /\ IsFiniteSet(T) /\ IsFiniteSet(R) /\ T \cap R = {} /\ T \cup R = S
      /\ Integral(g, S) /\ Integral(g, R)
    BY FS_Subset DEF Integral
<1>2. \A x \in R : g[x] = 0 * g[x]
    OBVIOUS
<1>z. 0 \in Int
    OBVIOUS
<1> HIDE DEF R
<1>3. SumFunctionOnSet(g, R) = 0 * SumFunctionOnSet(g, R) /\ SumFunctionOnSet(g, R) \in Int
    BY <1>1, <1>2, <1>z, SumOfMultiples, SumIsInt
<1>4. SumFunctionOnSet(g, R) = 0
    BY <1>3
<1>5. SumFunctionOnSet(g, S) = SumFunctionOnSet(g, T) + SumFunctionOnSet(g, R)
    BY <1>1, SumOfUnion
<1>6. SumFunctionOnSet(g, T) = SumFunctionOnSet(f, T) /\ SumFunctionOnSet(f, T) \in Int
    BY <1>1, SumOfEqual, SumIsInt
<1> QED BY <1>4, <1>5, <1>6

LEMMA SumOfImage ==
    ASSUME NEW f, NEW g, NEW h, NEW S, IsFiniteSet(S), Integral(g, S),
           \A x \in S : g[x] = f[h[x]], \A x, y \in S : h[x] = h[y] => x = y
    PROVE  SumFunctionOnSet(g, S) = SumFunctionOnSet(f, {h[x] : x \in S})
<1> DEFINE Of(U) == {h[x] : x \in U}
           G == {U \in SUBSET S : SumFunctionOnSet(g, U) = SumFunctionOnSet(f, Of(U))}
<1>1. {} \in G
  <2>1. Of({}) = {}
      OBVIOUS
  <2> QED BY <2>1, SumOfNone
<1>2. ASSUME NEW U \in SUBSET S, NEW a \in S \ U, U \in G PROVE U \cup {a} \in G
  <2>1. Of(U \cup {a}) = Of(U) \cup {h[a]} /\ h[a] \notin Of(U)
      OBVIOUS
  <2>2. IsFiniteSet(U) /\ Integral(g, U \cup {a})
      BY FS_Subset DEF Integral
  <2>3. Integral(f, Of(U) \cup {h[a]})
      BY DEF Integral
  <2>4. IsFiniteSet(Of(U))
      BY <2>2, FiniteImage
  <2>5. SumFunctionOnSet(g, U \cup {a}) = g[a] + SumFunctionOnSet(g, U)
      BY <2>2, SumWith
  <2>6. SumFunctionOnSet(f, Of(U) \cup {h[a]}) = f[h[a]] + SumFunctionOnSet(f, Of(U))
    <3> HIDE DEF Of
    <3> QED BY <2>1, <2>3, <2>4, SumWith
  <2>7. SumFunctionOnSet(g, U) = SumFunctionOnSet(f, Of(U))
      BY <1>2
  <2> QED BY <2>1, <2>5, <2>6, <2>7
<1>3. S \in G
  <2> HIDE DEF G
  <2> QED BY <1>1, <1>2, ElementInduction
<1> QED BY <1>3

-----------------------------------------------------------------------------
(* Sums of natural numbers                                                 *)

Natural(f, S) == \A x \in S : f[x] \in Nat

LEMMA SumIsNatural ==
    ASSUME NEW f, NEW S, IsFiniteSet(S), Natural(f, S)
    PROVE  SumFunctionOnSet(f, S) \in Nat
<1> DEFINE z == [x \in S |-> 0]
<1>1. Integral(f, S) /\ Integral(z, S) /\ \A x \in S : z[x] <= f[x] /\ z[x] = 0 * z[x]
    BY DEF Integral, Natural
<1>a. 0 \in Int
    OBVIOUS
<1> HIDE DEF z
<1>2. SumFunctionOnSet(z, S) <= SumFunctionOnSet(f, S)
    BY <1>1, SumOfSmaller
<1>3. /\ SumFunctionOnSet(z, S) = 0 * SumFunctionOnSet(z, S)
      /\ SumFunctionOnSet(z, S) \in Int /\ SumFunctionOnSet(f, S) \in Int
    BY <1>1, SumOfMultiples, SumIsInt
<1> QED BY <1>2, <1>3

LEMMA SumOfSubset ==
    ASSUME NEW f, NEW S, IsFiniteSet(S), Natural(f, S), NEW T \in SUBSET S
    PROVE  /\ SumFunctionOnSet(f, T) \in Nat
           /\ SumFunctionOnSet(f, T) <= SumFunctionOnSet(f, S)
<1>1. /\ IsFiniteSet(T) /\ IsFiniteSet(S \ T) /\ T \cap (S \ T) = {} /\ T \cup (S \ T) = S
      /\ Natural(f, T) /\ Natural(f, S \ T) /\ Integral(f, S)
    BY FS_Subset DEF Natural, Integral
<1>2. SumFunctionOnSet(f, S) = SumFunctionOnSet(f, T) + SumFunctionOnSet(f, S \ T)
    BY <1>1, SumOfUnion
<1>3. SumFunctionOnSet(f, T) \in Nat /\ SumFunctionOnSet(f, S \ T) \in Nat
    BY <1>1, SumIsNatural
<1> QED BY <1>2, <1>3

LEMMA SumCoversMember ==
    ASSUME NEW f, NEW S, IsFiniteSet(S), Natural(f, S), NEW a \in S
    PROVE  f[a] <= SumFunctionOnSet(f, S)
<1>1. Integral(f, S) /\ Natural(f, S \ {a}) /\ IsFiniteSet(S \ {a})
    BY FS_Subset DEF Natural, Integral
<1>2. SumFunctionOnSet(f, S) = f[a] + SumFunctionOnSet(f, S \ {a})
    BY <1>1, SumWithout
<1>3. SumFunctionOnSet(f, S \ {a}) \in Nat /\ f[a] \in Nat
    BY <1>1, SumIsNatural DEF Natural
<1> QED BY <1>2, <1>3

LEMMA SumOfOnes ==
    ASSUME NEW f, NEW S, IsFiniteSet(S), \A x \in S : f[x] = 1
    PROVE  SumFunctionOnSet(f, S) = Cardinality(S)
<1> DEFINE G == {T \in SUBSET S : SumFunctionOnSet(f, T) = Cardinality(T)}
<1>1. {} \in G
    BY SumOfNone, FS_EmptySet
<1>2. ASSUME NEW T \in SUBSET S, NEW a \in S \ T, T \in G PROVE T \cup {a} \in G
  <2>1. IsFiniteSet(T) /\ Integral(f, T \cup {a}) /\ f[a] = 1
      BY FS_Subset DEF Integral
  <2>2. /\ SumFunctionOnSet(f, T \cup {a}) = f[a] + SumFunctionOnSet(f, T)
        /\ Cardinality(T \cup {a}) = Cardinality(T) + 1 /\ Cardinality(T) \in Nat
      BY <2>1, SumWith, FS_AddElement, FS_CardinalityType
  <2>3. SumFunctionOnSet(f, T) = Cardinality(T)
      BY <1>2
  <2> QED BY <2>1, <2>2, <2>3
<1> HIDE DEF G
<1>3. S \in G
    BY <1>1, <1>2, ElementInduction
<1> QED BY <1>3 DEF G

\* Members are counted by a sum.
LEMMA SumCounts ==
    ASSUME NEW g, NEW S, IsFiniteSet(S), NEW T \in SUBSET S,
           \A x \in T : g[x] = 1, \A x \in S \ T : g[x] = 0
    PROVE  SumFunctionOnSet(g, S) = Cardinality(T)
<1>1. Integral(g, T) /\ IsFiniteSet(T)
    BY FS_Subset DEF Integral
<1> QED BY <1>1, SumOfFilter, SumOfOnes

\* A set that is sorted by a key sums up part by part.
Part(S, key, k) == {x \in S : key[x] = k}

LEMMA SumOfParts ==
    ASSUME NEW f, NEW S, IsFiniteSet(S), Integral(f, S),
           NEW key, NEW K, IsFiniteSet(K), \A x \in S : key[x] \in K,
           NEW part, \A k \in K : part[k] = SumFunctionOnSet(f, Part(S, key, k))
    PROVE  SumFunctionOnSet(part, K) = SumFunctionOnSet(f, S)
<1> DEFINE Of(L) == {x \in S : key[x] \in L}
           G == {L \in SUBSET K : SumFunctionOnSet(part, L) = SumFunctionOnSet(f, Of(L))}
<1>1. {} \in G
  <2>1. Of({}) = {}
      OBVIOUS
  <2> QED BY <2>1, SumOfNone
<1>2. ASSUME NEW L \in SUBSET K, NEW k \in K \ L, L \in G PROVE L \cup {k} \in G
  <2>1. /\ Of(L \cup {k}) = Part(S, key, k) \cup Of(L) /\ Part(S, key, k) \cap Of(L) = {}
        /\ Part(S, key, k) \in SUBSET S /\ Of(L) \in SUBSET S
      BY DEF Part
  <2>2. /\ IsFiniteSet(Part(S, key, k)) /\ IsFiniteSet(Of(L)) /\ IsFiniteSet(L)
        /\ \A T \in SUBSET S : Integral(f, T)
      BY <2>1, FS_Subset DEF Integral
  <2>3. SumFunctionOnSet(f, Of(L \cup {k})) =
           SumFunctionOnSet(f, Part(S, key, k)) + SumFunctionOnSet(f, Of(L))
    <3> HIDE DEF Of
    <3>1. Integral(f, Part(S, key, k) \cup Of(L))
        BY <2>1, <2>2
    <3>2. SumFunctionOnSet(f, Part(S, key, k) \cup Of(L)) =
             SumFunctionOnSet(f, Part(S, key, k)) + SumFunctionOnSet(f, Of(L))
        BY <2>1, <2>2, <3>1, SumOfUnion
    <3> QED BY <2>1, <3>2
  <2>4. Integral(part, L \cup {k})
    <3>1. ASSUME NEW l \in K PROVE part[l] \in Int
      <4>1. Part(S, key, l) \in SUBSET S
          BY DEF Part
      <4>2. IsFiniteSet(Part(S, key, l)) /\ Integral(f, Part(S, key, l))
          BY <2>2, <4>1, FS_Subset
      <4> QED BY <4>2, SumIsInt
    <3> QED BY <3>1 DEF Integral
  <2>5. SumFunctionOnSet(part, L \cup {k}) = part[k] + SumFunctionOnSet(part, L)
      BY <2>2, <2>4, SumWith
  <2>6. SumFunctionOnSet(part, L) = SumFunctionOnSet(f, Of(L))
      BY <1>2
  <2> QED BY <2>3, <2>5, <2>6
<1>3. K \in G
  <2> HIDE DEF G
  <2> QED BY <1>1, <1>2, ElementInduction
<1>4. Of(K) = S
    OBVIOUS
<1> QED BY <1>3, <1>4

=============================================================================
