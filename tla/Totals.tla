------------------------------- MODULE Totals -------------------------------
(***************************************************************************)
(* What a sum over a finite set is worth: adding an element adds its       *)
(* weight, and disjoint parts add up.  The sums of the model, such as the  *)
(* quantity sold of a listing or the money that went into an order list,   *)
(* are MapThenSumSet of the community modules: a recursive function that   *)
(* takes the elements in an order of its own, so each fact needs an        *)
(* induction over the subsets of the set.  The library's induction         *)
(* theorems take a predicate as parameter; SubsetInduction says the same   *)
(* of a set of sets, which a leaf of a proof can cite, and rests on the    *)
(* well-foundedness of the finite subsets.                                 *)
(***************************************************************************)
EXTENDS FiniteSetsExt, FiniteSetTheorems, TLAPS

Total(w, S) == MapThenSumSet(LAMBDA x : w[x], S)

Choice(S) == CHOOSE x \in S : TRUE

\* g is the table of partial sums that MapThenSumSet computes with.
Adds(g, w, S) ==
  g = [T \in SUBSET S |-> IF T = {} THEN 0 ELSE w[Choice(T)] + g[T \ {Choice(T)}]]

Partial(w, S) == CHOOSE g : Adds(g, w, S)

\* The weights w and v agree on S.
Alike(w, v, S) == \A x \in S : w[x] = v[x]

\* The weights are numbers.
Weighed(w, S) == \A x \in S : w[x] \in Int

\* A total is the last entry of its table.
LEMMA TotalIsPartial ==
  ASSUME NEW w, NEW S
  PROVE  Total(w, S) = Partial(w, S)[S]
BY DEF Total, MapThenSumSet, MapThenFoldSet, Adds, Choice, Partial

LEMMA Chosen ==
  ASSUME NEW S, S # {}
  PROVE  Choice(S) \in S
BY DEF Choice

-----------------------------------------------------------------------------
\* Induction over the subsets of a finite set: what is true of a set once it is
\* true of its smaller subsets is true of all.
LEMMA SubsetInduction ==
  ASSUME NEW S, IsFiniteSet(S), NEW Good,
         \A T \in SUBSET S : (\A U \in SUBSET T : U # T => U \in Good) => T \in Good
  PROVE  \A T \in SUBSET S : T \in Good
<1> DEFINE Bad == (SUBSET S) \ Good
<1> SUFFICES ASSUME Bad # {} PROVE FALSE
  OBVIOUS
<1>1. Bad \subseteq FiniteSubsetsOf(S)
  BY FS_FiniteSubsetsOfFinite
<1>2. PICK T \in Bad : \A U \in Bad : ~ (<<U, T>> \in StrictSubsetOrdering(S))
  <2> HIDE DEF Bad
  <2> QED
    BY <1>1, FS_StrictSubsetOrderingWellFounded, WFMin
<1>3. \A U \in SUBSET T : U # T => U \in Good
  BY <1>2 DEF StrictSubsetOrdering
<1>4. QED
  BY <1>2, <1>3

\* Two tables agree on a set on whose elements their weights do.
LEMMA TablesAgree ==
  ASSUME NEW w, NEW v, NEW S, NEW T,
         NEW U, IsFiniteSet(U), U \subseteq S, U \subseteq T,
         Alike(w, v, U),
         NEW g, NEW h, Adds(g, w, S), Adds(h, v, T)
  PROVE  g[U] = h[U]
<1> DEFINE Good == {V \in SUBSET U : g[V] = h[V]}
<1>1. ASSUME NEW V \in SUBSET U, \A X \in SUBSET V : X # V => X \in Good
      PROVE  g[V] = h[V]
  <2>1. V \in SUBSET S /\ V \in SUBSET T
    OBVIOUS
  <2>2. CASE V = {}
    BY <2>1, <2>2 DEF Adds
  <2>3. CASE V # {}
    <3>1. Choice(V) \in V
      BY <2>3, Chosen
    <3>2. g[V \ {Choice(V)}] = h[V \ {Choice(V)}]
      BY <1>1, <3>1
    <3>3. g[V] = w[Choice(V)] + g[V \ {Choice(V)}]
      BY <2>1, <2>3 DEF Adds
    <3>4. h[V] = v[Choice(V)] + h[V \ {Choice(V)}]
      BY <2>1, <2>3 DEF Adds
    <3>5. QED
      BY <3>1, <3>2, <3>3, <3>4 DEF Alike
  <2>4. QED
    BY <2>2, <2>3
<1>2. \A V \in SUBSET U : (\A X \in SUBSET V : X # V => X \in Good) => V \in Good
  BY <1>1
<1>3. \A V \in SUBSET U : V \in Good
  <2> HIDE DEF Good
  <2> QED
    BY <1>2, SubsetInduction
<1>4. QED
  BY <1>3

\* There is such a table: the recursion is well defined.
LEMMA TablesExist ==
  ASSUME NEW w, NEW S, IsFiniteSet(S)
  PROVE  Adds(Partial(w, S), w, S)
<1> DEFINE Good == {T \in SUBSET S : Adds(Partial(w, T), w, T)}
<1>1. ASSUME NEW T \in SUBSET S, \A U \in SUBSET T : U # T => U \in Good
      PROVE  Adds(Partial(w, T), w, T)
  <2> DEFINE Less(U) == U \ {Choice(U)}
             f == [U \in SUBSET T |-> IF U = {} THEN 0
                                      ELSE w[Choice(U)] + Partial(w, Less(U))[Less(U)]]
  <2>1. ASSUME NEW U \in SUBSET T, U # {}
        PROVE  f[Less(U)] = Partial(w, Less(U))[Less(U)]
    <3> DEFINE V == Less(U)
    <3>1. V \in SUBSET T /\ V # T
      BY <2>1, Chosen
    <3>2. Adds(Partial(w, V), w, V)
      BY <1>1, <3>1
    <3>3. CASE V = {}
      BY <3>1, <3>2, <3>3 DEF Adds
    <3>4. CASE V # {}
      <4> DEFINE X == Less(V)
      <4>1. X \in SUBSET T /\ X # T /\ X \subseteq V
        BY <3>1
      <4>2. Adds(Partial(w, X), w, X)
        BY <1>1, <4>1
      <4>3. IsFiniteSet(X)
        BY <4>1, FS_Subset
      <4>4. Partial(w, V)[X] = Partial(w, X)[X]
        <5>1. Alike(w, w, X)
          BY DEF Alike
        <5> HIDE DEF X, V
        <5> QED
          BY <3>2, <4>1, <4>2, <4>3, <5>1, TablesAgree
      <4>5. Partial(w, V)[V] = w[Choice(V)] + Partial(w, V)[X]
        BY <3>2, <3>4 DEF Adds
      <4>6. f[V] = w[Choice(V)] + Partial(w, X)[X]
        BY <3>1, <3>4
      <4>7. QED
        BY <4>4, <4>5, <4>6
    <3>5. QED
      BY <3>3, <3>4
  <2>2. Adds(f, w, T)
    BY <2>1 DEF Adds
  <2>3. QED
    <3> HIDE DEF f
    <3> QED
      BY <2>2 DEF Partial
<1>2. \A T \in SUBSET S : (\A U \in SUBSET T : U # T => U \in Good) => T \in Good
  BY <1>1
<1>3. \A T \in SUBSET S : T \in Good
  <2> HIDE DEF Good
  <2> QED
    BY <1>2, SubsetInduction
<1>4. QED
  BY <1>3

\* Whatever satisfies the recursion computes the total.
LEMMA TotalIsUnique ==
  ASSUME NEW w, NEW S, IsFiniteSet(S), NEW g, Adds(g, w, S)
  PROVE  g[S] = Total(w, S)
<1> DEFINE h == Partial(w, S)
<1>1. Adds(h, w, S) /\ Alike(w, w, S)
  BY TablesExist DEF Alike
<1>2. g[S] = h[S]
  <2> HIDE DEF h
  <2> QED
    BY <1>1, TablesAgree
<1>3. QED
  BY <1>2, TotalIsPartial

\* Only the weights of the elements matter.
LEMMA SameTotal ==
  ASSUME NEW w, NEW v, NEW S, IsFiniteSet(S), Alike(w, v, S)
  PROVE  Total(w, S) = Total(v, S)
<1> DEFINE g == Partial(w, S)
           h == Partial(v, S)
<1>1. Adds(g, w, S)
  BY TablesExist
<1>2. Adds(h, v, S)
  BY TablesExist
<1>3. S \subseteq S
  OBVIOUS
<1>4. g[S] = h[S]
  <2> HIDE DEF g, h
  <2> QED
    BY <1>1, <1>2, <1>3, TablesAgree
<1>5. QED
  BY <1>4, TotalIsPartial

-----------------------------------------------------------------------------
\* Nothing adds up to nothing.
LEMMA TotalOfNothing ==
  ASSUME NEW w
  PROVE  Total(w, {}) = 0
<1>1. Adds(Partial(w, {}), w, {})
  BY TablesExist, FS_EmptySet
<1>2. QED
  BY <1>1, TotalIsPartial DEF Adds

\* One step of the recursion.
LEMMA TotalStep ==
  ASSUME NEW w, NEW S, IsFiniteSet(S), S # {}
  PROVE  Total(w, S) = w[Choice(S)] + Total(w, S \ {Choice(S)})
<1> DEFINE T == S \ {Choice(S)}
<1>1. IsFiniteSet(T) /\ T \subseteq S
  BY FS_Subset
<1>2. Adds(Partial(w, S), w, S) /\ Adds(Partial(w, T), w, T)
  BY <1>1, TablesExist
<1>3. Partial(w, S)[S] = w[Choice(S)] + Partial(w, S)[T]
  BY <1>2 DEF Adds
<1>4. Partial(w, S)[T] = Partial(w, T)[T]
  <2> DEFINE g == Partial(w, S)
             h == Partial(w, T)
  <2>1. T \subseteq T /\ Alike(w, w, T)
    BY DEF Alike
  <2>2. Adds(g, w, S) /\ Adds(h, w, T)
    BY <1>2
  <2> HIDE DEF g, h, T
  <2>3. g[T] = h[T]
    BY <1>1, <2>1, <2>2, TablesAgree
  <2>4. QED
    BY <2>3 DEF g, h
<1>5. QED
  BY <1>3, <1>4, TotalIsPartial

\* Whole weights add up to a whole number.
LEMMA TotalIsInteger ==
  ASSUME NEW w, NEW S, IsFiniteSet(S), Weighed(w, S)
  PROVE  Total(w, S) \in Int
<1> DEFINE Good == {T \in SUBSET S : Total(w, T) \in Int}
<1>1. ASSUME NEW T \in SUBSET S, \A U \in SUBSET T : U # T => U \in Good
      PROVE  Total(w, T) \in Int
  <2>1. CASE T = {}
    BY <2>1, TotalOfNothing
  <2>2. CASE T # {}
    <3>1. Choice(T) \in T /\ IsFiniteSet(T)
      BY <2>2, Chosen, FS_Subset
    <3>2. Total(w, T \ {Choice(T)}) \in Int
      BY <1>1, <3>1
    <3>3. QED
      BY <2>2, <3>1, <3>2, TotalStep DEF Weighed
  <2>3. QED
    BY <2>1, <2>2
<1>2. \A T \in SUBSET S : (\A U \in SUBSET T : U # T => U \in Good) => T \in Good
  BY <1>1
<1>3. \A T \in SUBSET S : T \in Good
  <2> HIDE DEF Good
  <2> QED
    BY <1>2, SubsetInduction
<1>4. QED
  BY <1>3

\* The order in which the elements are taken does not matter.
LEMMA TotalWithout ==
  ASSUME NEW w, NEW S, IsFiniteSet(S), Weighed(w, S), NEW a \in S
  PROVE  Total(w, S) = w[a] + Total(w, S \ {a})
<1> DEFINE Good == {T \in SUBSET S : \A x \in T : Total(w, T) = w[x] + Total(w, T \ {x})}
<1>1. ASSUME NEW T \in SUBSET S, \A U \in SUBSET T : U # T => U \in Good, NEW x \in T
      PROVE  Total(w, T) = w[x] + Total(w, T \ {x})
  <2> DEFINE c == Choice(T)
  <2>1. c \in T /\ Total(w, T) = w[c] + Total(w, T \ {c})
    BY Chosen, TotalStep, FS_Subset
  <2>2. CASE x = c
    BY <2>1, <2>2
  <2>3. CASE x # c
    <3>1. Total(w, T \ {c}) = w[x] + Total(w, (T \ {c}) \ {x})
      BY <1>1, <2>1, <2>3
    <3>2. Total(w, T \ {x}) = w[c] + Total(w, (T \ {x}) \ {c})
      BY <1>1, <2>1, <2>3
    <3>3. (T \ {c}) \ {x} = (T \ {x}) \ {c}
      OBVIOUS
    <3>4. Total(w, (T \ {x}) \ {c}) \in Int
      <4> DEFINE U == (T \ {x}) \ {c}
      <4>1. IsFiniteSet(U) /\ Weighed(w, U)
        BY FS_Subset DEF Weighed
      <4> HIDE DEF U
      <4>2. Total(w, U) \in Int
        BY <4>1, TotalIsInteger
      <4>3. QED
        BY <4>2 DEF U
    <3>5. w[x] \in Int /\ w[c] \in Int
      BY <2>1 DEF Weighed
    <3> DEFINE R == Total(w, (T \ {x}) \ {c})
    <3>6. Total(w, T) = w[c] + (w[x] + R) /\ Total(w, T \ {x}) = w[c] + R
      BY <2>1, <3>1, <3>2, <3>3
    <3>7. R \in Int
      BY <3>4
    <3> HIDE DEF R, c
    <3>8. QED
      BY <3>5, <3>6, <3>7
  <2>4. QED
    BY <2>2, <2>3
<1>2. \A T \in SUBSET S : (\A U \in SUBSET T : U # T => U \in Good) => T \in Good
  BY <1>1
<1>3. \A T \in SUBSET S : T \in Good
  <2> HIDE DEF Good
  <2> QED
    BY <1>2, SubsetInduction
<1>4. QED
  BY <1>3

\* A new element adds its weight.
THEOREM TotalWith ==
  ASSUME NEW w, NEW S, IsFiniteSet(S), NEW a, a \notin S,
         Weighed(w, S \union {a})
  PROVE  Total(w, S \union {a}) = Total(w, S) + w[a]
<1> DEFINE A == S \union {a}
<1>1. IsFiniteSet(A) /\ a \in A /\ A \ {a} = S
  BY FS_AddElement
<1>2. Total(w, A) = w[a] + Total(w, A \ {a})
  <2>1. Weighed(w, A)
    OBVIOUS
  <2> HIDE DEF A
  <2> QED
    BY <1>1, <2>1, TotalWithout
<1>3. Total(w, A \ {a}) \in Int /\ w[a] \in Int
  <2>1. Weighed(w, S) /\ w[a] \in Int
    BY DEF Weighed
  <2>2. QED
    BY <1>1, <2>1, TotalIsInteger
<1>4. Total(w, A) = Total(w, A \ {a}) + w[a]
  <2> HIDE DEF A
  <2> QED
    BY <1>2, <1>3
<1>5. QED
  BY <1>1, <1>4

\* A set and the rest of it add up to the whole.
THEOREM TotalOfParts ==
  ASSUME NEW w, NEW S, IsFiniteSet(S), Weighed(w, S), NEW P \in SUBSET S
  PROVE  Total(w, P) + Total(w, S \ P) = Total(w, S)
<1> DEFINE Good == {T \in SUBSET P : Total(w, T) + Total(w, S \ P) = Total(w, T \union (S \ P))}
<1>1. ASSUME NEW T \in SUBSET P, \A U \in SUBSET T : U # T => U \in Good
      PROVE  Total(w, T) + Total(w, S \ P) = Total(w, T \union (S \ P))
  <2> DEFINE R == S \ P
  <2>0. /\ IsFiniteSet(T) /\ IsFiniteSet(R) /\ IsFiniteSet(T \union R)
        /\ Weighed(w, T) /\ Weighed(w, R) /\ Weighed(w, T \union R)
    BY FS_Subset DEF Weighed
  <2>1. CASE T = {}
    BY <2>0, <2>1, TotalOfNothing, TotalIsInteger
  <2>2. CASE T # {}
    <3> DEFINE c == Choice(T)
               U == T \ {c}
    <3>1. c \in T /\ U # T /\ (T \union R) \ {c} = U \union R
      BY <2>2, Chosen
    <3>2. Total(w, U) + Total(w, R) = Total(w, U \union R)
      BY <1>1, <3>1
    <3>3. Total(w, T) = w[c] + Total(w, U)
      BY <2>0, <3>1, TotalWithout
    <3>4. Total(w, T \union R) = w[c] + Total(w, U \union R)
      <4>1. c \in T \union R
        BY <3>1
      <4>2. Total(w, T \union R) = w[c] + Total(w, (T \union R) \ {c})
        <5> HIDE DEF c, R
        <5> QED
          BY <2>0, <4>1, TotalWithout
      <4>3. QED
        BY <3>1, <4>2
    <3>5. w[c] \in Int /\ Total(w, U) \in Int /\ Total(w, R) \in Int
      <4>1. IsFiniteSet(U) /\ Weighed(w, U) /\ w[c] \in Int
        BY <2>0, <3>1, FS_Subset DEF Weighed
      <4> HIDE DEF U, R
      <4>2. QED
        BY <2>0, <4>1, TotalIsInteger
    <3>6. QED
      BY <3>2, <3>3, <3>4, <3>5
  <2>3. QED
    BY <2>1, <2>2
<1>2. \A T \in SUBSET P : (\A U \in SUBSET T : U # T => U \in Good) => T \in Good
  BY <1>1
<1>3. \A T \in SUBSET P : T \in Good
  <2>1. IsFiniteSet(P)
    BY FS_Subset
  <2> HIDE DEF Good
  <2> QED
    BY <1>2, <2>1, SubsetInduction
<1>4. P \union (S \ P) = S
  OBVIOUS
<1>5. QED
  BY <1>3, <1>4
=============================================================================
