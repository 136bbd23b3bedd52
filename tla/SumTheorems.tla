----------------------------- MODULE SumTheorems -----------------------------
(***************************************************************************)
(* What SumFunctionOnSet computes: its value over a set with one element   *)
(* more, less or changed.  Sets are finite; the induction is by a smallest *)
(* counterexample among the subsets.                                       *)
(***************************************************************************)
EXTENDS Integers, Functions, FiniteSets, FiniteSetTheorems, TLAPS

Pick(s) == CHOOSE x \in s : TRUE

(* g is the fold's table of partial sums over the subsets of S. *)
Sums(f, S, g) ==
    g = [s \in SUBSET S |-> IF s = {} THEN 0 ELSE f[Pick(s)] + g[s \ {Pick(s)}]]

LEMMA Unfold ==
    ASSUME NEW f, NEW S
    PROVE  SumFunctionOnSet(f, S) = (CHOOSE g : Sums(f, S, g))[S]
  BY DEF SumFunctionOnSet, FoldFunctionOnSet, MapThenFoldSet, Sums, Pick

LEMMA Smallest ==
    ASSUME NEW S, IsFiniteSet(S), NEW T \in SUBSET SUBSET S, T # {}
    PROVE  \E s \in T : \A x \in s : s \ {x} \notin T
  <1>1. FiniteSubsetsOf(S) = SUBSET S
    BY FS_FiniteSubsetsOfFinite
  <1>2. IsWellFoundedOn(StrictSubsetOrdering(S), SUBSET S)
    BY <1>1, FS_StrictSubsetOrderingWellFounded
  <1>3. PICK s \in T : \A r \in T : <<r, s>> \notin StrictSubsetOrdering(S)
    BY <1>2, WFMin
  <1>4. ASSUME NEW x \in s, s \ {x} \in T PROVE FALSE
    BY <1>3, <1>4 DEF StrictSubsetOrdering
  <1> QED BY <1>4

LEMMA Picked == \A s : s # {} => Pick(s) \in s
  BY DEF Pick

(* Two tables agree where both are defined. *)
LEMMA TablesAgree ==
    ASSUME NEW f, NEW A, NEW B, NEW g, NEW h, Sums(f, A, g), Sums(f, B, h), IsFiniteSet(A)
    PROVE  \A s \in SUBSET (A \cap B) : g[s] = h[s]
  <1> DEFINE T == {s \in SUBSET (A \cap B) : g[s] # h[s]}
  <1> SUFFICES ASSUME T # {} PROVE FALSE
    OBVIOUS
  <1>1. PICK s \in T : \A x \in s : s \ {x} \notin T
    <2>1. T \in SUBSET SUBSET A
      OBVIOUS
    <2> HIDE DEF T
    <2> QED BY <2>1, Smallest
  <1>2. s \in SUBSET A /\ s \in SUBSET B /\ g[s] # h[s]
    BY <1>1
  <1>3. CASE s = {}
    BY <1>2, <1>3 DEF Sums
  <1>4. CASE s # {}
    <2>1. Pick(s) \in s
      BY <1>4, Picked
    <2>2. g[s \ {Pick(s)}] = h[s \ {Pick(s)}]
      BY <1>1, <1>2, <2>1
    <2>3. g[s] = f[Pick(s)] + g[s \ {Pick(s)}]
      BY <1>2, <1>4 DEF Sums
    <2>4. h[s] = f[Pick(s)] + h[s \ {Pick(s)}]
      BY <1>2, <1>4 DEF Sums
    <2> QED BY <1>2, <2>2, <2>3, <2>4
  <1> QED BY <1>3, <1>4

LEMMA TableExists ==
    ASSUME NEW f, NEW S, IsFiniteSet(S)
    PROVE  \E g : Sums(f, S, g)
  <1> DEFINE T == {A \in SUBSET S : ~ \E g : Sums(f, A, g)}
  <1> SUFFICES ASSUME T # {} PROVE FALSE
    OBVIOUS
  <1>1. PICK A \in T : \A x \in A : A \ {x} \notin T
    <2>1. T \in SUBSET SUBSET S
      OBVIOUS
    <2> HIDE DEF T
    <2> QED BY <2>1, Smallest
  <1>2. A \in SUBSET S /\ ~ \E g : Sums(f, A, g)
    BY <1>1
  <1> DEFINE G(x) == CHOOSE g : Sums(f, A \ {x}, g)
             V(r) == G(Pick(A \ r))[r]
             h == [s \in SUBSET A |-> IF s = {} THEN 0 ELSE f[Pick(s)] + V(s \ {Pick(s)})]
  <1>3. ASSUME NEW x \in A PROVE Sums(f, A \ {x}, G(x)) /\ IsFiniteSet(A \ {x})
    <2>1. \E g : Sums(f, A \ {x}, g)
      BY <1>1, <1>2, <1>3
    <2> QED BY <1>2, <2>1, FS_Subset
  <1>4. ASSUME NEW r \in SUBSET A, r # A PROVE V(r) = h[r]
    <2> DEFINE x == Pick(A \ r)
    <2>1. x \in A /\ x \notin r
      BY <1>4, Picked
    <2>2. Sums(f, A \ {x}, G(x)) /\ r \in SUBSET (A \ {x})
      BY <1>3, <1>4, <2>1
    <2>3. V(r) = G(x)[r]
      OBVIOUS
    <2>4. CASE r = {}
      <3>1. G(x)[r] = 0
        BY <2>2, <2>4 DEF Sums
      <3> QED BY <2>3, <2>4, <3>1
    <2>5. CASE r # {}
      <3> DEFINE q == r \ {Pick(r)}
                 y == Pick(A \ q)
      <3>1. Pick(r) \in r /\ q # A /\ q \in SUBSET A
        BY <1>4, <2>5, Picked
      <3>2. y \in A /\ y \notin q
        BY <3>1, Picked
      <3>3. Sums(f, A \ {y}, G(y)) /\ IsFiniteSet(A \ {y})
        BY <1>3, <3>2
      <3>4. q \in SUBSET ((A \ {y}) \cap (A \ {x}))
        BY <2>2, <3>1, <3>2
      <3>5. G(y)[q] = G(x)[q]
        <4> HIDE DEF G, q, y, x
        <4> QED BY <2>2, <3>3, <3>4, TablesAgree
      <3>6. G(x)[r] = f[Pick(r)] + G(x)[q]
        BY <2>2, <2>5 DEF Sums
      <3>7. h[r] = f[Pick(r)] + G(y)[q]
        BY <2>5
      <3> QED BY <2>3, <3>5, <3>6, <3>7
    <2> QED BY <2>4, <2>5
  <1>5. Sums(f, A, h)
    <2>1. ASSUME NEW s \in SUBSET A, s # {}
          PROVE  V(s \ {Pick(s)}) = h[s \ {Pick(s)}]
      <3>1. Pick(s) \in s
        BY <2>1, Picked
      <3>2. s \ {Pick(s)} \in SUBSET A /\ s \ {Pick(s)} # A
        BY <2>1, <3>1
      <3> HIDE DEF V, h
      <3> QED BY <1>4, <3>2
    <2>2. h = [s \in SUBSET A |-> IF s = {} THEN 0 ELSE f[Pick(s)] + h[s \ {Pick(s)}]]
      <3> HIDE DEF V
      <3> QED BY <2>1
    <2> QED BY <2>2 DEF Sums
  <1> QED BY <1>2, <1>5

(* The sum of nothing, and one step of the fold. *)
LEMMA SumEmpty == ASSUME NEW f PROVE SumFunctionOnSet(f, {}) = 0
  <1> DEFINE g == CHOOSE h : Sums(f, {}, h)
  <1>1. IsFiniteSet({})
    BY FS_EmptySet
  <1>2. Sums(f, {}, g)
    <2>1. \E h : Sums(f, {}, h)
      BY <1>1, TableExists
    <2> QED BY <2>1
  <1>3. g[{}] = 0
    <2> HIDE DEF g
    <2> QED BY <1>2 DEF Sums
  <1> QED BY <1>3, Unfold

LEMMA SumStep ==
    ASSUME NEW f, NEW S, IsFiniteSet(S), S # {}
    PROVE  SumFunctionOnSet(f, S) = f[Pick(S)] + SumFunctionOnSet(f, S \ {Pick(S)})
  <1> DEFINE R == S \ {Pick(S)}
             g == CHOOSE t : Sums(f, S, t)
             h == CHOOSE t : Sums(f, R, t)
  <1>1. Pick(S) \in S
    BY Picked
  <1>2. IsFiniteSet(R)
    BY FS_Subset
  <1>3. Sums(f, S, g)
    <2>1. \E t : Sums(f, S, t)
      BY TableExists
    <2> QED BY <2>1
  <1>4. Sums(f, R, h)
    <2>1. \E t : Sums(f, R, t)
      <3> HIDE DEF R
      <3> QED BY <1>2, TableExists
    <2> QED BY <2>1
  <1>5. g[R] = h[R]
    <2>1. R \in SUBSET (S \cap R)
      OBVIOUS
    <2> HIDE DEF R, g, h
    <2> QED BY <1>3, <1>4, <2>1, TablesAgree
  <1>6. g[S] = f[Pick(S)] + g[R]
    <2> HIDE DEF g
    <2> QED BY <1>3 DEF Sums
  <1>7. SumFunctionOnSet(f, S) = g[S] /\ SumFunctionOnSet(f, R) = h[R]
    <2>1. SumFunctionOnSet(f, S) = g[S]
      BY Unfold
    <2>2. SumFunctionOnSet(f, R) = h[R]
      <3> HIDE DEF R
      <3> QED BY Unfold
    <2> QED BY <2>1, <2>2
  <1> HIDE DEF g, h
  <1> QED BY <1>5, <1>6, <1>7

(* A sum of integers is an integer. *)
LEMMA SumType ==
    ASSUME NEW f, NEW S, IsFiniteSet(S), \A x \in S : f[x] \in Int
    PROVE  SumFunctionOnSet(f, S) \in Int
  <1> DEFINE T == {s \in SUBSET S : SumFunctionOnSet(f, s) \notin Int}
  <1> SUFFICES ASSUME T # {} PROVE FALSE
    OBVIOUS
  <1>1. PICK s \in T : \A x \in s : s \ {x} \notin T
    <2>1. T \in SUBSET SUBSET S
      OBVIOUS
    <2> HIDE DEF T
    <2> QED BY <2>1, Smallest
  <1>2. s \in SUBSET S /\ SumFunctionOnSet(f, s) \notin Int /\ IsFiniteSet(s)
    BY <1>1, FS_Subset
  <1>3. s # {}
    BY <1>2, SumEmpty
  <1>4. Pick(s) \in s
    BY <1>3, Picked
  <1>5. SumFunctionOnSet(f, s \ {Pick(s)}) \in Int
    BY <1>1, <1>2, <1>4
  <1>6. SumFunctionOnSet(f, s) = f[Pick(s)] + SumFunctionOnSet(f, s \ {Pick(s)})
    BY <1>2, <1>3, SumStep
  <1>7. f[Pick(s)] \in Int
    BY <1>2, <1>4
  <1> QED BY <1>2, <1>5, <1>6, <1>7

(* The sum depends on the values on the set alone. *)
LEMMA SumSame ==
    ASSUME NEW f, NEW g, NEW S, IsFiniteSet(S), \A x \in S : f[x] = g[x]
    PROVE  SumFunctionOnSet(f, S) = SumFunctionOnSet(g, S)
  <1> DEFINE T == {s \in SUBSET S : SumFunctionOnSet(f, s) # SumFunctionOnSet(g, s)}
  <1> SUFFICES ASSUME T # {} PROVE FALSE
    OBVIOUS
  <1>1. PICK s \in T : \A x \in s : s \ {x} \notin T
    <2>1. T \in SUBSET SUBSET S
      OBVIOUS
    <2> HIDE DEF T
    <2> QED BY <2>1, Smallest
  <1>2. s \in SUBSET S /\ SumFunctionOnSet(f, s) # SumFunctionOnSet(g, s) /\ IsFiniteSet(s)
    BY <1>1, FS_Subset
  <1>3. s # {}
    BY <1>2, SumEmpty
  <1>4. Pick(s) \in s
    BY <1>3, Picked
  <1>5. SumFunctionOnSet(f, s \ {Pick(s)}) = SumFunctionOnSet(g, s \ {Pick(s)})
    BY <1>1, <1>2, <1>4
  <1>6. /\ SumFunctionOnSet(f, s) = f[Pick(s)] + SumFunctionOnSet(f, s \ {Pick(s)})
        /\ SumFunctionOnSet(g, s) = g[Pick(s)] + SumFunctionOnSet(g, s \ {Pick(s)})
    BY <1>2, <1>3, SumStep
  <1> QED BY <1>2, <1>4, <1>5, <1>6

(* Any element may be taken out of the sum first. *)
LEMMA SumOne ==
    ASSUME NEW f, NEW S, IsFiniteSet(S), \A x \in S : f[x] \in Int, NEW e \in S
    PROVE  SumFunctionOnSet(f, S) = f[e] + SumFunctionOnSet(f, S \ {e})
  <1> DEFINE T == {s \in SUBSET S :
                     \E x \in s : SumFunctionOnSet(f, s) # f[x] + SumFunctionOnSet(f, s \ {x})}
  <1> SUFFICES ASSUME T # {} PROVE FALSE
    OBVIOUS
  <1>1. PICK s \in T : \A x \in s : s \ {x} \notin T
    <2>1. T \in SUBSET SUBSET S
      OBVIOUS
    <2> HIDE DEF T
    <2> QED BY <2>1, Smallest
  <1>2. s \in SUBSET S /\ IsFiniteSet(s)
    BY <1>1, FS_Subset
  <1>3. PICK x \in s : SumFunctionOnSet(f, s) # f[x] + SumFunctionOnSet(f, s \ {x})
    BY <1>1
  <1> DEFINE y == Pick(s)
             r == s \ {x, y}
  <1>4. y \in s
    BY <1>3, Picked
  <1>5. SumFunctionOnSet(f, s) = f[y] + SumFunctionOnSet(f, s \ {y})
    BY <1>2, <1>3, SumStep
  <1>6. x # y
    BY <1>3, <1>5
  <1>7. SumFunctionOnSet(f, s \ {y}) = f[x] + SumFunctionOnSet(f, r)
    <2>1. s \ {y} \notin T /\ s \ {y} \in SUBSET S /\ x \in s \ {y}
      BY <1>1, <1>2, <1>4, <1>6
    <2>2. (s \ {y}) \ {x} = r
      OBVIOUS
    <2> HIDE DEF y, r
    <2> QED BY <2>1, <2>2
  <1>8. SumFunctionOnSet(f, s \ {x}) = f[y] + SumFunctionOnSet(f, r)
    <2>1. s \ {x} \notin T /\ s \ {x} \in SUBSET S /\ y \in s \ {x}
      BY <1>1, <1>2, <1>4, <1>6
    <2>2. (s \ {x}) \ {y} = r
      OBVIOUS
    <2> HIDE DEF y, r
    <2> QED BY <2>1, <2>2
  <1>9. SumFunctionOnSet(f, r) \in Int /\ f[x] \in Int /\ f[y] \in Int
    <2>1. IsFiniteSet(r) /\ r \in SUBSET S
      BY <1>2, FS_Subset
    <2> HIDE DEF r
    <2>2. SumFunctionOnSet(f, r) \in Int
      BY <2>1, SumType
    <2> QED BY <2>2, <1>2, <1>3, <1>4
  <1> HIDE DEF y, r
  <1> QED BY <1>3, <1>5, <1>7, <1>8, <1>9

(* One value changes: the sum moves by the difference. *)
LEMMA SumChanged ==
    ASSUME NEW f, NEW g, NEW S, IsFiniteSet(S), NEW e \in S,
           \A x \in S : f[x] \in Int, g[e] \in Int,
           \A x \in S \ {e} : g[x] = f[x]
    PROVE  SumFunctionOnSet(g, S) = SumFunctionOnSet(f, S) - f[e] + g[e]
  <1> DEFINE R == S \ {e}
  <1>1. IsFiniteSet(R)
    BY FS_Subset
  <1>2. SumFunctionOnSet(f, R) = SumFunctionOnSet(g, R)
    <2> HIDE DEF R
    <2>1. \A x \in R : f[x] = g[x]
      BY DEF R
    <2> QED BY <1>1, <2>1, SumSame
  <1>3. SumFunctionOnSet(f, S) = f[e] + SumFunctionOnSet(f, R)
    BY SumOne
  <1>4. \A x \in S : g[x] \in Int
    OBVIOUS
  <1>5. SumFunctionOnSet(g, S) = g[e] + SumFunctionOnSet(g, R)
    BY <1>4, SumOne
  <1>6. SumFunctionOnSet(f, R) \in Int
    <2>1. \A x \in R : f[x] \in Int
      OBVIOUS
    <2> HIDE DEF R
    <2> QED BY <1>1, <2>1, SumType
  <1> HIDE DEF R
  <1> QED BY <1>2, <1>3, <1>5, <1>6

(* One element joins: the sum moves by its value. *)
LEMMA SumJoined ==
    ASSUME NEW f, NEW g, NEW S, IsFiniteSet(S), NEW e, e \notin S,
           \A x \in S : f[x] \in Int, g[e] \in Int,
           \A x \in S : g[x] = f[x]
    PROVE  SumFunctionOnSet(g, S \cup {e}) = SumFunctionOnSet(f, S) + g[e]
  <1> DEFINE J == S \cup {e}
  <1>1. IsFiniteSet(J) /\ e \in J /\ J \ {e} = S
    BY FS_AddElement
  <1>2. \A x \in J : g[x] \in Int
    OBVIOUS
  <1> HIDE DEF J
  <1>3. SumFunctionOnSet(g, J) = g[e] + SumFunctionOnSet(g, J \ {e})
    BY <1>1, <1>2, SumOne
  <1>4. SumFunctionOnSet(g, S) = SumFunctionOnSet(f, S)
    BY SumSame
  <1>5. SumFunctionOnSet(f, S) \in Int
    BY SumType
  <1>6. SumFunctionOnSet(g, J) = g[e] + SumFunctionOnSet(f, S)
    <2>1. SumFunctionOnSet(g, J) = g[e] + SumFunctionOnSet(g, S)
      <3>1. J \ {e} = S
        BY <1>1
      <3> QED BY <1>3, <3>1, Zenon
    <2> QED BY <1>4, <2>1
  <1>7. SumFunctionOnSet(g, J) = SumFunctionOnSet(f, S) + g[e]
    BY <1>5, <1>6
  <1> QED BY <1>7 DEF J

(* A sum of zeros. *)
LEMMA SumZero ==
    ASSUME NEW f, NEW S, IsFiniteSet(S), \A x \in S : f[x] = 0
    PROVE  SumFunctionOnSet(f, S) = 0
  <1> DEFINE T == {s \in SUBSET S : SumFunctionOnSet(f, s) # 0}
  <1> SUFFICES ASSUME T # {} PROVE FALSE
    OBVIOUS
  <1>1. PICK s \in T : \A x \in s : s \ {x} \notin T
    <2>1. T \in SUBSET SUBSET S
      OBVIOUS
    <2> HIDE DEF T
    <2> QED BY <2>1, Smallest
  <1>2. s \in SUBSET S /\ SumFunctionOnSet(f, s) # 0 /\ IsFiniteSet(s)
    BY <1>1, FS_Subset
  <1>3. s # {}
    BY <1>2, SumEmpty
  <1>4. Pick(s) \in s
    BY <1>3, Picked
  <1>5. SumFunctionOnSet(f, s \ {Pick(s)}) = 0
    BY <1>1, <1>2, <1>4
  <1>6. SumFunctionOnSet(f, s) = f[Pick(s)] + SumFunctionOnSet(f, s \ {Pick(s)})
    BY <1>2, <1>3, SumStep
  <1> QED BY <1>2, <1>4, <1>5, <1>6
==============================================================================
