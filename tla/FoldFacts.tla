------------------------------ MODULE FoldFacts ------------------------------
(***************************************************************************)
(* What a fold computes: MapThenFoldSet, from which sums and folds over     *)
(* sequences are made, satisfies the equation it is defined by, for every   *)
(* finite set. The prover cannot put an operator into a theorem, so Op and  *)
(* Pick are constants of this module, and each fold has an instance of it.  *)
(***************************************************************************)
EXTENDS Integers, FiniteSets, FiniteSetTheorems, WellFoundedInduction, TLAPS

CONSTANTS Op(_, _, _, _), Pick(_)

(* The function that MapThenFoldSet chooses, and what it makes of T.         *)
IsIter(h, T, g, base, p, q) ==
  h = [s \in SUBSET T |-> IF s = {} THEN base
                          ELSE Op(g[Pick(s)], h[s \ {Pick(s)}], p, q)]

Fold(T, g, base, p, q) == (CHOOSE h : IsIter(h, T, g, base, p, q))[T]

Picks(S) == \A T \in SUBSET S : T # {} => Pick(T) \in T

-----------------------------------------------------------------------------
(* Least elements *)

(* A nonempty set of naturals has a least element: a loop that looks for the *)
(* first index with some property finds one if there is one.                *)
LEMMA NatLeast ==
  ASSUME NEW T \in SUBSET Nat, T # {}
  PROVE  \E x \in T : \A y \in T : x <= y
PROOF
  <1> DEFINE R == {ss \in Nat \X Nat : ss[1] < ss[2]}
  <1>1. IsWellFoundedOn(R, Nat)
    BY NatLessThanWellFounded DEF OpToRel
  <1> HIDE DEF R
  <1>2. PICK x \in T : \A y \in T : ~(<<y, x>> \in R)
    BY <1>1, WFMin
  <1>3. ASSUME NEW y \in T PROVE x <= y
    <2>1. x \in Nat /\ y \in Nat /\ <<y, x>> \notin R
      BY <1>2
    <2>2. ~(y < x)
      BY <2>1 DEF R
    <2> QED BY <2>1, <2>2
  <1> QED BY <1>3

(* A set of finite sets, if it is not empty, has one of the smallest.        *)
LEMMA SmallestSet ==
  ASSUME NEW S, IsFiniteSet(S), NEW B \in SUBSET SUBSET S, B # {}
  PROVE  \E T \in B : \A U \in SUBSET T : U # T => U \notin B
PROOF
  <1> DEFINE sizes == {Cardinality(T) : T \in B}
  <1>1. \A T \in SUBSET S : IsFiniteSet(T) /\ Cardinality(T) \in Nat
    BY FS_Subset, FS_CardinalityType
  <1>2. sizes \in SUBSET Nat /\ sizes # {}
    BY <1>1
  <1> HIDE DEF sizes
  <1>3. PICK n \in sizes : \A m \in sizes : n <= m
    BY <1>2, NatLeast
  <1>4. PICK T \in B : n = Cardinality(T)
    BY <1>3 DEF sizes
  <1>5. ASSUME NEW U \in SUBSET T, U # T, U \in B PROVE FALSE
    <2>1. IsFiniteSet(T) /\ Cardinality(T) \in Nat
      BY <1>1
    <2>2. Cardinality(U) < Cardinality(T)
      <3>1. /\ Cardinality(U) <= Cardinality(T)
            /\ Cardinality(T) = Cardinality(U) => T = U
        BY <1>5, <2>1, FS_Subset
      <3>2. Cardinality(U) \in Nat
        BY <1>1, <1>5
      <3> QED BY <1>5, <2>1, <3>1, <3>2
    <2>3. Cardinality(U) \in sizes /\ Cardinality(U) \in Nat
      BY <1>1, <1>5 DEF sizes
    <2> QED BY <1>3, <1>4, <2>1, <2>2, <2>3
  <1> QED BY <1>5

(* Induction over a finite set: what holds of a set because it holds of the  *)
(* smaller ones holds of all.                                                *)
LEMMA SetInduction ==
  ASSUME NEW S, IsFiniteSet(S), NEW G,
         \A T \in SUBSET S : (\A U \in SUBSET T : U # T => U \in G) => T \in G
  PROVE  S \in G
PROOF
  <1> DEFINE B == {T \in SUBSET S : T \notin G}
  <1> SUFFICES ASSUME B # {} PROVE FALSE
    OBVIOUS
  <1>1. B \in SUBSET SUBSET S
    OBVIOUS
  <1> HIDE DEF B
  <1>2. PICK T \in B : \A U \in SUBSET T : U # T => U \notin B
    BY <1>1, SmallestSet
  <1>3. \A U \in SUBSET T : U # T => U \in G
    BY <1>2 DEF B
  <1> QED BY <1>2, <1>3 DEF B

-----------------------------------------------------------------------------
(* The fold *)

(* Two such functions agree wherever both are defined.                       *)
LEMMA Unique ==
  ASSUME NEW S, IsFiniteSet(S), Picks(S), NEW g, NEW base, NEW p, NEW q,
         NEW T \in SUBSET S, NEW U \in SUBSET S,
         NEW h, IsIter(h, T, g, base, p, q), NEW k, IsIter(k, U, g, base, p, q),
         NEW R \in SUBSET (T \cap U)
  PROVE  h[R] = k[R]
PROOF
  <1> DEFINE B == {s \in SUBSET (T \cap U) : h[s] # k[s]}
  <1> SUFFICES ASSUME B # {} PROVE FALSE
    OBVIOUS
  <1>1. B \in SUBSET SUBSET S
    OBVIOUS
  <1> HIDE DEF B
  <1>2. PICK s \in B : \A t \in SUBSET s : t # s => t \notin B
    BY <1>1, SmallestSet
  <1>3. s \in SUBSET T /\ s \in SUBSET U /\ s \in SUBSET S /\ h[s] # k[s]
    BY <1>2 DEF B
  <1>4. /\ h[s] = IF s = {} THEN base ELSE Op(g[Pick(s)], h[s \ {Pick(s)}], p, q)
        /\ k[s] = IF s = {} THEN base ELSE Op(g[Pick(s)], k[s \ {Pick(s)}], p, q)
    BY <1>3 DEF IsIter
  <1>5. CASE s = {}
    BY <1>3, <1>4, <1>5
  <1>6. CASE s # {}
    <2>1. Pick(s) \in s
      BY <1>3, <1>6 DEF Picks
    <2>2. s \ {Pick(s)} \in SUBSET s /\ s \ {Pick(s)} # s
      BY <2>1
    <2>3. h[s \ {Pick(s)}] = k[s \ {Pick(s)}]
      BY <1>2, <1>3, <2>2 DEF B
    <2> QED BY <1>3, <1>4, <1>6, <2>3
  <1> QED BY <1>5, <1>6

(* There is such a function for every subset.                                *)
LEMMA Exists ==
  ASSUME NEW S, IsFiniteSet(S), Picks(S), NEW g, NEW base, NEW p, NEW q
  PROVE  \A T \in SUBSET S : \E h : IsIter(h, T, g, base, p, q)
PROOF
  <1> DEFINE B == {T \in SUBSET S : ~\E h : IsIter(h, T, g, base, p, q)}
  <1> SUFFICES ASSUME B # {} PROVE FALSE
    OBVIOUS
  <1>1. B \in SUBSET SUBSET S
    OBVIOUS
  <1> HIDE DEF B
  <1>2. PICK T \in B : \A U \in SUBSET T : U # T => U \notin B
    BY <1>1, SmallestSet
  <1>3. T \in SUBSET S /\ ~\E h : IsIter(h, T, g, base, p, q)
    BY <1>2 DEF B
  <1> DEFINE V(s) == Fold(s, g, base, p, q)
             h == [s \in SUBSET T |-> IF s = {} THEN base
                                      ELSE Op(g[Pick(s)], V(s \ {Pick(s)}), p, q)]
  <1>4. \A U \in SUBSET T : U # T => \E k : IsIter(k, U, g, base, p, q)
    BY <1>2, <1>3 DEF B
  <1>5. ASSUME NEW t \in SUBSET T, t # T PROVE h[t] = V(t)
    <2>1. PICK k : k = CHOOSE j : IsIter(j, t, g, base, p, q)
      OBVIOUS
    <2>2. IsIter(k, t, g, base, p, q) /\ V(t) = k[t]
      BY <1>4, <1>5, <2>1 DEF Fold
    <2>3. k[t] = IF t = {} THEN base ELSE Op(g[Pick(t)], k[t \ {Pick(t)}], p, q)
      BY <2>2 DEF IsIter
    <2>4. CASE t = {}
      BY <2>2, <2>3, <2>4
    <2>5. CASE t # {}
      <3> DEFINE u == t \ {Pick(t)}
      <3>1. Pick(t) \in t
        BY <1>3, <2>5 DEF Picks
      <3>2. u \in SUBSET T /\ u # T /\ u \in SUBSET t /\ u \in SUBSET S /\ t \in SUBSET S
        BY <1>3, <3>1
      <3> HIDE DEF u
      <3>3. PICK j : j = CHOOSE i : IsIter(i, u, g, base, p, q)
        OBVIOUS
      <3>4. IsIter(j, u, g, base, p, q) /\ V(u) = j[u]
        BY <1>4, <3>2, <3>3 DEF Fold
      <3>5. k[u] = j[u]
        <4>1. u \in SUBSET (t \cap u)
          BY <3>2
        <4> QED BY <2>2, <3>2, <3>4, <4>1, Unique
      <3>6. h[t] = Op(g[Pick(t)], V(u), p, q)
        BY <2>5 DEF u
      <3> QED BY <2>2, <2>3, <2>5, <3>4, <3>5, <3>6 DEF u
    <2> QED BY <2>4, <2>5
  <1>6. IsIter(h, T, g, base, p, q)
    <2>1. ASSUME NEW s \in SUBSET T
          PROVE  h[s] = IF s = {} THEN base ELSE Op(g[Pick(s)], h[s \ {Pick(s)}], p, q)
      <3>1. CASE s = {}
        BY <3>1
      <3>2. CASE s # {}
        <4>1. Pick(s) \in s
          BY <1>3, <3>2 DEF Picks
        <4>2. s \ {Pick(s)} \in SUBSET T /\ s \ {Pick(s)} # T
          BY <4>1
        <4>3. h[s \ {Pick(s)}] = V(s \ {Pick(s)})
          BY <1>5, <4>2
        <4>4. h[s] = Op(g[Pick(s)], V(s \ {Pick(s)}), p, q)
          BY <3>2
        <4> HIDE DEF h, V
        <4> QED BY <3>2, <4>3, <4>4
      <3> QED BY <3>1, <3>2
    <2>2. h = [s \in SUBSET T |-> h[s]]
      OBVIOUS
    <2> HIDE DEF h
    <2> QED BY <2>1, <2>2 DEF IsIter
  <1> HIDE DEF h
  <1> QED BY <1>3, <1>6

(* The equation.                                                             *)
LEMMA FoldOne ==
  ASSUME NEW S, IsFiniteSet(S), Picks(S), NEW g, NEW base, NEW p, NEW q
  PROVE  /\ S = {} => Fold(S, g, base, p, q) = base
         /\ S # {} => Fold(S, g, base, p, q)
                        = Op(g[Pick(S)], Fold(S \ {Pick(S)}, g, base, p, q), p, q)
PROOF
  <1>1. PICK h : h = CHOOSE j : IsIter(j, S, g, base, p, q)
    OBVIOUS
  <1>2. IsIter(h, S, g, base, p, q) /\ Fold(S, g, base, p, q) = h[S]
    BY <1>1, Exists DEF Fold
  <1>3. h[S] = IF S = {} THEN base ELSE Op(g[Pick(S)], h[S \ {Pick(S)}], p, q)
    BY <1>2 DEF IsIter
  <1>4. ASSUME S # {} PROVE h[S \ {Pick(S)}] = Fold(S \ {Pick(S)}, g, base, p, q)
    <2> DEFINE u == S \ {Pick(S)}
    <2>1. u \in SUBSET S /\ u \in SUBSET (S \cap u)
      OBVIOUS
    <2> HIDE DEF u
    <2>2. PICK j : j = CHOOSE i : IsIter(i, u, g, base, p, q)
      OBVIOUS
    <2>3. IsIter(j, u, g, base, p, q) /\ Fold(u, g, base, p, q) = j[u]
      BY <2>1, <2>2, Exists DEF Fold
    <2>4. h[u] = j[u]
      BY <1>2, <2>1, <2>3, Unique
    <2> QED BY <2>3, <2>4 DEF u
  <1> QED BY <1>2, <1>3, <1>4
-----------------------------------------------------------------------------
(* Loops: the fold over a sequence takes its elements one after the other.   *)

(* What holds at 0 and goes from k - 1 to k holds up to n.                   *)
LEMMA UpTo ==
  ASSUME NEW n \in Nat, NEW G, 0 \in G, \A k \in 1 .. n : k - 1 \in G => k \in G
  PROVE  \A k \in 0 .. n : k \in G
PROOF
  <1> DEFINE B == {k \in 0 .. n : k \notin G}
  <1> SUFFICES ASSUME B # {} PROVE FALSE
    OBVIOUS
  <1>1. B \in SUBSET Nat
    OBVIOUS
  <1> HIDE DEF B
  <1>2. PICK k \in B : \A y \in B : k <= y
    BY <1>1, NatLeast
  <1>3. k \in 0 .. n /\ k \notin G
    BY <1>2 DEF B
  <1>4. k \in 1 .. n /\ k - 1 \notin B
    BY <1>2, <1>3
  <1> QED BY <1>3, <1>4 DEF B

PicksLast(n) == \A T \in SUBSET (1 .. n) : T # {} => Pick(T) \in T /\ \A y \in T : Pick(T) >= y

(* There is a last index to take.                                            *)
LEMMA Greatest ==
  ASSUME NEW n \in Nat, NEW T \in SUBSET (1 .. n), T # {}
  PROVE  \E x \in T : \A y \in T : x >= y
PROOF
  <1> DEFINE left == {n - x : x \in T}
  <1>1. \A x \in T : n - x \in Nat
    OBVIOUS
  <1>2. left \in SUBSET Nat /\ left # {}
    BY <1>1, Zenon
  <1> HIDE DEF left
  <1>3. PICK m \in left : \A k \in left : m <= k
    BY <1>2, NatLeast
  <1>4. PICK x \in T : m = n - x
    BY <1>3 DEF left
  <1>5. ASSUME NEW y \in T PROVE x >= y
    <2>1. n - y \in left
      BY DEF left
    <2> QED BY <1>3, <1>4, <2>1
  <1> QED BY <1>5

(* The values the accumulator of the loop takes.                             *)
Loops(n, g, base, p, q) ==
  \E r : /\ r[0] = base
         /\ \A k \in 1 .. n : r[k] = Op(g[k], r[k - 1], p, q)
         /\ Fold(1 .. n, g, base, p, q) = r[n]

(* A fold over the indexes, last first, is such a loop.                      *)
LEMMA LoopRun ==
  ASSUME NEW n \in Nat, PicksLast(n), NEW g, NEW base, NEW p, NEW q
  PROVE  Loops(n, g, base, p, q)
PROOF
  <1> DEFINE r == [k \in 0 .. n |-> Fold(1 .. k, g, base, p, q)]
  <1>1. \A k \in 0 .. n : IsFiniteSet(1 .. k) /\ Picks(1 .. k)
    BY FS_Interval DEF PicksLast, Picks
  <1>2. Fold(1 .. 0, g, base, p, q) = base
    BY <1>1, FoldOne
  <1>3. ASSUME NEW k \in 1 .. n
        PROVE  Fold(1 .. k, g, base, p, q) = Op(g[k], Fold(1 .. k - 1, g, base, p, q), p, q)
    <2>1. 1 .. k \in SUBSET (1 .. n) /\ 1 .. k # {}
      OBVIOUS
    <2>2. Pick(1 .. k) \in 1 .. k /\ \A y \in 1 .. k : Pick(1 .. k) >= y
      BY <2>1 DEF PicksLast
    <2>3. Pick(1 .. k) = k
      BY <2>2
    <2>4. (1 .. k) \ {k} = 1 .. k - 1
      OBVIOUS
    <2>5. PICK S : S = 1 .. k
      OBVIOUS
    <2>6. IsFiniteSet(S) /\ Picks(S) /\ S # {}
      BY <1>1, <2>1, <2>5
    <2>7. Fold(S, g, base, p, q) = Op(g[Pick(S)], Fold(S \ {Pick(S)}, g, base, p, q), p, q)
      BY <2>6, FoldOne
    <2> QED BY <2>3, <2>4, <2>5, <2>7
  <1>4. /\ r[0] = base
        /\ \A k \in 1 .. n : r[k] = Op(g[k], r[k - 1], p, q)
        /\ Fold(1 .. n, g, base, p, q) = r[n]
    <2>1. \A k \in 0 .. n : r[k] = Fold(1 .. k, g, base, p, q)
      OBVIOUS
    <2> HIDE DEF r
    <2> QED BY <1>2, <1>3, <2>1
  <1> QED BY <1>4 DEF Loops
=============================================================================
