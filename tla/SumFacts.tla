------------------------------ MODULE SumFacts ------------------------------
(***************************************************************************)
(* What the proofs need of the sum of a function over a finite set,         *)
(* SumFunctionOnSet of the community modules, and of remainders.            *)
(***************************************************************************)
EXTENDS Integers, FiniteSets, Functions, FiniteSetTheorems, TLAPS

Add(x, y, p, q) == x + y
SomeOf(s) == CHOOSE x \in s : TRUE

SumFold == INSTANCE FoldFacts WITH Op <- Add, Pick <- SomeOf

(* Induction over a finite set.                                              *)
LEMMA FiniteSetInduction ==
  ASSUME NEW S, IsFiniteSet(S), NEW G,
         \A T \in SUBSET S : (\A U \in SUBSET T : U # T => U \in G) => T \in G
  PROVE  S \in G
PROOF
  <1>1. SumFold!IsFiniteSet(S)
    BY DEF SumFold!IsFiniteSet, IsFiniteSet
  <1> QED BY <1>1, SumFold!SetInduction

(* The equation the sum is computed by.                                      *)
LEMMA SumEquation ==
  ASSUME NEW S, IsFiniteSet(S), NEW f
  PROVE  /\ S = {} => SumFunctionOnSet(f, S) = 0
         /\ S # {} => /\ SomeOf(S) \in S
                      /\ SumFunctionOnSet(f, S)
                           = f[SomeOf(S)] + SumFunctionOnSet(f, S \ {SomeOf(S)})
PROOF
  <1>1. SumFold!Picks(S) /\ SumFold!IsFiniteSet(S)
    BY DEF SumFold!Picks, SomeOf, SumFold!IsFiniteSet, IsFiniteSet
  <1>2. \A T : SumFunctionOnSet(f, T) = SumFold!Fold(T, f, 0, 0, 0)
    BY DEF SumFunctionOnSet, FoldFunctionOnSet, MapThenFoldSet, SumFold!Fold, SumFold!IsIter, Add, SomeOf
  <1>3. /\ S = {} => SumFold!Fold(S, f, 0, 0, 0) = 0
        /\ S # {} => SumFold!Fold(S, f, 0, 0, 0)
                       = Add(f[SomeOf(S)], SumFold!Fold(S \ {SomeOf(S)}, f, 0, 0, 0), 0, 0)
    BY <1>1, SumFold!FoldOne
  <1> QED BY <1>2, <1>3 DEF Add, SomeOf

(* A sum of integers is an integer, and one of naturals a natural number.    *)
LEMMA SumInt ==
  ASSUME NEW S, IsFiniteSet(S), NEW f, \A x \in S : f[x] \in Int
  PROVE  SumFunctionOnSet(f, S) \in Int
PROOF
  <1> DEFINE G == {T \in SUBSET S : SumFunctionOnSet(f, T) \in Int}
  <1>1. ASSUME NEW T \in SUBSET S, \A U \in SUBSET T : U # T => U \in G
        PROVE  T \in G
    <2>1. IsFiniteSet(T)
      BY FS_Subset
    <2>2. CASE T = {}
      BY <2>1, <2>2, SumEquation
    <2>3. CASE T # {}
      <3>1. SomeOf(T) \in T /\ SumFunctionOnSet(f, T) = f[SomeOf(T)] + SumFunctionOnSet(f, T \ {SomeOf(T)})
        BY <2>1, <2>3, SumEquation
      <3>2. T \ {SomeOf(T)} \in G
        BY <1>1, <3>1
      <3> QED BY <3>1, <3>2
    <2> QED BY <2>2, <2>3
  <1> HIDE DEF G
  <1>2. S \in G
    BY <1>1, FiniteSetInduction
  <1> QED BY <1>2 DEF G

LEMMA SumNat ==
  ASSUME NEW S, IsFiniteSet(S), NEW f, \A x \in S : f[x] \in Nat
  PROVE  SumFunctionOnSet(f, S) \in Nat
PROOF
  <1> DEFINE G == {T \in SUBSET S : SumFunctionOnSet(f, T) \in Nat}
  <1>1. ASSUME NEW T \in SUBSET S, \A U \in SUBSET T : U # T => U \in G
        PROVE  T \in G
    <2>1. IsFiniteSet(T)
      BY FS_Subset
    <2>2. CASE T = {}
      <3>1. SumFunctionOnSet(f, T) = 0
        BY <2>1, <2>2, SumEquation
      <3> QED BY <3>1
    <2>3. CASE T # {}
      <3>1. SomeOf(T) \in T /\ SumFunctionOnSet(f, T) = f[SomeOf(T)] + SumFunctionOnSet(f, T \ {SomeOf(T)})
        BY <2>1, <2>3, SumEquation
      <3>2. T \ {SomeOf(T)} \in G
        BY <1>1, <3>1
      <3> QED BY <3>1, <3>2
    <2> QED BY <2>2, <2>3
  <1> HIDE DEF G
  <1>2. S \in G
    BY <1>1, FiniteSetInduction
  <1> QED BY <1>2 DEF G

(* Any element may be taken out first.                                       *)
LEMMA SumRemove ==
  ASSUME NEW S, IsFiniteSet(S), NEW f, \A x \in S : f[x] \in Int, NEW y \in S
  PROVE  SumFunctionOnSet(f, S) = f[y] + SumFunctionOnSet(f, S \ {y})
PROOF
  <1> DEFINE G == {T \in SUBSET S : \A z \in T :
                     SumFunctionOnSet(f, T) = f[z] + SumFunctionOnSet(f, T \ {z})}
  <1>1. ASSUME NEW T \in SUBSET S, \A U \in SUBSET T : U # T => U \in G
        PROVE  T \in G
    <2> SUFFICES ASSUME NEW z \in T
                 PROVE  SumFunctionOnSet(f, T) = f[z] + SumFunctionOnSet(f, T \ {z})
      OBVIOUS
    <2>1. PICK x : x = SomeOf(T)
      OBVIOUS
    <2>2. x \in T /\ SumFunctionOnSet(f, T) = f[x] + SumFunctionOnSet(f, T \ {x})
      BY <2>1, FS_Subset, SumEquation
    <2>3. CASE x = z
      BY <2>2, <2>3
    <2>4. CASE x # z
      <3> DEFINE u == (T \ {x}) \ {z}
      <3>1. u = (T \ {z}) \ {x} /\ u \in SUBSET S /\ IsFiniteSet(u)
        BY FS_Subset
      <3> HIDE DEF u
      <3>2. SumFunctionOnSet(f, T \ {x}) = f[z] + SumFunctionOnSet(f, u)
        <4>1. T \ {x} \in G /\ z \in T \ {x}
          BY <1>1, <2>2, <2>4
        <4> QED BY <4>1 DEF u
      <3>3. SumFunctionOnSet(f, T \ {z}) = f[x] + SumFunctionOnSet(f, u)
        <4>1. T \ {z} \in G /\ x \in T \ {z}
          BY <1>1, <2>2, <2>4
        <4> QED BY <3>1, <4>1
      <3>4. SumFunctionOnSet(f, u) \in Int /\ f[x] \in Int /\ f[z] \in Int
        BY <2>2, <3>1, SumInt
      <3> QED BY <2>2, <3>2, <3>3, <3>4
    <2> QED BY <2>3, <2>4
  <1> HIDE DEF G
  <1>2. S \in G
    BY <1>1, FiniteSetInduction
  <1> QED BY <1>2 DEF G

(* Only the values on the set count.                                         *)
LEMMA SumSame ==
  ASSUME NEW S, IsFiniteSet(S), NEW f, NEW g, \A x \in S : f[x] = g[x]
  PROVE  SumFunctionOnSet(f, S) = SumFunctionOnSet(g, S)
PROOF
  <1> DEFINE G == {T \in SUBSET S : SumFunctionOnSet(f, T) = SumFunctionOnSet(g, T)}
  <1>1. ASSUME NEW T \in SUBSET S, \A U \in SUBSET T : U # T => U \in G
        PROVE  T \in G
    <2>1. IsFiniteSet(T)
      BY FS_Subset
    <2>2. CASE T = {}
      BY <2>1, <2>2, SumEquation
    <2>3. CASE T # {}
      <3>1. /\ SomeOf(T) \in T
            /\ SumFunctionOnSet(f, T) = f[SomeOf(T)] + SumFunctionOnSet(f, T \ {SomeOf(T)})
            /\ SumFunctionOnSet(g, T) = g[SomeOf(T)] + SumFunctionOnSet(g, T \ {SomeOf(T)})
        BY <2>1, <2>3, SumEquation
      <3>2. T \ {SomeOf(T)} \in G
        BY <1>1, <3>1
      <3> QED BY <3>1, <3>2
    <2> QED BY <2>2, <2>3
  <1> HIDE DEF G
  <1>2. S \in G
    BY <1>1, FiniteSetInduction
  <1> QED BY <1>2 DEF G

LEMMA SumZero ==
  ASSUME NEW S, IsFiniteSet(S), NEW f, \A x \in S : f[x] = 0
  PROVE  SumFunctionOnSet(f, S) = 0
PROOF
  <1> DEFINE G == {T \in SUBSET S : SumFunctionOnSet(f, T) = 0}
  <1>1. ASSUME NEW T \in SUBSET S, \A U \in SUBSET T : U # T => U \in G
        PROVE  T \in G
    <2>1. IsFiniteSet(T)
      BY FS_Subset
    <2>2. CASE T = {}
      BY <2>1, <2>2, SumEquation
    <2>3. CASE T # {}
      <3>1. SomeOf(T) \in T /\ SumFunctionOnSet(f, T) = f[SomeOf(T)] + SumFunctionOnSet(f, T \ {SomeOf(T)})
        BY <2>1, <2>3, SumEquation
      <3>2. T \ {SomeOf(T)} \in G
        BY <1>1, <3>1
      <3> QED BY <3>1, <3>2
    <2> QED BY <2>2, <2>3
  <1> HIDE DEF G
  <1>2. S \in G
    BY <1>1, FiniteSetInduction
  <1> QED BY <1>2 DEF G

-----------------------------------------------------------------------------
(* Remainders *)

(* A number is a multiple of m and a remainder.                              *)
LEMMA DivMod ==
  ASSUME NEW m \in Nat \ {0}, NEW a \in Int
  PROVE  /\ a = m * (a \div m) + (a % m)
         /\ a \div m \in Int /\ m * (a \div m) \in Int /\ a % m \in 0 .. m - 1
PROOF
  OBVIOUS

LEMMA TimesMinus ==
  ASSUME NEW m \in Int, NEW a \in Int, NEW b \in Int
  PROVE  m * (a - b) = m * a - m * b /\ m * a \in Int /\ m * b \in Int
PROOF
  OBVIOUS

LEMMA NoSmallMultiple ==
  ASSUME NEW m \in Nat \ {0}, NEW k \in Int, m * k < m, m * k > -m
  PROVE  k = 0
PROOF
  <1>1. CASE k >= 1
    <2>1. k - 1 \in Nat /\ m * (k - 1) \in Nat /\ m * (k - 1) = m * k - m
      BY <1>1
    <2> QED BY <2>1
  <1>2. CASE k <= -1
    <2>1. -k - 1 \in Nat /\ m * (-k - 1) \in Nat /\ m * (-k - 1) = -(m * k) - m
      BY <1>2
    <2>2. m * k \in Int
      OBVIOUS
    <2> QED BY <2>1, <2>2
  <1> QED BY <1>1, <1>2

(* A multiple of m does not count in the remainder.                          *)
LEMMA ModMultiple ==
  ASSUME NEW m \in Nat \ {0}, NEW a \in Int, NEW q \in Int
  PROVE  (a - m * q) % m = a % m
PROOF
  <1> DEFINE b == a - m * q
             x == a \div m
             y == b \div m
             k == (x - y) - q
  <1>0. b \in Int /\ b = a - m * q
    OBVIOUS
  <1> HIDE DEF b
  <1>1. /\ a = m * x + (a % m) /\ b = m * y + (b % m) /\ x \in Int /\ y \in Int
        /\ a % m \in 0 .. m - 1 /\ b % m \in 0 .. m - 1
    BY <1>0, DivMod
  <1> HIDE DEF x, y
  <1>2. PICK mx \in Int, my \in Int, mq \in Int :
           mx = m * x /\ my = m * y /\ mq = m * q /\ m * k = (mx - my) - mq
    <2>1. m * k = m * (x - y) - m * q /\ m * (x - y) = m * x - m * y
      BY <1>1, TimesMinus
    <2>2. m * x \in Int /\ m * y \in Int /\ m * q \in Int
      BY <1>1
    <2> HIDE DEF k
    <2> QED BY <2>1, <2>2
  <1>3. k \in Int
    BY <1>1
  <1> HIDE DEF k
  <1>4. PICK ra \in Int, rb \in Int : ra = a % m /\ rb = b % m
    BY <1>1
  <1>5. a = mx + ra /\ b = my + rb /\ b = a - mq /\ ra \in 0 .. m - 1 /\ rb \in 0 .. m - 1
    BY <1>0, <1>1, <1>2, <1>4
  <1>6. k = 0
    BY <1>2, <1>3, <1>5, NoSmallMultiple
  <1>7. (mx - my) - mq = 0
    BY <1>2, <1>6
  <1>8. ra = rb
    BY <1>5, <1>7
  <1> QED BY <1>4, <1>8 DEF b

(* Congruent numbers stay congruent.                                         *)
LEMMA ModPlus ==
  ASSUME NEW m \in Nat \ {0}, NEW a \in Int, NEW b \in Int, NEW c \in Int, a % m = b % m
  PROVE  (a + c) % m = (b + c) % m
PROOF
  <1> DEFINE x == a \div m
             y == b \div m
  <1>1. /\ a = m * x + (a % m) /\ b = m * y + (b % m) /\ x \in Int /\ y \in Int
        /\ a % m \in 0 .. m - 1
    BY DivMod
  <1> HIDE DEF x, y
  <1>2. PICK mx \in Int, my \in Int : mx = m * x /\ my = m * y /\ m * (x - y) = mx - my
    BY <1>1, TimesMinus
  <1>3. PICK r \in Int : r = a % m
    BY <1>1
  <1>4. a = mx + r /\ b = my + r
    BY <1>1, <1>2, <1>3
  <1>5. b + c = (a + c) - m * (x - y)
    <2>1. b + c = (a + c) - (mx - my)
      BY <1>4
    <2> QED BY <1>2, <2>1
  <1>6. PICK k \in Int, d \in Int : k = x - y /\ d = a + c
    BY <1>1
  <1>7. (d - m * k) % m = d % m
    BY ModMultiple
  <1> QED BY <1>5, <1>6, <1>7
=============================================================================
