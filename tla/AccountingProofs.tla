-------------------------- MODULE AccountingProofs --------------------------
(***************************************************************************)
(* Proofs about Ledger and Accounting, for any users, packages, configs    *)
(* and state files a start may find, however syncs, edits of the balances, *)
(* config changes, failures and crashes come one after the other.          *)
(***************************************************************************)
EXTENDS Accounting, TLAPS, FiniteSetTheorems, WellFoundedInduction

-----------------------------------------------------------------------------
(***************************************************************************)
(* Induction, over a set of numbers and over a set of subsets.             *)
(***************************************************************************)
LEMMA NumberInduction ==
    ASSUME NEW P, \A k \in Nat : (\A j \in Nat : j < k => j \in P) => k \in P
    PROVE  Nat \subseteq P
  <1>1. SUFFICES ASSUME NEW n \in Nat, n \notin P PROVE FALSE OBVIOUS
  <1>2. Nat \ P # {} BY <1>1
  <1>3. PICK k \in Nat \ P : \A j \in Nat \ P : <<j, k>> \notin OpToRel(<, Nat)
    BY <1>2, NatLessThanWellFounded, WFMin
  <1>4. \A j \in Nat : j < k => j \in P BY <1>3 DEF OpToRel
  <1> QED BY <1>3, <1>4

LEMMA SetInduction ==
    ASSUME NEW S, IsFiniteSet(S), NEW P, {} \in P,
           \A T \in SUBSET S : \A x \in S \ T : T \in P => T \cup {x} \in P
    PROVE  S \in P
  <1> DEFINE Q == {k \in Nat : \A T \in SUBSET S : T \in P /\ Cardinality(S \ T) = k => S \in P}
  <1>1. ASSUME NEW k \in Nat, \A j \in Nat : j < k => j \in Q PROVE k \in Q
    <2>1. SUFFICES ASSUME NEW T \in SUBSET S, T \in P, Cardinality(S \ T) = k PROVE S \in P
      OBVIOUS
    <2>2. CASE S \ T = {}
      <3>1. T = S BY <2>2
      <3> QED BY <2>1, <3>1
    <2>3. CASE S \ T # {}
      <3>1. PICK x \in S \ T : TRUE BY <2>3
      <3>2. T \cup {x} \in P /\ T \cup {x} \in SUBSET S BY <2>1, <3>1
      <3>3. IsFiniteSet(S \ T) BY FS_Difference
      <3>4. PICK R : R = S \ T OBVIOUS
      <3>5. Cardinality(R \ {x}) = Cardinality(R) - 1 /\ Cardinality(R) \in Nat /\ Cardinality(R \ {x}) \in Nat
        BY <3>1, <3>3, <3>4, FS_RemoveElement, FS_CardinalityType
      <3>6. S \ (T \cup {x}) = R \ {x} BY <3>4
      <3>7. PICK j \in Nat : j = Cardinality(S \ (T \cup {x})) BY <3>5, <3>6
      <3> HIDE DEF Q
      <3>8. j < k
        <4>1. k = Cardinality(R) BY <2>1, <3>4
        <4>2. j = Cardinality(R \ {x}) BY <3>6, <3>7
        <4> QED BY ONLY <3>5, <4>1, <4>2
      <3>9. j \in Q BY <1>1, <3>8
      <3> QED BY <3>2, <3>7, <3>9 DEF Q
    <2> QED BY <2>2, <2>3
  <1> HIDE DEF Q
  <1>2. Nat \subseteq Q BY <1>1, NumberInduction
  <1>3. Cardinality(S \ {}) \in Nat
    <2>1. S \ {} = S OBVIOUS
    <2> QED BY <2>1, FS_CardinalityType
  <1> QED BY <1>2, <1>3 DEF Q

-----------------------------------------------------------------------------
(***************************************************************************)
(* Total: sums over a finite set.                                          *)
(***************************************************************************)
Pick(s) == CHOOSE x \in s : TRUE

\* g has the sums of f over the subsets of S.
Sums(f, S, g) ==
    g = [s \in SUBSET S |-> IF s = {} THEN 0 ELSE f[Pick(s)] + g[s \ {Pick(s)}]]

LEMMA TotalIsSum == ASSUME NEW f, NEW S PROVE Total(f, S) = (CHOOSE g : Sums(f, S, g))[S]
  BY DEF Total, MapThenSumSet, MapThenFoldSet, Sums, Pick

LEMMA Smaller ==
    ASSUME NEW s, IsFiniteSet(s), s # {}
    PROVE  /\ Pick(s) \in s /\ IsFiniteSet(s \ {Pick(s)})
           /\ Cardinality(s) \in Nat /\ Cardinality(s \ {Pick(s)}) \in Nat
           /\ Cardinality(s \ {Pick(s)}) = Cardinality(s) - 1
  <1>1. PICK x : x = Pick(s) OBVIOUS
  <1>2. x \in s BY <1>1 DEF Pick
  <1> QED BY <1>1, <1>2, FS_RemoveElement, FS_CardinalityType

LEMMA SumsExist ==
    ASSUME NEW S, IsFiniteSet(S), NEW f, \A x \in S : f[x] \in Int
    PROVE  \E g \in [SUBSET S -> Int] : Sums(f, S, g)
  <1> DEFINE Right(g, s) == g[s] = IF s = {} THEN 0 ELSE f[Pick(s)] + g[s \ {Pick(s)}]
             P == {k \in Nat : \E g \in [SUBSET S -> Int] :
                                 \A s \in SUBSET S : Cardinality(s) < k => Right(g, s)}
  <1>1. \A s \in SUBSET S : IsFiniteSet(s) /\ Cardinality(s) \in Nat BY FS_Subset, FS_CardinalityType
  <1>2. ASSUME NEW k \in Nat, \A j \in Nat : j < k => j \in P PROVE k \in P
    <2>1. CASE k = 0
      <3>1. PICK g : g = [s \in SUBSET S |-> 0] OBVIOUS
      <3>2. g \in [SUBSET S -> Int] BY <3>1
      <3>3. \A s \in SUBSET S : ~(Cardinality(s) < k) BY <1>1, <2>1
      <3> QED BY <3>2, <3>3
    <2>2. CASE k # 0
      <3>1. PICK j \in Nat : k = j + 1 BY <2>2
      <3>2. PICK g \in [SUBSET S -> Int] : \A s \in SUBSET S : Cardinality(s) < j => Right(g, s)
        <4> HIDE DEF P, Right
        <4>1. j \in P BY <1>2, <3>1
        <4> QED BY <4>1 DEF P
      <3>3. PICK h : h = [s \in SUBSET S |-> IF Cardinality(s) < j THEN g[s]
                                             ELSE IF s = {} THEN 0
                                             ELSE f[Pick(s)] + g[s \ {Pick(s)}]]
        OBVIOUS
      <3>4. \A s \in SUBSET S : s # {} => /\ Pick(s) \in s /\ f[Pick(s)] \in Int
                                          /\ s \ {Pick(s)} \in SUBSET S
                                          /\ Cardinality(s \ {Pick(s)}) = Cardinality(s) - 1
        BY <1>1, Smaller
      <3>5. h \in [SUBSET S -> Int] BY <3>3, <3>4
      <3>6. ASSUME NEW s \in SUBSET S, Cardinality(s) < k PROVE Right(h, s)
        <4>1. CASE s = {}
          <5>1. h[s] = 0 BY <3>2, <3>3, <4>1
          <5> QED BY <4>1, <5>1
        <4>2. CASE s # {}
          <5>1. PICK t \in SUBSET S : t = s \ {Pick(s)} BY <3>4, <4>2
          <5>2. Cardinality(t) < j BY <1>1, <3>1, <3>4, <3>6, <4>2, <5>1
          <5>3. h[t] = g[t] BY <3>3, <5>2
          <5>4. h[s] = f[Pick(s)] + g[t]
            <6>1. CASE Cardinality(s) < j BY <3>2, <3>3, <4>2, <5>1, <6>1
            <6>2. CASE ~(Cardinality(s) < j) BY <3>3, <4>2, <5>1, <6>2
            <6> QED BY <6>1, <6>2
          <5> QED BY <4>2, <5>1, <5>3, <5>4
        <4> QED BY <4>1, <4>2
      <3> HIDE DEF Right
      <3> QED BY <3>5, <3>6
    <2> QED BY <2>1, <2>2
  <1> HIDE DEF P
  <1>3. Nat \subseteq P BY <1>2, NumberInduction
  <1>4. PICK n \in Nat : n = Cardinality(S) + 1 BY FS_CardinalityType
  <1>5. PICK g \in [SUBSET S -> Int] : \A s \in SUBSET S : Cardinality(s) < n => Right(g, s)
    BY <1>3, <1>4 DEF P
  <1>6. \A s \in SUBSET S : Cardinality(s) < n BY <1>4, FS_Subset, FS_CardinalityType
  <1>7. \A s \in SUBSET S : Right(g, s) BY <1>5, <1>6
  <1>8. g = [s \in SUBSET S |-> IF s = {} THEN 0 ELSE f[Pick(s)] + g[s \ {Pick(s)}]] BY <1>7
  <1> QED BY <1>8 DEF Sums

LEMMA SumsAgree ==
    ASSUME NEW S, IsFiniteSet(S), NEW T \in SUBSET S, NEW f, NEW g, NEW h, Sums(f, S, g), Sums(f, T, h)
    PROVE  \A s \in SUBSET T : g[s] = h[s]
  <1> DEFINE P == {k \in Nat : \A s \in SUBSET T : Cardinality(s) = k => g[s] = h[s]}
  <1>1. \A s \in SUBSET T : /\ IsFiniteSet(s) /\ Cardinality(s) \in Nat /\ s \in SUBSET S
                            /\ s \ {Pick(s)} \in SUBSET T
    BY FS_Subset, FS_CardinalityType
  <1>2. ASSUME NEW s \in SUBSET S
        PROVE  g[s] = IF s = {} THEN 0 ELSE f[Pick(s)] + g[s \ {Pick(s)}]
    BY DEF Sums
  <1>3. ASSUME NEW s \in SUBSET T
        PROVE  h[s] = IF s = {} THEN 0 ELSE f[Pick(s)] + h[s \ {Pick(s)}]
    BY DEF Sums
  <1>4. ASSUME NEW k \in Nat, \A j \in Nat : j < k => j \in P PROVE k \in P
    <2>1. SUFFICES ASSUME NEW s \in SUBSET T, Cardinality(s) = k PROVE g[s] = h[s] OBVIOUS
    <2> HIDE DEF P
    <2>2. CASE s = {} BY <1>1, <1>2, <1>3, <2>2
    <2>3. CASE s # {}
      <3>1. PICK j \in Nat : j = Cardinality(s \ {Pick(s)}) BY <1>1, <2>3, Smaller
      <3>2. j < k BY <1>1, <2>1, <2>3, <3>1, Smaller
      <3>3. PICK t \in SUBSET T : t = s \ {Pick(s)} BY <1>1
      <3>4. g[t] = h[t] BY <1>4, <3>1, <3>2, <3>3 DEF P
      <3>5. g[s] = f[Pick(s)] + g[t] BY <1>1, <1>2, <2>3, <3>3
      <3>6. h[s] = f[Pick(s)] + h[t] BY <1>3, <2>3, <3>3
      <3> QED BY <3>4, <3>5, <3>6
    <2> QED BY <2>2, <2>3
  <1> HIDE DEF P
  <1>5. Nat \subseteq P BY <1>4, NumberInduction
  <1> QED BY <1>1, <1>5 DEF P

LEMMA TotalFacts ==
    ASSUME NEW S, IsFiniteSet(S), NEW f, \A x \in S : f[x] \in Int
    PROVE  /\ Total(f, S) \in Int
           /\ S = {} => Total(f, S) = 0
           /\ S # {} => Total(f, S) = f[Pick(S)] + Total(f, S \ {Pick(S)})
  <1>1. PICK g \in [SUBSET S -> Int] : Sums(f, S, g) BY SumsExist
  <1>2. PICK h : h = CHOOSE k : Sums(f, S, k) OBVIOUS
  <1>3. Sums(f, S, h) BY <1>1, <1>2
  <1>4. Total(f, S) = h[S] BY <1>2, TotalIsSum
  <1>5. g[S] = h[S] BY <1>1, <1>3, SumsAgree
  <1>6. h[S] = IF S = {} THEN 0 ELSE f[Pick(S)] + h[S \ {Pick(S)}] BY <1>3 DEF Sums
  <1>7. ASSUME S # {} PROVE Total(f, S) = f[Pick(S)] + Total(f, S \ {Pick(S)})
    <2>1. PICK T \in SUBSET S : T = S \ {Pick(S)} OBVIOUS
    <2>2. IsFiniteSet(T) BY FS_Subset
    <2>3. PICK k : k = CHOOSE d : Sums(f, T, d) OBVIOUS
    <2>4. \E d : Sums(f, T, d) BY <2>2, SumsExist
    <2>5. Sums(f, T, k) BY <2>3, <2>4
    <2>6. Total(f, T) = k[T] BY <2>3, TotalIsSum
    <2>7. h[T] = k[T] BY <1>3, <2>5, SumsAgree
    <2>8. h[S] = f[Pick(S)] + h[T] BY <1>6, <1>7, <2>1
    <2> QED BY <1>4, <2>1, <2>6, <2>7, <2>8
  <1> QED BY <1>1, <1>4, <1>5, <1>6, <1>7

(* The order of the additions does not matter. *)
LEMMA TotalWithout ==
    ASSUME NEW S, IsFiniteSet(S), NEW f, \A x \in S : f[x] \in Int, NEW x \in S
    PROVE  Total(f, S) = f[x] + Total(f, S \ {x})
  <1> DEFINE P == {k \in Nat : \A s \in SUBSET S : Cardinality(s) = k =>
                                 \A y \in s : Total(f, s) = f[y] + Total(f, s \ {y})}
  <1>1. ASSUME NEW k \in Nat, \A j \in Nat : j < k => j \in P PROVE k \in P
    <2>1. SUFFICES ASSUME NEW s \in SUBSET S, Cardinality(s) = k, NEW y \in s
                   PROVE  Total(f, s) = f[y] + Total(f, s \ {y})
      OBVIOUS
    <2> HIDE DEF P
    <2>2. IsFiniteSet(s) BY FS_Subset
    <2>3. PICK z : z = Pick(s) OBVIOUS
    <2>4. z \in s /\ Total(f, s) = f[z] + Total(f, s \ {z}) BY <2>2, <2>3, Smaller, TotalFacts
    <2>5. CASE z = y BY <2>4, <2>5
    <2>6. CASE z # y
      <3>1. PICK t \in SUBSET S, r \in SUBSET S : t = s \ {z} /\ r = s \ {y} OBVIOUS
      <3>2. PICK q \in SUBSET S : q = s \ {y, z} OBVIOUS
      <3>3. t \ {y} = q /\ r \ {z} = q /\ y \in t /\ z \in r BY <2>4, <2>6, <3>1, <3>2
      <3>. IsFiniteSet(t) /\ IsFiniteSet(r) BY FS_Subset
      <3>4. PICK i \in Nat : i = Cardinality(t) /\ i < k
        <4>1. Cardinality(t) = k - 1 BY <2>1, <2>2, <2>4, <3>1, FS_RemoveElement
        <4>2. Cardinality(t) \in Nat BY FS_CardinalityType
        <4> QED BY <4>1, <4>2
      <3>5. PICK j \in Nat : j = Cardinality(r) /\ j < k
        <4>1. Cardinality(r) = k - 1 BY <2>1, <2>2, <3>1, FS_RemoveElement
        <4>2. Cardinality(r) \in Nat BY FS_CardinalityType
        <4> QED BY <4>1, <4>2
      <3>6. Total(f, t) = f[y] + Total(f, q) BY <1>1, <3>3, <3>4 DEF P
      <3>7. Total(f, r) = f[z] + Total(f, q) BY <1>1, <3>3, <3>5 DEF P
      <3>8. f[y] \in Int /\ f[z] \in Int BY <2>4
      <3>9. Total(f, q) \in Int BY TotalFacts, FS_Subset
      <3> QED BY <2>4, <3>1, <3>6, <3>7, <3>8, <3>9
    <2> QED BY <2>5, <2>6
  <1> HIDE DEF P
  <1>2. Nat \subseteq P BY <1>1, NumberInduction
  <1>3. Cardinality(S) \in Nat BY FS_CardinalityType
  <1> QED BY <1>2, <1>3 DEF P

LEMMA TotalAdd ==
    ASSUME NEW T, IsFiniteSet(T), NEW x, x \notin T, NEW f, \A y \in T \cup {x} : f[y] \in Int
    PROVE  Total(f, T \cup {x}) = f[x] + Total(f, T) /\ Total(f, T) \in Int /\ f[x] \in Int
  <1>1. PICK S : S = T \cup {x} OBVIOUS
  <1>2. IsFiniteSet(S) BY <1>1, FS_AddElement
  <1>3. S \ {x} = T /\ x \in S BY <1>1
  <1>4. Total(f, S) = f[x] + Total(f, S \ {x}) BY <1>1, <1>2, <1>3, TotalWithout
  <1> QED BY <1>1, <1>3, <1>4, TotalFacts

LEMMA TotalEqual ==
    ASSUME NEW S, IsFiniteSet(S), NEW f, NEW g, \A x \in S : f[x] \in Int /\ g[x] = f[x]
    PROVE  Total(g, S) = Total(f, S)
  <1> DEFINE P == {T \in SUBSET S : Total(g, T) = Total(f, T)}
  <1>1. {} \in P
    <2>1. IsFiniteSet({}) BY FS_EmptySet
    <2>2. Total(f, {}) = 0 /\ Total(g, {}) = 0 BY <2>1, TotalFacts
    <2> QED BY <2>2
  <1>2. ASSUME NEW T \in SUBSET S, NEW x \in S \ T, T \in P PROVE T \cup {x} \in P
    <2>1. IsFiniteSet(T) BY FS_Subset
    <2>2. Total(f, T \cup {x}) = f[x] + Total(f, T) BY <2>1, TotalAdd
    <2>3. \A y \in T \cup {x} : g[y] \in Int OBVIOUS
    <2>4. Total(g, T \cup {x}) = g[x] + Total(g, T) BY <2>1, <2>3, TotalAdd
    <2> QED BY <1>2, <2>2, <2>4
  <1> HIDE DEF P
  <1>3. S \in P BY <1>1, <1>2, SetInduction
  <1> QED BY <1>3 DEF P

(* Sums are linear. *)
LEMMA TotalPlus ==
    ASSUME NEW S, IsFiniteSet(S), NEW f, NEW g, NEW h, NEW c \in Int,
           \A x \in S : f[x] \in Int /\ g[x] \in Int /\ h[x] = c * f[x] + g[x]
    PROVE  Total(h, S) = c * Total(f, S) + Total(g, S)
  <1> DEFINE P == {T \in SUBSET S : Total(h, T) = c * Total(f, T) + Total(g, T)}
  <1>1. {} \in P
    <2>1. IsFiniteSet({}) BY FS_EmptySet
    <2>2. Total(f, {}) = 0 /\ Total(g, {}) = 0 /\ Total(h, {}) = 0 BY <2>1, TotalFacts
    <2> QED BY <2>2
  <1>2. ASSUME NEW T \in SUBSET S, NEW x \in S \ T, T \in P PROVE T \cup {x} \in P
    <2>1. IsFiniteSet(T) BY FS_Subset
    <2>2. \A y \in T \cup {x} : f[y] \in Int /\ g[y] \in Int OBVIOUS
    <2>3. \A y \in T \cup {x} : h[y] \in Int
      <3> TAKE y \in T \cup {x}
      <3>1. c * f[y] \in Int BY <2>2
      <3> QED BY <2>2, <3>1
    <2>4. PICK a \in Int, b \in Int : a = f[x] /\ b = Total(f, T) /\ Total(f, T \cup {x}) = a + b
      <3>1. \A y \in T \cup {x} : f[y] \in Int BY <2>2
      <3>2. Total(f, T \cup {x}) = f[x] + Total(f, T) /\ Total(f, T) \in Int /\ f[x] \in Int
        BY <2>1, <3>1, TotalAdd
      <3> QED BY <3>2
    <2>5. PICK d \in Int, e \in Int : d = g[x] /\ e = Total(g, T) /\ Total(g, T \cup {x}) = d + e
      <3>1. \A y \in T \cup {x} : g[y] \in Int BY <2>2
      <3>2. Total(g, T \cup {x}) = g[x] + Total(g, T) /\ Total(g, T) \in Int /\ g[x] \in Int
        BY <2>1, <3>1, TotalAdd
      <3> QED BY <3>2
    <2>6. Total(h, T \cup {x}) = (c * a + d) + (c * b + e)
      <3>1. Total(h, T \cup {x}) = h[x] + Total(h, T) BY <2>1, <2>3, TotalAdd
      <3>2. h[x] = c * a + d BY <2>4, <2>5
      <3>3. Total(h, T) = c * b + e BY <1>2, <2>4, <2>5
      <3> QED BY <3>1, <3>2, <3>3
    <2>7. (c * a + d) + (c * b + e) = c * (a + b) + (d + e) OBVIOUS
    <2> QED BY <2>4, <2>5, <2>6, <2>7
  <1> HIDE DEF P
  <1>3. S \in P BY <1>1, <1>2, SetInduction
  <1> QED BY <1>3 DEF P

LEMMA TotalZero ==
    ASSUME NEW S, IsFiniteSet(S), NEW f, \A x \in S : f[x] = 0
    PROVE  Total(f, S) = 0
  <1>1. PICK c \in Int : c = 1 OBVIOUS
  <1>2. \A x \in S : f[x] \in Int /\ f[x] = c * f[x] + f[x] BY <1>1
  <1>3. Total(f, S) = c * Total(f, S) + Total(f, S) BY <1>2, TotalPlus
  <1>4. PICK t \in Int : t = Total(f, S) BY <1>2, TotalFacts
  <1>5. t = c * t + t BY <1>3, <1>4
  <1>6. 1 * t = t OBVIOUS
  <1>7. t = t + t BY ONLY <1>1, <1>5, <1>6
  <1>8. t = 0 BY ONLY <1>7, t \in Int
  <1> QED BY <1>4, <1>8

LEMMA TotalNatural ==
    ASSUME NEW S, IsFiniteSet(S), NEW f, \A x \in S : f[x] \in Nat
    PROVE  /\ Total(f, S) \in Nat
           /\ \A x \in S : f[x] <= Total(f, S)
  <1> DEFINE P == {T \in SUBSET S : Total(f, T) \in Nat}
  <1>1. {} \in P
    <2>1. IsFiniteSet({}) BY FS_EmptySet
    <2>2. Total(f, {}) = 0 BY <2>1, TotalFacts
    <2> QED BY <2>2
  <1>2. ASSUME NEW T \in SUBSET S, NEW x \in S \ T, T \in P PROVE T \cup {x} \in P
    <2>1. IsFiniteSet(T) BY FS_Subset
    <2>2. \A y \in T \cup {x} : f[y] \in Int /\ f[y] \in Nat OBVIOUS
    <2>3. Total(f, T \cup {x}) = f[x] + Total(f, T) BY <2>1, <2>2, TotalAdd
    <2> QED BY <1>2, <2>2, <2>3
  <1> HIDE DEF P
  <1>3. \A T \in SUBSET S : T \in P
    <2> TAKE T \in SUBSET S
    <2>1. IsFiniteSet(T) BY FS_Subset
    <2>2. \A R \in SUBSET T : \A x \in T \ R : R \in P => R \cup {x} \in P BY <1>2
    <2> QED BY <1>1, <2>1, <2>2, SetInduction
  <1>4. ASSUME NEW x \in S PROVE f[x] <= Total(f, S)
    <2>1. \A y \in S : f[y] \in Int OBVIOUS
    <2>2. Total(f, S) = f[x] + Total(f, S \ {x}) BY <2>1, TotalWithout
    <2>3. Total(f, S \ {x}) \in Nat BY <1>3 DEF P
    <2>4. f[x] \in Nat OBVIOUS
    <2> QED BY <2>2, <2>3, <2>4
  <1> QED BY <1>3, <1>4 DEF P

LEMMA TotalSum ==
    ASSUME NEW S, IsFiniteSet(S), NEW f, NEW g, NEW h,
           \A x \in S : f[x] \in Int /\ g[x] \in Int /\ h[x] = f[x] + g[x]
    PROVE  Total(h, S) = Total(f, S) + Total(g, S)
  <1>1. PICK c \in Int : c = 1 OBVIOUS
  <1>2. \A x \in S : f[x] \in Int /\ g[x] \in Int /\ h[x] = c * f[x] + g[x]
    <2> TAKE x \in S
    <2>1. PICK y \in Int : y = f[x] OBVIOUS
    <2>2. c * y = y BY <1>1
    <2> QED BY <2>1, <2>2
  <1>3. Total(h, S) = c * Total(f, S) + Total(g, S) BY <1>2, TotalPlus
  <1>4. PICK t \in Int : t = Total(f, S) BY TotalFacts
  <1>5. c * t = t BY <1>1
  <1> QED BY <1>3, <1>4, <1>5

LEMMA TotalLess ==
    ASSUME NEW S, IsFiniteSet(S), NEW f, NEW g, NEW h,
           \A x \in S : f[x] \in Int /\ g[x] \in Int /\ h[x] = f[x] - g[x]
    PROVE  Total(h, S) = Total(f, S) - Total(g, S)
  <1>1. \A x \in S : h[x] \in Int /\ g[x] \in Int /\ f[x] = h[x] + g[x]
    <2> TAKE x \in S
    <2>1. f[x] \in Int /\ g[x] \in Int /\ h[x] = f[x] - g[x] OBVIOUS
    <2> QED BY <2>1
  <1>2. Total(f, S) = Total(h, S) + Total(g, S) BY <1>1, TotalSum
  <1>3. Total(h, S) \in Int /\ Total(g, S) \in Int BY <1>1, TotalFacts
  <1> QED BY <1>2, <1>3

LEMMA TotalExtend ==
    ASSUME NEW S, IsFiniteSet(S), NEW T \in SUBSET S, NEW f, \A x \in S : f[x] \in Int,
           \A x \in S \ T : f[x] = 0
    PROVE  Total(f, S) = Total(f, T)
  <1>1. PICK D \in SUBSET S : D = S \ T OBVIOUS
  <1>2. IsFiniteSet(D) BY FS_Subset
  <1>3. PICK P : P = {R \in SUBSET D : Total(f, T \cup R) = Total(f, T)} OBVIOUS
  <1>4. {} \in P
    <2>1. T \cup {} = T OBVIOUS
    <2> QED BY <1>3, <2>1
  <1>5. ASSUME NEW R \in SUBSET D, NEW x \in D \ R, R \in P PROVE R \cup {x} \in P
    <2>1. PICK Q \in SUBSET S : Q = T \cup R BY <1>1
    <2>2. IsFiniteSet(Q) /\ x \notin Q BY <1>1, <2>1, FS_Subset
    <2>3. Total(f, Q \cup {x}) = f[x] + Total(f, Q) /\ Total(f, Q) \in Int BY <2>2, TotalAdd
    <2>4. f[x] = 0 BY <1>1
    <2>5. Total(f, Q \cup {x}) = Total(f, Q) BY <2>3, <2>4
    <2>6. T \cup (R \cup {x}) = Q \cup {x} BY <2>1
    <2> QED BY <1>3, <1>5, <2>1, <2>5, <2>6
  <1>6. D \in P BY <1>2, <1>4, <1>5, SetInduction
  <1>7. T \cup D = S BY <1>1
  <1> QED BY <1>3, <1>6, <1>7

\* f on T, and 0 elsewhere.
Within(f, T, S) == [x \in S |-> IF x \in T THEN f[x] ELSE 0]

LEMMA TotalWithin ==
    ASSUME NEW S, IsFiniteSet(S), NEW T \in SUBSET S, NEW f, \A x \in T : f[x] \in Int
    PROVE  Total(Within(f, T, S), S) = Total(f, T)
  <1>1. PICK g : g = Within(f, T, S) OBVIOUS
  <1>2. \A x \in S : g[x] = IF x \in T THEN f[x] ELSE 0 BY <1>1 DEF Within
  <1>3. (\A x \in S : g[x] \in Int) /\ (\A x \in S \ T : g[x] = 0) BY <1>2
  <1>4. Total(g, S) = Total(g, T) BY <1>3, TotalExtend
  <1>5. IsFiniteSet(T) /\ \A x \in T : f[x] \in Int /\ g[x] = f[x] BY <1>2, FS_Subset
  <1>6. Total(g, T) = Total(f, T) BY <1>5, TotalEqual
  <1> QED BY <1>1, <1>4, <1>6

Column(h, U, p) == Total([u \in U |-> h[u][p]], U)

(* The sum of the rows is the sum of the columns. *)
LEMMA TotalSwap ==
    ASSUME NEW U, IsFiniteSet(U), NEW S, IsFiniteSet(S), NEW h, \A u \in U : \A p \in S : h[u][p] \in Int,
           NEW row, \A u \in U : row[u] = Total(h[u], S),
           NEW col, \A p \in S : col[p] = Column(h, U, p)
    PROVE  Total(row, U) = Total(col, S)
  <1>1. PICK P : P = {T \in SUBSET S : Total([u \in U |-> Total(h[u], T)], U) = Total(col, T)} OBVIOUS
  <1>2. \A p \in S : col[p] \in Int
    <2> TAKE p \in S
    <2>1. PICK c : c = [u \in U |-> h[u][p]] OBVIOUS
    <2>2. \A u \in U : c[u] \in Int BY <2>1
    <2>3. Total(c, U) \in Int BY <2>2, TotalFacts
    <2> QED BY <2>1, <2>3 DEF Column
  <1>3. {} \in P
    <2>1. IsFiniteSet({}) BY FS_EmptySet
    <2>2. PICK z : z = [u \in U |-> Total(h[u], {})] OBVIOUS
    <2>3. \A u \in U : z[u] = 0 BY <2>1, <2>2, TotalFacts
    <2>4. Total(z, U) = 0 BY <2>3, TotalZero
    <2>5. Total(col, {}) = 0 BY <2>1, TotalFacts
    <2> QED BY <1>1, <2>2, <2>4, <2>5
  <1>4. ASSUME NEW T \in SUBSET S, NEW x \in S \ T, T \in P PROVE T \cup {x} \in P
    <2>1. IsFiniteSet(T) BY FS_Subset
    <2>2. PICK old : old = [u \in U |-> Total(h[u], T)] OBVIOUS
    <2>3. PICK new : new = [u \in U |-> Total(h[u], T \cup {x})] OBVIOUS
    <2>4. PICK c : c = [u \in U |-> h[u][x]] OBVIOUS
    <2>5. ASSUME NEW u \in U PROVE c[u] \in Int /\ old[u] \in Int /\ new[u] = c[u] + old[u]
      <3>1. PICK r : r = h[u] OBVIOUS
      <3>2. \A y \in T \cup {x} : r[y] \in Int BY <3>1
      <3>3. Total(r, T \cup {x}) = r[x] + Total(r, T) /\ Total(r, T) \in Int /\ r[x] \in Int
        BY <2>1, <3>2, TotalAdd
      <3> QED BY <2>2, <2>3, <2>4, <3>1, <3>3
    <2>6. Total(new, U) = Total(c, U) + Total(old, U) BY <2>5, TotalSum
    <2>7. \A y \in T \cup {x} : col[y] \in Int BY <1>2
    <2>8. Total(col, T \cup {x}) = col[x] + Total(col, T) BY <2>1, <2>7, TotalAdd
    <2>9. Total(c, U) = col[x] /\ Total(old, U) = Total(col, T) BY <1>1, <1>4, <2>2, <2>4 DEF Column
    <2> QED BY <1>1, <2>3, <2>6, <2>8, <2>9
  <1>5. S \in P BY <1>3, <1>4, SetInduction
  <1>6. PICK r : r = [u \in U |-> Total(h[u], S)] OBVIOUS
  <1>7. Total(r, U) = Total(col, S) BY <1>1, <1>5, <1>6
  <1>8. \A u \in U : r[u] \in Int /\ row[u] = r[u]
    <2> TAKE u \in U
    <2>1. PICK q : q = h[u] OBVIOUS
    <2>2. \A p \in S : q[p] \in Int BY <2>1
    <2>3. Total(q, S) \in Int BY <2>2, TotalFacts
    <2> QED BY <1>6, <2>1, <2>3
  <1>9. Total(row, U) = Total(r, U) BY <1>8, TotalEqual
  <1> QED BY <1>7, <1>9

-----------------------------------------------------------------------------
(***************************************************************************)
(* split_by hands out what it is given, to the last byte.                  *)
(***************************************************************************)
Ahead(S, rest, i) == {j \in S : rest[j] > rest[i] \/ (rest[j] = rest[i] /\ j < i)}

LEMMA DivisionFacts ==
    ASSUME NEW x \in Nat, NEW t \in Nat, t # 0
    PROVE  /\ x \div t \in Nat /\ x % t \in Nat /\ x % t < t
           /\ x = t * (x \div t) + (x % t)
  OBVIOUS

\* A split by S, with the quotients and remainders spelled out.
Splits(amount, w, S, share, rest, left) ==
    /\ share \in [S -> Nat] /\ rest \in [S -> Nat] /\ left \in Int
    /\ left = amount - Total(share, S)
    /\ \A i \in S : /\ rest[i] < Total(w, S)
                    /\ amount * w[i] = Total(w, S) * share[i] + rest[i]
    /\ split_by(amount, w, S)
         = [i \in S |-> share[i] + (IF Cardinality(Ahead(S, rest, i)) < left THEN 1 ELSE 0)]

LEMMA SplitParts ==
    ASSUME NEW S, IsFiniteSet(S), NEW w, \A i \in S : w[i] \in Nat, NEW amount \in Nat, Total(w, S) # 0
    PROVE  \E share, rest, left : Splits(amount, w, S, share, rest, left)
  <1>1. PICK t \in Nat : t = Total(w, S) BY TotalNatural
  <1>2. PICK share : share = [i \in S |-> (amount * w[i]) \div t] OBVIOUS
  <1>3. PICK rest : rest = [i \in S |-> (amount * w[i]) % t] OBVIOUS
  <1>4. PICK left : left = amount - Total(share, S) OBVIOUS
  <1>5. ASSUME NEW i \in S
        PROVE  /\ share[i] \in Nat /\ rest[i] \in Nat /\ rest[i] < t
               /\ amount * w[i] = t * share[i] + rest[i]
    <2>1. PICK x \in Nat : x = amount * w[i] OBVIOUS
    <2>2. share[i] = x \div t /\ rest[i] = x % t BY <1>2, <1>3, <2>1
    <2>3. t # 0 BY <1>1
    <2>4. PICK d, m : d = x \div t /\ m = x % t OBVIOUS
    <2>5. d \in Nat /\ m \in Nat /\ m < t /\ x = t * d + m BY <2>3, <2>4, DivisionFacts
    <2> QED BY <2>1, <2>2, <2>4, <2>5
  <1>6. share \in [S -> Nat] /\ rest \in [S -> Nat] BY <1>2, <1>3, <1>5
  <1>7. Total(share, S) \in Nat BY <1>6, TotalNatural
  <1>8. split_by(amount, w, S)
          = [i \in S |-> share[i] + (IF Cardinality(Ahead(S, rest, i)) < left THEN 1 ELSE 0)]
    BY <1>1, <1>2, <1>3, <1>4 DEF split_by, Ahead
  <1> QED BY <1>1, <1>4, <1>5, <1>6, <1>7, <1>8 DEF Splits

LEMMA SplitType ==
    ASSUME NEW S, IsFiniteSet(S), NEW w, \A i \in S : w[i] \in Nat, NEW amount \in Nat
    PROVE  split_by(amount, w, S) \in [S -> Nat]
  <1>1. CASE Total(w, S) = 0
    <2>1. split_by(amount, w, S) = [i \in S |-> 0] BY <1>1 DEF split_by
    <2> QED BY <2>1
  <1>2. CASE Total(w, S) # 0
    <2>1. PICK share, rest, left : Splits(amount, w, S, share, rest, left) BY <1>2, SplitParts
    <2> QED BY <2>1 DEF Splits
  <1> QED BY <1>1, <1>2

(* Between 0 and |S| units are left after the whole shares. *)
LEMMA LeftBounds ==
    ASSUME NEW S, IsFiniteSet(S), NEW w, \A i \in S : w[i] \in Nat, NEW amount \in Nat, Total(w, S) # 0,
           NEW share, NEW rest, NEW left, Splits(amount, w, S, share, rest, left)
    PROVE  left \in Nat /\ left <= Cardinality(S)
  <1>1. PICK t \in Nat : t = Total(w, S) BY TotalNatural
  <1>2. PICK exact : exact = [i \in S |-> amount * w[i] + 0] OBVIOUS
  <1>3. PICK zero : zero = [i \in S |-> 0] OBVIOUS
  <1>4. Total(zero, S) = 0
    <2>1. \A i \in S : zero[i] = 0 BY <1>3
    <2> QED BY <2>1, TotalZero
  <1>5. Total(exact, S) = amount * t
    <2>1. \A i \in S : w[i] \in Int /\ zero[i] \in Int /\ exact[i] = amount * w[i] + zero[i]
      BY <1>2, <1>3
    <2>2. Total(exact, S) = amount * Total(w, S) + Total(zero, S) BY <2>1, TotalPlus
    <2> QED BY <1>1, <1>4, <2>2
  <1>6. Total(exact, S) = t * Total(share, S) + Total(rest, S)
    <2>1. \A i \in S : share[i] \in Int /\ rest[i] \in Int /\ exact[i] = t * share[i] + rest[i]
      BY <1>1, <1>2 DEF Splits
    <2> QED BY <2>1, TotalPlus
  <1>7. PICK s \in Nat : s = Total(share, S) BY TotalNatural DEF Splits
  <1>8. PICK r \in Nat : r = Total(rest, S) BY TotalNatural DEF Splits
  <1>9. left = amount - s /\ left \in Int BY <1>7 DEF Splits
  <1>10. r = t * left
    <2>1. amount * t = t * s + r BY <1>5, <1>6, <1>7, <1>8
    <2>2. t * left = t * amount - t * s BY <1>9
    <2> QED BY <2>1, <2>2
  <1>11. PICK n \in Nat : n = Cardinality(S) BY FS_CardinalityType
  <1>12. r <= t * n
    <2>1. PICK P : P = {T \in SUBSET S : Total(rest, T) <= t * Cardinality(T)} OBVIOUS
    <2>2. {} \in P
      <3>1. IsFiniteSet({}) /\ Cardinality({}) = 0 BY FS_EmptySet
      <3>2. Total(rest, {}) = 0 BY <3>1, TotalFacts
      <3> QED BY <2>1, <3>1, <3>2
    <2>3. ASSUME NEW T \in SUBSET S, NEW x \in S \ T, T \in P PROVE T \cup {x} \in P
      <3>1. IsFiniteSet(T) BY FS_Subset
      <3>2. PICK c \in Nat : c = Cardinality(T) BY <3>1, FS_CardinalityType
      <3>3. Cardinality(T \cup {x}) = c + 1 BY <3>1, <3>2, FS_AddElement
      <3>4. \A y \in T \cup {x} : rest[y] \in Int BY DEF Splits
      <3>5. PICK a \in Int, b \in Int : a = rest[x] /\ b = Total(rest, T) /\ Total(rest, T \cup {x}) = a + b
        <4>1. Total(rest, T \cup {x}) = rest[x] + Total(rest, T) /\ Total(rest, T) \in Int /\ rest[x] \in Int
          BY <3>1, <3>4, TotalAdd
        <4> QED BY <4>1
      <3>6. a <= t BY <1>1, <3>5 DEF Splits
      <3>7. b <= t * c BY <2>1, <2>3, <3>2, <3>5
      <3>8. a + b <= t * (c + 1) BY <3>6, <3>7
      <3> QED BY <2>1, <3>3, <3>5, <3>8
    <2>4. S \in P BY <2>2, <2>3, SetInduction
    <2> QED BY <1>8, <1>11, <2>1, <2>4
  <1>13. left >= 0
    <2>1. t > 0 /\ t * left >= 0 BY <1>1, <1>10
    <2> QED BY <1>9, <2>1
  <1>14. left <= n
    <2>1. t > 0 /\ t * left <= t * n BY <1>1, <1>10, <1>12
    <2> QED BY <1>9, <2>1
  <1> QED BY <1>9, <1>11, <1>13, <1>14

LEMMA ProperSubset ==
    ASSUME NEW S, IsFiniteSet(S), NEW T \in SUBSET S, T # S
    PROVE  IsFiniteSet(T) /\ Cardinality(T) < Cardinality(S)
  <1>1. IsFiniteSet(T) /\ Cardinality(T) <= Cardinality(S) /\ Cardinality(S) # Cardinality(T)
    BY FS_Subset
  <1>2. Cardinality(T) \in Nat /\ Cardinality(S) \in Nat BY <1>1, FS_CardinalityType
  <1> QED BY <1>1, <1>2

(* The order in which left-over units are handed out is a strict one. *)
LEMMA RankFacts ==
    ASSUME NEW S, IsFiniteSet(S), S \subseteq Nat, NEW rest \in [S -> Nat]
    PROVE  /\ \A i \in S : /\ Cardinality(Ahead(S, rest, i)) \in Nat
                           /\ Cardinality(Ahead(S, rest, i)) < Cardinality(S)
           /\ \A i, j \in S : Cardinality(Ahead(S, rest, i)) = Cardinality(Ahead(S, rest, j)) => i = j
  <1>1. ASSUME NEW i \in S
        PROVE  /\ IsFiniteSet(Ahead(S, rest, i)) /\ Cardinality(Ahead(S, rest, i)) \in Nat
               /\ Cardinality(Ahead(S, rest, i)) < Cardinality(S)
    <2>1. PICK A : A = Ahead(S, rest, i) OBVIOUS
    <2>2. rest[i] \in Nat /\ i \in Nat OBVIOUS
    <2>3. A \in SUBSET S /\ i \notin A BY <2>1, <2>2 DEF Ahead
    <2>4. A # S BY <2>3
    <2>5. IsFiniteSet(A) /\ Cardinality(A) < Cardinality(S) BY <2>3, <2>4, ProperSubset
    <2> QED BY <2>1, <2>5, FS_CardinalityType
  <1>2. ASSUME NEW i \in S, NEW j \in S, rest[j] > rest[i] \/ (rest[j] = rest[i] /\ j < i)
        PROVE  Cardinality(Ahead(S, rest, j)) < Cardinality(Ahead(S, rest, i))
    <2>1. PICK A, B : A = Ahead(S, rest, i) /\ B = Ahead(S, rest, j) OBVIOUS
    <2>2. /\ rest[i] \in Nat /\ i \in Nat /\ rest[j] \in Nat /\ j \in Nat
          /\ \A k \in S : rest[k] \in Nat /\ k \in Nat
      OBVIOUS
    <2>3. j \in A /\ j \notin B BY <1>2, <2>1, <2>2 DEF Ahead
    <2>4. ASSUME NEW k \in B PROVE k \in A
      <3>1. k \in S /\ (rest[k] > rest[j] \/ (rest[k] = rest[j] /\ k < j)) BY <2>1 DEF Ahead
      <3>2. rest[k] > rest[i] \/ (rest[k] = rest[i] /\ k < i) BY <1>2, <2>2, <3>1
      <3> QED BY <2>1, <3>1, <3>2 DEF Ahead
    <2>5. B \in SUBSET A /\ B # A BY <2>3, <2>4
    <2>6. IsFiniteSet(A) BY <1>1, <2>1
    <2>7. Cardinality(B) < Cardinality(A) BY <2>5, <2>6, ProperSubset
    <2> QED BY <2>1, <2>7
  <1>3. ASSUME NEW i \in S, NEW j \in S, i # j
        PROVE  Cardinality(Ahead(S, rest, i)) # Cardinality(Ahead(S, rest, j))
    <2>1. rest[i] \in Nat /\ i \in Nat /\ rest[j] \in Nat /\ j \in Nat OBVIOUS
    <2>2. \/ rest[j] > rest[i] \/ (rest[j] = rest[i] /\ j < i)
          \/ rest[i] > rest[j] \/ (rest[i] = rest[j] /\ i < j)
      BY <1>3, <2>1
    <2>3. PICK a \in Nat, b \in Nat :
             a = Cardinality(Ahead(S, rest, i)) /\ b = Cardinality(Ahead(S, rest, j))
      BY <1>1
    <2>4. a < b \/ b < a BY <1>2, <2>2, <2>3
    <2> QED BY <2>3, <2>4
  <1> QED BY <1>1, <1>3

(* As many stand in front as there are units left. *)
LEMMA FrontRow ==
    ASSUME NEW S, IsFiniteSet(S), NEW rank \in [S -> Nat],
           \A i, j \in S : rank[i] = rank[j] => i = j,
           NEW n \in Nat, n = Cardinality(S), \A i \in S : rank[i] < n,
           NEW left \in Nat, left <= n, NEW A, A = {i \in S : rank[i] < left}
    PROVE  Cardinality(A) = left
  <1>1. PICK B : B = {i \in S : ~(rank[i] < left)} OBVIOUS
  <1>2. IsFiniteSet(A) /\ IsFiniteSet(B) BY <1>1, FS_Subset
  <1>3. PICK a \in Nat, b \in Nat : a = Cardinality(A) /\ b = Cardinality(B)
    BY <1>2, FS_CardinalityType
  <1>4. a + b = n
    <2>1. A \cup B = S /\ A \cap B = {} BY <1>1
    <2>2. Cardinality(A \cup B) = Cardinality(A) + Cardinality(B) - Cardinality(A \cap B)
      BY <1>2, FS_Union
    <2>3. Cardinality({}) = 0 BY FS_EmptySet
    <2>4. Cardinality(S) = a + b - 0 BY <1>3, <2>1, <2>2, <2>3
    <2> QED BY <2>4
  <1>5. a <= left
    <2>1. PICK I : I = 0..(left - 1) OBVIOUS
    <2>2. IsFiniteSet(I) /\ Cardinality(I) = left
      <3>1. PICK l \in Int : l = left - 1 OBVIOUS
      <3>2. 0 \in Int OBVIOUS
      <3>3. IsFiniteSet(0..l) /\ Cardinality(0..l) = IF 0 > l THEN 0 ELSE l - 0 + 1
        BY <3>2, FS_Interval
      <3> QED BY <2>1, <3>1, <3>3
    <2>3. PICK h : h = [i \in A |-> rank[i]] OBVIOUS
    <2>4. h \in Injection(A, I)
      <3>1. h \in [A -> I] BY <1>1, <2>1, <2>3
      <3>2. \A x, y \in A : h[x] = h[y] => x = y BY <1>1, <2>3
      <3> QED BY <3>1, <3>2 DEF Injection, IsInjective
    <2>5. Cardinality(A) <= Cardinality(I) BY <2>2, <2>4, FS_Injection
    <2> QED BY <1>3, <2>2, <2>5
  <1>6. b <= n - left
    <2>1. PICK I : I = left..(n - 1) OBVIOUS
    <2>2. IsFiniteSet(I) /\ Cardinality(I) = n - left
      <3>1. PICK l \in Int : l = n - 1 OBVIOUS
      <3>2. left \in Int OBVIOUS
      <3>3. IsFiniteSet(left..l) /\ Cardinality(left..l) = IF left > l THEN 0 ELSE l - left + 1
        BY <3>2, FS_Interval
      <3> QED BY <2>1, <3>1, <3>3
    <2>3. PICK h : h = [i \in B |-> rank[i]] OBVIOUS
    <2>4. h \in Injection(B, I)
      <3>1. h \in [B -> I] BY <1>1, <2>1, <2>3
      <3>2. \A x, y \in B : h[x] = h[y] => x = y BY <1>1, <2>3
      <3> QED BY <3>1, <3>2 DEF Injection, IsInjective
    <2>5. Cardinality(B) <= Cardinality(I) BY <2>2, <2>4, FS_Injection
    <2> QED BY <1>3, <2>2, <2>5
  <1>7. a = left BY <1>4, <1>5, <1>6
  <1> QED BY <1>1, <1>3, <1>7

LEMMA TotalCounts ==
    ASSUME NEW S, IsFiniteSet(S), NEW A \in SUBSET S, NEW f,
           \A i \in S : f[i] = IF i \in A THEN 1 ELSE 0
    PROVE  Total(f, S) = Cardinality(A)
  <1>1. PICK P : P = {T \in SUBSET S : Total(f, T) = Cardinality(A \cap T)} OBVIOUS
  <1>2. {} \in P
    <2>1. IsFiniteSet({}) /\ Cardinality({}) = 0 BY FS_EmptySet
    <2>2. Total(f, {}) = 0 BY <2>1, TotalFacts
    <2>3. A \cap {} = {} OBVIOUS
    <2> QED BY <1>1, <2>1, <2>2, <2>3
  <1>3. ASSUME NEW T \in SUBSET S, NEW x \in S \ T, T \in P PROVE T \cup {x} \in P
    <2>1. IsFiniteSet(T) /\ IsFiniteSet(A \cap T) BY FS_Subset
    <2>2. \A y \in T \cup {x} : f[y] \in Int OBVIOUS
    <2>3. Total(f, T \cup {x}) = f[x] + Total(f, T) BY <2>1, <2>2, TotalAdd
    <2>4. PICK c \in Nat : c = Cardinality(A \cap T) BY <2>1, FS_CardinalityType
    <2>5. Total(f, T) = c BY <1>1, <1>3, <2>4
    <2>6. CASE x \in A
      <3>1. A \cap (T \cup {x}) = (A \cap T) \cup {x} BY <2>6
      <3>2. Cardinality((A \cap T) \cup {x}) = c + 1 BY <2>1, <2>4, FS_AddElement
      <3>3. f[x] = 1 BY <2>6
      <3> QED BY <1>1, <2>3, <2>5, <3>1, <3>2, <3>3
    <2>7. CASE x \notin A
      <3>1. A \cap (T \cup {x}) = A \cap T BY <2>7
      <3>2. f[x] = 0 BY <2>7
      <3>3. Total(f, T \cup {x}) = c BY <2>3, <2>5, <3>2
      <3>4. Cardinality(A \cap (T \cup {x})) = c BY <2>4, <3>1
      <3> QED BY <1>1, <3>3, <3>4
    <2> QED BY <2>6, <2>7
  <1>4. S \in P BY <1>2, <1>3, SetInduction
  <1>5. A \cap S = A OBVIOUS
  <1> QED BY <1>1, <1>4, <1>5

(* The largest-remainder split of split_by hands out exactly what it is    *)
(* given, unless nobody has a weight: no byte of a package, of a drop or   *)
(* of what expired is lost or made up in rounding.                         *)
THEOREM SplitIsExact ==
    ASSUME NEW S, IsFiniteSet(S), S \subseteq Nat, NEW w, \A i \in S : w[i] \in Nat, NEW amount \in Nat,
           Total(w, S) # 0
    PROVE  Total(split_by(amount, w, S), S) = amount
  <1>1. PICK share, rest, left : Splits(amount, w, S, share, rest, left) BY SplitParts
  <1>2. left \in Nat /\ left <= Cardinality(S) BY <1>1, LeftBounds
  <1>3. PICK rank : rank = [i \in S |-> Cardinality(Ahead(S, rest, i))] OBVIOUS
  <1>4. rest \in [S -> Nat] BY <1>1 DEF Splits
  <1>5. PICK n \in Nat : n = Cardinality(S) BY FS_CardinalityType
  <1>6. /\ rank \in [S -> Nat] /\ \A i \in S : rank[i] < n
        /\ \A i, j \in S : rank[i] = rank[j] => i = j
    BY <1>3, <1>4, <1>5, RankFacts
  <1>7. PICK A \in SUBSET S : A = {i \in S : rank[i] < left} OBVIOUS
  <1>8. Cardinality(A) = left
    <2>1. left <= n BY <1>2, <1>5
    <2>2. \A i, j \in S : rank[i] = rank[j] => i = j BY <1>6
    <2>3. \A i \in S : rank[i] < n BY <1>6
    <2>4. rank \in [S -> Nat] BY <1>6
    <2> QED BY ONLY IsFiniteSet(S), <1>2, <1>5, <1>7, <2>1, <2>2, <2>3, <2>4, FrontRow
  <1>9. PICK one : one = [i \in S |-> IF i \in A THEN 1 ELSE 0] OBVIOUS
  <1>10. Total(one, S) = left BY <1>8, <1>9, TotalCounts
  <1>11. PICK d : d = split_by(amount, w, S) OBVIOUS
  <1>12. PICK c \in Int : c = 1 OBVIOUS
  <1>13. ASSUME NEW i \in S PROVE share[i] \in Int /\ one[i] \in Int /\ d[i] = c * share[i] + one[i]
    <2>1. d[i] = share[i] + (IF rank[i] < left THEN 1 ELSE 0) BY <1>1, <1>3, <1>11 DEF Splits
    <2>2. share[i] \in Nat BY <1>1 DEF Splits
    <2>3. c * share[i] = share[i] BY <1>12, <2>2
    <2>4. one[i] = IF rank[i] < left THEN 1 ELSE 0 BY <1>7, <1>9
    <2> QED BY <2>1, <2>2, <2>3, <2>4
  <1>14. Total(d, S) = c * Total(share, S) + Total(one, S) BY <1>13, TotalPlus
  <1>15. PICK s \in Nat : s = Total(share, S) BY <1>1, TotalNatural DEF Splits
  <1>16. c * s = s BY <1>12
  <1>17. left = amount - s BY <1>1, <1>15 DEF Splits
  <1> QED BY <1>10, <1>11, <1>14, <1>15, <1>16, <1>17

-----------------------------------------------------------------------------
(***************************************************************************)
(* What reconcile makes of a book.                                         *)
(***************************************************************************)
Listings == [Packages -> [total : Nat, available : Nat, status : Statuses]]
Records == [total : Nat, available : Nat, status : Statuses, credit : Credits]
Assignments == [split : SUBSET Packages, owner : [Packages -> Users \cup {0}], exclusive : BOOLEAN]
Balances == [Users -> Int]

LEMMA FiniteUsers == ASSUME NEW M \in SUBSET Users PROVE IsFiniteSet(M) /\ M \subseteq Nat
  BY UsersAssumption, FS_Subset

LEMMA FinitePackages == ASSUME NEW S \in SUBSET Packages PROVE IsFiniteSet(S)
  BY PackagesAssumption, FS_Subset

LEMMA EvenType ==
    ASSUME NEW M \in SUBSET Users, NEW amount \in Nat
    PROVE  split_evenly(amount, M) \in [M -> Nat]
  <1>1. PICK w : w = [i \in M |-> 1] OBVIOUS
  <1>2. \A i \in M : w[i] \in Nat BY <1>1
  <1>3. split_by(amount, w, M) \in [M -> Nat] BY <1>2, FiniteUsers, SplitType
  <1> QED BY <1>1, <1>3 DEF split_evenly

LEMMA ObservedType ==
    ASSUME NEW b \in Books, NEW f \in Listings PROVE Observed(b, f) \in [Packages -> Records]
  <1>1. ASSUME NEW p \in Packages PROVE Observed(b, f)[p] \in Records
    <2>1. b.packages[p] \in Records BY DEF Books, Records
    <2>2. /\ f[p].total \in Nat /\ f[p].available \in Nat /\ f[p].status \in Statuses
      BY DEF Listings
    <2>3. CASE f[p].status # "absent" BY <2>1, <2>2, <2>3 DEF Observed, Records
    <2>4. CASE f[p].status = "absent" /\ effective(b.packages[p])
      BY <2>1, <2>4 DEF Observed, Records, Statuses
    <2>5. CASE f[p].status = "absent" /\ ~effective(b.packages[p])
      BY <2>1, <2>5 DEF Observed, Records
    <2> QED BY <2>3, <2>4, <2>5
  <1> QED BY <1>1 DEF Observed

LEMMA CreditType ==
    ASSUME NEW pkg \in [Packages -> Records], NEW p \in Packages, NEW M \in SUBSET Users,
           NEW asg \in Assignments
    PROVE  /\ NewCredit(pkg, p, M, asg) \in Credits
           /\ \A u \in Users : CreditShare(pkg, p, M, asg, u) \in Nat
  <1>1. NewCredit(pkg, p, M, asg) \in Credits BY DEF NewCredit, Credits
  <1>2. ASSUME NEW u \in Users PROVE CreditShare(pkg, p, M, asg, u) \in Nat
    <2>1. PICK t \in Nat : t = pkg[p].total BY DEF Records
    <2>2. PICK d \in [M -> Nat] : d = split_evenly(t, M) BY EvenType
    <2>3. CreditShare(pkg, p, M, asg, u)
            = CASE NewCredit(pkg, p, M, asg) = "user" /\ asg.owner[p] = u -> t
                [] NewCredit(pkg, p, M, asg) = "split" /\ u \in M -> d[u]
                [] OTHER -> 0
      BY <2>1, <2>2 DEF CreditShare
    <2>4. CASE NewCredit(pkg, p, M, asg) = "user" BY <2>3, <2>4
    <2>5. CASE NewCredit(pkg, p, M, asg) = "split" BY <2>3, <2>5
    <2>6. CASE NewCredit(pkg, p, M, asg) \notin {"user", "split"} BY <2>3, <2>6
    <2> QED BY <2>4, <2>5, <2>6
  <1> QED BY <1>1, <1>2

LEMMA AfterCreditsType ==
    ASSUME NEW b \in Books, NEW f \in Listings, NEW M \in SUBSET Users, NEW reading \in [M -> Nat],
           NEW asg \in Assignments
    PROVE  after_credits(b, f, reading, asg) \in Balances
  <1>1. PICK pkg \in [Packages -> Records] : pkg = Observed(b, f) BY ObservedType
  <1>2. DOMAIN reading = M OBVIOUS
  <1>3. ASSUME NEW u \in Users
        PROVE  Total([p \in Packages |-> CreditShare(pkg, p, M, asg, u)], Packages) \in Nat
    <2>1. PICK c : c = [p \in Packages |-> CreditShare(pkg, p, M, asg, u)] OBVIOUS
    <2>2. \A p \in Packages : c[p] \in Nat BY <2>1, CreditType
    <2> QED BY <2>1, <2>2, FinitePackages, TotalNatural
  <1>4. b.balances \in [Users -> Int] BY DEF Books
  <1> QED BY <1>1, <1>2, <1>3, <1>4 DEF after_credits, Balances

LEMMA LeftoverType ==
    ASSUME NEW b \in Books, NEW f \in Listings, NEW p \in Packages PROVE leftover(b, f, p) \in Nat
  <1>1. b.packages[p].available \in Nat BY DEF Books
  <1> QED BY <1>1 DEF leftover

LEMMA TrafficTypes ==
    ASSUME NEW b \in Books, NEW f \in Listings
    PROVE  added(b, f) \in Nat /\ gone(b, f) \in Nat /\ Remaining(f) \in Nat /\ consumed(b, f) \in Nat
  <1>1. added(b, f) \in Nat
    <2>1. PICK t : t = [p \in Packages |-> f[p].total] OBVIOUS
    <2>2. PICK S \in SUBSET Packages : S = {p \in Packages : effective(f[p]) /\ ~effective(b.packages[p])}
      OBVIOUS
    <2>3. \A p \in S : t[p] \in Nat BY <2>1 DEF Listings
    <2> QED BY <2>1, <2>2, <2>3, FinitePackages, TotalNatural DEF added
  <1>2. gone(b, f) \in Nat
    <2>1. PICK t : t = [p \in Packages |-> leftover(b, f, p)] OBVIOUS
    <2>2. PICK S \in SUBSET Packages : S = Lost(b, f) BY DEF Lost
    <2>3. \A p \in S : t[p] \in Nat BY <2>1, LeftoverType
    <2> QED BY <2>1, <2>2, <2>3, FinitePackages, TotalNatural DEF gone
  <1>3. Remaining(f) \in Nat
    <2>1. PICK t : t = [p \in Packages |-> f[p].available] OBVIOUS
    <2>2. PICK S \in SUBSET Packages : S = {p \in Packages : effective(f[p])} OBVIOUS
    <2>3. \A p \in S : t[p] \in Nat BY <2>1 DEF Listings
    <2> QED BY <2>1, <2>2, <2>3, FinitePackages, TotalNatural DEF Remaining
  <1>4. b.remaining \in Nat BY DEF Books
  <1> QED BY <1>1, <1>2, <1>3, <1>4 DEF consumed, Positive

LEMMA JoinFacts ==
    ASSUME NEW b \in Books, NEW M \in SUBSET Users, NEW reading \in [M -> Nat]
    PROVE  /\ join(b, reading) \in Books /\ join(b, reading).joined = b.joined \cup M
           /\ join(b, reading).balances = b.balances
           /\ join(b, reading).packages = b.packages /\ join(b, reading).migrated = b.migrated
           /\ join(b, reading).remaining = b.remaining
  <1>1. DOMAIN reading = M OBVIOUS
  <1>2. b.joined \cup M \in SUBSET Users BY DEF Books
  <1>3. PICK base : base = [u \in Users |-> IF u \in M \ b.joined THEN reading[u] ELSE b.baselines[u]]
    OBVIOUS
  <1>4. base \in [Users -> Nat] BY <1>3 DEF Books
  <1>5. join(b, reading) = [b EXCEPT !.joined = b.joined \cup M, !.baselines = base]
    BY <1>1, <1>3 DEF join, Books
  <1> QED BY <1>2, <1>4, <1>5 DEF Books

LEMMA JoinedBook ==
    ASSUME NEW b \in Books, NEW M \in SUBSET Users, NEW reading \in [M -> Nat]
    PROVE  \E j \in Books : /\ j = join(b, reading) /\ j.joined = b.joined \cup M
                            /\ j.balances = b.balances /\ j.packages = b.packages
                            /\ j.migrated = b.migrated /\ j.remaining = b.remaining
  <1>1. PICK j : j = join(b, reading) OBVIOUS
  <1>2. /\ j \in Books /\ j.joined = b.joined \cup M /\ j.balances = b.balances
        /\ j.packages = b.packages /\ j.migrated = b.migrated /\ j.remaining = b.remaining
    BY <1>1, JoinFacts
  <1> QED BY <1>1, <1>2

LEMMA MeteringType ==
    ASSUME NEW b \in Books, NEW M \in SUBSET Users, NEW reading \in [M -> Nat]
    PROVE  metering(b, reading) \in [M -> Nat]
  <1>1. PICK j \in Books : j = join(b, reading) BY JoinFacts
  <1>2. j.baselines \in [Users -> Nat] BY DEF Books
  <1>3. \A u \in M : Positive(reading[u] - j.baselines[u]) \in Nat
    <2> TAKE u \in M
    <2>1. reading[u] \in Nat /\ j.baselines[u] \in Nat BY <1>2
    <2> QED BY <2>1 DEF Positive
  <1> QED BY <1>1, <1>3 DEF metering

LEMMA AfterChargeType ==
    ASSUME NEW b \in Books, NEW f \in Listings, NEW M \in SUBSET Users, NEW reading \in [M -> Nat],
           NEW bal \in Balances
    PROVE  after_charge(b, f, reading, bal) \in Balances
  <1>1. PICK c \in Nat : c = consumed(b, f) BY TrafficTypes
  <1>2. PICK w \in [M -> Nat] : w = metering(b, reading) BY MeteringType
  <1>3. PICK d \in [M -> Nat] : d = split_by(c, w, M) BY FiniteUsers, SplitType
  <1>4. after_charge(b, f, reading, bal) = [u \in Users |-> IF u \in M THEN bal[u] - d[u] ELSE bal[u]]
    BY <1>1, <1>2, <1>3 DEF after_charge
  <1> QED BY <1>4 DEF Balances

LEMMA ForfeitType ==
    ASSUME NEW bal \in Balances, NEW amount \in Nat PROVE Forfeit(bal, amount) \in Balances
  <1>1. PICK H \in SUBSET Users : H = {u \in Users : bal[u] > 0} OBVIOUS
  <1>2. \A u \in H : bal[u] \in Nat BY <1>1 DEF Balances
  <1>3. PICK d \in [H -> Nat] : d = split_by(amount, bal, H) BY <1>2, FiniteUsers, SplitType
  <1>4. Forfeit(bal, amount) = [u \in Users |-> IF u \in H THEN bal[u] - d[u] ELSE bal[u]]
    BY <1>1, <1>3 DEF Forfeit
  <1> QED BY <1>4 DEF Balances

(* The forfeits, package after package. *)
Chain(b, f, bal, g) ==
    g = [p \in {0} \cup Packages |->
            IF p = 0 THEN bal
            ELSE IF p \in Forfeited(b, f) THEN Forfeit(g[p - 1], leftover(b, f, p)) ELSE g[p - 1]]

LEMMA ChainIs ==
    ASSUME NEW b, NEW f, NEW bal
    PROVE  after_forfeits(b, f, bal) = (CHOOSE g : Chain(b, f, bal, g))[Cardinality(Packages)]
  BY DEF after_forfeits, Chain

LEMMA PackageNumbers ==
    /\ Cardinality(Packages) \in Nat
    /\ {0} \cup Packages = 0..Cardinality(Packages)
    /\ \A p \in Packages : p \in Nat /\ p # 0 /\ p - 1 \in {0} \cup Packages
  <1>1. PICK n \in Nat : n = Cardinality(Packages) BY PackagesAssumption, FS_CardinalityType
  <1>2. Packages = 1..n BY <1>1, PackagesAssumption
  <1>3. {0} \cup (1..n) = 0..n OBVIOUS
  <1>4. \A p \in 1..n : p \in Nat /\ p # 0 /\ p - 1 \in 0..n OBVIOUS
  <1> QED BY <1>1, <1>2, <1>3, <1>4

LEMMA ChainExists ==
    ASSUME NEW b \in Books, NEW f \in Listings, NEW bal \in Balances
    PROVE  \E g \in [{0} \cup Packages -> Balances] : Chain(b, f, bal, g)
  <1>1. PICK n \in Nat : n = Cardinality(Packages) BY PackageNumbers
  <1>2. {0} \cup Packages = 0..n BY <1>1, PackageNumbers
  <1> DEFINE Right(g, p) == g[p] = IF p = 0 THEN bal
                                   ELSE IF p \in Forfeited(b, f) THEN Forfeit(g[p - 1], leftover(b, f, p))
                                   ELSE g[p - 1]
             P == {k \in Nat : \E g \in [0..n -> Balances] : \A p \in 0..n : p < k => Right(g, p)}
  <1>3. ASSUME NEW k \in Nat, \A j \in Nat : j < k => j \in P PROVE k \in P
    <2>1. CASE k = 0
      <3>1. PICK g : g = [p \in 0..n |-> bal] OBVIOUS
      <3>2. g \in [0..n -> Balances] BY <3>1
      <3>3. \A p \in 0..n : ~(p < k) BY <2>1
      <3> QED BY <3>2, <3>3
    <2>2. CASE k # 0
      <3>1. PICK j \in Nat : k = j + 1 BY <2>2
      <3>2. PICK g \in [0..n -> Balances] : \A p \in 0..n : p < j => Right(g, p)
        <4> HIDE DEF P, Right
        <4>1. j \in P BY <1>3, <3>1
        <4> QED BY <4>1 DEF P
      <3>3. PICK v : v = IF j = 0 THEN bal
                         ELSE IF j \in Forfeited(b, f) THEN Forfeit(g[j - 1], leftover(b, f, j))
                         ELSE g[j - 1]
        OBVIOUS
      <3>4. PICK h : h = [p \in 0..n |-> IF p = j THEN v ELSE g[p]] OBVIOUS
      <3>5. j \in 0..n => v \in Balances
        <4>1. CASE j = 0 BY <3>3, <4>1
        <4>2. CASE j # 0
          <5>1. SUFFICES ASSUME j \in 0..n PROVE v \in Balances OBVIOUS
          <5>2. j - 1 \in 0..n /\ j \in Packages BY <1>2, <4>2, <5>1
          <5>3. PICK old \in Balances : old = g[j - 1] BY <5>2
          <5>4. Forfeit(old, leftover(b, f, j)) \in Balances BY <5>2, LeftoverType, ForfeitType
          <5> QED BY <3>3, <4>2, <5>3, <5>4
        <4> QED BY <4>1, <4>2
      <3>6. h \in [0..n -> Balances] BY <3>4, <3>5
      <3>7. ASSUME NEW p \in 0..n, p < k PROVE Right(h, p)
        <4>1. p # 0 => p - 1 \in 0..n /\ h[p - 1] = g[p - 1] BY <3>1, <3>4, <3>7
        <4>2. CASE p = j
          <5>1. h[p] = v BY <3>4, <4>2
          <5> QED BY <3>3, <4>1, <4>2, <5>1
        <4>3. CASE p # j
          <5>1. p < j /\ h[p] = g[p] BY <3>1, <3>4, <3>7, <4>3
          <5>2. Right(g, p) BY <3>2, <5>1
          <5> QED BY <4>1, <5>1, <5>2
        <4> QED BY <4>2, <4>3
      <3> HIDE DEF Right
      <3> QED BY <3>6, <3>7
    <2> QED BY <2>1, <2>2
  <1> HIDE DEF P
  <1>4. Nat \subseteq P BY <1>3, NumberInduction
  <1>5. PICK m \in Nat : m = n + 1 OBVIOUS
  <1>6. PICK g \in [0..n -> Balances] : \A p \in 0..n : p < m => Right(g, p) BY <1>4 DEF P
  <1>7. \A p \in 0..n : Right(g, p) BY <1>5, <1>6
  <1>8. g = [p \in 0..n |-> IF p = 0 THEN bal
                            ELSE IF p \in Forfeited(b, f) THEN Forfeit(g[p - 1], leftover(b, f, p))
                            ELSE g[p - 1]]
    BY <1>7
  <1> QED BY <1>2, <1>8 DEF Chain

(* What every step of the forfeits keeps, the last balances have. *)
LEMMA ChainKeeps ==
    ASSUME NEW b \in Books, NEW f \in Listings, NEW bal \in Balances, NEW R, <<0, bal>> \in R,
           \A p \in Packages : \A old : <<p - 1, old>> \in R =>
               /\ p \in Forfeited(b, f) => <<p, Forfeit(old, leftover(b, f, p))>> \in R
               /\ p \notin Forfeited(b, f) => <<p, old>> \in R
    PROVE  <<Cardinality(Packages), after_forfeits(b, f, bal)>> \in R
  <1>1. PICK g : g = CHOOSE h : Chain(b, f, bal, h) OBVIOUS
  <1>2. Chain(b, f, bal, g) BY <1>1, ChainExists
  <1>3. PICK P : P = {k \in Nat : k \in {0} \cup Packages => <<k, g[k]>> \in R} OBVIOUS
  <1>4. ASSUME NEW k \in Nat, \A j \in Nat : j < k => j \in P PROVE k \in P
    <2>1. SUFFICES ASSUME k \in {0} \cup Packages PROVE <<k, g[k]>> \in R BY <1>3
    <2>2. g[k] = IF k = 0 THEN bal
                 ELSE IF k \in Forfeited(b, f) THEN Forfeit(g[k - 1], leftover(b, f, k)) ELSE g[k - 1]
      BY <1>2, <2>1 DEF Chain
    <2>3. CASE k = 0 BY <2>2, <2>3
    <2>4. CASE k # 0
      <3>1. k \in Packages /\ k - 1 \in Nat /\ k - 1 < k /\ k - 1 \in {0} \cup Packages
        BY <2>1, <2>4, PackageNumbers
      <3>2. PICK old : old = g[k - 1] OBVIOUS
      <3>3. <<k - 1, old>> \in R BY <1>3, <1>4, <3>1, <3>2
      <3>4. g[k] = IF k \in Forfeited(b, f) THEN Forfeit(old, leftover(b, f, k)) ELSE old
        BY <2>2, <2>4, <3>2
      <3> QED BY <3>1, <3>3, <3>4
    <2> QED BY <2>3, <2>4
  <1>5. Nat \subseteq P BY <1>4, NumberInduction
  <1>6. PICK n \in Nat : n = Cardinality(Packages) BY PackageNumbers
  <1>7. n \in {0} \cup Packages
    <2>1. n \in 0..n OBVIOUS
    <2> QED BY <1>6, <2>1, PackageNumbers
  <1>8. <<n, g[n]>> \in R BY <1>3, <1>5, <1>7
  <1>9. after_forfeits(b, f, bal) = g[n] BY <1>1, <1>6, ChainIs
  <1> QED BY <1>6, <1>8, <1>9

LEMMA AfterForfeitsType ==
    ASSUME NEW b \in Books, NEW f \in Listings, NEW bal \in Balances
    PROVE  after_forfeits(b, f, bal) \in Balances
  <1>1. PICK R : R = ({0} \cup Packages) \X Balances OBVIOUS
  <1>2. <<0, bal>> \in R BY <1>1
  <1>3. ASSUME NEW p \in Packages, NEW old, <<p - 1, old>> \in R
        PROVE  /\ <<p, Forfeit(old, leftover(b, f, p))>> \in R
               /\ <<p, old>> \in R
    <2>1. old \in Balances BY <1>1, <1>3
    <2>2. Forfeit(old, leftover(b, f, p)) \in Balances BY <2>1, LeftoverType, ForfeitType
    <2> QED BY <1>1, <2>1, <2>2
  <1>4. <<Cardinality(Packages), after_forfeits(b, f, bal)>> \in R BY <1>2, <1>3, ChainKeeps
  <1> QED BY <1>1, <1>4

LEMMA SettleType ==
    ASSUME NEW b \in Books, NEW f \in Listings, NEW M \in SUBSET Users, NEW reading \in [M -> Nat],
           NEW asg \in Assignments
    PROVE  settle(b, f, reading, asg) \in Books
  <1>1. DOMAIN reading = M OBVIOUS
  <1>2. PICK j \in Books : j = join(b, reading) /\ j.joined \in SUBSET Users
    BY JoinFacts DEF Books
  <1>3. PICK pkg \in [Packages -> Records] : pkg = Observed(b, f) BY ObservedType
  <1>4. PICK bal \in Balances : bal = after_forfeits(b, f,
            after_charge(b, f, reading, after_credits(b, f, reading, asg)))
    BY AfterCreditsType, AfterChargeType, AfterForfeitsType
  <1>5. PICK base \in [Users -> Nat] : base = [u \in Users |-> IF u \in M THEN reading[u] ELSE j.baselines[u]]
    BY <1>2 DEF Books
  <1>6. PICK pk : pk = [p \in Packages |->
            IF NewCredit(pkg, p, M, asg) = "none" THEN pkg[p]
            ELSE [pkg[p] EXCEPT !.credit = NewCredit(pkg, p, M, asg)]]
    OBVIOUS
  <1>7. pk \in [Packages -> Records]
    <2>1. ASSUME NEW p \in Packages PROVE pk[p] \in Records
      <3>1. NewCredit(pkg, p, M, asg) \in Credits BY CreditType
      <3>2. pkg[p] \in Records OBVIOUS
      <3> QED BY <1>6, <3>1, <3>2 DEF Records
    <2> QED BY <1>6, <2>1
  <1>8. PICK rem \in Nat, con \in Nat : rem = Remaining(f) /\ con = consumed(b, f) BY TrafficTypes
  <1>9. PICK met \in Nat : met = Total(metering(b, reading), M)
    <2>1. PICK w \in [M -> Nat] : w = metering(b, reading) BY MeteringType
    <2> QED BY <2>1, FiniteUsers, TotalNatural
  <1>10. PICK made : made = [j EXCEPT !.remaining = rem, !.consumed = con, !.metered = met, !.balances = bal,
                                      !.baselines = base, !.packages = pk]
    OBVIOUS
  <1>11. made \in Books BY <1>7, <1>10 DEF Books, Records, Balances
  <1>12. unallocated(made) \in Int
    <2>1. \A u \in made.joined : made.balances[u] \in Int BY <1>11 DEF Books
    <2>2. made.joined \in SUBSET Users /\ made.remaining \in Int BY <1>11 DEF Books
    <2>3. Total(made.balances, made.joined) \in Int BY <2>1, <2>2, FiniteUsers, TotalFacts
    <2> QED BY <2>2, <2>3 DEF unallocated
  <1>13. settle(b, f, reading, asg)
           = IF asg.exclusive /\ Cardinality(M) = 1
             THEN [made EXCEPT !.balances =
                     [u \in Users |-> IF u \in M THEN made.balances[u] + unallocated(made)
                                      ELSE made.balances[u]]]
             ELSE made
    BY <1>1, <1>2, <1>3, <1>4, <1>5, <1>6, <1>8, <1>9, <1>10 DEF settle, Books
  <1>14. PICK un \in Int : un = unallocated(made) BY <1>12
  <1>15. PICK all : all = [u \in Users |-> IF u \in M THEN made.balances[u] + un ELSE made.balances[u]]
    OBVIOUS
  <1>16. all \in [Users -> Int] BY <1>11, <1>15 DEF Books
  <1>17. [made EXCEPT !.balances = all] \in Books BY <1>11, <1>16 DEF Books
  <1> QED BY <1>11, <1>13, <1>14, <1>15, <1>17

CreditsKept(b, c) == \A p \in Packages : b.packages[p].credit # "none" => c.packages[p].credit # "none"

(* A snapshot leaves the credits alone, and only what the fetch lists can  *)
(* be effective in it.                                                     *)
LEMMA ObservedFacts ==
    ASSUME NEW b \in Books, NEW f \in Listings, NEW p \in Packages
    PROVE  /\ Observed(b, f)[p].credit = b.packages[p].credit
           /\ effective(Observed(b, f)[p]) <=> effective(f[p])
           /\ f[p].status # "absent" => /\ Observed(b, f)[p].total = f[p].total
                                        /\ Observed(b, f)[p].available = f[p].available
  <1>1. b.packages[p] \in Records BY DEF Books, Records
  <1>2. CASE f[p].status # "absent"
    <2>1. Observed(b, f)[p] = [total |-> f[p].total, available |-> f[p].available,
                               status |-> f[p].status, credit |-> b.packages[p].credit]
      BY <1>2 DEF Observed
    <2> QED BY <1>2, <2>1 DEF effective
  <1>3. CASE f[p].status = "absent" /\ effective(b.packages[p])
    <2>1. Observed(b, f)[p] = [b.packages[p] EXCEPT !.status = "Missing"] BY <1>3 DEF Observed
    <2>2. Observed(b, f)[p].status = "Missing" /\ Observed(b, f)[p].credit = b.packages[p].credit
      BY <1>1, <2>1 DEF Records
    <2> QED BY <1>3, <2>2 DEF effective
  <1>4. CASE f[p].status = "absent" /\ ~effective(b.packages[p])
    <2>1. Observed(b, f)[p] = b.packages[p] BY <1>4 DEF Observed
    <2> QED BY <1>4, <2>1 DEF effective
  <1> QED BY <1>2, <1>3, <1>4

LEMMA SettleCredits ==
    ASSUME NEW b \in Books, NEW f \in Listings, NEW M \in SUBSET Users, NEW reading \in [M -> Nat],
           NEW asg \in Assignments, NEW p \in Packages
    PROVE  /\ b.packages[p].credit # "none" => settle(b, f, reading, asg).packages[p].credit # "none"
           /\ NewCredit(Observed(b, f), p, M, asg) # "none" =>
                 /\ b.packages[p].credit = "none" /\ effective(f[p])
                 /\ settle(b, f, reading, asg).packages[p].credit # "none"
                 /\ Observed(b, f)[p].total = f[p].total
  <1>1. DOMAIN reading = M OBVIOUS
  <1>2. PICK pkg \in [Packages -> Records] : pkg = Observed(b, f) BY ObservedType
  <1>3. PICK c : c = NewCredit(pkg, p, M, asg) OBVIOUS
  <1>4. settle(b, f, reading, asg).packages[p] = IF c = "none" THEN pkg[p] ELSE [pkg[p] EXCEPT !.credit = c]
    <2>1. join(b, reading) \in Books BY JoinFacts
    <2> QED BY <1>1, <1>2, <1>3, <2>1 DEF settle, Books
  <1>5. pkg[p] \in Records /\ pkg[p].credit = b.packages[p].credit BY <1>2, ObservedFacts
  <1>6. c # "none" => pkg[p].credit = "none" /\ effective(pkg[p]) BY <1>3 DEF NewCredit
  <1>7. effective(pkg[p]) => effective(f[p]) /\ f[p].status # "absent" /\ pkg[p].total = f[p].total
    BY <1>2, ObservedFacts DEF effective
  <1>8. c # "none" => settle(b, f, reading, asg).packages[p].credit = c BY <1>4, <1>5 DEF Records
  <1>9. c = "none" => settle(b, f, reading, asg).packages[p].credit = pkg[p].credit BY <1>4
  <1> QED BY <1>2, <1>3, <1>5, <1>6, <1>7, <1>8, <1>9

LEMMA MigrateFacts ==
    ASSUME NEW b \in Books, NEW f \in Listings, NEW M \in SUBSET Users, NEW reading \in [M -> Nat],
           NEW off \in [M -> Nat]
    PROVE  migrate(b, f, reading, off) \in Books /\ CreditsKept(b, migrate(b, f, reading, off))
  <1>1. DOMAIN reading = M OBVIOUS
  <1>2. PICK rem \in Nat : rem = b.remaining BY DEF Books
  <1>3. PICK share \in [M -> Nat] :
           share = IF \E u \in M : off[u] > 0 THEN split_by(rem, off, M) ELSE split_evenly(rem, M)
    <2>1. split_by(rem, off, M) \in [M -> Nat] BY FiniteUsers, SplitType
    <2>2. split_evenly(rem, M) \in [M -> Nat] BY EvenType
    <2> QED BY <2>1, <2>2
  <1>. b.balances \in [Users -> Int] /\ b.baselines \in [Users -> Nat] BY DEF Books
  <1>4. PICK bal \in [Users -> Int] : bal = [u \in Users |-> IF u \in M THEN share[u] ELSE b.balances[u]]
    <2>1. \A u \in Users : (IF u \in M THEN share[u] ELSE b.balances[u]) \in Int
      <3> TAKE u \in Users
      <3>1. b.balances[u] \in Int OBVIOUS
      <3>2. u \in M => share[u] \in Int OBVIOUS
      <3> QED BY <3>1, <3>2
    <2> QED BY <2>1
  <1>5. PICK base \in [Users -> Nat] : base = [u \in Users |-> IF u \in M THEN reading[u] ELSE b.baselines[u]]
    OBVIOUS
  <1>6. PICK pk : pk = [p \in Packages |->
            IF f[p].status = "absent" THEN b.packages[p]
            ELSE [total |-> f[p].total, available |-> f[p].available,
                  status |-> f[p].status, credit |-> "migration"]]
    OBVIOUS
  <1>7. pk \in [Packages -> Records]
    <2>1. ASSUME NEW p \in Packages PROVE pk[p] \in Records
      <3>1. f[p].total \in Nat /\ f[p].available \in Nat /\ f[p].status \in Statuses BY DEF Listings
      <3>2. b.packages[p] \in Records BY DEF Books, Records
      <3> QED BY <1>6, <3>1, <3>2 DEF Records, Credits
    <2> QED BY <1>6, <2>1
  <1>8. migrate(b, f, reading, off)
          = [b EXCEPT !.migrated = TRUE, !.joined = b.joined \cup M, !.balances = bal,
                      !.baselines = base, !.packages = pk]
    BY <1>1, <1>2, <1>3, <1>4, <1>5, <1>6 DEF migrate, Books
  <1>9. b.joined \cup M \in SUBSET Users BY DEF Books
  <1>10. migrate(b, f, reading, off) \in Books BY <1>4, <1>5, <1>7, <1>8, <1>9 DEF Books, Records
  <1>11. migrate(b, f, reading, off).packages = pk BY <1>8 DEF Books
  <1>12. CreditsKept(b, migrate(b, f, reading, off)) BY <1>6, <1>11 DEF CreditsKept
  <1> QED BY <1>10, <1>12

(* What a sync enters in the ledger goes with a package not yet credited,  *)
(* which the new book has as credited, and is the package's total.         *)
LEMMA ReconcileFacts ==
    ASSUME NEW b \in Books, NEW f \in Listings, NEW M \in SUBSET Users, NEW reading \in [M -> Nat],
           NEW off \in [M -> Nat], NEW asg \in Assignments
    PROVE  /\ reconcile(b, f, reading, off, asg) \in Books
           /\ CreditsKept(b, reconcile(b, f, reading, off, asg))
           /\ \A p \in Packages :
                CreditEntry(b, f, reading, asg, p) # 0 =>
                  /\ CreditEntry(b, f, reading, asg, p) = f[p].total
                  /\ effective(f[p]) /\ b.packages[p].credit = "none"
                  /\ reconcile(b, f, reading, off, asg).packages[p].credit # "none"
  <1>1. DOMAIN reading = M OBVIOUS
  <1>2. CASE b.migrated
    <2>1. reconcile(b, f, reading, off, asg) = settle(b, f, reading, asg) BY <1>2 DEF reconcile
    <2>2. CreditsKept(b, settle(b, f, reading, asg)) BY SettleCredits DEF CreditsKept
    <2>3. ASSUME NEW p \in Packages, CreditEntry(b, f, reading, asg, p) # 0
          PROVE  /\ CreditEntry(b, f, reading, asg, p) = f[p].total
                 /\ effective(f[p]) /\ b.packages[p].credit = "none"
                 /\ settle(b, f, reading, asg).packages[p].credit # "none"
      <3>1. /\ NewCredit(Observed(b, f), p, M, asg) # "none"
            /\ CreditEntry(b, f, reading, asg, p) = Observed(b, f)[p].total
        BY <1>1, <2>3 DEF CreditEntry
      <3>2. /\ b.packages[p].credit = "none" /\ effective(f[p])
            /\ settle(b, f, reading, asg).packages[p].credit # "none"
            /\ Observed(b, f)[p].total = f[p].total
        BY <3>1, SettleCredits, SMTT(30)
      <3> QED BY <3>1, <3>2
    <2> QED BY <2>1, <2>2, <2>3, SettleType
  <1>3. CASE ~b.migrated
    <2>1. PICK n \in Nat : n = Remaining(f) BY TrafficTypes
    <2>2. PICK c : c = [b EXCEPT !.remaining = n, !.consumed = 0, !.metered = 0] OBVIOUS
    <2>3. c \in Books /\ c.packages = b.packages BY <2>2 DEF Books
    <2>4. reconcile(b, f, reading, off, asg) = migrate(c, f, reading, off)
      BY <1>3, <2>1, <2>2 DEF reconcile
    <2>5. CreditsKept(b, migrate(c, f, reading, off)) BY <2>3, MigrateFacts DEF CreditsKept
    <2>6. \A p \in Packages : CreditEntry(b, f, reading, asg, p) = 0 BY <1>3 DEF CreditEntry
    <2> QED BY <2>3, <2>4, <2>5, <2>6, MigrateFacts
  <1> QED BY <1>2, <1>3

\* The balances of b when u has given n to v.
Moved(b, u, v, n) ==
    [w \in Users |-> IF w = u THEN b.balances[u] - n ELSE IF w = v THEN b.balances[v] + n ELSE b.balances[w]]

LEMMA TransferFacts ==
    ASSUME NEW b \in Books, NEW M \in SUBSET Users, NEW reading \in [M -> Nat],
           NEW u \in Users, NEW v \in Users, u # v, NEW n \in Nat
    PROVE  /\ transfer(b, reading, u, v, n) \in Books
           /\ transfer(b, reading, u, v, n).packages = b.packages
           /\ transfer(b, reading, u, v, n).baselines = join(b, reading).baselines
           /\ transfer(b, reading, u, v, n).balances = Moved(b, u, v, n)
  <1>1. PICK j \in Books : /\ j = join(b, reading) /\ j.joined = b.joined \cup M
                           /\ j.balances = b.balances /\ j.packages = b.packages
                           /\ j.migrated = b.migrated /\ j.remaining = b.remaining
    BY JoinedBook
  <1>2. PICK bal : bal = Moved(b, u, v, n) OBVIOUS
  <1>3. j.balances \in [Users -> Int] BY DEF Books
  <1>4. bal \in [Users -> Int] BY <1>1, <1>2, <1>3 DEF Moved
  <1>5. transfer(b, reading, u, v, n) = [j EXCEPT !.balances = bal]
    <2>1. [[j.balances EXCEPT ![u] = @ - n] EXCEPT ![v] = @ + n] = bal BY <1>1, <1>2, <1>3 DEF Moved
    <2>2. transfer(b, reading, u, v, n)
            = [j EXCEPT !.balances = [[j.balances EXCEPT ![u] = @ - n] EXCEPT ![v] = @ + n]]
      BY <1>1 DEF transfer, Books
    <2> QED BY <2>1, <2>2
  <1>6. [j EXCEPT !.balances = bal] \in Books BY <1>4 DEF Books
  <1> QED BY <1>1, <1>2, <1>5, <1>6 DEF Books

LEMMA AllocateFacts ==
    ASSUME NEW b \in Books, NEW M \in SUBSET Users, NEW reading \in [M -> Nat],
           NEW S \in SUBSET Users, NEW n \in Nat
    PROVE  /\ allocate(b, reading, S, n) \in Books
           /\ allocate(b, reading, S, n).packages = b.packages
           /\ \A u \in Users : allocate(b, reading, S, n).balances[u] >= b.balances[u]
  <1>1. PICK j \in Books : /\ j = join(b, reading) /\ j.joined = b.joined \cup M
                           /\ j.balances = b.balances /\ j.packages = b.packages
                           /\ j.migrated = b.migrated /\ j.remaining = b.remaining
    BY JoinedBook
  <1>2. PICK share \in [S -> Nat] : share = split_evenly(n, S) BY EvenType
  <1>3. PICK bal : bal = [u \in Users |-> IF u \in S THEN b.balances[u] + share[u] ELSE b.balances[u]]
    OBVIOUS
  <1>4. b.balances \in [Users -> Int] BY DEF Books
  <1>5. bal \in [Users -> Int] /\ \A u \in Users : bal[u] >= b.balances[u] BY <1>3, <1>4
  <1>6. allocate(b, reading, S, n) = [j EXCEPT !.balances = bal]
    BY <1>1, <1>2, <1>3 DEF allocate, Books
  <1>7. [j EXCEPT !.balances = bal] \in Books BY <1>5 DEF Books
  <1> QED BY <1>1, <1>5, <1>6, <1>7 DEF Books

-----------------------------------------------------------------------------
(***************************************************************************)
(* Where every byte of a sync goes.                                        *)
(***************************************************************************)
LEMMA SplitSum ==
    ASSUME NEW M \in SUBSET Users, NEW w, \A i \in M : w[i] \in Nat, NEW amount \in Nat,
           Total(w, M) # 0 \/ amount = 0
    PROVE  Total(split_by(amount, w, M), M) = amount
  <1>1. IsFiniteSet(M) /\ M \subseteq Nat BY FiniteUsers
  <1>2. CASE Total(w, M) # 0 BY <1>1, <1>2, SplitIsExact
  <1>3. CASE Total(w, M) = 0
    <2>1. PICK d : d = split_by(amount, w, M) OBVIOUS
    <2>2. \A i \in M : d[i] = 0 BY <1>3, <2>1 DEF split_by
    <2>3. Total(d, M) = 0 BY <1>1, <2>2, TotalZero
    <2> QED BY <1>3, <2>1, <2>3
  <1> QED BY <1>2, <1>3

LEMMA EvenSum ==
    ASSUME NEW M \in SUBSET Users, M # {}, NEW amount \in Nat
    PROVE  Total(split_evenly(amount, M), M) = amount
  <1>1. PICK w : w = [i \in M |-> 1] OBVIOUS
  <1>2. IsFiniteSet(M) BY FiniteUsers
  <1>3. PICK A \in SUBSET M : A = M OBVIOUS
  <1>4. \A i \in M : w[i] = IF i \in A THEN 1 ELSE 0 BY <1>1, <1>3
  <1>5. Total(w, M) = Cardinality(A) BY <1>2, <1>4, TotalCounts
  <1>6. Cardinality(M) # 0 BY <1>2, FS_EmptySet
  <1>7. \A i \in M : w[i] \in Nat BY <1>1
  <1>8. Total(split_by(amount, w, M), M) = amount BY <1>3, <1>5, <1>6, <1>7, SplitSum
  <1> QED BY <1>1, <1>8 DEF split_evenly

\* What the users get of package p together.
Credit(pkg, p, M, asg) == IF NewCredit(pkg, p, M, asg) # "none" THEN pkg[p].total ELSE 0

LEMMA CreditSum ==
    ASSUME NEW pkg \in [Packages -> Records], NEW p \in Packages, NEW M \in SUBSET Users,
           NEW asg \in Assignments
    PROVE  Total([u \in Users |-> CreditShare(pkg, p, M, asg, u)], Users) = Credit(pkg, p, M, asg)
  <1>1. PICK t \in Nat : t = pkg[p].total BY DEF Records
  <1>2. PICK c : c = [u \in Users |-> CreditShare(pkg, p, M, asg, u)] OBVIOUS
  <1>3. PICK k : k = NewCredit(pkg, p, M, asg) OBVIOUS
  <1>4. PICK d \in [M -> Nat] : d = split_evenly(t, M) BY EvenType
  <1>5. ASSUME NEW u \in Users
        PROVE  c[u] = CASE k = "user" /\ asg.owner[p] = u -> t
                        [] k = "split" /\ u \in M -> d[u]
                        [] OTHER -> 0
    BY <1>1, <1>2, <1>3, <1>4 DEF CreditShare
  <1>6. IsFiniteSet(Users) BY UsersAssumption
  <1>7. k \in {"none", "user", "split"} /\ (k = "user" => asg.owner[p] \in M) /\ (k = "split" => M # {})
    BY <1>3 DEF NewCredit
  <1>8. CASE k = "none"
    <2>1. \A u \in Users : c[u] = 0 BY <1>5, <1>8
    <2>2. Total(c, Users) = 0 BY <1>6, <2>1, TotalZero
    <2> QED BY <1>2, <1>3, <1>8, <2>2 DEF Credit
  <1>9. CASE k = "user"
    <2>1. PICK o \in Users : o = asg.owner[p] BY <1>7, <1>9
    <2>2. \A u \in Users : c[u] = IF u = o THEN t ELSE 0 BY <1>5, <1>9, <2>1
    <2>3. \A u \in Users : c[u] \in Int BY <2>2
    <2>4. Total(c, Users) = c[o] + Total(c, Users \ {o}) BY <1>6, <2>3, TotalWithout
    <2>5. IsFiniteSet(Users \ {o}) /\ \A u \in Users \ {o} : c[u] = 0 BY <1>6, <2>2, FS_Subset
    <2>6. Total(c, Users \ {o}) = 0 BY <2>5, TotalZero
    <2>7. Total(c, Users) = t BY <2>2, <2>4, <2>6
    <2> QED BY <1>1, <1>2, <1>3, <1>9, <2>7 DEF Credit
  <1>10. CASE k = "split"
    <2>1. \A u \in Users : c[u] = IF u \in M THEN d[u] ELSE 0 BY <1>5, <1>10
    <2>2. (\A u \in Users : c[u] \in Int) /\ (\A u \in Users \ M : c[u] = 0) BY <2>1
    <2>3. Total(c, Users) = Total(c, M) BY <1>6, <2>2, TotalExtend
    <2>4. IsFiniteSet(M) /\ \A u \in M : d[u] \in Int /\ c[u] = d[u] BY <2>1, FiniteUsers
    <2>5. Total(c, M) = Total(d, M) BY <2>4, TotalEqual
    <2>6. Total(d, M) = t BY <1>4, <1>7, <1>10, EvenSum
    <2> QED BY <1>1, <1>2, <1>3, <1>10, <2>3, <2>5, <2>6 DEF Credit
  <1> QED BY <1>7, <1>8, <1>9, <1>10

LEMMA CreditsSum ==
    ASSUME NEW b \in Books, NEW f \in Listings, NEW M \in SUBSET Users, NEW reading \in [M -> Nat],
           NEW asg \in Assignments, NEW paid,
           \A p \in Packages : paid[p] = Credit(Observed(b, f), p, M, asg)
    PROVE  Total(after_credits(b, f, reading, asg), Users) = Total(b.balances, Users) + Total(paid, Packages)
  <1>1. PICK pkg \in [Packages -> Records] : pkg = Observed(b, f) BY ObservedType
  <1>2. DOMAIN reading = M OBVIOUS
  <1>3. PICK h : h = [u \in Users |-> [p \in Packages |-> CreditShare(pkg, p, M, asg, u)]] OBVIOUS
  <1>4. PICK row : row = [u \in Users |-> Total(h[u], Packages)] OBVIOUS
  <1>5. PICK after : after = after_credits(b, f, reading, asg) OBVIOUS
  <1>6. after = [u \in Users |-> b.balances[u] + row[u]] BY <1>1, <1>2, <1>3, <1>4, <1>5 DEF after_credits
  <1>7. IsFiniteSet(Users) /\ IsFiniteSet(Packages) BY UsersAssumption, PackagesAssumption
  <1>8. \A u \in Users : \A p \in Packages : h[u][p] \in Int BY <1>3, CreditType
  <1>9. \A u \in Users : row[u] = Total(h[u], Packages) BY <1>4
  <1>10. ASSUME NEW p \in Packages PROVE paid[p] = Column(h, Users, p)
    <2>1. [u \in Users |-> h[u][p]] = [u \in Users |-> CreditShare(pkg, p, M, asg, u)] BY <1>3
    <2> QED BY <1>1, <2>1, CreditSum DEF Column
  <1>11. Total(row, Users) = Total(paid, Packages) BY ONLY <1>7, <1>8, <1>9, <1>10, TotalSwap, SMTT(40)
  <1>12. ASSUME NEW u \in Users PROVE b.balances[u] \in Int /\ row[u] \in Int /\ after[u] = b.balances[u] + row[u]
    <2>1. PICK r : r = h[u] OBVIOUS
    <2>2. \A p \in Packages : r[p] \in Int BY <1>8, <2>1
    <2>3. Total(r, Packages) \in Int BY <1>7, <2>2, TotalFacts
    <2> QED BY <1>4, <1>6, <2>1, <2>3 DEF Books
  <1>13. PICK bal : bal = b.balances OBVIOUS
  <1>14. Total(after, Users) = Total(bal, Users) + Total(row, Users) BY <1>7, <1>12, <1>13, TotalSum
  <1> QED BY <1>5, <1>11, <1>13, <1>14

LEMMA ChargeSum ==
    ASSUME NEW b \in Books, NEW f \in Listings, NEW M \in SUBSET Users, NEW reading \in [M -> Nat],
           NEW bal \in Balances, Total(metering(b, reading), M) # 0 \/ consumed(b, f) = 0
    PROVE  Total(after_charge(b, f, reading, bal), Users) = Total(bal, Users) - consumed(b, f)
  <1>1. PICK c \in Nat : c = consumed(b, f) BY TrafficTypes
  <1>2. PICK w \in [M -> Nat] : w = metering(b, reading) BY MeteringType
  <1>3. PICK d \in [M -> Nat] : d = split_by(c, w, M) BY FiniteUsers, SplitType
  <1>4. PICK after : after = after_charge(b, f, reading, bal) OBVIOUS
  <1>5. after = [u \in Users |-> IF u \in M THEN bal[u] - d[u] ELSE bal[u]]
    BY <1>1, <1>2, <1>3, <1>4 DEF after_charge
  <1>6. IsFiniteSet(Users) BY UsersAssumption
  <1>7. PICK e : e = Within(d, M, Users) OBVIOUS
  <1>8. ASSUME NEW u \in Users PROVE bal[u] \in Int /\ e[u] \in Int /\ after[u] = bal[u] - e[u]
    <2>1. bal[u] \in Int BY DEF Balances
    <2>2. e[u] = IF u \in M THEN d[u] ELSE 0 BY <1>7 DEF Within
    <2>3. u \in M => d[u] \in Nat OBVIOUS
    <2> QED BY <1>5, <2>1, <2>2, <2>3
  <1>9. Total(after, Users) = Total(bal, Users) - Total(e, Users) BY <1>6, <1>8, TotalLess
  <1>10. \A u \in M : d[u] \in Int OBVIOUS
  <1>11. Total(e, Users) = Total(d, M) BY <1>6, <1>7, <1>10, TotalWithin
  <1>12. Total(w, M) # 0 \/ c = 0 BY <1>1, <1>2
  <1>13. Total(d, M) = c BY <1>3, <1>12, SplitSum
  <1> QED BY <1>1, <1>4, <1>9, <1>11, <1>13

LEMMA ForfeitSum ==
    ASSUME NEW bal \in Balances, NEW amount \in Nat
    PROVE  /\ \A u \in Users : /\ Forfeit(bal, amount)[u] <= bal[u]
                               /\ bal[u] = 0 => Forfeit(bal, amount)[u] = 0
           /\ (\E u \in Users : bal[u] > 0)
                => Total(Forfeit(bal, amount), Users) = Total(bal, Users) - amount
  <1>1. PICK H \in SUBSET Users : H = {u \in Users : bal[u] > 0} OBVIOUS
  <1>2. \A u \in H : bal[u] \in Nat BY <1>1 DEF Balances
  <1>3. PICK d \in [H -> Nat] : d = split_by(amount, bal, H) BY <1>2, FiniteUsers, SplitType
  <1>4. PICK after : after = Forfeit(bal, amount) OBVIOUS
  <1>5. after = [u \in Users |-> IF u \in H THEN bal[u] - d[u] ELSE bal[u]]
    BY <1>1, <1>3, <1>4 DEF Forfeit
  <1>6. IsFiniteSet(Users) /\ IsFiniteSet(H) BY UsersAssumption, FiniteUsers
  <1>7. PICK e : e = Within(d, H, Users) OBVIOUS
  <1>8. ASSUME NEW u \in Users
        PROVE  /\ bal[u] \in Int /\ e[u] \in Int /\ after[u] = bal[u] - e[u]
               /\ after[u] <= bal[u] /\ (bal[u] = 0 => after[u] = 0)
    <2>1. bal[u] \in Int BY DEF Balances
    <2>2. e[u] = IF u \in H THEN d[u] ELSE 0 BY <1>7 DEF Within
    <2>3. u \in H => d[u] \in Nat OBVIOUS
    <2>4. after[u] = IF u \in H THEN bal[u] - d[u] ELSE bal[u] BY <1>5
    <2>5. u \in H <=> bal[u] > 0 BY <1>1
    <2> QED BY <2>1, <2>2, <2>3, <2>4, <2>5
  <1>9. ASSUME NEW v \in Users, bal[v] > 0 PROVE Total(after, Users) = Total(bal, Users) - amount
    <2>1. Total(after, Users) = Total(bal, Users) - Total(e, Users) BY <1>6, <1>8, TotalLess
    <2>2. \A u \in H : d[u] \in Int OBVIOUS
    <2>3. Total(e, Users) = Total(d, H) BY <1>6, <1>7, <2>2, TotalWithin
    <2>4. Total(bal, H) \in Nat /\ bal[v] <= Total(bal, H) BY <1>1, <1>2, <1>6, <1>9, TotalNatural
    <2>5. Total(bal, H) # 0
      <3>1. bal[v] \in Int BY DEF Balances
      <3> QED BY <1>9, <2>4, <3>1
    <2>6. Total(d, H) = amount BY <1>2, <1>3, <2>5, SplitSum
    <2> QED BY <2>1, <2>3, <2>6
  <1> QED BY <1>4, <1>8, <1>9

\* The balances after the forfeits up to package k: none has risen, none has
\* appeared from nowhere, and while someone has something they are down by
\* what was forfeited.
ForfeitedSoFar(b, f, bal, taken, k, old) ==
    /\ \A u \in Users : old[u] <= bal[u] /\ (bal[u] = 0 => old[u] = 0)
    /\ (\E u \in Users : old[u] > 0) =>
          Total(old, Users) = Total(bal, Users) - Total(taken, {p \in Forfeited(b, f) : p <= k})

LEMMA ForfeitsSum ==
    ASSUME NEW b \in Books, NEW f \in Listings, NEW bal \in Balances,
           NEW taken, \A p \in Packages : taken[p] = leftover(b, f, p)
    PROVE  /\ \A u \in Users : bal[u] = 0 => after_forfeits(b, f, bal)[u] = 0
           /\ (\E u \in Users : after_forfeits(b, f, bal)[u] > 0) =>
                 Total(after_forfeits(b, f, bal), Users) = Total(bal, Users) - Total(taken, Forfeited(b, f))
  <1>1. PICK F \in SUBSET Packages : F = Forfeited(b, f) BY DEF Forfeited, Lost
  <1>2. PICK R : R = {r \in ({0} \cup Packages) \X Balances : ForfeitedSoFar(b, f, bal, taken, r[1], r[2])}
    OBVIOUS
  <1>3. \A k : \A old : <<k, old>> \in R <=>
           /\ k \in {0} \cup Packages /\ old \in Balances
           /\ \A u \in Users : old[u] <= bal[u] /\ (bal[u] = 0 => old[u] = 0)
           /\ (\E u \in Users : old[u] > 0) =>
                 Total(old, Users) = Total(bal, Users) - Total(taken, {p \in F : p <= k})
    <2> TAKE k, old
    <2>1. <<k, old>> \in R <=> /\ k \in {0} \cup Packages /\ old \in Balances
                              /\ ForfeitedSoFar(b, f, bal, taken, k, old)
      BY <1>2
    <2> QED BY <1>1, <2>1 DEF ForfeitedSoFar
  <1>4. /\ \A u \in Users : bal[u] \in Int
        /\ \A p \in Packages : p \in Nat /\ p # 0 /\ taken[p] \in Nat
        /\ Total(bal, Users) \in Int
    <2>1. \A u \in Users : bal[u] \in Int BY DEF Balances
    <2>2. \A p \in Packages : taken[p] \in Nat BY LeftoverType
    <2>3. Total(bal, Users) \in Int BY <2>1, UsersAssumption, TotalFacts
    <2> QED BY <2>1, <2>2, <2>3, PackageNumbers
  <1>5. <<0, bal>> \in R
    <2>1. \A p \in F : p \in Nat /\ p # 0 BY <1>4
    <2>2. {p \in F : p <= 0} = {} BY <2>1
    <2>3. IsFiniteSet({}) BY FS_EmptySet
    <2>4. Total(taken, {}) = 0 BY <2>3, TotalFacts
    <2>5. Total(bal, Users) = Total(bal, Users) - 0 BY <1>4
    <2>6. \A u \in Users : bal[u] <= bal[u] BY <1>4
    <2> QED BY <1>3, <2>2, <2>4, <2>5, <2>6
  <1>6. ASSUME NEW p \in Packages, NEW old, <<p - 1, old>> \in R
        PROVE  /\ p \in F => <<p, Forfeit(old, leftover(b, f, p))>> \in R
               /\ p \notin F => <<p, old>> \in R
    <2>1. PICK j \in Nat : j = p - 1 /\ p = j + 1 /\ p \in Nat BY <1>4
    <2>2. /\ old \in Balances
          /\ \A u \in Users : old[u] <= bal[u] /\ (bal[u] = 0 => old[u] = 0)
          /\ (\E u \in Users : old[u] > 0) =>
                Total(old, Users) = Total(bal, Users) - Total(taken, {q \in F : q <= j})
      <3>1. <<j, old>> \in R BY <1>6, <2>1
      <3> QED BY <1>3, <3>1
    <2>3. PICK T \in SUBSET F : T = {q \in F : q <= j} OBVIOUS
    <2>4. IsFiniteSet(T) /\ p \notin T /\ \A q \in T : taken[q] \in Int
      BY <1>4, <2>1, <2>3, FinitePackages
    <2>5. PICK s \in Int : s = Total(taken, T) BY <2>4, TotalFacts
    <2>6. \A q \in F : q <= p <=> (q <= j \/ q = p) BY <1>4, <2>1
    <2>7. CASE p \in F
      <3>1. PICK n \in Nat : n = leftover(b, f, p) /\ n = taken[p] BY <1>4, LeftoverType
      <3>2. {q \in F : q <= p} = T \cup {p} BY <2>3, <2>6, <2>7
      <3>3. Total(taken, T \cup {p}) = n + s
        <4>1. \A q \in T \cup {p} : taken[q] \in Int BY <2>4, <3>1
        <4> QED BY <2>4, <2>5, <3>1, <4>1, TotalAdd
      <3>4. PICK new \in Balances : new = Forfeit(old, n) BY <2>2, ForfeitType
      <3>5. /\ \A u \in Users : new[u] <= old[u] /\ (old[u] = 0 => new[u] = 0)
            /\ (\E u \in Users : old[u] > 0) => Total(new, Users) = Total(old, Users) - n
        BY <2>2, <3>4, ForfeitSum
      <3>6. \A u \in Users : new[u] \in Int /\ old[u] \in Int BY <2>2 DEF Balances
      <3>7. \A u \in Users : new[u] <= bal[u] /\ (bal[u] = 0 => new[u] = 0)
        BY <1>4, <2>2, <3>5, <3>6
      <3>8. ASSUME \E u \in Users : new[u] > 0
            PROVE  Total(new, Users) = Total(bal, Users) - Total(taken, {q \in F : q <= p})
        <4>1. \E u \in Users : old[u] > 0 BY <3>5, <3>6, <3>8
        <4>2. Total(old, Users) = Total(bal, Users) - s BY <2>2, <2>3, <2>5, <4>1
        <4>3. Total(new, Users) = Total(old, Users) - n BY <3>5, <4>1
        <4>4. Total(bal, Users) - s - n = Total(bal, Users) - (n + s) BY <1>4
        <4> QED BY <3>2, <3>3, <4>2, <4>3, <4>4
      <3>9. <<p, new>> \in R BY <1>3, <3>7, <3>8
      <3> QED BY <2>7, <3>1, <3>4, <3>9
    <2>8. CASE p \notin F
      <3>1. {q \in F : q <= p} = T BY <2>3, <2>6, <2>8
      <3>2. <<p, old>> \in R BY <1>3, <2>2, <2>3, <3>1
      <3> QED BY <2>8, <3>2
    <2> QED BY <2>7, <2>8
  <1>7. PICK final : final = after_forfeits(b, f, bal) OBVIOUS
  <1>8. PICK n \in Nat : n = Cardinality(Packages) /\ {0} \cup Packages = 0..n BY PackageNumbers
  <1>9. <<n, final>> \in R
    <2>1. <<Cardinality(Packages), after_forfeits(b, f, bal)>> \in R BY <1>1, <1>5, <1>6, ChainKeeps
    <2> QED BY <1>7, <1>8, <2>1
  <1>10. {p \in F : p <= n} = F BY <1>8
  <1>11. /\ \A u \in Users : bal[u] = 0 => final[u] = 0
         /\ (\E u \in Users : final[u] > 0) =>
               Total(final, Users) = Total(bal, Users) - Total(taken, F)
    BY <1>3, <1>9, <1>10
  <1> QED BY <1>1, <1>7, <1>11

(* No clamping: with every effective package at or below what the book has *)
(* of it, what is consumed is the whole difference.                        *)
LEMMA TrafficBalance ==
    ASSUME NEW b \in Books, NEW f \in Listings, b.remaining = Remaining(b.packages),
           \A p \in Packages : effective(f[p]) =>
               /\ f[p].available <= f[p].total
               /\ effective(b.packages[p]) => f[p].available <= b.packages[p].available
    PROVE  consumed(b, f) = b.remaining + added(b, f) - gone(b, f) - Remaining(f)
  <1>1. IsFiniteSet(Packages) BY PackagesAssumption
  <1>2. PICK E \in SUBSET Packages, G \in SUBSET Packages :
           E = {p \in Packages : effective(f[p])} /\ G = {p \in Packages : effective(b.packages[p])}
    OBVIOUS
  <1>3. PICK N \in SUBSET Packages, L \in SUBSET Packages : N = E \ G /\ L = G \ E OBVIOUS
  <1>4. PICK had : had = [p \in Packages |-> b.packages[p].available] OBVIOUS
  <1>5. PICK new : new = [p \in Packages |-> f[p].total] OBVIOUS
  <1>6. PICK lost : lost = [p \in Packages |-> leftover(b, f, p)] OBVIOUS
  <1>7. PICK has : has = [p \in Packages |-> f[p].available] OBVIOUS
  <1>8. ASSUME NEW p \in Packages
        PROVE  /\ had[p] \in Nat /\ new[p] \in Nat /\ lost[p] \in Nat /\ has[p] \in Nat
               /\ lost[p] <= had[p]
               /\ p \in E => has[p] <= new[p] /\ (p \in G => has[p] <= had[p])
    <2>1. had[p] \in Nat BY <1>4 DEF Books
    <2>2. new[p] \in Nat /\ has[p] \in Nat BY <1>5, <1>7 DEF Listings
    <2>3. lost[p] \in Nat BY <1>6, LeftoverType
    <2>4. lost[p] = 0 \/ lost[p] = had[p] BY <1>4, <1>6 DEF leftover
    <2>5. p \in E => has[p] <= new[p] /\ (p \in G => has[p] <= had[p])
      BY <1>2, <1>4, <1>5, <1>7
    <2> QED BY <2>1, <2>2, <2>3, <2>4, <2>5
  <1>9. b.remaining = Total(had, G) BY <1>2, <1>4 DEF Remaining
  <1>10. added(b, f) = Total(new, N) 
    <2>1. N = {p \in Packages : effective(f[p]) /\ ~effective(b.packages[p])} BY <1>2, <1>3
    <2> QED BY <1>5, <2>1 DEF added
  <1>11. gone(b, f) = Total(lost, L)
    <2>1. L = Lost(b, f) BY <1>2, <1>3 DEF Lost
    <2> QED BY <1>6, <2>1 DEF gone
  <1>12. Remaining(f) = Total(has, E) BY <1>2, <1>7 DEF Remaining
  <1>13. PICK a, c, d, e : /\ a = Within(had, G, Packages) /\ c = Within(new, N, Packages)
                           /\ d = Within(lost, L, Packages) /\ e = Within(has, E, Packages)
    OBVIOUS
  <1>14. /\ Total(a, Packages) = b.remaining /\ Total(c, Packages) = added(b, f)
         /\ Total(d, Packages) = gone(b, f) /\ Total(e, Packages) = Remaining(f)
    <2>1. /\ \A p \in G : had[p] \in Int
          /\ \A p \in N : new[p] \in Int
          /\ \A p \in L : lost[p] \in Int
          /\ \A p \in E : has[p] \in Int
      BY <1>8
    <2>2. Total(a, Packages) = Total(had, G) BY <1>1, <1>13, <2>1, TotalWithin
    <2>3. Total(c, Packages) = Total(new, N) BY <1>1, <1>13, <2>1, TotalWithin
    <2>4. Total(d, Packages) = Total(lost, L) BY <1>1, <1>13, <2>1, TotalWithin
    <2>5. Total(e, Packages) = Total(has, E) BY <1>1, <1>13, <2>1, TotalWithin
    <2> QED BY <1>9, <1>10, <1>11, <1>12, <2>2, <2>3, <2>4, <2>5
  <1>15. PICK x : x = [p \in Packages |-> a[p] + c[p]] OBVIOUS
  <1>16. PICK y : y = [p \in Packages |-> x[p] - d[p]] OBVIOUS
  <1>17. PICK z : z = [p \in Packages |-> y[p] - e[p]] OBVIOUS
  <1>18. ASSUME NEW p \in Packages
         PROVE  /\ a[p] \in Int /\ c[p] \in Int /\ d[p] \in Int /\ e[p] \in Int
                /\ x[p] \in Int /\ x[p] = a[p] + c[p]
                /\ y[p] \in Int /\ y[p] = x[p] - d[p]
                /\ z[p] \in Nat /\ z[p] = y[p] - e[p]
    <2>1. /\ a[p] = (IF p \in G THEN had[p] ELSE 0) /\ c[p] = (IF p \in N THEN new[p] ELSE 0)
          /\ d[p] = (IF p \in L THEN lost[p] ELSE 0) /\ e[p] = (IF p \in E THEN has[p] ELSE 0)
      BY <1>13 DEF Within
    <2>2. x[p] = a[p] + c[p] /\ y[p] = x[p] - d[p] /\ z[p] = y[p] - e[p] BY <1>15, <1>16, <1>17
    <2>3. (p \in N <=> (p \in E /\ p \notin G)) /\ (p \in L <=> (p \in G /\ p \notin E)) BY <1>3
    <2>4. /\ had[p] \in Nat /\ new[p] \in Nat /\ lost[p] \in Nat /\ has[p] \in Nat
          /\ lost[p] <= had[p]
          /\ p \in E => has[p] <= new[p] /\ (p \in G => has[p] <= had[p])
      BY <1>8
    <2>5. CASE p \in E /\ p \in G
      <3>1. a[p] = had[p] /\ c[p] = 0 /\ d[p] = 0 /\ e[p] = has[p] BY <2>1, <2>3, <2>5
      <3> QED BY <2>2, <2>4, <2>5, <3>1
    <2>6. CASE p \in E /\ p \notin G
      <3>1. a[p] = 0 /\ c[p] = new[p] /\ d[p] = 0 /\ e[p] = has[p] BY <2>1, <2>3, <2>6
      <3> QED BY <2>2, <2>4, <2>6, <3>1
    <2>7. CASE p \notin E /\ p \in G
      <3>1. a[p] = had[p] /\ c[p] = 0 /\ d[p] = lost[p] /\ e[p] = 0 BY <2>1, <2>3, <2>7
      <3> QED BY <2>2, <2>4, <2>7, <3>1
    <2>8. CASE p \notin E /\ p \notin G
      <3>1. a[p] = 0 /\ c[p] = 0 /\ d[p] = 0 /\ e[p] = 0 BY <2>1, <2>3, <2>8
      <3> QED BY <2>2, <3>1
    <2> QED BY <2>5, <2>6, <2>7, <2>8
  <1>19. Total(x, Packages) = Total(a, Packages) + Total(c, Packages) BY <1>1, <1>18, TotalSum
  <1>20. Total(y, Packages) = Total(x, Packages) - Total(d, Packages) BY <1>1, <1>18, TotalLess
  <1>21. Total(z, Packages) = Total(y, Packages) - Total(e, Packages) BY <1>1, <1>18, TotalLess
  <1>22. Total(z, Packages) \in Nat BY <1>1, <1>18, TotalNatural
  <1>23. Total(z, Packages) = b.remaining + added(b, f) - gone(b, f) - Remaining(f)
    <2>1. PICK ta \in Int, tc \in Int, td \in Int, te \in Int :
             /\ ta = Total(a, Packages) /\ tc = Total(c, Packages)
             /\ td = Total(d, Packages) /\ te = Total(e, Packages)
      BY <1>1, <1>18, TotalFacts
    <2>2. PICK tx, ty, tz : tx = Total(x, Packages) /\ ty = Total(y, Packages) /\ tz = Total(z, Packages)
      OBVIOUS
    <2>3. tx = ta + tc /\ ty = tx - td /\ tz = ty - te BY <1>19, <1>20, <1>21, <2>1, <2>2
    <2>4. tz = ta + tc - td - te BY <2>3
    <2> QED BY <1>14, <2>1, <2>2, <2>4
  <1> QED BY <1>22, <1>23 DEF consumed, Positive

\* The balances that settle ends with, before the sweep of single-user mode.
settled(b, f, reading, asg) ==
    after_forfeits(b, f, after_charge(b, f, reading, after_credits(b, f, reading, asg)))

\* The book s that settle makes of b.
SettledAs(s, b, f, M, reading, asg) ==
    /\ s.migrated = b.migrated /\ s.joined = b.joined \cup M
    /\ s.remaining = Remaining(f) /\ s.consumed = consumed(b, f)
    /\ s.metered = Total(metering(b, reading), M)
    /\ \A u \in Users \ M : s.balances[u] = settled(b, f, reading, asg)[u]
    /\ ~asg.exclusive => s.balances = settled(b, f, reading, asg)
    /\ \A p \in Packages :
         /\ effective(s.packages[p]) <=> effective(f[p])
         /\ effective(f[p]) => /\ s.packages[p].available = f[p].available
                               /\ Observed(b, f)[p].total = f[p].total
         /\ s.packages[p].credit
              = IF NewCredit(Observed(b, f), p, M, asg) = "none" THEN b.packages[p].credit
                ELSE NewCredit(Observed(b, f), p, M, asg)

LEMMA SettleShape ==
    ASSUME NEW b \in Books, NEW f \in Listings, NEW M \in SUBSET Users, NEW reading \in [M -> Nat],
           NEW asg \in Assignments, NEW s, s = settle(b, f, reading, asg)
    PROVE  SettledAs(s, b, f, M, reading, asg)
  <1>1. DOMAIN reading = M OBVIOUS
  <1>2. PICK j \in Books : /\ j = join(b, reading) /\ j.joined = b.joined \cup M
                           /\ j.balances = b.balances /\ j.packages = b.packages
                           /\ j.migrated = b.migrated /\ j.remaining = b.remaining
    BY JoinedBook
  <1>3. PICK pkg \in [Packages -> Records] : pkg = Observed(b, f) BY ObservedType
  <1>4. PICK bal \in Balances : bal = settled(b, f, reading, asg)
    BY AfterCreditsType, AfterChargeType, AfterForfeitsType DEF settled
  <1>5. PICK base : base = [u \in Users |-> IF u \in M THEN reading[u] ELSE j.baselines[u]] OBVIOUS
  <1>6. PICK pk : pk = [p \in Packages |->
            IF NewCredit(pkg, p, M, asg) = "none" THEN pkg[p]
            ELSE [pkg[p] EXCEPT !.credit = NewCredit(pkg, p, M, asg)]]
    OBVIOUS
  <1>7. PICK made : made = [j EXCEPT !.remaining = Remaining(f), !.consumed = consumed(b, f),
                                     !.metered = Total(metering(b, reading), M), !.balances = bal,
                                     !.baselines = base, !.packages = pk]
    OBVIOUS
  <1>8. s = IF asg.exclusive /\ Cardinality(M) = 1
            THEN [made EXCEPT !.balances =
                    [u \in Users |-> IF u \in M THEN made.balances[u] + unallocated(made)
                                     ELSE made.balances[u]]]
            ELSE made
    BY <1>1, <1>2, <1>3, <1>4, <1>5, <1>6, <1>7 DEF settle, settled, Books
  <1>9. /\ made.migrated = j.migrated /\ made.joined = j.joined /\ made.remaining = Remaining(f)
        /\ made.consumed = consumed(b, f) /\ made.metered = Total(metering(b, reading), M)
        /\ made.balances = bal /\ made.packages = pk
        /\ DOMAIN made = {"migrated", "remaining", "consumed", "metered", "joined", "balances",
                          "baselines", "packages"}
    BY <1>7 DEF Books
  <1>10. PICK all : all = [u \in Users |-> IF u \in M THEN made.balances[u] + unallocated(made)
                                           ELSE made.balances[u]]
    OBVIOUS
  <1>11. /\ s.migrated = made.migrated /\ s.joined = made.joined /\ s.remaining = made.remaining
         /\ s.consumed = made.consumed /\ s.metered = made.metered /\ s.packages = made.packages
         /\ s.balances = IF asg.exclusive /\ Cardinality(M) = 1 THEN all ELSE made.balances
    <2>1. CASE asg.exclusive /\ Cardinality(M) = 1
      <3>1. s = [made EXCEPT !.balances = all] BY <1>8, <1>10, <2>1
      <3> QED BY <1>9, <2>1, <3>1
    <2>2. CASE ~(asg.exclusive /\ Cardinality(M) = 1) BY <1>8, <2>2
    <2> QED BY <2>1, <2>2
  <1>12. \A u \in Users \ M : s.balances[u] = bal[u] BY <1>9, <1>10, <1>11
  <1>13. ASSUME NEW p \in Packages
         PROVE  /\ effective(s.packages[p]) <=> effective(f[p])
                /\ effective(f[p]) => /\ s.packages[p].available = f[p].available
                                      /\ pkg[p].total = f[p].total
                /\ s.packages[p].credit
                     = IF NewCredit(pkg, p, M, asg) = "none" THEN b.packages[p].credit
                       ELSE NewCredit(pkg, p, M, asg)
    <2>1. PICK c : c = NewCredit(pkg, p, M, asg) OBVIOUS
    <2>2. s.packages[p] = IF c = "none" THEN pkg[p] ELSE [pkg[p] EXCEPT !.credit = c]
      BY <1>6, <1>9, <1>11, <2>1
    <2>3. /\ pkg[p].credit = b.packages[p].credit
          /\ effective(pkg[p]) <=> effective(f[p])
          /\ f[p].status # "absent" => /\ pkg[p].total = f[p].total
                                       /\ pkg[p].available = f[p].available
      BY <1>3, ObservedFacts
    <2>4. effective(f[p]) => f[p].status # "absent" BY DEF effective
    <2>5. pkg[p] \in Records OBVIOUS
    <2>6. CASE c = "none" BY <2>1, <2>2, <2>3, <2>4, <2>6
    <2>7. CASE c # "none"
      <3>1. s.packages[p] = [pkg[p] EXCEPT !.credit = c] BY <2>2, <2>7
      <3>2. /\ s.packages[p].credit = c /\ s.packages[p].available = pkg[p].available
            /\ s.packages[p].status = pkg[p].status
        BY <2>5, <3>1 DEF Records
      <3> QED BY <2>1, <2>3, <2>4, <2>7, <3>2 DEF effective
    <2> QED BY <2>6, <2>7
  <1> QED BY <1>2, <1>3, <1>4, <1>9, <1>11, <1>12, <1>13 DEF SettledAs

(* A sync touches nobody who is neither in the book nor a member. *)
LEMMA SettleOutside ==
    ASSUME NEW b \in Books, NEW f \in Listings, NEW M \in SUBSET Users, NEW reading \in [M -> Nat],
           NEW asg \in Assignments, NEW u \in Users \ M, b.balances[u] = 0
    PROVE  settled(b, f, reading, asg)[u] = 0
  <1>1. DOMAIN reading = M OBVIOUS
  <1>2. PICK pkg : pkg = Observed(b, f) OBVIOUS
  <1>3. PICK one \in Balances : one = after_credits(b, f, reading, asg) BY AfterCreditsType
  <1>4. PICK two \in Balances : two = after_charge(b, f, reading, one) BY AfterChargeType
  <1>5. one[u] = 0
    <2>1. PICK c : c = [p \in Packages |-> CreditShare(pkg, p, M, asg, u)] OBVIOUS
    <2>2. ASSUME NEW p \in Packages PROVE c[p] = 0
      <3>1. NewCredit(pkg, p, M, asg) = "user" => asg.owner[p] # u BY DEF NewCredit
      <3>2. CreditShare(pkg, p, M, asg, u) = 0 BY <3>1 DEF CreditShare
      <3> QED BY <2>1, <3>2
    <2>3. Total(c, Packages) = 0 BY <2>2, PackagesAssumption, TotalZero
    <2> QED BY <1>1, <1>2, <1>3, <2>1, <2>3 DEF after_credits
  <1>6. two[u] = 0 BY <1>1, <1>4, <1>5 DEF after_charge
  <1>7. PICK none : \A p \in Packages : none[p] = leftover(b, f, p)
    <2>1. PICK g : g = [p \in Packages |-> leftover(b, f, p)] OBVIOUS
    <2>2. \A p \in Packages : g[p] = leftover(b, f, p) BY <2>1
    <2> QED BY <2>2
  <1>8. after_forfeits(b, f, two)[u] = 0 BY <1>6, <1>7, ForfeitsSum
  <1> QED BY <1>3, <1>4, <1>8 DEF settled

LEMMA SameRemaining ==
    ASSUME NEW f \in Listings, NEW pk, 
           \A p \in Packages : /\ effective(pk[p]) <=> effective(f[p])
                               /\ effective(f[p]) => pk[p].available = f[p].available
    PROVE  Remaining(pk) = Remaining(f)
  <1>1. PICK S \in SUBSET Packages : S = {p \in Packages : effective(f[p])} OBVIOUS
  <1>2. S = {p \in Packages : effective(pk[p])} BY <1>1
  <1>3. PICK g, h : g = [p \in Packages |-> f[p].available] /\ h = [p \in Packages |-> pk[p].available]
    OBVIOUS
  <1>4. IsFiniteSet(S) BY FinitePackages
  <1>5. \A p \in S : g[p] \in Int /\ h[p] = g[p] BY <1>1, <1>3 DEF Listings
  <1>6. Total(h, S) = Total(g, S) BY <1>4, <1>5, TotalEqual
  <1> QED BY <1>1, <1>2, <1>3, <1>6 DEF Remaining

(* A sync conserves what is not allocated: in a book that accounts for     *)
(* every effective package, what is credited, charged and forfeited is     *)
(* what came, was used and expired at the provider.                        *)
LEMMA SettleConserves ==
    ASSUME NEW b \in Books, NEW f \in Listings, NEW M \in SUBSET Users, NEW reading \in [M -> Nat],
           NEW asg \in Assignments, NEW ware, Sound(b, ware),
           \A p \in Packages : effective(f[p]) => f[p].available <= f[p].total /\ f[p].available <= ware[p].available,
           \A p \in Packages : effective(f[p]) => ware[p].available \in Nat,
           NEW s, s = settle(b, f, reading, asg), ~asg.exclusive,
           AllCredited(b), AllCredited(s),
           \A p \in Packages : effective(s.packages[p]) /\ ~effective(b.packages[p])
                                 => b.packages[p].credit = "none",
           s.metered > 0 \/ s.consumed = 0,
           \E u \in Users : s.balances[u] > 0
    PROVE  unallocated(s) = unallocated(b)
  <1>1. PICK pkg \in [Packages -> Records] : pkg = Observed(b, f) BY ObservedType
  <1>2. PICK one \in Balances : one = after_credits(b, f, reading, asg) BY AfterCreditsType
  <1>3. PICK two \in Balances : two = after_charge(b, f, reading, one) BY AfterChargeType
  <1>4. PICK bal \in Balances : bal = after_forfeits(b, f, two) BY AfterForfeitsType
  <1>5. bal = settled(b, f, reading, asg) BY <1>2, <1>3, <1>4 DEF settled
  <1>6. /\ s.joined = b.joined \cup M /\ s.remaining = Remaining(f) /\ s.consumed = consumed(b, f)
        /\ s.metered = Total(metering(b, reading), M)
        /\ s.balances = bal
        /\ \A p \in Packages :
             /\ effective(s.packages[p]) <=> effective(f[p])
             /\ effective(f[p]) => pkg[p].total = f[p].total
             /\ s.packages[p].credit = IF NewCredit(pkg, p, M, asg) = "none" THEN b.packages[p].credit
                                       ELSE NewCredit(pkg, p, M, asg)
    <2>0. SettledAs(s, b, f, M, reading, asg) BY SettleShape
    <2>1. /\ s.joined = b.joined \cup M /\ s.remaining = Remaining(f) /\ s.consumed = consumed(b, f)
          /\ s.metered = Total(metering(b, reading), M)
          /\ s.balances = settled(b, f, reading, asg)
      BY <2>0 DEF SettledAs
    <2>2. ASSUME NEW p \in Packages
          PROVE  /\ effective(s.packages[p]) <=> effective(f[p])
                 /\ effective(f[p]) => Observed(b, f)[p].total = f[p].total
                 /\ s.packages[p].credit = IF NewCredit(Observed(b, f), p, M, asg) = "none"
                                           THEN b.packages[p].credit
                                           ELSE NewCredit(Observed(b, f), p, M, asg)
      BY <2>0 DEF SettledAs
    <2> QED BY <1>1, <1>5, <2>1, <2>2
  <1>7. PICK paid : paid = [p \in Packages |-> Credit(pkg, p, M, asg)] OBVIOUS
  <1>8. Total(one, Users) = Total(b.balances, Users) + Total(paid, Packages)
    BY <1>1, <1>2, <1>7, CreditsSum
  <1>9. Total(paid, Packages) = added(b, f)
    <2>1. PICK N \in SUBSET Packages : N = {p \in Packages : effective(f[p]) /\ ~effective(b.packages[p])}
      OBVIOUS
    <2>2. PICK new : new = [p \in Packages |-> f[p].total] OBVIOUS
    <2>3. PICK w : w = Within(new, N, Packages) OBVIOUS
    <2>4. ASSUME NEW p \in Packages PROVE w[p] \in Int /\ paid[p] = w[p]
      <3>1. w[p] = IF p \in N THEN f[p].total ELSE 0 BY <2>2, <2>3 DEF Within
      <3>2. f[p].total \in Nat BY DEF Listings
      <3>3. pkg[p].credit = b.packages[p].credit /\ (effective(pkg[p]) <=> effective(f[p]))
        BY <1>1, ObservedFacts
      <3>4. CASE p \in N
        <4>1. b.packages[p].credit = "none" /\ s.packages[p].credit # "none"
          BY <1>6, <2>1, <3>4 DEF AllCredited
        <4>2. NewCredit(pkg, p, M, asg) # "none" BY <1>6, <4>1
        <4> QED BY <1>6, <1>7, <2>1, <3>1, <3>2, <3>4, <4>2 DEF Credit
      <3>5. CASE p \notin N
        <4>1. effective(f[p]) => b.packages[p].credit # "none" BY <2>1, <3>5 DEF AllCredited
        <4>2. NewCredit(pkg, p, M, asg) = "none" BY <3>3, <4>1 DEF NewCredit
        <4> QED BY <1>7, <3>1, <3>5, <4>2 DEF Credit
      <3> QED BY <3>4, <3>5
    <2>5. Total(paid, Packages) = Total(w, Packages) BY <2>4, PackagesAssumption, TotalEqual
    <2>6. \A p \in N : new[p] \in Int BY <2>2 DEF Listings
    <2>7. Total(w, Packages) = Total(new, N) BY <2>3, <2>6, PackagesAssumption, TotalWithin
    <2> QED BY <2>1, <2>2, <2>5, <2>7 DEF added
  <1>10. Total(two, Users) = Total(one, Users) - consumed(b, f)
    <2>1. Total(metering(b, reading), M) # 0 \/ consumed(b, f) = 0
      <3>1. PICK n : n = Total(metering(b, reading), M) OBVIOUS
      <3>2. n > 0 \/ consumed(b, f) = 0 BY <1>6, <3>1
      <3>3. ~(0 > 0) OBVIOUS
      <3> QED BY <3>1, <3>2, <3>3
    <2> QED BY <1>3, <2>1, ChargeSum
  <1>11. Total(bal, Users) = Total(two, Users) - gone(b, f)
    <2>1. PICK taken : taken = [p \in Packages |-> leftover(b, f, p)] OBVIOUS
    <2>2. \A p \in Packages : taken[p] = leftover(b, f, p) /\ taken[p] \in Nat BY <2>1, LeftoverType
    <2>3. Total(bal, Users) = Total(two, Users) - Total(taken, Forfeited(b, f))
      BY <1>4, <1>6, <2>2, ForfeitsSum
    <2>4. PICK L \in SUBSET Packages : L = Lost(b, f) BY DEF Lost
    <2>5. PICK F \in SUBSET L : F = Forfeited(b, f) BY <2>4 DEF Forfeited
    <2>6. \A p \in L \ F : taken[p] = 0
      <3> TAKE p \in L \ F
      <3>1. b.packages[p].credit # "none" BY <2>4 DEF Lost, AllCredited
      <3>2. ~(leftover(b, f, p) > 0) BY <2>4, <2>5, <3>1 DEF Forfeited
      <3>3. taken[p] = leftover(b, f, p) /\ taken[p] \in Nat BY <2>2
      <3> QED BY <3>2, <3>3
    <2>7. IsFiniteSet(L) /\ \A p \in L : taken[p] \in Int BY <2>2, FinitePackages
    <2>8. Total(taken, L) = Total(taken, F) BY <2>6, <2>7, TotalExtend
    <2> QED BY <2>1, <2>3, <2>4, <2>5, <2>8 DEF gone
  <1>12. consumed(b, f) = b.remaining + added(b, f) - gone(b, f) - Remaining(f)
    <2>1. ASSUME NEW p \in Packages, effective(f[p])
          PROVE  /\ f[p].available <= f[p].total
                 /\ effective(b.packages[p]) => f[p].available <= b.packages[p].available
      <3>1. /\ f[p].available \in Nat /\ ware[p].available \in Nat /\ b.packages[p].available \in Nat
        BY <2>1 DEF Listings, Books
      <3>2. effective(b.packages[p]) => b.packages[p].available >= ware[p].available BY DEF Sound
      <3> QED BY <2>1, <3>1, <3>2
    <2> QED BY <2>1, TrafficBalance DEF Sound
  <1>13. Total(bal, s.joined) = Total(bal, Users)
    <2>1. s.joined \in SUBSET Users BY <1>6 DEF Books
    <2>2. \A u \in Users : bal[u] \in Int BY DEF Balances
    <2>3. ASSUME NEW u \in Users \ s.joined PROVE bal[u] = 0
      <3>1. u \in Users \ M /\ b.balances[u] = 0 BY <1>6 DEF Sound
      <3>2. settled(b, f, reading, asg)[u] = 0 BY <3>1, SettleOutside
      <3> QED BY <1>5, <3>2
    <2> QED BY <2>1, <2>2, <2>3, UsersAssumption, TotalExtend
  <1>14. Total(b.balances, b.joined) = Total(b.balances, Users)
    <2>1. PICK o : o = b.balances OBVIOUS
    <2>2. b.joined \in SUBSET Users /\ \A u \in Users : o[u] \in Int BY <2>1 DEF Books
    <2>3. \A u \in Users \ b.joined : o[u] = 0 BY <2>1 DEF Sound
    <2>4. Total(o, Users) = Total(o, b.joined) BY <2>2, <2>3, UsersAssumption, TotalExtend
    <2> QED BY <2>1, <2>4
  <1>15. PICK tb \in Int : tb = Total(b.balances, Users)
    <2>1. PICK o : o = b.balances OBVIOUS
    <2>2. \A u \in Users : o[u] \in Int BY <2>1 DEF Books
    <2>3. Total(o, Users) \in Int BY <2>2, UsersAssumption, TotalFacts
    <2> QED BY <2>1, <2>3
  <1>16. PICK ad \in Nat, go \in Nat, rm \in Nat, co \in Nat, re \in Nat :
            ad = added(b, f) /\ go = gone(b, f) /\ rm = Remaining(f) /\ co = consumed(b, f) /\ re = b.remaining
    BY TrafficTypes DEF Books
  <1>17. Total(bal, Users) = tb + ad - co - go BY <1>8, <1>9, <1>10, <1>11, <1>15, <1>16
  <1>18. co = re + ad - go - rm BY <1>12, <1>16
  <1>19. unallocated(b) = re - tb BY <1>14, <1>15, <1>16 DEF unallocated
  <1>20. unallocated(s) = rm - (tb + ad - co - go) BY <1>6, <1>13, <1>16, <1>17 DEF unallocated
  <1> QED BY <1>18, <1>19, <1>20

-----------------------------------------------------------------------------
(***************************************************************************)
(* Sound: what every book of the engine is like.                           *)
(***************************************************************************)
LEMMA SoundLater ==
    ASSUME NEW b \in Books, NEW ware, Sound(b, ware), NEW later,
           \A p \in Packages : /\ ware[p].available \in Nat /\ later[p].available \in Nat
                               /\ later[p].available <= ware[p].available
    PROVE  Sound(b, later)
  <1>1. ASSUME NEW p \in Packages, effective(b.packages[p])
        PROVE  b.packages[p].available >= later[p].available
    <2>1. b.packages[p].available \in Nat BY DEF Books
    <2>2. b.packages[p].available >= ware[p].available BY <1>1 DEF Sound
    <2> QED BY <2>1, <2>2
  <1> QED BY <1>1 DEF Sound

LEMMA NothingRemains ==
    ASSUME NEW pk, \A p \in Packages : ~effective(pk[p])
    PROVE  Remaining(pk) = 0
  <1>1. {p \in Packages : effective(pk[p])} = {} OBVIOUS
  <1>2. IsFiniteSet({}) BY FS_EmptySet
  <1>3. PICK g : g = [p \in Packages |-> pk[p].available] OBVIOUS
  <1>4. Total(g, {}) = 0 BY <1>2, TotalFacts
  <1> QED BY <1>1, <1>3, <1>4 DEF Remaining

LEMMA EmptySound == ASSUME NEW ware PROVE Sound(EmptyBook, ware)
  <1>1. EmptyBook.packages = [p \in Packages |-> NoRecord] BY DEF EmptyBook
  <1>2. \A p \in Packages : ~effective(EmptyBook.packages[p]) BY <1>1 DEF effective, NoRecord
  <1>3. Remaining(EmptyBook.packages) = 0 BY <1>2, NothingRemains
  <1>4. EmptyBook.remaining = 0 /\ \A u \in Users : EmptyBook.balances[u] = 0 BY DEF EmptyBook
  <1> QED BY <1>2, <1>3, <1>4 DEF Sound

LEMMA ReconcileSound ==
    ASSUME NEW b \in Books, NEW f \in Listings, NEW M \in SUBSET Users, NEW reading \in [M -> Nat],
           NEW off \in [M -> Nat], NEW asg \in Assignments, NEW ware, Sound(b, ware),
           NEW m, \A p \in Packages : effective(f[p]) => f[p].available >= m[p].available
    PROVE  Sound(reconcile(b, f, reading, off, asg), m)
  <1>1. DOMAIN reading = M OBVIOUS
  <1>2. CASE b.migrated
    <2>1. PICK s : s = settle(b, f, reading, asg) OBVIOUS
    <2>2. SettledAs(s, b, f, M, reading, asg) BY <2>1, SettleShape
    <2>3. ASSUME NEW u \in Users \ s.joined PROVE s.balances[u] = 0
      <3>1. u \in Users \ M /\ b.balances[u] = 0 BY <2>2 DEF SettledAs, Sound
      <3>2. settled(b, f, reading, asg)[u] = 0 BY <3>1, SettleOutside
      <3> QED BY <2>2, <3>1, <3>2 DEF SettledAs
    <2>4. \A p \in Packages : /\ effective(s.packages[p]) <=> effective(f[p])
                              /\ effective(f[p]) => s.packages[p].available = f[p].available
      BY <2>2 DEF SettledAs
    <2>5. PICK pk : pk = s.packages OBVIOUS
    <2>6. Remaining(pk) = Remaining(f) BY <2>4, <2>5, SameRemaining
    <2>7. s.remaining = Remaining(f) /\ s.migrated BY <1>2, <2>2 DEF SettledAs
    <2>8. Sound(s, m) BY <2>3, <2>4, <2>5, <2>6, <2>7 DEF Sound
    <2> QED BY <1>2, <2>1, <2>8 DEF reconcile
  <1>3. CASE ~b.migrated
    <2>1. PICK n : n = Remaining(f) OBVIOUS
    <2>2. PICK c : c = [b EXCEPT !.remaining = n, !.consumed = 0, !.metered = 0] OBVIOUS
    <2>3. /\ c.remaining = n /\ c.packages = b.packages /\ c.balances = b.balances /\ c.joined = b.joined
          /\ DOMAIN c = {"migrated", "remaining", "consumed", "metered", "joined", "balances",
                         "baselines", "packages"}
      BY <2>2 DEF Books
    <2>4. PICK s : s = migrate(c, f, reading, off) OBVIOUS
    <2>5. reconcile(b, f, reading, off, asg) = s BY <1>3, <2>1, <2>2, <2>4 DEF reconcile
    <2>6. /\ s.migrated /\ s.remaining = n /\ s.joined = b.joined \cup M
          /\ s.packages = [p \in Packages |->
                IF f[p].status = "absent" THEN b.packages[p]
                ELSE [total |-> f[p].total, available |-> f[p].available,
                      status |-> f[p].status, credit |-> "migration"]]
          /\ \A u \in Users \ M : s.balances[u] = b.balances[u]
      BY <1>1, <2>3, <2>4 DEF migrate
    <2>7. ASSUME NEW p \in Packages
          PROVE  /\ effective(s.packages[p]) <=> effective(f[p])
                 /\ effective(f[p]) => s.packages[p].available = f[p].available
      <3>1. ~effective(b.packages[p]) BY <1>3 DEF Sound
      <3> QED BY <2>6, <3>1 DEF effective
    <2>8. PICK pk : pk = s.packages OBVIOUS
    <2>9. Remaining(pk) = Remaining(f) BY <2>7, <2>8, SameRemaining
    <2>10. \A u \in Users \ s.joined : s.balances[u] = 0 BY <2>6 DEF Sound
    <2>11. Sound(s, m) BY <2>1, <2>6, <2>7, <2>8, <2>9, <2>10 DEF Sound
    <2> QED BY <2>5, <2>11
  <1> QED BY <1>2, <1>3

LEMMA TransferSound ==
    ASSUME NEW b \in Books, NEW ware, Sound(b, ware), b.migrated,
           NEW M \in SUBSET Users, NEW reading \in [M -> Nat],
           NEW u \in M, NEW v \in M, u # v, NEW n \in Nat
    PROVE  Sound(transfer(b, reading, u, v, n), ware)
  <1>1. PICK j \in Books : /\ j = join(b, reading) /\ j.joined = b.joined \cup M
                           /\ j.balances = b.balances /\ j.packages = b.packages
                           /\ j.migrated = b.migrated /\ j.remaining = b.remaining
    BY JoinedBook
  <1>2. PICK t : t = transfer(b, reading, u, v, n) OBVIOUS
  <1>3. /\ t.joined = j.joined /\ t.packages = j.packages /\ t.migrated = j.migrated
        /\ t.remaining = j.remaining
    BY <1>1, <1>2 DEF transfer, Books
  <1>4. t.balances = Moved(b, u, v, n) BY <1>2, TransferFacts
  <1>5. \A w \in Users \ t.joined : t.balances[w] = 0
    <2> TAKE w \in Users \ t.joined
    <2>1. w # u /\ w # v /\ b.balances[w] = 0 BY <1>1, <1>3 DEF Sound
    <2> QED BY <1>4, <2>1 DEF Moved
  <1> QED BY <1>1, <1>2, <1>3, <1>5 DEF Sound

LEMMA AllocateSound ==
    ASSUME NEW b \in Books, NEW ware, Sound(b, ware), b.migrated,
           NEW M \in SUBSET Users, NEW reading \in [M -> Nat],
           NEW S \in SUBSET M, NEW n \in Nat
    PROVE  Sound(allocate(b, reading, S, n), ware)
  <1>1. PICK j \in Books : /\ j = join(b, reading) /\ j.joined = b.joined \cup M
                           /\ j.balances = b.balances /\ j.packages = b.packages
                           /\ j.migrated = b.migrated /\ j.remaining = b.remaining
    BY JoinedBook
  <1>2. PICK t : t = allocate(b, reading, S, n) OBVIOUS
  <1>3. PICK share : share = split_evenly(n, S) OBVIOUS
  <1>4. t = [j EXCEPT !.balances = [u \in Users |-> IF u \in S THEN b.balances[u] + share[u] ELSE b.balances[u]]]
    BY <1>1, <1>2, <1>3 DEF allocate
  <1>5. /\ t.joined = j.joined /\ t.packages = j.packages /\ t.migrated = j.migrated
        /\ t.remaining = j.remaining
        /\ \A u \in Users \ S : t.balances[u] = b.balances[u]
    BY <1>4 DEF Books
  <1>6. \A w \in Users \ t.joined : t.balances[w] = 0 BY <1>1, <1>5 DEF Sound
  <1> QED BY <1>1, <1>2, <1>5, <1>6 DEF Sound

-----------------------------------------------------------------------------
(***************************************************************************)
(* The inductive invariant.                                                *)
(***************************************************************************)
Typed ==
    /\ provider \in Wares /\ \A p \in Packages : provider[p].total = Sizes[p]
    /\ TypeOK
    /\ msnap = NoLimits \/ \E S \in SUBSET Users : msnap \in [S -> Nat]

\* The entries e go with the step from the book b to the book c.
Enters(b, c, e) ==
    /\ CreditsKept(b, c)
    /\ \A p \in Packages : e[p] # 0 => /\ e[p] = Sizes[p]
                                       /\ b.packages[p].credit = "none" /\ c.packages[p].credit # "none"

\* A package that has been entered is credited in the book on disk, and the
\* engine works from that book.
Credited ==
    /\ \A p \in Packages : /\ entries[p] \in {0, Sizes[p]}
                           /\ entries[p] # 0 => saved_book.packages[p].credit # "none"
    /\ epc = "idle" => pending = NoEntries
    /\ epc = "save" => Enters(book, next, pending)
    /\ saved_book = IF epc = "adopt" THEN next ELSE book

Enforced(u) == IF u \in book.joined THEN limit_of[u] = limit(book, u) ELSE limit_of[u] \in 0..used[u]

\* The limits are the book's, unless the engine is about to apply them again.
Limited ==
    /\ ~unseen => ecfg = cfg
    /\ mpc \in {"idle", "limits"} /\ epc # "apply" /\ ~unseen /\ cfg.remote /\ book.migrated
         => \A u \in present : Enforced(u)

Sounds == \A b \in {book, next, saved_book} : Sound(b, provider)

Inv == Typed /\ Credited /\ Limited /\ Sounds

-----------------------------------------------------------------------------
(***************************************************************************)
(* What the operators of Accounting return.                                *)
(***************************************************************************)
LEMMA ConfigType ==
    ASSUME NEW c \in Configs
    PROVE  /\ c.users \in SUBSET Users /\ c.remote \in BOOLEAN
           /\ assignments(c) \in Assignments
           /\ \A u \in Users : c.quota[u] \in Nat \cup {NoLimit}
  BY ConfigsAssumption DEF assignments, Assignments

LEMMA EmptyBookType == EmptyBook \in Books /\ NoEntries \in [Packages -> Nat]
  <1>1. NoRecord \in [total : Nat, available : Nat, status : Statuses, credit : Credits]
    BY DEF NoRecord, Statuses, Credits
  <1>2. [p \in Packages |-> NoRecord]
          \in [Packages -> [total : Nat, available : Nat, status : Statuses, credit : Credits]]
    BY <1>1
  <1>3. [u \in Users |-> 0] \in [Users -> Int] /\ [u \in Users |-> 0] \in [Users -> Nat] OBVIOUS
  <1> QED BY <1>2, <1>3 DEF EmptyBook, Books, NoEntries

LEMMA MembersType ==
    ASSUME NEW c \in Configs, Typed
    PROVE  \E M \in SUBSET Users :
              /\ M = c.users \cap present
              /\ members(c) \in [M -> Nat] /\ \A u \in M : members(c)[u] = used[u]
              /\ offline_remaining(c) \in [M -> Nat]
  <1>1. PICK M \in SUBSET Users : M = c.users \cap present BY DEF Typed, TypeOK
  <1>2. \A u \in M : used[u] \in Nat BY BoundsAssumption DEF Typed, TypeOK
  <1>3. members(c) \in [M -> Nat] /\ \A u \in M : members(c)[u] = used[u] BY <1>1, <1>2 DEF members
  <1>4. ASSUME NEW u \in M
        PROVE  (IF limit_of[u] = NoLimit THEN 0 ELSE Positive(limit_of[u] - used[u])) \in Nat
    <2>1. limit_of[u] \in Nat \cup {NoLimit} BY DEF Typed, TypeOK
    <2> QED BY <1>2, <2>1 DEF Positive
  <1>5. offline_remaining(c) \in [M -> Nat] BY <1>1, <1>4 DEF offline_remaining
  <1> QED BY <1>1, <1>3, <1>5

\* What the provider has of one package.
Ware == [total : Nat, available : Nat, status : {"unsold", "Effective", "UsedUp", "Expired"}]

LEMMA LaterType ==
    ASSUME NEW w \in Ware, NEW x \in Later(w)
    PROVE  x \in Ware /\ x.total = w.total /\ x.available <= w.available
  <1>1. \/ x = w
        \/ \E a \in 0..w.available : x = [w EXCEPT !.available = a, !.status = "Effective"]
        \/ \E t \in {"UsedUp", "Expired"} : x = [w EXCEPT !.available = 0, !.status = t]
    <2>1. CASE w.status = "unsold" BY <2>1 DEF Later
    <2>2. CASE w.status = "Effective" BY <2>2 DEF Later
    <2>3. CASE w.status \notin {"unsold", "Effective"} BY <2>3 DEF Later
    <2> QED BY <2>1, <2>2, <2>3
  <1>2. /\ w = [total |-> w.total, available |-> w.available, status |-> w.status]
        /\ w.total \in Nat /\ w.available \in Nat
    BY DEF Ware
  <1>3. CASE x = w BY <1>2, <1>3
  <1>4. ASSUME NEW a \in Nat, a <= w.available, NEW t \in {"Effective", "UsedUp", "Expired"},
               x = [w EXCEPT !.available = a, !.status = t]
        PROVE  x \in Ware /\ x.total = w.total /\ x.available <= w.available
    <2>1. x = [total |-> w.total, available |-> a, status |-> t] BY <1>2, <1>4
    <2> QED BY <1>2, <1>4, <2>1 DEF Ware
  <1>5. 0 \in Nat /\ 0 <= w.available /\ \A a \in 0..w.available : a \in Nat /\ a <= w.available
    BY <1>2
  <1> QED BY <1>1, <1>3, <1>4, <1>5

LEMMA MarketsType ==
    ASSUME NEW m \in Markets, Typed
    PROVE  /\ m \in Wares
           /\ \A p \in Packages : /\ m[p].total = Sizes[p] /\ m[p].available \in 0..Sizes[p]
                                  /\ m[p].available <= provider[p].available
                                  /\ provider[p].available \in Nat
  <1>1. ASSUME NEW p \in Packages
        PROVE  /\ m[p] \in Ware /\ m[p].total = Sizes[p] /\ m[p].available \in 0..Sizes[p]
               /\ m[p].available <= provider[p].available /\ provider[p].available \in Nat
    <2>1. PICK w \in Ware : w = provider[p] BY DEF Typed, Wares, Ware
    <2>2. w.total = Sizes[p] /\ w.available \in 0..Sizes[p] /\ Sizes[p] \in Nat
      BY <2>1, SizesAssumption DEF Typed, TypeOK
    <2>3. PICK x : x = m[p] OBVIOUS
    <2>4. x \in Later(w) BY <2>1, <2>3 DEF Markets
    <2>5. x \in Ware /\ x.total = w.total /\ x.available <= w.available BY <2>4, LaterType
    <2>6. x.available \in Nat /\ w.available \in Nat BY <2>5 DEF Ware
    <2> QED BY <2>1, <2>2, <2>3, <2>5, <2>6
  <1>2. DOMAIN m = Packages /\ m = [p \in DOMAIN m |-> m[p]] BY DEF Markets
  <1> QED BY <1>1, <1>2 DEF Wares, Ware

LEMMA FetchedType ==
    ASSUME NEW c, NEW m \in Wares, \A p \in Packages : m[p].total = Sizes[p]
    PROVE  /\ fetched(c, m) \in Listings
           /\ \A p \in Packages : effective(fetched(c, m)[p]) => fetched(c, m)[p].total = Sizes[p]
  <1>1. ASSUME NEW p \in Packages
        PROVE  /\ fetched(c, m)[p] \in [total : Nat, available : Nat, status : Statuses]
               /\ effective(fetched(c, m)[p]) => fetched(c, m)[p].total = Sizes[p]
    <2>1. /\ m[p] \in [total : Nat, available : Nat,
                       status : {"unsold", "Effective", "UsedUp", "Expired"}]
          /\ m[p].total = Sizes[p]
      BY DEF Wares
    <2>2. fetched(c, m)[p] = IF p \in c.seen /\ m[p].status # "unsold" THEN m[p] ELSE Absent
      BY DEF fetched
    <2>3. Absent \in [total : Nat, available : Nat, status : Statuses] /\ ~effective(Absent)
      BY DEF Absent, Statuses, effective
    <2>4. m[p].status # "unsold" => m[p] \in [total : Nat, available : Nat, status : Statuses]
      BY <2>1 DEF Statuses
    <2> QED BY <2>1, <2>2, <2>3, <2>4
  <1> QED BY <1>1 DEF fetched, Listings

LEMMA LimitsType ==
    ASSUME NEW b \in Books
    PROVE  /\ limits(b) \in [b.joined -> Nat] /\ limits(b) # NoLimits /\ b.joined \in SUBSET Users
           /\ \A u \in b.joined : limits(b)[u] = limit(b, u)
           /\ \A u \in Users : limit(b, u) \in Nat
  <1>1. b.joined \in SUBSET Users BY DEF Books
  <1>2. ASSUME NEW u \in Users PROVE limit(b, u) \in Nat
    <2>1. b.baselines[u] \in Nat /\ b.balances[u] \in Int BY DEF Books
    <2> QED BY <2>1 DEF limit, Positive
  <1>3. limits(b) \in [b.joined -> Nat] BY <1>1, <1>2 DEF limits
  <1> QED BY <1>1, <1>2, <1>3, NoLimitsAssumption DEF limits

LEMMA LimitUnderType ==
    ASSUME NEW c \in Configs, NEW s, s = NoLimits \/ \E S \in SUBSET Users : s \in [S -> Nat],
           NEW u \in Users, NEW n \in Nat
    PROVE  LimitUnder(c, s, u, n) \in Nat \cup {NoLimit}
  <1>1. c.quota[u] \in Nat \cup {NoLimit} BY ConfigType
  <1>2. CASE c.remote /\ s # NoLimits
    <2>1. PICK S \in SUBSET Users : s \in [S -> Nat] BY <1>2
    <2>2. LimitUnder(c, s, u, n) = IF u \in S THEN s[u] ELSE n BY <1>2, <2>1 DEF LimitUnder
    <2> QED BY <2>1, <2>2
  <1>3. CASE ~(c.remote /\ s # NoLimits) BY <1>1, <1>3 DEF LimitUnder
  <1> QED BY <1>2, <1>3

LEMMA StartFacts ==
    ASSUME NEW c \in Configs, NEW b \in Books, NEW rows \in [Users -> 0..MaxUsed], NEW s, s = Start(c, b, rows)
    PROVE  /\ s.present = c.users /\ s.used = rows
           /\ s.remote = NoLimits \/ s.remote \in [b.joined -> Nat]
           /\ s.limit_of \in [Users -> Nat \cup {NoLimit}]
           /\ c.remote /\ b.migrated =>
                \A u \in Users : IF u \in b.joined THEN s.limit_of[u] = limit(b, u)
                                 ELSE s.limit_of[u] \in 0..rows[u]
  <1>1. PICK snap : snap = IF b.migrated THEN limits(b) ELSE NoLimits OBVIOUS
  <1>2. s = [present |-> c.users, used |-> rows, remote |-> snap,
             limit_of |-> [u \in Users |-> LimitUnder(c, snap, u, rows[u])]]
    BY <1>1 DEF Start
  <1>3. snap = NoLimits \/ snap \in [b.joined -> Nat] BY <1>1, LimitsType
  <1>4. \A u \in Users : rows[u] \in Nat /\ rows[u] \in 0..rows[u]
    <2> TAKE u \in Users
    <2>1. rows[u] \in 0..MaxUsed OBVIOUS
    <2> QED BY <2>1, BoundsAssumption
  <1>5. \A u \in Users : LimitUnder(c, snap, u, rows[u]) \in Nat \cup {NoLimit}
    BY <1>3, <1>4, LimitUnderType, LimitsType
  <1>6. ASSUME c.remote, b.migrated, NEW u \in Users
        PROVE  IF u \in b.joined THEN s.limit_of[u] = limit(b, u) ELSE s.limit_of[u] \in 0..rows[u]
    <2>1. snap # NoLimits /\ DOMAIN snap = b.joined /\ \A v \in b.joined : snap[v] = limit(b, v)
      BY <1>1, <1>6, LimitsType DEF limits
    <2>2. s.limit_of[u] = IF u \in b.joined THEN snap[u] ELSE rows[u] BY <1>2, <1>6, <2>1 DEF LimitUnder
    <2> QED BY <1>4, <2>1, <2>2
  <1> QED BY <1>2, <1>3, <1>5, <1>6

-----------------------------------------------------------------------------
(***************************************************************************)
(* Initial states.                                                         *)
(***************************************************************************)
LEMMA InitInv == Init => Inv
  <1>1. SUFFICES ASSUME Init PROVE Inv OBVIOUS
  <1>2. PICK zero : zero = [u \in Users |-> 0] OBVIOUS
  <1>3. zero \in [Users -> 0..MaxUsed] BY <1>2, BoundsAssumption
  <1>4. /\ saved_book \in Books /\ Sound(saved_book, provider) /\ book = saved_book
        /\ provider \in Wares
        /\ \A p \in Packages : provider[p].total = Sizes[p] /\ provider[p].available <= Sizes[p]
        /\ cfg \in Configs /\ ecfg = cfg /\ mcfg = cfg
    BY <1>1, StartsAssumption DEF Init
  <1>5. saved_book \in Books /\ book \in Books BY <1>4
  <1>6. PICK s : s = Start(cfg, book, zero) OBVIOUS
  <1>7. present = s.present /\ used = s.used /\ remote = s.remote /\ limit_of = s.limit_of
    <2>1. s.present = cfg.users /\ s.used = zero BY <1>6 DEF Start
    <2> QED BY <1>1, <1>2, <1>6, <2>1 DEF Init
  <1>8. /\ s.present = cfg.users /\ s.used = zero
        /\ s.remote = NoLimits \/ s.remote \in [book.joined -> Nat]
        /\ s.limit_of \in [Users -> Nat \cup {NoLimit}]
        /\ cfg.remote /\ book.migrated =>
             \A u \in Users : IF u \in book.joined THEN s.limit_of[u] = limit(book, u)
                              ELSE s.limit_of[u] \in 0..zero[u]
    BY <1>3, <1>4, <1>5, <1>6, StartFacts
  <1>9. Typed
    <2>1. \A p \in Packages : provider[p].available \in 0..Sizes[p]
      <3> TAKE p \in Packages
      <3>1. provider[p].available \in Nat /\ provider[p].available <= Sizes[p] /\ Sizes[p] \in Nat
        BY <1>4, SizesAssumption DEF Wares
      <3> QED BY <3>1
    <2>2. present \subseteq Users BY <1>4, <1>7, <1>8, ConfigType
    <2>3. count \in [ops : 0..MaxOps, events : 0..MaxEvents] BY <1>1, BoundsAssumption DEF Init
    <2>4. /\ provider \in Wares /\ \A p \in Packages : provider[p].total = Sizes[p]
      BY <1>4
    <2>5. next = EmptyBook /\ pending = NoEntries /\ entries = NoEntries /\ unseen = FALSE
          /\ epc = "idle" /\ mpc = "idle" /\ msnap = NoLimits
      BY <1>1 DEF Init
    <2> QED BY <1>3, <1>4, <1>5, <1>7, <1>8, <2>1, <2>2, <2>3, <2>4, <2>5, EmptyBookType DEF Typed, TypeOK
  <1>10. Credited BY <1>1 DEF Init, Credited, NoEntries
  <1>11. Limited
    <2>1. cfg.remote /\ book.migrated => \A u \in present : Enforced(u)
      BY <1>4, <1>7, <1>8, ConfigType DEF Enforced
    <2> QED BY <1>4, <2>1 DEF Limited
  <1>12. Sounds
    <2>1. next = EmptyBook BY <1>1 DEF Init
    <2> QED BY <1>4, <2>1, EmptySound DEF Sounds
  <1> QED BY <1>9, <1>10, <1>11, <1>12 DEF Inv

-----------------------------------------------------------------------------
(***************************************************************************)
(* The relays and the main task.                                           *)
(***************************************************************************)
LEMMA TrafficInv == ASSUME Inv, NEW u \in Users, Traffic(u) PROVE Inv'
  <1>0. PICK n \in (used[u] + 1)..MaxUsed : used' = [used EXCEPT ![u] = n] BY DEF Traffic
  <1>1. /\ used' = [used EXCEPT ![u] = n]
        /\ UNCHANGED <<provider, present, limit_of, cfg, unseen, book, remote, engine, main, disk, count>>
    BY <1>0 DEF Traffic
  <1>2. used \in [Users -> 0..MaxUsed] BY DEF Inv, Typed, TypeOK
  <1>3. used' \in [Users -> 0..MaxUsed] /\ \A v \in Users : used[v] <= used'[v] /\ used[v] \in Nat /\ used'[v] \in Nat
    <2>1. \A v \in Users : used[v] \in 0..MaxUsed BY <1>2
    <2>2. n \in 0..MaxUsed /\ used[u] <= n BY <1>0, <2>1, BoundsAssumption
    <2>3. used' \in [Users -> 0..MaxUsed] BY <1>1, <1>2, <2>2
    <2>4. ASSUME NEW v \in Users PROVE used[v] <= used'[v] /\ used[v] \in Nat /\ used'[v] \in Nat
      <3>1. used[v] \in Nat BY <2>1
      <3>2. used'[v] = IF v = u THEN n ELSE used[v] BY <1>1, <1>2
      <3> QED BY <2>2, <3>1, <3>2
    <2> QED BY <2>3, <2>4
  <1>4. Typed' BY <1>1, <1>3 DEF Inv, Typed, TypeOK, engine, main, disk
  <1>5. Credited' BY <1>1 DEF Inv, Credited, engine, disk
  <1>6. ASSUME NEW v \in present, Enforced(v) PROVE Enforced(v)'
    <2>1. v \in Users BY DEF Inv, Typed, TypeOK
    <2>2. 0..used[v] \subseteq 0..used'[v] BY <1>3, <2>1
    <2> QED BY <1>1, <1>6, <2>2 DEF Enforced, limit
  <1>7. Limited' BY <1>1, <1>6 DEF Inv, Limited, engine, main
  <1>8. Sounds' BY <1>1 DEF Inv, Sounds, engine, disk
  <1> QED BY <1>4, <1>5, <1>7, <1>8 DEF Inv

LEMMA ReloadInv == ASSUME Inv, NEW c \in Configs, Reload(c) PROVE Inv'
  <1>1. /\ mpc = "idle" /\ mpc' = "limits" /\ mcfg' = c
        /\ count.events < MaxEvents /\ count' = [count EXCEPT !.events = @ + 1]
        /\ msnap' = IF c.remote THEN remote ELSE NoLimits
        /\ UNCHANGED <<provider, present, used, limit_of, cfg, unseen, book, remote, engine, disk>>
    BY DEF Reload
  <1>2. count' \in [ops : 0..MaxOps, events : 0..MaxEvents]
    <2>1. count \in [ops : 0..MaxOps, events : 0..MaxEvents] BY DEF Inv, Typed, TypeOK
    <2>2. count.events + 1 \in 0..MaxEvents BY <1>1, <2>1, BoundsAssumption
    <2> QED BY <1>1, <2>1, <2>2
  <1>3. msnap' = NoLimits \/ \E S \in SUBSET Users : msnap' \in [S -> Nat]
    <2>1. remote = NoLimits \/ remote \in [book.joined -> Nat] BY DEF Inv, Typed, TypeOK
    <2>2. book.joined \in SUBSET Users BY DEF Inv, Typed, TypeOK, Books
    <2> QED BY <1>1, <2>1, <2>2
  <1>4. Typed' BY <1>1, <1>2, <1>3 DEF Inv, Typed, TypeOK, engine, disk
  <1>5. Credited' BY <1>1 DEF Inv, Credited, engine, disk
  <1>6. Limited' BY <1>1 DEF Inv, Limited, Enforced, engine
  <1>7. Sounds' BY <1>1 DEF Inv, Sounds, engine, disk
  <1> QED BY <1>4, <1>5, <1>6, <1>7 DEF Inv

LEMMA RowsType == ASSUME Typed, NEW rows \in Rows PROVE rows \in [Users -> 0..MaxUsed]
  BY DEF Rows

LEMMA SetLimitsInv == ASSUME Inv, NEW rows \in Rows, SetLimits(rows) PROVE Inv'
  <1>1. /\ mpc = "limits" /\ mpc' = "switch" /\ msnap' = NoLimits
        /\ used' = [u \in Users |-> IF u \in mcfg.users \ present THEN rows[u] ELSE used[u]]
        /\ limit_of' = [u \in Users |->
                          IF u \in mcfg.users THEN LimitUnder(mcfg, msnap, u, used'[u]) ELSE limit_of[u]]
        /\ UNCHANGED <<provider, present, cfg, unseen, book, remote, engine, mcfg, disk, count>>
    BY DEF SetLimits
  <1>2. used' \in [Users -> 0..MaxUsed]
    <2>1. rows \in [Users -> 0..MaxUsed] BY RowsType DEF Inv
    <2>2. used \in [Users -> 0..MaxUsed] BY DEF Inv, Typed, TypeOK
    <2> QED BY <1>1, <2>1, <2>2
  <1>3. limit_of' \in [Users -> Nat \cup {NoLimit}]
    <2>1. mcfg \in Configs /\ (msnap = NoLimits \/ \E S \in SUBSET Users : msnap \in [S -> Nat])
          /\ limit_of \in [Users -> Nat \cup {NoLimit}]
      BY DEF Inv, Typed, TypeOK
    <2>2. \A u \in Users : used'[u] \in Nat BY <1>2, BoundsAssumption
    <2>3. \A u \in Users : LimitUnder(mcfg, msnap, u, used'[u]) \in Nat \cup {NoLimit}
      BY <2>1, <2>2, LimitUnderType
    <2> QED BY <1>1, <2>1, <2>3
  <1>4. Typed' BY <1>1, <1>2, <1>3 DEF Inv, Typed, TypeOK, engine, disk
  <1>5. Credited' BY <1>1 DEF Inv, Credited, engine, disk
  <1>6. Limited' BY <1>1 DEF Inv, Limited, engine
  <1>7. Sounds' BY <1>1 DEF Inv, Sounds, engine, disk
  <1> QED BY <1>4, <1>5, <1>6, <1>7 DEF Inv

LEMMA SwitchUsersInv == ASSUME Inv, SwitchUsers PROVE Inv'
  <1>1. /\ mpc = "switch" /\ mpc' = "publish" /\ present' = mcfg.users
        /\ UNCHANGED <<provider, used, limit_of, cfg, unseen, book, remote, engine, mcfg, msnap, disk, count>>
    BY DEF SwitchUsers
  <1>2. mcfg \in Configs BY DEF Inv, Typed, TypeOK
  <1>3. mcfg.users \subseteq Users BY <1>2, ConfigType
  <1>4. Typed' BY <1>1, <1>3 DEF Inv, Typed, TypeOK, engine, disk
  <1>5. Credited' BY <1>1 DEF Inv, Credited, engine, disk
  <1>6. Limited' BY <1>1 DEF Inv, Limited, engine
  <1>7. Sounds' BY <1>1 DEF Inv, Sounds, engine, disk
  <1> QED BY <1>4, <1>5, <1>6, <1>7 DEF Inv

LEMMA PublishInv == ASSUME Inv, publish PROVE Inv'
  <1>1. /\ mpc' = "idle" /\ cfg' = mcfg /\ unseen' = TRUE
        /\ UNCHANGED <<provider, present, used, limit_of, book, remote, engine, mcfg, msnap, disk, count>>
    BY DEF publish
  <1>2. Typed' BY <1>1 DEF Inv, Typed, TypeOK, engine, disk
  <1>3. Credited' BY <1>1 DEF Inv, Credited, engine, disk
  <1>4. Limited' BY <1>1 DEF Limited
  <1>5. Sounds' BY <1>1 DEF Inv, Sounds, engine, disk
  <1> QED BY <1>2, <1>3, <1>4, <1>5 DEF Inv

LEMMA CrashInv == ASSUME Inv, NEW rows \in Rows, Crash(rows) PROVE Inv'
  <1>1. PICK c \in {cfg, mcfg} :
             LET s == Start(c, saved_book, rows) IN
             /\ cfg' = c /\ mcfg' = c /\ ecfg' = c
             /\ present' = s.present /\ used' = s.used
             /\ remote' = s.remote /\ limit_of' = s.limit_of
    BY DEF Crash
  <1>2. /\ count.events < MaxEvents /\ count' = [count EXCEPT !.events = @ + 1]
        /\ book' = saved_book
        /\ epc' = "idle" /\ next' = EmptyBook /\ pending' = NoEntries /\ unseen' = FALSE
        /\ mpc' = "idle" /\ msnap' = NoLimits
        /\ UNCHANGED <<provider, saved_book, entries>>
    BY DEF Crash, EngineIdle, disk
  <1>3. PICK s : s = Start(c, saved_book, rows) OBVIOUS
  <1>4. c \in Configs /\ saved_book \in Books /\ rows \in [Users -> 0..MaxUsed]
    BY RowsType DEF Inv, Typed, TypeOK
  <1>5. /\ s.present = c.users /\ s.used = rows
        /\ s.remote = NoLimits \/ s.remote \in [saved_book.joined -> Nat]
        /\ s.limit_of \in [Users -> Nat \cup {NoLimit}]
        /\ c.remote /\ saved_book.migrated =>
             \A u \in Users : IF u \in saved_book.joined THEN s.limit_of[u] = limit(saved_book, u)
                              ELSE s.limit_of[u] \in 0..rows[u]
    BY <1>3, <1>4, StartFacts
  <1>6. /\ cfg' = c /\ mcfg' = c /\ ecfg' = c /\ present' = c.users /\ used' = rows
        /\ remote' = s.remote /\ limit_of' = s.limit_of
    BY <1>1, <1>3, <1>5
  <1>7. c.users \subseteq Users BY <1>4, ConfigType
  <1>8. count' \in [ops : 0..MaxOps, events : 0..MaxEvents]
    <2>1. count \in [ops : 0..MaxOps, events : 0..MaxEvents] BY DEF Inv, Typed, TypeOK
    <2>2. count.events + 1 \in 0..MaxEvents BY <1>2, <2>1, BoundsAssumption
    <2> QED BY <1>2, <2>1, <2>2
  <1>9. Typed' BY <1>2, <1>4, <1>5, <1>6, <1>7, <1>8, EmptyBookType DEF Inv, Typed, TypeOK
  <1>10. Credited' BY <1>2 DEF Inv, Credited
  <1>11. cfg'.remote /\ book'.migrated => \A u \in present' : Enforced(u)'
    BY <1>2, <1>5, <1>6, <1>7 DEF Enforced, limit
  <1>12. Limited' BY <1>6, <1>11 DEF Limited
  <1>13. Sounds' BY <1>2, EmptySound DEF Inv, Sounds
  <1> QED BY <1>9, <1>10, <1>12, <1>13 DEF Inv

-----------------------------------------------------------------------------
(***************************************************************************)
(* The engine.                                                             *)
(***************************************************************************)
LEMMA BeginFacts ==
    ASSUME Inv, NEW to \in {"fetch", "save"}, Begin(to)
    PROVE  /\ epc = "idle" /\ epc' = to /\ ecfg' = cfg /\ cfg \in Configs
           /\ count' \in [ops : 0..MaxOps, events : 0..MaxEvents]
           /\ pending = NoEntries /\ saved_book = book /\ book \in Books
  <1>1. count \in [ops : 0..MaxOps, events : 0..MaxEvents] BY DEF Inv, Typed, TypeOK
  <1>2. count.ops + 1 \in 0..MaxOps BY <1>1, BoundsAssumption DEF Begin
  <1>3. count' \in [ops : 0..MaxOps, events : 0..MaxEvents] BY <1>1, <1>2 DEF Begin
  <1> QED BY <1>3 DEF Begin, Inv, Typed, TypeOK, Credited

LEMMA SyncBeginInv == ASSUME Inv, SyncBegin PROVE Inv'
  <1>1. /\ Begin("fetch")
        /\ UNCHANGED <<provider, present, used, cfg, mpc, mcfg, msnap, limit_of, unseen, book, remote,
                       next, pending, saved_book, entries>>
    BY DEF SyncBegin, others, main, disk
  <1>2. /\ epc = "idle" /\ epc' = "fetch" /\ ecfg' = cfg /\ cfg \in Configs
        /\ count' \in [ops : 0..MaxOps, events : 0..MaxEvents] /\ saved_book = book
    BY <1>1, BeginFacts
  <1>3. Typed' BY <1>1, <1>2 DEF Inv, Typed, TypeOK
  <1>4. Credited' BY <1>1, <1>2 DEF Inv, Credited
  <1>5. Limited' BY <1>1, <1>2 DEF Inv, Limited, Enforced
  <1>6. Sounds' BY <1>1 DEF Inv, Sounds
  <1> QED BY <1>3, <1>4, <1>5, <1>6 DEF Inv

\* The engine gives up what it was doing: a fetch or a commit has failed.
Dropped ==
    /\ epc \in {"fetch", "save"} /\ EngineIdle
    /\ UNCHANGED <<provider, present, used, cfg, mpc, mcfg, msnap, count, limit_of, unseen, book, remote,
                   ecfg, saved_book, entries>>

LEMMA DroppedInv == ASSUME Inv, FetchFails \/ SaveFails PROVE Inv'
  <1>1. Dropped BY DEF FetchFails, SaveFails, Dropped, others, main, disk
  <1>2. epc \in {"fetch", "save"} /\ epc' = "idle" /\ next' = EmptyBook /\ pending' = NoEntries
    BY <1>1 DEF Dropped, EngineIdle
  <1>3. Typed' BY <1>1, <1>2, EmptyBookType DEF Inv, Typed, TypeOK, Dropped
  <1>4. Credited' BY <1>1, <1>2 DEF Inv, Credited, Dropped
  <1>5. Limited' BY <1>1, <1>2 DEF Inv, Limited, Enforced, Dropped
  <1>6. Sounds' BY <1>1, <1>2, EmptySound DEF Inv, Sounds, Dropped
  <1> QED BY <1>3, <1>4, <1>5, <1>6 DEF Inv

LEMMA FetchedInv == ASSUME Inv, NEW m \in Markets, Fetched(m) PROVE Inv'
  <1>1. PICK f : f = fetched(ecfg, m) OBVIOUS
  <1>2. PICK reading : reading = members(ecfg) OBVIOUS
  <1>3. PICK off : off = offline_remaining(ecfg) OBVIOUS
  <1>4. PICK asg : asg = assignments(ecfg) OBVIOUS
  <1>5. /\ epc = "fetch" /\ epc' = "save" /\ provider' = m
        /\ next' = reconcile(book, f, reading, off, asg)
        /\ pending' = [p \in Packages |-> CreditEntry(book, f, reading, asg, p)]
        /\ UNCHANGED <<present, used, cfg, mpc, mcfg, msnap, count, limit_of, unseen, book, remote,
                       ecfg, saved_book, entries>>
    BY <1>1, <1>2, <1>3, <1>4 DEF Fetched, main, disk
  <1>6. ecfg \in Configs /\ book \in Books /\ Typed BY DEF Inv, Typed, TypeOK
  <1>7. PICK M \in SUBSET Users : reading \in [M -> Nat] /\ off \in [M -> Nat]
    BY <1>2, <1>3, <1>6, MembersType
  <1>8. m \in Wares /\ \A p \in Packages : m[p].total = Sizes[p] /\ m[p].available \in 0..Sizes[p]
    BY <1>6, MarketsType
  <1>9. f \in Listings /\ \A p \in Packages : effective(f[p]) => f[p].total = Sizes[p]
    BY <1>1, <1>8, FetchedType
  <1>10. asg \in Assignments BY <1>4, <1>6, ConfigType
  <1>11. /\ next' \in Books /\ CreditsKept(book, next')
         /\ \A p \in Packages : pending'[p] # 0 =>
               /\ pending'[p] = f[p].total /\ effective(f[p])
               /\ book.packages[p].credit = "none" /\ next'.packages[p].credit # "none"
    BY <1>5, <1>6, <1>7, <1>9, <1>10, ReconcileFacts
  <1>12. Enters(book, next', pending') BY <1>9, <1>11 DEF Enters
  <1>13. pending' \in [Packages -> Nat]
    <2>1. \A p \in Packages : pending'[p] \in Nat
      <3> TAKE p \in Packages
      <3>1. pending'[p] = 0 \/ pending'[p] = Sizes[p] BY <1>12 DEF Enters
      <3> QED BY <3>1, SizesAssumption
    <2> QED BY <1>5, <2>1
  <1>14. Typed' BY <1>5, <1>8, <1>11, <1>13 DEF Inv, Typed, TypeOK
  <1>15. Credited' BY <1>5, <1>12 DEF Inv, Credited, Enters, CreditsKept
  <1>16. Limited' BY <1>5 DEF Inv, Limited, Enforced
  <1>17. Sounds'
    <2>1. Sound(book, provider) /\ Sound(saved_book, provider) /\ saved_book = book
      BY <1>5 DEF Inv, Sounds, Credited
    <2>2. \A p \in Packages : /\ provider[p].available \in Nat /\ m[p].available \in Nat
                              /\ m[p].available <= provider[p].available
      BY <1>6, <1>8, MarketsType DEF Wares
    <2>3. Sound(book, m) BY <1>6, <2>1, <2>2, SoundLater
    <2>4. \A p \in Packages : effective(f[p]) => f[p].available >= m[p].available
      <3> TAKE p \in Packages
      <3>1. effective(f[p]) => f[p] = m[p] BY <1>1 DEF fetched, effective, Absent
      <3> QED BY <2>2, <3>1
    <2>5. Sound(next', m)
      <3>1. Sound(reconcile(book, f, reading, off, asg), m)
        BY <1>6, <1>7, <1>9, <1>10, <2>1, <2>4, ReconcileSound
      <3> QED BY <1>5, <3>1
    <2> QED BY <1>5, <2>1, <2>3, <2>5 DEF Sounds
  <1> QED BY <1>14, <1>15, <1>16, <1>17 DEF Inv

\* An edit of the balances: a new book with the same packages.
Edited(b) ==
    /\ Begin("save") /\ b \in Books /\ b.packages = book.packages /\ Sound(b, provider)
    /\ next' = b
    /\ UNCHANGED <<provider, present, used, cfg, mpc, mcfg, msnap, limit_of, unseen, book, remote,
                   pending, saved_book, entries>>

LEMMA EditedInv == ASSUME Inv, NEW b, Edited(b) PROVE Inv'
  <1>1. /\ epc = "idle" /\ epc' = "save" /\ ecfg' = cfg /\ cfg \in Configs
        /\ count' \in [ops : 0..MaxOps, events : 0..MaxEvents]
        /\ pending = NoEntries /\ saved_book = book
    BY BeginFacts DEF Edited
  <1>2. Typed' BY <1>1 DEF Inv, Typed, TypeOK, Edited
  <1>3. Enters(book', next', pending') BY <1>1 DEF Edited, Enters, CreditsKept, NoEntries
  <1>4. Credited' BY <1>1, <1>3 DEF Inv, Credited, Edited
  <1>5. Limited' BY <1>1 DEF Inv, Limited, Enforced, Edited
  <1>6. Sounds' BY DEF Inv, Sounds, Edited
  <1> QED BY <1>2, <1>4, <1>5, <1>6 DEF Inv

LEMMA AmountsNat == \A n \in Amounts : n \in Nat
  BY BoundsAssumption DEF Amounts

LEMMA TransferInv ==
    ASSUME Inv, NEW u \in Users, NEW v \in Users, NEW n \in Amounts, Transfer(u, v, n) PROVE Inv'
  <1>1. cfg \in Configs /\ book \in Books /\ Typed BY DEF Inv, Typed, TypeOK
  <1>2. PICK reading : reading = members(cfg) OBVIOUS
  <1>3. PICK M \in SUBSET Users : reading \in [M -> Nat] BY <1>1, <1>2, MembersType
  <1>4. u # v /\ u \in M /\ v \in M /\ book.migrated BY <1>2, <1>3 DEF Transfer, transfer_ok
  <1>5. n \in Nat BY AmountsNat
  <1>6. PICK b : b = transfer(book, reading, u, v, n) OBVIOUS
  <1>7. b \in Books /\ b.packages = book.packages
    <2>1. /\ transfer(book, reading, u, v, n) \in Books
          /\ transfer(book, reading, u, v, n).packages = book.packages
      BY <1>1, <1>3, <1>4, <1>5, TransferFacts
    <2> QED BY <1>6, <2>1
  <1>8. Sound(b, provider)
    <2>1. Sound(book, provider) BY DEF Inv, Sounds
    <2>2. Sound(transfer(book, reading, u, v, n), provider)
      BY <1>1, <1>3, <1>4, <1>5, <2>1, TransferSound
    <2> QED BY <1>6, <2>2
  <1>9. Edited(b) BY <1>2, <1>6, <1>7, <1>8 DEF Transfer, Edited, others, main, disk
  <1> QED BY <1>9, EditedInv

LEMMA AllocateInv ==
    ASSUME Inv, NEW S, NEW n \in Amounts, Allocate(S, n) PROVE Inv'
  <1>1. cfg \in Configs /\ book \in Books /\ Typed BY DEF Inv, Typed, TypeOK
  <1>2. PICK reading : reading = members(cfg) OBVIOUS
  <1>3. PICK M \in SUBSET Users : reading \in [M -> Nat] BY <1>1, <1>2, MembersType
  <1>4. S \in SUBSET M /\ S \in SUBSET Users /\ book.migrated BY <1>2, <1>3 DEF Allocate, allocate_ok
  <1>5. n \in Nat BY AmountsNat
  <1>6. PICK b : b = allocate(book, reading, S, n) OBVIOUS
  <1>7. b \in Books /\ b.packages = book.packages BY <1>1, <1>3, <1>4, <1>5, <1>6, AllocateFacts
  <1>8. Sound(b, provider)
    <2>1. Sound(book, provider) BY DEF Inv, Sounds
    <2>2. Sound(allocate(book, reading, S, n), provider)
      BY <1>1, <1>3, <1>4, <1>5, <2>1, AllocateSound
    <2> QED BY <1>6, <2>2
  <1>9. Edited(b) BY <1>2, <1>6, <1>7, <1>8 DEF Allocate, Edited, others, main, disk
  <1> QED BY <1>9, EditedInv

LEMMA SaveInv == ASSUME Inv, Save PROVE Inv'
  <1>1. /\ epc = "save" /\ epc' = "adopt" /\ saved_book' = next
        /\ entries' = [p \in Packages |-> entries[p] + pending[p]]
        /\ UNCHANGED <<provider, present, used, cfg, mpc, mcfg, msnap, count, limit_of, unseen, book,
                       remote, ecfg, next, pending>>
    BY DEF Save, others, main
  <1>2. Enters(book, next, pending) /\ saved_book = book BY <1>1 DEF Inv, Credited
  <1>3. ASSUME NEW p \in Packages
        PROVE  /\ entries'[p] \in {0, Sizes[p]}
               /\ entries'[p] # 0 => saved_book'.packages[p].credit # "none"
    <2>1. /\ entries[p] \in {0, Sizes[p]} /\ Sizes[p] \in Nat
          /\ entries[p] # 0 => saved_book.packages[p].credit # "none"
      BY SizesAssumption DEF Inv, Credited
    <2>2. entries'[p] = entries[p] + pending[p] BY <1>1
    <2>3. CASE pending[p] = 0
      <3>1. entries'[p] = entries[p] BY <2>1, <2>2, <2>3
      <3> QED BY <1>1, <1>2, <2>1, <3>1 DEF Enters, CreditsKept
    <2>4. CASE pending[p] # 0
      <3>1. /\ pending[p] = Sizes[p] /\ book.packages[p].credit = "none"
            /\ next.packages[p].credit # "none"
        BY <1>2, <2>4 DEF Enters
      <3>2. entries[p] = 0 BY <1>2, <2>1, <3>1
      <3>3. entries'[p] = Sizes[p] BY <2>1, <2>2, <3>1, <3>2
      <3> QED BY <1>1, <3>1, <3>3
    <2> QED BY <2>3, <2>4
  <1>4. entries' \in [Packages -> Nat]
    <2>1. \A p \in Packages : entries'[p] \in Nat BY <1>3, SizesAssumption
    <2> QED BY <1>1, <2>1
  <1>5. Typed' BY <1>1, <1>4 DEF Inv, Typed, TypeOK
  <1>6. Credited' BY <1>1, <1>3 DEF Credited
  <1>7. Limited' BY <1>1 DEF Inv, Limited, Enforced
  <1>8. Sounds' BY <1>1 DEF Inv, Sounds
  <1> QED BY <1>5, <1>6, <1>7, <1>8 DEF Inv

LEMMA AdoptInv == ASSUME Inv, Adopt PROVE Inv'
  <1>1. /\ epc = "adopt" /\ epc' = "apply" /\ book' = next /\ remote' = limits(next)
        /\ next' = EmptyBook /\ pending' = NoEntries
        /\ UNCHANGED <<provider, present, used, cfg, mpc, mcfg, msnap, count, limit_of, unseen, ecfg,
                       saved_book, entries>>
    BY DEF Adopt, others, main, disk
  <1>2. next \in Books BY DEF Inv, Typed, TypeOK
  <1>3. remote' \in [book'.joined -> Nat] BY <1>1, <1>2, LimitsType
  <1>4. Typed' BY <1>1, <1>2, <1>3, EmptyBookType DEF Inv, Typed, TypeOK
  <1>5. Credited' BY <1>1 DEF Inv, Credited
  <1>6. Limited' BY <1>1 DEF Inv, Limited
  <1>7. Sounds' BY <1>1, EmptySound DEF Inv, Sounds
  <1> QED BY <1>4, <1>5, <1>6, <1>7 DEF Inv

LEMMA ApplyLimitsInv == ASSUME Inv, ApplyLimits PROVE Inv'
  <1>1. /\ epc = "apply" /\ epc' = "idle" /\ next' = EmptyBook /\ pending' = NoEntries
        /\ limit_of' = [u \in Users |->
                          IF ecfg.remote /\ u \in present
                          THEN IF u \in book.joined THEN limit(book, u) ELSE used[u]
                          ELSE limit_of[u]]
        /\ UNCHANGED <<provider, present, used, cfg, mpc, mcfg, msnap, count, unseen, book, remote, ecfg,
                       saved_book, entries>>
    BY DEF ApplyLimits, EngineIdle, others, main, disk
  <1>2. /\ book \in Books /\ limit_of \in [Users -> Nat \cup {NoLimit}] /\ present \subseteq Users
        /\ \A u \in Users : used[u] \in Nat /\ used[u] \in 0..used[u]
    <2>1. ASSUME NEW u \in Users PROVE used[u] \in Nat /\ used[u] \in 0..used[u]
      <3>1. used[u] \in Nat BY BoundsAssumption DEF Inv, Typed, TypeOK
      <3> QED BY <3>1
    <2> QED BY <2>1 DEF Inv, Typed, TypeOK
  <1>3. \A u \in Users : limit(book, u) \in Nat BY <1>2, LimitsType
  <1>4. limit_of' \in [Users -> Nat \cup {NoLimit}] BY <1>1, <1>2, <1>3
  <1>5. Typed' BY <1>1, <1>4, EmptyBookType DEF Inv, Typed, TypeOK
  <1>6. Credited' BY <1>1 DEF Inv, Credited
  <1>7. ASSUME ecfg.remote, NEW u \in present PROVE Enforced(u)'
    <2>1. limit_of'[u] = IF u \in book.joined THEN limit(book, u) ELSE used[u] BY <1>1, <1>2, <1>7
    <2> QED BY <1>1, <1>2, <2>1 DEF Enforced, limit
  <1>8. ~unseen => ecfg = cfg BY DEF Inv, Limited
  <1>9. Limited' BY <1>1, <1>7, <1>8 DEF Limited
  <1>10. Sounds' BY <1>1, EmptySound DEF Inv, Sounds
  <1> QED BY <1>5, <1>6, <1>9, <1>10 DEF Inv

LEMMA ConfigSeenInv == ASSUME Inv, ConfigSeen PROVE Inv'
  <1>1. /\ epc = "idle" /\ unseen' = FALSE /\ ecfg' = cfg
        /\ IF book.migrated THEN epc' = "apply" /\ remote' = limits(book)
                            ELSE epc' = epc /\ remote' = remote
        /\ UNCHANGED <<provider, present, used, cfg, mpc, mcfg, msnap, count, limit_of, book, next,
                       pending, saved_book, entries>>
    BY DEF ConfigSeen, others, main, disk
  <1>2. book \in Books BY DEF Inv, Typed, TypeOK
  <1>3. limits(book) \in [book.joined -> Nat] BY <1>2, LimitsType
  <1>4. Typed' BY <1>1, <1>3 DEF Inv, Typed, TypeOK
  <1>5. Credited' BY <1>1 DEF Inv, Credited
  <1>6. Limited' BY <1>1 DEF Limited
  <1>7. Sounds' BY <1>1 DEF Inv, Sounds
  <1> QED BY <1>4, <1>5, <1>6, <1>7 DEF Inv

LEMMA NextInv == Inv /\ [Next]_vars => Inv'
  <1>1. SUFFICES ASSUME Inv, [Next]_vars PROVE Inv' OBVIOUS
  <1>2. CASE UNCHANGED vars
    <2>1. UNCHANGED <<provider, present, used, limit_of, cfg, unseen, book, remote, epc, ecfg, next,
                      pending, mpc, mcfg, msnap, saved_book, entries, count>>
      BY <1>2 DEF vars, engine, main, disk
    <2>2. Typed' BY <1>1, <2>1 DEF Inv, Typed, TypeOK
    <2>3. Credited' BY <1>1, <2>1 DEF Inv, Credited
    <2>4. Limited' BY <1>1, <2>1 DEF Inv, Limited, Enforced
    <2>5. Sounds' BY <1>1, <2>1 DEF Inv, Sounds
    <2> QED BY <2>2, <2>3, <2>4, <2>5 DEF Inv
  <1>3. CASE \E u \in Users : Traffic(u) BY <1>1, <1>3, TrafficInv
  <1>4. CASE \E c \in Configs : Reload(c) BY <1>1, <1>4, ReloadInv
  <1>5. CASE SwitchUsers \/ publish BY <1>1, <1>5, SwitchUsersInv, PublishInv
  <1>6. CASE SyncBegin \/ FetchFails \/ Save \/ SaveFails \/ Adopt \/ ApplyLimits
    BY <1>1, <1>6, SyncBeginInv, DroppedInv, SaveInv, AdoptInv, ApplyLimitsInv
  <1>7. CASE ConfigSeen BY <1>1, <1>7, ConfigSeenInv
  <1>8. CASE \E m \in Markets : Fetched(m) BY <1>1, <1>8, FetchedInv
  <1>9. CASE \E u, v \in Users, n \in Amounts : Transfer(u, v, n) BY <1>1, <1>9, TransferInv
  <1>10. CASE \E S \in {DOMAIN members(cfg)} \cup {{u} : u \in Users}, n \in Amounts : Allocate(S, n)
    BY <1>1, <1>10, AllocateInv
  <1>11. CASE \E rows \in Rows : SetLimits(rows) \/ Crash(rows) BY <1>1, <1>11, SetLimitsInv, CrashInv
  <1> QED BY <1>1, <1>2, <1>3, <1>4, <1>5, <1>6, <1>7, <1>8, <1>9, <1>10, <1>11 DEF Next

LEMMA InvAlways == Spec => []Inv
  BY InitInv, NextInv, PTL DEF Spec

-----------------------------------------------------------------------------
(* CreditedOnce (README, "New packages are credited once"): whatever the   *)
(* order of list changes, failed saves, crashes and packages that come and *)
(* go, the ledger on disk holds nothing for a package, or its size.        *)
THEOREM CreditIsEnteredOnce == Spec => []CreditedOnce
  <1>1. Inv => CreditedOnce BY DEF Inv, Typed, Credited, CreditedOnce
  <1> QED BY <1>1, InvAlways, PTL

(* LimitsMatchBook (accounting.rs, Engine::commit and apply_limits, against *)
(* Runtime::apply): once engine and main task are at rest in remote mode,   *)
(* each quota enforces the book, and who is not in it is stopped.           *)
THEOREM BookIsEnforced == Spec => []LimitsMatchBook
  <1>1. Inv => LimitsMatchBook BY DEF Inv, Limited, Enforced, LimitsMatchBook, Quiet
  <1> QED BY <1>1, InvAlways, PTL

(* GiverKeepsWhatIsSpent (ledger.rs, Book::transfer): no edit of the        *)
(* balances takes from a user what that user has already moved.             *)
THEOREM GiversKeepWhatIsSpent == Spec => GiverKeepsWhatIsSpent
  <1>1. ASSUME Inv, [Next]_vars, epc = "idle", epc' = "save", NEW w \in book.joined,
               next'.balances[w] < book.balances[w]
        PROVE  limit(next', w) >= used[w]
    <2>1. /\ cfg \in Configs /\ book \in Books /\ Typed /\ w \in Users
          /\ \A u \in Users : used[u] \in Nat
      BY <1>1, BoundsAssumption DEF Inv, Typed, TypeOK, Books
    <2>2. PICK reading : reading = members(cfg) OBVIOUS
    <2>3. PICK M \in SUBSET Users : reading \in [M -> Nat] /\ \A u \in M : reading[u] = used[u]
      BY <2>1, <2>2, MembersType
    <2>4. \/ \E u, v \in Users, n \in Amounts : Transfer(u, v, n)
          \/ \E S \in {DOMAIN members(cfg)} \cup {{u} : u \in Users}, n \in Amounts : Allocate(S, n)
      BY <1>1 DEF Next, vars, engine, main, disk, others, EngineIdle, Traffic, Reload, SetLimits, SwitchUsers,
         publish, SyncBegin, Begin, FetchFails, SaveFails, Save, Adopt, ApplyLimits, ConfigSeen, Fetched, Crash
    <2>5. ASSUME NEW u \in Users, NEW v \in Users, NEW n \in Amounts, Transfer(u, v, n)
          PROVE  limit(next', w) >= used[w]
      <3>1. PICK j : j = join(book, reading) OBVIOUS
      <3>2. /\ u # v /\ u \in M /\ n <= j.balances[u] - Positive(used[u] - j.baselines[u])
            /\ next' = transfer(book, reading, u, v, n)
        BY <2>2, <2>3, <2>5, <3>1 DEF Transfer, transfer_ok
      <3>3. n \in Nat BY AmountsNat
      <3>4. j \in Books /\ j.balances = book.balances BY <2>1, <2>3, <3>1, JoinFacts
      <3>5. /\ next'.baselines = j.baselines
            /\ next'.balances = [x \in Users |-> IF x = u THEN book.balances[u] - n
                                                 ELSE IF x = v THEN book.balances[v] + n ELSE book.balances[x]]
        <4>1. next'.baselines = j.baselines /\ next'.balances = Moved(book, u, v, n)
          BY <2>1, <2>3, <3>1, <3>2, <3>3, TransferFacts
        <4> QED BY <4>1 DEF Moved
      <3>6. book.balances \in [Users -> Int] /\ j.baselines \in [Users -> Nat] BY <2>1, <3>4 DEF Books
      <3>7. w = u
        <4>1. ASSUME w # u PROVE FALSE
          <5>1. next'.balances[w] = IF w = v THEN book.balances[v] + n ELSE book.balances[w]
            BY <2>1, <3>5, <4>1
          <5>2. book.balances[w] \in Int BY <2>1, <3>6
          <5> QED BY <1>1, <3>3, <5>1, <5>2
        <4> QED BY <4>1
      <3>8. PICK bal \in Int, base \in Nat, us \in Nat :
               bal = book.balances[u] /\ base = j.baselines[u] /\ us = used[u]
        BY <2>1, <3>6
      <3>9. n <= bal - Positive(us - base) BY <3>2, <3>4, <3>8
      <3>10. limit(next', u) = base + Positive(bal - n) BY <3>5, <3>8 DEF limit
      <3>11. base + Positive(bal - n) >= us BY <3>3, <3>8, <3>9 DEF Positive
      <3> QED BY <3>7, <3>8, <3>10, <3>11
    <2>6. ASSUME NEW S, NEW n \in Amounts, Allocate(S, n) PROVE FALSE
      <3>1. S \in SUBSET Users BY <2>2, <2>3, <2>6 DEF Allocate, allocate_ok
      <3>2. n \in Nat BY AmountsNat
      <3>3. next' = allocate(book, reading, S, n) BY <2>2, <2>6 DEF Allocate
      <3>4. next'.balances[w] >= book.balances[w] /\ next' \in Books
        BY <2>1, <2>3, <3>1, <3>2, <3>3, AllocateFacts
      <3>5. next'.balances[w] \in Int /\ book.balances[w] \in Int BY <2>1, <3>4 DEF Books
      <3> QED BY <1>1, <3>4, <3>5
    <2> QED BY <2>4, <2>5, <2>6
  <1>2. Inv /\ [Next]_vars => [epc = "idle" /\ epc' = "save" =>
          \A u \in book.joined :
             next'.balances[u] < book.balances[u] => limit(next', u) >= used[u]]_vars
    BY <1>1
  <1> QED BY <1>2, InvAlways, PTL DEF Spec, GiverKeepsWhatIsSpent

(* SyncConserves (ledger.rs, Book::reconcile; README, "so the balances keep *)
(* adding up to the console"): with every package credited and traffic      *)
(* metered, a sync leaves the unallocated traffic exactly as it was.        *)
THEOREM SyncsConserve == Spec => SyncConserves
  <1>1. ASSUME Inv, [Next]_vars, SyncStep, book.migrated, ~ecfg.exclusive, AllCredited(book), AllCredited(next'),
               \A p \in Packages : effective(next'.packages[p]) /\ ~effective(book.packages[p])
                                      => book.packages[p].credit = "none",
               next'.metered > 0 \/ next'.consumed = 0,
               \E u \in Users : next'.balances[u] > 0
        PROVE  unallocated(next') = unallocated(book)
    <2>1. PICK m \in Markets : Fetched(m)
      BY <1>1 DEF SyncStep, Next, vars, engine, main, disk, others, EngineIdle, Traffic, Reload, SetLimits,
         SwitchUsers, publish, SyncBegin, Begin, FetchFails, SaveFails, Save, Adopt, ApplyLimits, ConfigSeen,
         Transfer, Allocate, Crash
    <2>2. PICK f : f = fetched(ecfg, m) OBVIOUS
    <2>3. PICK reading : reading = members(ecfg) OBVIOUS
    <2>4. PICK asg : asg = assignments(ecfg) OBVIOUS
    <2>5. next' = settle(book, f, reading, asg)
      BY <1>1, <2>1, <2>2, <2>3, <2>4 DEF Fetched, reconcile
    <2>6. ecfg \in Configs /\ book \in Books /\ Typed /\ Sound(book, provider)
      BY <1>1 DEF Inv, Typed, TypeOK, Sounds
    <2>7. PICK M \in SUBSET Users : reading \in [M -> Nat] BY <2>3, <2>6, MembersType
    <2>8. /\ m \in Wares
          /\ \A p \in Packages : /\ m[p].total = Sizes[p] /\ m[p].available \in 0..Sizes[p]
                                 /\ m[p].available <= provider[p].available
                                 /\ provider[p].available \in Nat
      BY <2>1, <2>6, MarketsType
    <2>9. f \in Listings BY <2>2, <2>8, FetchedType
    <2>10. asg \in Assignments /\ ~asg.exclusive BY <1>1, <2>4, <2>6, ConfigType DEF assignments
    <2>11. \A p \in Packages : effective(f[p]) => /\ f[p].available <= f[p].total
                                                  /\ f[p].available <= provider[p].available
      <3> TAKE p \in Packages
      <3>1. effective(f[p]) => f[p] = m[p] BY <2>2 DEF fetched, effective, Absent
      <3>2. m[p].available <= m[p].total /\ m[p].available <= provider[p].available
        <4>1. PICK s \in Nat : s = Sizes[p] BY SizesAssumption
        <4>2. m[p].available \in 0..s /\ m[p].total = s BY <2>8, <4>1
        <4> QED BY <2>8, <4>2
      <3> QED BY <3>1, <3>2
    <2>12. PICK s : s = next' OBVIOUS
    <2>13. PICK b : b = book OBVIOUS
    <2>14. unallocated(s) = unallocated(b)
      <3>1. s = settle(b, f, reading, asg) /\ b \in Books /\ Sound(b, provider) BY <2>5, <2>6, <2>12, <2>13
      <3>2. /\ AllCredited(b) /\ AllCredited(s)
            /\ \A p \in Packages : effective(s.packages[p]) /\ ~effective(b.packages[p])
                                     => b.packages[p].credit = "none"
            /\ s.metered > 0 \/ s.consumed = 0
            /\ \E u \in Users : s.balances[u] > 0
        BY <1>1, <2>12, <2>13
      <3> QED BY <2>7, <2>8, <2>9, <2>10, <2>11, <3>1, <3>2, SettleConserves
    <2> QED BY <2>12, <2>13, <2>14
  <1>2. Inv /\ [Next]_vars =>
          [/\ SyncStep /\ book.migrated /\ ~ecfg.exclusive
           /\ AllCredited(book) /\ AllCredited(next')
           /\ \A p \in Packages : effective(next'.packages[p]) /\ ~effective(book.packages[p])
                 => book.packages[p].credit = "none"
           /\ next'.metered > 0 \/ next'.consumed = 0
           /\ \E u \in Users : next'.balances[u] > 0
           => unallocated(next') = unallocated(book)]_vars
    BY <1>1
  <1> QED BY <1>2, InvAlways, PTL DEF Spec, SyncConserves
=============================================================================
