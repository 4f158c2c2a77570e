----------------------------- MODULE SetInduction -----------------------------
(***************************************************************************)
(* Induction without operators: a property is the set of what has it.      *)
(* With it, facts about sums over finite sets, as folding + over a         *)
(* function's domain computes them (Total of JevAnswers, SumFunction).     *)
(***************************************************************************)
EXTENDS Integers, FiniteSets, FiniteSetTheorems, TLAPS

(* A non-empty set of naturals has a least element.                        *)
LEMMA LeastNatural ==
  ASSUME NEW T, T \subseteq Nat, T # {}
  PROVE  \E m \in T : \A k \in T : m <= k
<1>1. \E x \in T : \A y \in T : <<y, x>> \notin OpToRel(<, Nat)
  BY NatLessThanWellFounded, WFMin
<1>2. PICK m \in T : \A y \in T : <<y, m>> \notin OpToRel(<, Nat)
  BY <1>1
<1>3. ASSUME NEW k \in T, k < m
      PROVE  FALSE
  <2>1. <<k, m>> \in OpToRel(<, Nat)
    BY <1>3 DEF OpToRel
  <2> QED BY <2>1, <1>2
<1> QED BY <1>3

(* A set of naturals that has 0 and all successors has every natural.      *)
LEMMA EveryNatural ==
  ASSUME NEW T, 0 \in T, \A n \in Nat : n \in T => n + 1 \in T
  PROVE  Nat \subseteq T
<1>1. SUFFICES ASSUME Nat \ T # {} PROVE FALSE
  OBVIOUS
<1>2. PICK m \in Nat \ T : \A k \in Nat \ T : m <= k
  <2> DEFINE rest == Nat \ T
  <2>1. rest \subseteq Nat /\ rest # {}
    BY <1>1
  <2> HIDE DEF rest
  <2>2. \E m \in rest : \A k \in rest : m <= k
    BY <2>1, LeastNatural
  <2> QED BY <2>2 DEF rest
<1>3. m # 0 /\ m - 1 \in Nat /\ m - 1 \in T
  BY <1>2
<1> QED BY <1>2, <1>3

(* A family of subsets that has the empty one, and every set one element   *)
(* larger than one it has, has the finite set itself.                      *)
LEMMA EveryFiniteSet ==
  ASSUME NEW S, IsFiniteSet(S), NEW F, {} \in F,
         \A U \in SUBSET S : \A x \in S \ U : U \in F => U \cup {x} \in F
  PROVE  S \in F
<1> DEFINE T == {n \in Nat : \A U \in SUBSET S : Cardinality(U) = n => U \in F}
<1>1. 0 \in T
  <2>1. \A U \in SUBSET S : Cardinality(U) = 0 => U = {}
    BY FS_Subset, FS_EmptySet
  <2> QED BY <2>1
<1>2. ASSUME NEW n \in Nat, n \in T
      PROVE  n + 1 \in T
  <2>1. ASSUME NEW U \in SUBSET S, Cardinality(U) = n + 1
        PROVE  U \in F
    <3>1. IsFiniteSet(U)
      BY FS_Subset
    <3>2. PICK x \in U : TRUE
      BY <2>1, <3>1, FS_EmptySet
    <3>3. Cardinality(U \ {x}) = n
      <4>1. Cardinality(U \ {x}) = Cardinality(U) - 1
        BY <3>1, <3>2, FS_RemoveElement
      <4> QED BY <2>1, <4>1
    <3>4. U \ {x} \in F
      BY <1>2, <3>3
    <3>5. (U \ {x}) \cup {x} = U
      BY <3>2
    <3> QED BY <3>2, <3>4, <3>5
  <2> QED BY <2>1
<1>3. Nat \subseteq T
  <2> HIDE DEF T
  <2> QED BY <1>1, <1>2, EveryNatural
<1> QED BY <1>3, FS_CardinalityType

(* A finite non-empty set of integers has a greatest element.              *)
LEMMA GreatestInteger ==
  ASSUME NEW S, IsFiniteSet(S), S \subseteq Int, S # {}
  PROVE  \E m \in S : \A k \in S : k <= m
<1> DEFINE F == {U \in SUBSET S : U # {} => \E m \in U : \A k \in U : k <= m}
<1>1. {} \in F
  OBVIOUS
<1>2. ASSUME NEW U \in SUBSET S, NEW x \in S \ U, U \in F
      PROVE  U \cup {x} \in F
  <2>1. CASE U = {}
    <3>1. x <= x
      OBVIOUS
    <3> QED BY <2>1, <3>1
  <2>2. CASE U # {}
    <3>1. PICK m \in U : \A k \in U : k <= m
      BY <1>2, <2>2
    <3>2. CASE x <= m
      BY <3>1, <3>2
    <3>3. CASE m <= x
      <4>1. \A k \in U \cup {x} : k <= x
        BY <3>1, <3>3
      <4> QED BY <4>1
    <3> QED BY <3>2, <3>3
  <2> QED BY <2>1, <2>2
<1>3. S \in F
  <2> HIDE DEF F
  <2> QED BY <1>1, <1>2, EveryFiniteSet
<1> QED BY <1>3

-------------------------------------------------------------------------------
(***************************************************************************)
(* Sums                                                                    *)
(***************************************************************************)

Member(s) == CHOOSE x \in s : TRUE

(* What folding + over a function's domain means, and the recursion it     *)
(* rests on.                                                               *)
SumsUp(f, S, iter) ==
  iter = [s \in SUBSET S |-> IF s = {} THEN 0 ELSE f[Member(s)] + iter[s \ {Member(s)}]]
Sum(f) == (CHOOSE iter : SumsUp(f, DOMAIN f, iter))[DOMAIN f]

LEMMA MemberLeaves ==
  ASSUME NEW S, IsFiniteSet(S), NEW s \in SUBSET S
  PROVE  /\ Cardinality(s) \in Nat /\ (Cardinality(s) = 0 <=> s = {})
         /\ \A n \in Nat : Cardinality(s) = n + 1 =>
              Member(s) \in S /\ s \ {Member(s)} \in SUBSET S
              /\ Cardinality(s \ {Member(s)}) = n /\ s # {}
<1>1. IsFiniteSet(s)
  BY FS_Subset
<1>2. Cardinality(s) \in Nat /\ (Cardinality(s) = 0 <=> s = {})
  BY <1>1, FS_CardinalityType, FS_EmptySet
<1>3. ASSUME NEW n \in Nat, Cardinality(s) = n + 1
      PROVE  /\ Member(s) \in S /\ s \ {Member(s)} \in SUBSET S
             /\ Cardinality(s \ {Member(s)}) = n /\ s # {}
  <2>1. s # {} /\ Member(s) \in s
    BY <1>2, <1>3 DEF Member
  <2>2. Cardinality(s \ {Member(s)}) = Cardinality(s) - 1
    BY <1>1, <2>1, FS_RemoveElement
  <2> QED BY <1>3, <2>1, <2>2
<1> QED BY <1>2, <1>3

(* The recursion has a solution on a finite set.                           *)
LEMMA SumsExist ==
  ASSUME NEW S, IsFiniteSet(S), NEW f
  PROVE  \E iter : SumsUp(f, S, iter)
<1> DEFINE Small(n) == {s \in SUBSET S : Cardinality(s) <= n}
           Up(g, n) == g = [s \in Small(n) |->
                              IF s = {} THEN 0 ELSE f[Member(s)] + g[s \ {Member(s)}]]
           T == {n \in Nat : \E g : Up(g, n)}
<1>1. \A s \in SUBSET S :
        /\ Cardinality(s) \in Nat /\ Cardinality(s) <= Cardinality(S)
        /\ Cardinality(s) = 0 <=> s = {}
        /\ s # {} => /\ s \ {Member(s)} \in SUBSET S
                     /\ Cardinality(s \ {Member(s)}) = Cardinality(s) - 1
  <2> TAKE s \in SUBSET S
  <2>1. IsFiniteSet(s) /\ Cardinality(s) \in Nat /\ Cardinality(s) <= Cardinality(S)
    BY FS_Subset, FS_CardinalityType
  <2>2. Cardinality(s) = 0 <=> s = {}
    BY <2>1, FS_EmptySet
  <2>3. s # {} => Member(s) \in s
    BY DEF Member
  <2>4. s # {} => Cardinality(s \ {Member(s)}) = Cardinality(s) - 1
    BY <2>1, <2>3, FS_RemoveElement
  <2> QED BY <2>1, <2>2, <2>4
<1>2. 0 \in T
  <2>1. ASSUME NEW s \in Small(0) PROVE s = {}
    <3>1. s \in SUBSET S /\ Cardinality(s) <= 0
      OBVIOUS
    <3>2. Cardinality(s) \in Nat /\ (Cardinality(s) = 0 <=> s = {})
      BY <1>1, <3>1
    <3> QED BY <3>1, <3>2
  <2>2. Up([s \in Small(0) |-> 0], 0)
    BY <2>1
  <2> QED BY <2>2
<1>3. ASSUME NEW n \in Nat, n \in T
      PROVE  n + 1 \in T
  <2>1. PICK g : Up(g, n)
    BY <1>3
  <2> DEFINE h == [s \in Small(n + 1) |->
                     IF s = {} THEN 0 ELSE f[Member(s)] + g[s \ {Member(s)}]]
  <2>2. ASSUME NEW s \in Small(n)
        PROVE  s \in Small(n + 1) /\ h[s] = g[s]
    <3>1. s \in Small(n + 1)
      <4>1. s \in SUBSET S /\ Cardinality(s) <= n
        OBVIOUS
      <4>2. Cardinality(s) \in Nat
        BY <1>1, <4>1
      <4>3. Cardinality(s) <= n + 1
        <5> HIDE DEF T, Small
        <5> QED BY <4>1, <4>2
      <4> QED BY <4>1, <4>3
    <3>2. g[s] = IF s = {} THEN 0 ELSE f[Member(s)] + g[s \ {Member(s)}]
      BY <2>1
    <3> QED BY <3>1, <3>2
  <2>3. ASSUME NEW s \in Small(n + 1), s # {}
        PROVE  s \ {Member(s)} \in Small(n)
    BY <1>1, <2>3
  <2>4. Up(h, n + 1)
    <3>1. \A s \in Small(n + 1) : s # {} => g[s \ {Member(s)}] = h[s \ {Member(s)}]
      BY <2>2, <2>3
    <3>2. \A s \in Small(n + 1) :
            (IF s = {} THEN 0 ELSE f[Member(s)] + g[s \ {Member(s)}])
              = (IF s = {} THEN 0 ELSE f[Member(s)] + h[s \ {Member(s)}])
      BY <3>1
    <3> HIDE DEF Small
    <3>3. h = [s \in Small(n + 1) |->
                 IF s = {} THEN 0 ELSE f[Member(s)] + h[s \ {Member(s)}]]
      <4> DEFINE A(s) == IF s = {} THEN 0 ELSE f[Member(s)] + g[s \ {Member(s)}]
                 B(s) == IF s = {} THEN 0 ELSE f[Member(s)] + h[s \ {Member(s)}]
      <4>1. h = [s \in Small(n + 1) |-> A(s)]
        OBVIOUS
      <4>2. \A s \in Small(n + 1) : A(s) = B(s)
        BY <3>2
      <4> HIDE DEF A, B, h
      <4>3. h = [s \in Small(n + 1) |-> B(s)]
        BY <4>1, <4>2
      <4> QED BY <4>3 DEF B
    <3> HIDE DEF h
    <3> QED BY <3>3
  <2>5. \E f1 : Up(f1, n + 1)
    <3> HIDE DEF Up, h
    <3> QED BY <2>4
  <2> HIDE DEF Up
  <2> QED BY <2>5
<1>4. Cardinality(S) \in T
  <2>1. Nat \subseteq T
    <3> HIDE DEF T
    <3> QED BY <1>2, <1>3, EveryNatural
  <2> QED BY <2>1, FS_CardinalityType
<1>5. Small(Cardinality(S)) = SUBSET S
  BY <1>1
<1> QED BY <1>4, <1>5 DEF SumsUp

(* Sums of two functions compare as their values do, up to factors.        *)
LEMMA SumCompares ==
  ASSUME NEW S, IsFiniteSet(S), NEW f \in [S -> Int], NEW g \in [S -> Int],
         NEW a \in Int, NEW c \in Int, \A x \in S : a * f[x] <= c * g[x]
  PROVE  Sum(f) \in Int /\ Sum(g) \in Int /\ a * Sum(f) <= c * Sum(g)
<1>1. PICK F : SumsUp(f, S, F) /\ F = CHOOSE iter : SumsUp(f, S, iter)
  BY SumsExist
<1>2. PICK G : SumsUp(g, S, G) /\ G = CHOOSE iter : SumsUp(g, S, iter)
  BY SumsExist
<1> DEFINE T == {n \in Nat : \A s \in SUBSET S : Cardinality(s) = n =>
                     F[s] \in Int /\ G[s] \in Int /\ a * F[s] <= c * G[s]}
<1>3. \A s \in SUBSET S :
        /\ Cardinality(s) \in Nat /\ (Cardinality(s) = 0 <=> s = {})
        /\ \A n \in Nat : Cardinality(s) = n + 1 =>
             Member(s) \in S /\ s \ {Member(s)} \in SUBSET S
             /\ Cardinality(s \ {Member(s)}) = n /\ s # {}
  BY MemberLeaves
<1>4. /\ \A s \in SUBSET S : F[s] = IF s = {} THEN 0 ELSE f[Member(s)] + F[s \ {Member(s)}]
      /\ \A s \in SUBSET S : G[s] = IF s = {} THEN 0 ELSE g[Member(s)] + G[s \ {Member(s)}]
  BY <1>1, <1>2 DEF SumsUp
<1>5. 0 \in T
  <2>1. {} \in SUBSET S
    OBVIOUS
  <2>2. F[{}] = 0 /\ G[{}] = 0
    <3> HIDE DEF T
    <3> QED BY <1>4, <2>1
  <2>3. \A s \in SUBSET S : Cardinality(s) = 0 => F[s] = 0 /\ G[s] = 0
    BY <1>3, <2>2
  <2>4. a * 0 = 0 /\ c * 0 = 0
    OBVIOUS
  <2> QED BY <2>3, <2>4
<1>6. ASSUME NEW n \in Nat, n \in T
      PROVE  n + 1 \in T
  <2>1. ASSUME NEW s \in SUBSET S, Cardinality(s) = n + 1
        PROVE  F[s] \in Int /\ G[s] \in Int /\ a * F[s] <= c * G[s]
    <3> DEFINE x == Member(s)
               r == s \ {Member(s)}
    <3>1. x \in S /\ r \in SUBSET S /\ Cardinality(r) = n /\ s # {}
      BY <1>3, <2>1
    <3>2. F[r] \in Int /\ G[r] \in Int /\ a * F[r] <= c * G[r]
      BY <1>6, <3>1
    <3>3. F[s] = f[x] + F[r] /\ G[s] = g[x] + G[r]
      BY <1>4, <3>1
    <3>4. f[x] \in Int /\ g[x] \in Int /\ a * f[x] <= c * g[x]
      BY <3>1
    <3> HIDE DEF x, r
    <3>5. /\ a * (f[x] + F[r]) = a * f[x] + a * F[r] /\ a * f[x] \in Int /\ a * F[r] \in Int
          /\ c * (g[x] + G[r]) = c * g[x] + c * G[r] /\ c * g[x] \in Int /\ c * G[r] \in Int
      BY <3>2, <3>4
    <3>6. a * f[x] + a * F[r] <= c * g[x] + c * G[r]
      BY <3>2, <3>4, <3>5
    <3> QED BY <3>2, <3>3, <3>4, <3>5, <3>6
  <2> QED BY <2>1
<1>7. Nat \subseteq T
  <2> HIDE DEF T
  <2> QED BY <1>5, <1>6, EveryNatural
<1>8. F[S] \in Int /\ G[S] \in Int /\ a * F[S] <= c * G[S]
  BY <1>3, <1>7
<1> QED BY <1>1, <1>2, <1>8 DEF Sum

(* A function of ones counts.                                              *)
LEMMA SumCounts ==
  ASSUME NEW S, IsFiniteSet(S)
  PROVE  Sum([x \in S |-> 1]) = Cardinality(S)
<1> DEFINE f == [x \in S |-> 1]
<1>1. PICK F : SumsUp(f, S, F) /\ F = CHOOSE iter : SumsUp(f, S, iter)
  BY SumsExist
<1> DEFINE T == {n \in Nat : \A s \in SUBSET S : Cardinality(s) = n => F[s] = n}
<1>3. \A s \in SUBSET S :
        /\ Cardinality(s) \in Nat /\ (Cardinality(s) = 0 <=> s = {})
        /\ \A n \in Nat : Cardinality(s) = n + 1 =>
             Member(s) \in S /\ s \ {Member(s)} \in SUBSET S
             /\ Cardinality(s \ {Member(s)}) = n /\ s # {}
  BY MemberLeaves
<1>4. \A s \in SUBSET S : F[s] = IF s = {} THEN 0 ELSE f[Member(s)] + F[s \ {Member(s)}]
  BY <1>1 DEF SumsUp
<1>5. 0 \in T
  BY <1>3, <1>4
<1>6. ASSUME NEW n \in Nat, n \in T
      PROVE  n + 1 \in T
  <2>1. ASSUME NEW s \in SUBSET S, Cardinality(s) = n + 1
        PROVE  F[s] = n + 1
    <3>1. Member(s) \in S /\ Cardinality(s \ {Member(s)}) = n /\ s # {}
      BY <1>3, <2>1
    <3>2. F[s \ {Member(s)}] = n /\ f[Member(s)] = 1
      BY <1>6, <3>1
    <3> QED BY <1>4, <3>1, <3>2
  <2> QED BY <2>1
<1>7. Nat \subseteq T
  <2> HIDE DEF T
  <2> QED BY <1>5, <1>6, EveryNatural
<1>8. F[S] = Cardinality(S)
  BY <1>3, <1>7
<1> QED BY <1>1, <1>8 DEF Sum

(* The sum over a part is what the recursion for the whole gives there.    *)
LEMMA SumOfPart ==
  ASSUME NEW S, IsFiniteSet(S), NEW f, NEW s \in SUBSET S,
         NEW F, SumsUp(f, S, F)
  PROVE  Sum([x \in s |-> f[x]]) = F[s]
<1> DEFINE g == [x \in s |-> f[x]]
<1>1. IsFiniteSet(s) /\ DOMAIN g = s
  BY FS_Subset
<1>2. PICK G : SumsUp(g, s, G) /\ G = CHOOSE iter : SumsUp(g, s, iter)
  <2> HIDE DEF g
  <2> QED BY <1>1, SumsExist
<1> DEFINE T == {n \in Nat : \A u \in SUBSET s : Cardinality(u) = n => F[u] = G[u]}
<1>3. \A u \in SUBSET s :
        /\ Cardinality(u) \in Nat /\ (Cardinality(u) = 0 <=> u = {})
        /\ \A n \in Nat : Cardinality(u) = n + 1 =>
             Member(u) \in s /\ u \ {Member(u)} \in SUBSET s
             /\ Cardinality(u \ {Member(u)}) = n /\ u # {}
  BY <1>1, MemberLeaves
<1>4. \A u \in SUBSET s :
        /\ F[u] = IF u = {} THEN 0 ELSE f[Member(u)] + F[u \ {Member(u)}]
        /\ G[u] = IF u = {} THEN 0 ELSE g[Member(u)] + G[u \ {Member(u)}]
  <2> HIDE DEF g
  <2> TAKE u \in SUBSET s
  <2>1. u \in SUBSET S
    OBVIOUS
  <2>2. F[u] = IF u = {} THEN 0 ELSE f[Member(u)] + F[u \ {Member(u)}]
    BY <2>1 DEF SumsUp
  <2>3. G[u] = IF u = {} THEN 0 ELSE g[Member(u)] + G[u \ {Member(u)}]
    BY <1>2 DEF SumsUp
  <2> QED BY <2>2, <2>3
<1>5. 0 \in T
  BY <1>3, <1>4
<1>6. ASSUME NEW n \in Nat, n \in T
      PROVE  n + 1 \in T
  <2>1. ASSUME NEW u \in SUBSET s, Cardinality(u) = n + 1
        PROVE  F[u] = G[u]
    <3>1. /\ Member(u) \in s /\ u # {} /\ u \ {Member(u)} \in SUBSET s
          /\ Cardinality(u \ {Member(u)}) = n
      BY <1>3, <2>1
    <3>2. F[u \ {Member(u)}] = G[u \ {Member(u)}]
      BY <1>6, <3>1
    <3>3. g[Member(u)] = f[Member(u)]
      BY <3>1
    <3> QED BY <1>4, <3>1, <3>2, <3>3
  <2> QED BY <2>1
<1>7. Nat \subseteq T
  <2> HIDE DEF T
  <2> QED BY <1>5, <1>6, EveryNatural
<1>8. F[s] = G[s]
  BY <1>3, <1>7
<1>9. Sum(g) = G[s]
  <2> HIDE DEF g
  <2> QED BY <1>1, <1>2 DEF Sum
<1> QED BY <1>8, <1>9

(* Numbers have a sum that is a number.                                    *)
LEMMA SumType ==
  ASSUME NEW S, IsFiniteSet(S), NEW f \in [S -> Int]
  PROVE  Sum(f) \in Int
<1>1. 1 \in Int /\ \A x \in S : 1 * f[x] <= 1 * f[x]
  OBVIOUS
<1> QED BY <1>1, SumCompares

LEMMA SumOfNone == Sum([x \in {} |-> 0]) = 0
<1> DEFINE f == [x \in {} |-> 0]
<1>1. IsFiniteSet({}) /\ Cardinality({}) = 0
  BY FS_EmptySet
<1>2. f = [x \in {} |-> 1]
  OBVIOUS
<1>3. Sum([x \in {} |-> 1]) = 0
  BY <1>1, SumCounts
<1> QED BY <1>2, <1>3

(* It does not matter which member is added first.                         *)
LEMMA SumRemoves ==
  ASSUME NEW S, IsFiniteSet(S), NEW f \in [S -> Int], NEW x \in S
  PROVE  /\ Sum(f) \in Int /\ Sum([y \in S \ {x} |-> f[y]]) \in Int
         /\ Sum(f) = f[x] + Sum([y \in S \ {x} |-> f[y]])
<1>1. PICK F : SumsUp(f, S, F) /\ F = CHOOSE iter : SumsUp(f, S, iter)
  BY SumsExist
<1>2. \A s \in SUBSET S :
        /\ Cardinality(s) \in Nat /\ (Cardinality(s) = 0 <=> s = {})
        /\ \A n \in Nat : Cardinality(s) = n + 1 =>
             Member(s) \in S /\ s \ {Member(s)} \in SUBSET S
             /\ Cardinality(s \ {Member(s)}) = n /\ s # {}
  BY MemberLeaves
<1>3. \A s \in SUBSET S : F[s] = IF s = {} THEN 0 ELSE f[Member(s)] + F[s \ {Member(s)}]
  BY <1>1 DEF SumsUp
<1>4. ASSUME NEW s \in SUBSET S
      PROVE  F[s] \in Int /\ F[s] = Sum([y \in s |-> f[y]])
  <2> DEFINE g == [y \in s |-> f[y]]
  <2>1. IsFiniteSet(s) /\ g \in [s -> Int]
    BY FS_Subset
  <2>2. F[s] = Sum(g)
    BY <1>1, SumOfPart
  <2>3. Sum(g) \in Int
    <3> HIDE DEF g
    <3> QED BY <2>1, SumType
  <2> QED BY <2>2, <2>3
<1> DEFINE T == {n \in Nat : \A s \in SUBSET S : Cardinality(s) = n =>
                   \A y \in s : F[s] = f[y] + F[s \ {y}]}
<1>5. 0 \in T
  BY <1>2
<1>6. ASSUME NEW n \in Nat, n \in T
      PROVE  n + 1 \in T
  <2>1. ASSUME NEW s \in SUBSET S, Cardinality(s) = n + 1, NEW y \in s
        PROVE  F[s] = f[y] + F[s \ {y}]
    <3> DEFINE m == Member(s)
               r == s \ {m}
               q == s \ {y}
               p == r \ {y}
    <3>1. /\ m \in S /\ r \in SUBSET S /\ Cardinality(r) = n /\ s # {}
          /\ m \in s
      BY <1>2, <2>1 DEF Member
    <3>2. \A z \in r : F[r] = f[z] + F[r \ {z}]
      BY <1>6, <3>1
    <3>3. F[s] = f[m] + F[r] /\ f[m] \in Int /\ f[y] \in Int
      BY <1>3, <3>1
    <3>4. CASE y = m
      BY <3>3, <3>4
    <3>5. CASE y # m
      <4>1. y \in r /\ m \in q /\ q \in SUBSET S /\ p \in SUBSET S /\ q \ {m} = p
        BY <3>1, <3>5
      <4>2. Cardinality(q) = n
        <5>1. IsFiniteSet(s)
          BY FS_Subset
        <5>2. Cardinality(s \ {y}) = Cardinality(s) - 1
          BY <5>1, FS_RemoveElement
        <5> QED BY <2>1, <5>2
      <4>3. \A z \in q : F[q] = f[z] + F[q \ {z}]
        BY <1>6, <4>1, <4>2
      <4>4. F[q] = f[m] + F[p]
        BY <4>1, <4>3
      <4>5. F[r] = f[y] + F[p]
        BY <3>2, <4>1
      <4>6. F[p] \in Int
        BY <1>4, <4>1
      <4> HIDE DEF p, q, r, m
      <4>7. F[s] = f[y] + F[q]
        BY <3>3, <4>4, <4>5, <4>6
      <4> QED BY <4>7 DEF q
    <3> QED BY <3>4, <3>5
  <2> QED BY <2>1
<1>7. Nat \subseteq T
  <2> HIDE DEF T
  <2> QED BY <1>5, <1>6, EveryNatural
<1>8. F[S] = f[x] + F[S \ {x}]
  BY <1>2, <1>7
<1>9. Sum(f) = F[S] /\ F[S] \in Int
  BY <1>1, <1>4 DEF Sum
<1>10. F[S \ {x}] = Sum([y \in S \ {x} |-> f[y]]) /\ F[S \ {x}] \in Int
  BY <1>4
<1> QED BY <1>8, <1>9, <1>10

(* The same, for a set that gets one more member.                          *)
Grows(f, g, T, x) ==
  /\ IsFiniteSet(T) /\ x \notin T
  /\ f \in [T \cup {x} -> Int] /\ g \in [T -> Int]
  /\ \A y \in T : f[y] = g[y]

LEMMA SumGrows ==
  ASSUME NEW f, NEW g, NEW T, NEW x, Grows(f, g, T, x)
  PROVE  Sum(f) = f[x] + Sum(g) /\ f[x] \in Int /\ Sum(g) \in Int
<1> USE DEF Grows
<1> DEFINE S == T \cup {x}
<1>1. IsFiniteSet(S) /\ x \in S /\ S \ {x} = T
  BY FS_AddElement
<1>2. [y \in T |-> f[y]] = g
  OBVIOUS
<1>3. f \in [S -> Int]
  OBVIOUS
<1> HIDE DEF S
<1>4. Sum(f) = f[x] + Sum([y \in S \ {x} |-> f[y]])
  BY <1>1, <1>3, SumRemoves
<1>5. [y \in S \ {x} |-> f[y]] = g
  BY <1>1, <1>2
<1> QED BY <1>1, <1>3, <1>4, <1>5, SumType

(* A sum is that of two parts; by induction over the second.               *)
LEMMA SumSplits ==
  ASSUME NEW A, NEW B, IsFiniteSet(A), IsFiniteSet(B), A \cap B = {},
         NEW f \in [A \cup B -> Int]
  PROVE  Sum(f) = Sum([x \in A |-> f[x]]) + Sum([x \in B |-> f[x]])
<1> DEFINE On(U) == [x \in U |-> f[x]]
           F == {U \in SUBSET B : Sum(On(A \cup U)) = Sum(On(A)) + Sum(On(U))}
<1>1. ASSUME NEW U \in SUBSET (A \cup B)
      PROVE  IsFiniteSet(U) /\ On(U) \in [U -> Int] /\ Sum(On(U)) \in Int
  <2>1. IsFiniteSet(U)
    <3>1. IsFiniteSet(A \cup B)
      BY FS_Union
    <3> QED BY <3>1, FS_Subset
  <2>2. On(U) \in [U -> Int]
    OBVIOUS
  <2> HIDE DEF On
  <2> QED BY <2>1, <2>2, SumType
<1>2. {} \in F
  <2>1. On({}) = [x \in {} |-> 0] /\ A \cup {} = A
    OBVIOUS
  <2>2. Sum(On({})) = 0 /\ Sum(On(A)) \in Int
    BY <1>1, <2>1, SumOfNone
  <2> QED BY <2>1, <2>2
<1>3. ASSUME NEW U \in SUBSET B, NEW x \in B \ U, U \in F
      PROVE  U \cup {x} \in F
  <2> DEFINE V == U \cup {x}
             W == A \cup V
  <2>1. V \ {x} = U /\ W \ {x} = A \cup U /\ x \in V /\ x \in W /\ V \in SUBSET B
        /\ V \in SUBSET (A \cup B) /\ W \in SUBSET (A \cup B)
    OBVIOUS
  <2>2. Sum(On(V)) = f[x] + Sum(On(U))
    <3>1. Grows(On(V), On(U), U, x) /\ On(V)[x] = f[x]
      BY <1>1 DEF Grows
    <3> HIDE DEF On, V
    <3> QED BY <3>1, SumGrows
  <2>3. Sum(On(W)) = f[x] + Sum(On(A \cup U))
    <3> DEFINE R == A \cup U
    <3>1. Grows(On(W), On(R), R, x) /\ On(W)[x] = f[x]
      BY <1>1, <2>1 DEF Grows
    <3>2. Sum(On(W)) = f[x] + Sum(On(R))
      <4> HIDE DEF On, W, R
      <4> QED BY <3>1, SumGrows
    <3> QED BY <3>2
  <2>4. Sum(On(A \cup U)) = Sum(On(A)) + Sum(On(U))
    BY <1>3
  <2>5. Sum(On(A)) \in Int /\ Sum(On(U)) \in Int /\ f[x] \in Int
    BY <1>1
  <2>6. Sum(On(W)) = Sum(On(A)) + Sum(On(V))
    <3> HIDE DEF On, V, W
    <3> QED BY <2>2, <2>3, <2>4, <2>5
  <2> QED BY <2>1, <2>6
<1>4. B \in F
  <2> HIDE DEF F
  <2> QED BY <1>2, <1>3, EveryFiniteSet
<1>5. On(A \cup B) = f
  OBVIOUS
<1> QED BY <1>4, <1>5

(* A sum does not depend on what its terms are called.                     *)
LEMMA SumRenames ==
  ASSUME NEW S, IsFiniteSet(S), NEW D, NEW f \in [D -> Int], NEW h \in [S -> D],
         \A x, y \in S : h[x] = h[y] => x = y
  PROVE  Sum([x \in S |-> f[h[x]]]) = Sum([d \in {h[x] : x \in S} |-> f[d]])
<1> DEFINE Image(U) == {h[x] : x \in U}
           Over(U) == [x \in U |-> f[h[x]]]
           On(R) == [d \in R |-> f[d]]
           F == {U \in SUBSET S : IsFiniteSet(Image(U)) /\ Sum(Over(U)) = Sum(On(Image(U)))}
<1>1. {} \in F
  <2>1. Over({}) = [x \in {} |-> 0] /\ Image({}) = {} /\ On({}) = [x \in {} |-> 0]
    OBVIOUS
  <2> QED BY <2>1, FS_EmptySet
<1>2. ASSUME NEW U \in SUBSET S, NEW x \in S \ U, U \in F
      PROVE  U \cup {x} \in F
  <2> DEFINE V == U \cup {x}
             R == Image(U)
             d == h[x]
  <2>1. IsFiniteSet(U) /\ x \notin U /\ V \in SUBSET S
    BY FS_Subset
  <2>2. Image(V) = R \cup {d} /\ d \notin R /\ R \subseteq D /\ d \in D
    OBVIOUS
  <2>3. IsFiniteSet(R) /\ Sum(Over(U)) = Sum(On(R))
    BY <1>2
  <2>4. Grows(Over(V), Over(U), U, x) /\ Over(V)[x] = f[d]
    BY <2>1 DEF Grows
  <2>5. Grows(On(R \cup {d}), On(R), R, d) /\ On(R \cup {d})[d] = f[d]
    <3> HIDE DEF R, d
    <3> QED BY <2>2, <2>3 DEF Grows
  <2>6. Sum(Over(V)) = f[d] + Sum(Over(U))
    <3> HIDE DEF Over, V, d
    <3> QED BY <2>4, SumGrows
  <2>7. Sum(On(R \cup {d})) = f[d] + Sum(On(R))
    <3> HIDE DEF On, R, d
    <3> QED BY <2>5, SumGrows
  <2>8. IsFiniteSet(R \cup {d})
    BY <2>3, FS_AddElement
  <2> HIDE DEF Over, On, R, d
  <2>9. Sum(Over(V)) = Sum(On(Image(V))) /\ IsFiniteSet(Image(V))
    BY <2>2, <2>3, <2>6, <2>7, <2>8
  <2> QED BY <2>1, <2>9
<1>3. S \in F
  <2> HIDE DEF F
  <2> QED BY <1>1, <1>2, EveryFiniteSet
<1> QED BY <1>3

(* Sums of two functions add up term by term.                              *)
LEMMA SumAdds ==
  ASSUME NEW S, IsFiniteSet(S), NEW f \in [S -> Int], NEW g \in [S -> Int]
  PROVE  Sum([x \in S |-> f[x] + g[x]]) = Sum(f) + Sum(g)
<1> DEFINE f_(U) == [x \in U |-> f[x]]
           g_(U) == [x \in U |-> g[x]]
           b_(U) == [x \in U |-> f[x] + g[x]]
           F == {U \in SUBSET S : Sum(b_(U)) = Sum(f_(U)) + Sum(g_(U))}
<1>1. {} \in F
  <2> DEFINE none == [x \in {} |-> 0]
  <2>1. b_({}) = none /\ f_({}) = none /\ g_({}) = none
    OBVIOUS
  <2>2. Sum(none) = 0
    BY SumOfNone
  <2> HIDE DEF none, b_, f_, g_
  <2> QED BY <2>1, <2>2
<1>2. ASSUME NEW U \in SUBSET S, NEW x \in S \ U, U \in F
      PROVE  U \cup {x} \in F
  <2> DEFINE V == U \cup {x}
  <2>1. IsFiniteSet(U) /\ x \notin U /\ V \in SUBSET S
    BY FS_Subset
  <2>2. /\ Grows(b_(V), b_(U), U, x) /\ b_(V)[x] = f[x] + g[x]
        /\ Grows(f_(V), f_(U), U, x) /\ f_(V)[x] = f[x]
        /\ Grows(g_(V), g_(U), U, x) /\ g_(V)[x] = g[x]
    BY <2>1 DEF Grows
  <2>4. Sum(b_(U)) = Sum(f_(U)) + Sum(g_(U)) /\ f[x] \in Int /\ g[x] \in Int
    BY <1>2
  <2> HIDE DEF V, b_, f_, g_
  <2>6. /\ Sum(b_(V)) = b_(V)[x] + Sum(b_(U))
        /\ Sum(f_(V)) = f_(V)[x] + Sum(f_(U)) /\ Sum(f_(U)) \in Int
        /\ Sum(g_(V)) = g_(V)[x] + Sum(g_(U)) /\ Sum(g_(U)) \in Int
    BY <2>2, SumGrows
  <2>9. Sum(b_(V)) = Sum(f_(V)) + Sum(g_(V))
    BY <2>2, <2>4, <2>6
  <2> QED BY <2>1, <2>9 DEF V
<1>3. S \in F
  <2> HIDE DEF F
  <2> QED BY <1>1, <1>2, EveryFiniteSet
<1>4. f_(S) = f /\ g_(S) = g
  OBVIOUS
<1> QED BY <1>3, <1>4

(* Two functions on sets that h matches, with the same values.              *)
Matches(f, g, h, S, R) ==
  /\ f \in [S -> Int] /\ g \in [R -> Int] /\ h \in [S -> R] /\ R = {h[x] : x \in S}
  /\ \A x, y \in S : h[x] = h[y] => x = y
  /\ \A x \in S : f[x] = g[h[x]]

LEMMA SumMatches ==
  ASSUME NEW S, IsFiniteSet(S), NEW R, NEW f, NEW g, NEW h, Matches(f, g, h, S, R)
  PROVE  Sum(f) = Sum(g)
<1> USE DEF Matches
<1>1. Sum([x \in S |-> g[h[x]]]) = Sum([d \in {h[x] : x \in S} |-> g[d]])
  BY SumRenames
<1>2. f = [x \in S |-> g[h[x]]] /\ g = [d \in {h[x] : x \in S} |-> g[d]]
  OBVIOUS
<1> QED BY <1>1, <1>2

(* Sums compare as their terms do.                                         *)
LEMMA SumAtMost ==
  ASSUME NEW S, IsFiniteSet(S), NEW f \in [S -> Int], NEW g \in [S -> Int]
  PROVE  /\ (\A x \in S : f[x] <= g[x]) => Sum(f) <= Sum(g)
         /\ (\A x \in S : -f[x] <= g[x]) => -Sum(f) <= Sum(g)
         /\ Sum(f) \in Int /\ Sum(g) \in Int
<1>1. PICK a \in Int : a = 1
  OBVIOUS
<1>2. PICK b \in Int : b = -1
  OBVIOUS
<1>3. Sum(f) \in Int /\ Sum(g) \in Int
  BY SumType
<1>4. ASSUME \A x \in S : f[x] <= g[x]
      PROVE  Sum(f) <= Sum(g)
  <2>1. \A x \in S : a * f[x] <= a * g[x]
    BY <1>1, <1>4
  <2>2. a * Sum(f) <= a * Sum(g)
    BY <2>1, SumCompares
  <2> QED BY <1>1, <1>3, <2>2
<1>5. ASSUME \A x \in S : -f[x] <= g[x]
      PROVE  -Sum(f) <= Sum(g)
  <2>1. \A x \in S : b * f[x] <= a * g[x]
    BY <1>1, <1>2, <1>5
  <2>2. b * Sum(f) <= a * Sum(g)
    BY <2>1, SumCompares
  <2> QED BY <1>1, <1>2, <1>3, <2>2
<1> QED BY <1>3, <1>4, <1>5

(* A factor common to all terms is one of the sum.                         *)
LEMMA SumScales ==
  ASSUME NEW S, IsFiniteSet(S), NEW f \in [S -> Int], NEW g \in [S -> Int], NEW a \in Int,
         \A x \in S : f[x] = a * g[x]
  PROVE  Sum(f) = a * Sum(g)
<1>1. PICK u \in Int : u = 1
  OBVIOUS
<1>2. \A x \in S : f[x] \in Int /\ g[x] \in Int /\ a * g[x] \in Int
  OBVIOUS
<1>3. (\A x \in S : u * f[x] <= a * g[x]) /\ (\A x \in S : a * g[x] <= u * f[x])
  BY <1>1, <1>2
<1>4. Sum(f) \in Int /\ Sum(g) \in Int /\ u * Sum(f) <= a * Sum(g)
  BY <1>3, SumCompares
<1>5. a * Sum(g) <= u * Sum(f)
  BY <1>3, SumCompares
<1>6. a * Sum(g) \in Int
  BY <1>4
<1> QED BY <1>1, <1>4, <1>5, <1>6

(* A sum of zeros.                                                         *)
LEMMA SumOfZeros ==
  ASSUME NEW S, IsFiniteSet(S), NEW f \in [S -> Int], \A x \in S : f[x] = 0
  PROVE  Sum(f) = 0
<1>1. PICK a \in Int : a = 1
  OBVIOUS
<1>2. PICK b \in Int : b = -1
  OBVIOUS
<1>3. PICK c \in Int : c = 0
  OBVIOUS
<1>4. Sum(f) \in Int
  BY SumType
<1>5. (\A x \in S : a * f[x] <= c * f[x]) /\ (\A x \in S : b * f[x] <= c * f[x])
  BY <1>1, <1>2, <1>3
<1>6. a * Sum(f) <= c * Sum(f)
  BY <1>5, SumCompares
<1>7. b * Sum(f) <= c * Sum(f)
  BY <1>5, SumCompares
<1> QED BY <1>1, <1>2, <1>3, <1>4, <1>6, <1>7

(* The magnitude of a sum is at most the sum of the magnitudes.            *)
Magnitude(x) == IF x >= 0 THEN x ELSE -x

LEMMA SumTriangle ==
  ASSUME NEW S, IsFiniteSet(S), NEW f \in [S -> Int]
  PROVE  Magnitude(Sum(f)) <= Sum([x \in S |-> Magnitude(f[x])])
<1> DEFINE g == [x \in S |-> Magnitude(f[x])]
<1>1. g \in [S -> Int] /\ \A x \in S : f[x] <= g[x] /\ -f[x] <= g[x]
  BY DEF Magnitude
<1> HIDE DEF g
<1>2. Sum(f) \in Int /\ Sum(g) \in Int /\ Sum(f) <= Sum(g) /\ -Sum(f) <= Sum(g)
  BY <1>1, SumAtMost
<1>3. Magnitude(Sum(f)) <= Sum(g)
  BY <1>2 DEF Magnitude
<1> QED BY <1>3 DEF g

(* A sum is that of the parts into which k divides what is summed; by      *)
(* induction over the parts.                                               *)
Part(k, c) == {x \in DOMAIN k : k[x] = c}
On(f, U) == [x \in U |-> f[x]]
Parts(f, k, N) == [c \in N |-> Sum(On(f, Part(k, c)))]

LEMMA PartType ==
  ASSUME NEW S, IsFiniteSet(S), NEW f \in [S -> Int], NEW N, NEW k \in [S -> N]
  PROVE  /\ \A U \in SUBSET S : /\ IsFiniteSet(U) /\ On(f, U) \in [U -> Int]
                                /\ Sum(On(f, U)) \in Int
         /\ \A c : Part(k, c) \in SUBSET S /\ Sum(On(f, Part(k, c))) \in Int
         /\ Parts(f, k, N) \in [N -> Int]
<1>1. ASSUME NEW U \in SUBSET S
      PROVE  IsFiniteSet(U) /\ On(f, U) \in [U -> Int] /\ Sum(On(f, U)) \in Int
  <2>1. IsFiniteSet(U) /\ On(f, U) \in [U -> Int]
    BY FS_Subset DEF On
  <2> QED BY <2>1, SumType
<1>2. \A c : Part(k, c) \in SUBSET S
  BY DEF Part
<1> QED BY <1>1, <1>2 DEF Parts

(* A sum over two parts; by induction over the second.                     *)
LEMMA SumOfUnion ==
  ASSUME NEW S, IsFiniteSet(S), NEW f \in [S -> Int],
         NEW A \in SUBSET S, NEW B \in SUBSET S, A \cap B = {}
  PROVE  Sum(On(f, A \cup B)) = Sum(On(f, A)) + Sum(On(f, B))
<1> DEFINE F == {U \in SUBSET B : Sum(On(f, A \cup U)) = Sum(On(f, A)) + Sum(On(f, U))}
<1>1. ASSUME NEW U \in SUBSET S
      PROVE  IsFiniteSet(U) /\ On(f, U) \in [U -> Int] /\ Sum(On(f, U)) \in Int
  <2>1. IsFiniteSet(U) /\ On(f, U) \in [U -> Int]
    BY FS_Subset DEF On
  <2> QED BY <2>1, SumType
<1>2. {} \in F
  <2>1. On(f, {}) = [x \in {} |-> 0] /\ A \cup {} = A
    BY DEF On
  <2>2. Sum(On(f, {})) = 0 /\ Sum(On(f, A)) \in Int
    BY <1>1, <2>1, SumOfNone
  <2> QED BY <2>1, <2>2
<1>3. ASSUME NEW U \in SUBSET B, NEW x \in B \ U, U \in F
      PROVE  U \cup {x} \in F
  <2> DEFINE V == U \cup {x}
             R == A \cup U
             W == A \cup V
  <2>1. /\ IsFiniteSet(U) /\ x \notin U /\ IsFiniteSet(R) /\ x \notin R
        /\ W = R \cup {x} /\ V \in SUBSET S /\ W \in SUBSET S /\ R \in SUBSET S
    <3>1. U \in SUBSET S /\ R \in SUBSET S /\ V \in SUBSET S /\ W \in SUBSET S
      OBVIOUS
    <3> QED BY <1>1, <3>1
  <2>2. /\ Grows(On(f, V), On(f, U), U, x) /\ On(f, V)[x] = f[x]
        /\ Grows(On(f, W), On(f, R), R, x) /\ On(f, W)[x] = f[x]
    <3> HIDE DEF R, W
    <3> QED BY <2>1 DEF Grows, On
  <2>3. /\ Sum(On(f, V)) = f[x] + Sum(On(f, U)) /\ Sum(On(f, W)) = f[x] + Sum(On(f, R))
    <3> HIDE DEF R, V, W
    <3> QED BY <2>2, SumGrows
  <2>4. Sum(On(f, R)) = Sum(On(f, A)) + Sum(On(f, U))
    BY <1>3
  <2>5. Sum(On(f, A)) \in Int /\ Sum(On(f, U)) \in Int /\ f[x] \in Int
    BY <1>1
  <2>6. Sum(On(f, W)) = Sum(On(f, A)) + Sum(On(f, V))
    <3> HIDE DEF R, V, W
    <3> QED BY <2>3, <2>4, <2>5
  <2> QED BY <2>6
<1>4. B \in F
  <2>1. IsFiniteSet(B)
    BY <1>1
  <2> HIDE DEF F
  <2> QED BY <1>2, <1>3, <2>1, EveryFiniteSet
<1> QED BY <1>4

LEMMA SumByParts ==
  ASSUME NEW S, IsFiniteSet(S), NEW f \in [S -> Int], NEW N, IsFiniteSet(N),
         NEW k \in [S -> N]
  PROVE  Sum(f) = Sum(Parts(f, k, N))
<1> DEFINE In(M) == {x \in S : k[x] \in M}
           F == {M \in SUBSET N : Sum(On(f, In(M))) = Sum(Parts(f, k, M))}
<1>1. {} \in F
  <2> DEFINE none == [x \in {} |-> 0]
  <2>1. On(f, In({})) = none /\ Parts(f, k, {}) = none
    BY DEF On, Parts
  <2> QED BY <2>1
<1>2. ASSUME NEW M \in SUBSET N, NEW c \in N \ M, M \in F
      PROVE  M \cup {c} \in F
  <2> DEFINE A == In(M)
             B == Part(k, c)
             both == On(f, A \cup B)
             L == M \cup {c}
  <2>1. /\ A \cap B = {} /\ A \cup B = In(L) /\ A \in SUBSET S /\ B \in SUBSET S
        /\ A \cup B \in SUBSET S
    BY DEF Part
  <2>2. Sum(both) = Sum(On(f, A)) + Sum(On(f, B))
    <3> HIDE DEF A, B
    <3> QED BY <2>1, SumOfUnion
  <2>3. Sum(Parts(f, k, L)) = Sum(On(f, B)) + Sum(Parts(f, k, M))
    <3>1. IsFiniteSet(M) /\ c \notin M
      BY FS_Subset
    <3>2. \A x : Sum(On(f, Part(k, x))) \in Int
      BY PartType
    <3>3. Grows(Parts(f, k, L), Parts(f, k, M), M, c)
          /\ Parts(f, k, L)[c] = Sum(On(f, B))
      BY <3>1, <3>2 DEF Grows, Parts
    <3> HIDE DEF L, B
    <3> QED BY <3>3, SumGrows
  <2>4. Sum(On(f, A)) = Sum(Parts(f, k, M))
    BY <1>2
  <2>5. Sum(On(f, A)) \in Int /\ Sum(On(f, B)) \in Int
    <3> HIDE DEF A, B
    <3> QED BY <2>1, PartType
  <2>6. Sum(On(f, In(L))) = Sum(Parts(f, k, L))
    <3>1. both = On(f, In(L))
      BY <2>1
    <3> HIDE DEF A, B, L, both, In
    <3> QED BY <2>2, <2>3, <2>4, <2>5, <3>1
  <2> QED BY <2>6
<1>3. N \in F
  <2> HIDE DEF F
  <2> QED BY <1>1, <1>2, EveryFiniteSet
<1>4. On(f, In(N)) = f
  BY DEF On
<1> QED BY <1>3, <1>4

(* The magnitudes of finer parts, as m coarsens them, sum up to no less.   *)
PartSizes(f, k, N) == [c \in N |-> Magnitude(Sum(On(f, Part(k, c))))]

LEMMA SumCoarser ==
  ASSUME NEW S, IsFiniteSet(S), NEW f \in [S -> Int], NEW N, IsFiniteSet(N),
         NEW k \in [S -> N], NEW M, IsFiniteSet(M), NEW m \in [N -> M],
         NEW l \in [S -> M], \A x \in S : l[x] = m[k[x]]
  PROVE  Sum(PartSizes(f, l, M)) <= Sum(PartSizes(f, k, N))
<1> DEFINE e == Parts(f, k, N)
           z == PartSizes(f, k, N)
<1>1. e \in [N -> Int] /\ z \in [N -> Int] /\ PartSizes(f, l, M) \in [M -> Int]
      /\ (\A b \in N : z[b] = Magnitude(e[b]) /\ e[b] = Sum(On(f, Part(k, b))))
  <2>1. \A c : Sum(On(f, Part(k, c))) \in Int /\ Sum(On(f, Part(l, c))) \in Int
    BY PartType
  <2> QED BY <2>1 DEF Parts, PartSizes, Magnitude
<1>2. ASSUME NEW c \in M
      PROVE  Magnitude(Sum(On(f, Part(l, c)))) <= Sum(On(z, Part(m, c)))
  <2> DEFINE U == Part(l, c)
             V == Part(m, c)
             g == On(f, U)
             j == [x \in U |-> k[x]]
             eV == On(e, V)
  <2>1. U \in SUBSET S /\ V \in SUBSET N /\ IsFiniteSet(U) /\ IsFiniteSet(V)
    BY FS_Subset DEF Part
  <2>2. g \in [U -> Int] /\ j \in [U -> V]
    BY <2>1 DEF On, Part
  <2>3. Sum(g) = Sum(Parts(g, j, V))
    <3> HIDE DEF g, j, U, V
    <3> QED BY <2>1, <2>2, SumByParts
  <2>4. Parts(g, j, V) = eV
    <3>1. \A b \in V : Part(j, b) = Part(k, b)
      BY DEF Part
    <3>2. \A b \in V : On(g, Part(j, b)) = On(f, Part(k, b))
      <4>1. \A b \in V : Part(j, b) \subseteq U
        BY DEF Part
      <4> QED BY <3>1, <4>1 DEF On
    <3>3. \A b \in V : e[b] = Sum(On(f, Part(k, b)))
      BY <1>1, <2>1
    <3> HIDE DEF g, j, U, V, e
    <3> QED BY <3>2, <3>3 DEF Parts, On
  <2>5. eV \in [V -> Int] /\ \A b \in V : eV[b] = e[b]
    BY <1>1, <2>1 DEF On
  <2>6. Magnitude(Sum(eV)) <= Sum([b \in V |-> Magnitude(eV[b])])
    <3> HIDE DEF eV, V
    <3> QED BY <2>1, <2>5, SumTriangle
  <2>7. [b \in V |-> Magnitude(eV[b])] = On(z, V)
    <3> HIDE DEF e, z, eV, V
    <3> QED BY <1>1, <2>1, <2>5 DEF On
  <2> QED BY <2>3, <2>4, <2>6, <2>7
<1> HIDE DEF e, z
<1>3. Parts(z, m, M) \in [M -> Int] /\ Sum(z) = Sum(Parts(z, m, M))
  BY <1>1, PartType, SumByParts
<1>4. \A c \in M : PartSizes(f, l, M)[c] <= Parts(z, m, M)[c]
  <2>1. \A c \in M : /\ PartSizes(f, l, M)[c] = Magnitude(Sum(On(f, Part(l, c))))
                     /\ Parts(z, m, M)[c] = Sum(On(z, Part(m, c)))
    BY DEF PartSizes, Parts
  <2> QED BY <1>1, <1>2, <1>3, <2>1
<1>5. Sum(PartSizes(f, l, M)) <= Sum(Parts(z, m, M))
  BY <1>1, <1>3, <1>4, SumAtMost
<1> QED BY <1>3, <1>5 DEF z

(* The square of a sum is at most as many times the sum of the squares.    *)
LEMMA SquareStep ==
  ASSUME NEW n \in Nat, NEW A \in Int, NEW B \in Int, NEW x \in Int,
         A * A <= n * B, B >= 0, n = 0 => A = 0
  PROVE  (A + x) * (A + x) <= (n + 1) * (B + x * x)
<1> DEFINE y == n * x - A
           s == x * x
           p == A * x
<1>1. s \in Int /\ p \in Int /\ (A + x) * (A + x) = A * A + 2 * p + s
  OBVIOUS
<1>2. (n + 1) * (B + s) = n * B + n * s + B + s
  <2> HIDE DEF s
  <2> QED BY <1>1
<1>3. 2 * p <= n * s + B
  <2>1. CASE n = 0
    BY <2>1
  <2>2. CASE n >= 1
    <3>1. y * y >= 0
      <4>1. y \in Int
        OBVIOUS
      <4> HIDE DEF y
      <4> QED BY <4>1
    <3>2. y * y = n * (n * s) - 2 * (n * p) + A * A
      OBVIOUS
    <3>3. 2 * (n * p) <= n * (n * s) + n * B
      <4>1. n * (n * s) \in Int /\ n * p \in Int /\ A * A \in Int /\ n * B \in Int /\ y * y \in Int
        OBVIOUS
      <4> HIDE DEF y, s, p
      <4> QED BY <3>1, <3>2, <4>1
    <3>4. n * (n * s + B - 2 * p) >= 0
      <4>1. n * (n * s + B - 2 * p) = n * (n * s) + n * B - 2 * (n * p)
        <5> HIDE DEF s, p
        <5> QED BY <1>1
      <4>2. n * (n * s) \in Int /\ n * p \in Int /\ n * B \in Int
        OBVIOUS
      <4> HIDE DEF s, p
      <4> QED BY <3>3, <4>1, <4>2
    <3> DEFINE d == n * s + B - 2 * p
    <3>5. d \in Int
      OBVIOUS
    <3>6. d >= 0
      <4> HIDE DEF d
      <4>1. d < 0 => n * d < 0
        BY <2>2, <3>5
      <4> QED BY <3>4, <3>5, <4>1 DEF d
    <3>7. n * s \in Int
      OBVIOUS
    <3> HIDE DEF s, p
    <3> QED BY <1>1, <3>6, <3>7
  <2> QED BY <2>1, <2>2
<1>4. A * A \in Int /\ n * B \in Int /\ n * s \in Int
  OBVIOUS
<1> HIDE DEF s, p
<1> QED BY <1>1, <1>2, <1>3, <1>4 DEF s

LEMMA SquareOfSum ==
  ASSUME NEW S, IsFiniteSet(S), NEW f \in [S -> Int]
  PROVE  Sum(f) * Sum(f) <= Cardinality(S) * Sum([x \in S |-> f[x] * f[x]])
<1> DEFINE q == [x \in S |-> f[x] * f[x]]
           F == {U \in SUBSET S :
                   /\ Sum(On(f, U)) * Sum(On(f, U)) <= Cardinality(U) * Sum(On(q, U))
                   /\ Sum(On(q, U)) >= 0}
<1>1. q \in [S -> Int] /\ \A x \in S : q[x] = f[x] * f[x] /\ q[x] >= 0
  <2>1. \A x \in S : f[x] * f[x] \in Int /\ f[x] * f[x] >= 0
    OBVIOUS
  <2> QED BY <2>1
<1> HIDE DEF q
<1>2. {} \in F
  <2> DEFINE none == [x \in {} |-> 0]
  <2>1. On(f, {}) = none /\ On(q, {}) = none
    BY DEF On
  <2>2. Sum(none) = 0
    BY SumOfNone
  <2>3. Cardinality({}) = 0
    BY FS_EmptySet
  <2> HIDE DEF none
  <2>4. Sum(On(f, {})) = 0 /\ Sum(On(q, {})) = 0
    BY <2>1, <2>2
  <2> QED BY <2>3, <2>4
<1>3. ASSUME NEW U \in SUBSET S, NEW x \in S \ U, U \in F
      PROVE  U \cup {x} \in F
  <2> DEFINE V == U \cup {x}
             A == Sum(On(f, U))
             B == Sum(On(q, U))
             n == Cardinality(U)
  <2>1. IsFiniteSet(U) /\ n \in Nat /\ Cardinality(V) = n + 1
    BY FS_Subset, FS_AddElement, FS_CardinalityType
  <2>2. Grows(On(f, V), On(f, U), U, x) /\ On(f, V)[x] = f[x]
        /\ Grows(On(q, V), On(q, U), U, x) /\ On(q, V)[x] = q[x]
    BY <1>1, <2>1 DEF Grows, On
  <2>3. Sum(On(f, V)) = f[x] + A /\ A \in Int /\ Sum(On(q, V)) = q[x] + B /\ B \in Int
    <3> HIDE DEF V
    <3> QED BY <2>2, SumGrows
  <2>4. A * A <= n * B /\ B >= 0
    BY <1>3
  <2>5. n = 0 => A = 0
    <3>1. n = 0 => U = {}
      BY <2>1, FS_EmptySet
    <3>2. On(f, {}) = [y \in {} |-> 0]
      BY DEF On
    <3>3. U = {} => A = 0
      BY <3>2, SumOfNone
    <3> QED BY <3>1, <3>3
  <2> DEFINE y == f[x]
  <2>6. y \in Int /\ q[x] = y * y /\ y * y >= 0 /\ y * y \in Int
    BY <1>1
  <2> HIDE DEF A, B, n, y, V
  <2>7. (A + y) * (A + y) <= (n + 1) * (B + y * y)
    BY <2>1, <2>3, <2>4, <2>5, <2>6, SquareStep
  <2>8. f[x] + A = A + y /\ q[x] + B = B + y * y /\ B + y * y >= 0
    BY <2>3, <2>4, <2>6 DEF y
  <2>9. Sum(On(f, V)) * Sum(On(f, V)) <= Cardinality(V) * Sum(On(q, V))
        /\ Sum(On(q, V)) >= 0
    BY <2>1, <2>3, <2>7, <2>8
  <2> QED BY <2>9 DEF V
<1>4. S \in F
  <2> HIDE DEF F
  <2> QED BY <1>2, <1>3, EveryFiniteSet
<1>5. On(f, S) = f /\ On(q, S) = q
  BY <1>1 DEF On
<1> QED BY <1>4, <1>5 DEF q

(* Division with a remainder of zero or not.                               *)
LEMMA Division ==
  ASSUME NEW a \in Nat, NEW u \in Nat \ {0}
  PROVE  /\ a \div u \in Nat /\ u * (a \div u) <= a /\ a < u * (a \div u) + u
         /\ a % u = 0 <=> a = u * (a \div u)
<1>1. a \div u \in Nat /\ u * (a \div u) <= a /\ a < u * (a \div u) + u
  OBVIOUS
<1>2. a % u = 0 => a = u * (a \div u)
  OBVIOUS
<1>3. ASSUME NEW q \in Int, a = u * q + 0
      PROVE  a % u = 0
  BY <1>3
<1> QED BY <1>1, <1>2, <1>3
===============================================================================
