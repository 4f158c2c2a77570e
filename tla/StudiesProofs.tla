---------------------------- MODULE StudiesProofs ----------------------------
(***************************************************************************)
(* Theorems about Studies: for any unit, any table of tasks, any sequence  *)
(* of proposals and findings.                                              *)
(***************************************************************************)
EXTENDS Studies, SetInduction, FunctionTheorems, SequenceTheorems, TLAPS

(***************************************************************************)
(* The inductive invariant of the loop.                                    *)
(***************************************************************************)

(* A task keeps its kind and its shape, and only plans have a loop.        *)
TaskInv ==
  /\ task \in [kind : Kinds, via : {"service", "cli"}, input : {task.input}]
  /\ task.via = "cli" => task.kind \in {"study", "plan"}
  /\ task.kind = "score" => BatchShape(task.input)
  /\ task.kind = "local" => AskShape(task.input)
  /\ task.kind = "study" => StudyShape(task.input)
  /\ task.kind = "plan" => PlanShape(task.input)
  /\ task.kind # "plan" => log = << >> /\ promise = NoPromise

(* An answer is what was computed, unless there was no input to read.      *)
CodeOf(r) == IF task.via = "cli" THEN Exit(task, r) ELSE Status(r)
ResultInv ==
  \/ result = Pending /\ code = NoCode
  \/ result = Computed(task) /\ code = CodeOf(result)
  \/ result = Invalid /\ code = 1 /\ task.via = "cli"

(* The evidence of the study is what was given, but for the items of the   *)
(* log, which were unavailable and are now what was found.                 *)
Evidence == task.input.study.evidence
Given == first.study.evidence
FoundInv ==
  task.kind = "plan" =>
    /\ DOMAIN Evidence = DOMAIN Given /\ first.budget \in Int /\ List(log)
    /\ \A k \in DOMAIN log :
         LET name == log[k].action.evidence
         IN  /\ log[k].status \in {"PASS", "FAIL"} /\ log[k].action.cost \in Int
             /\ name \in DOMAIN Given /\ Given[name] = "UNAVAILABLE"
             /\ Evidence[name] = log[k].status
    /\ \A name \in DOMAIN Given :
         Evidence[name] = Given[name] \/ \E k \in DOMAIN log : log[k].action.evidence = name

(* What LawfulCollection says, with the rounds that found nothing.         *)
Costs == [k \in DOMAIN log |-> log[k].action.cost]
SpentInv == task.kind = "plan" => SumFunction(Costs) <= first.budget - task.input.budget

(* A promise is the distribution of the plan that is asked next, which is  *)
(* a valid one, and it is none if no scenario is left.                     *)
PromiseInv ==
  /\ log # << >> => promise.made
  /\ promise.made =>
       /\ task.kind = "plan" /\ PlanOK(task.input)
       /\ IF Consistent(task.input) = {} THEN promise.weights = NoDistribution
          ELSE /\ promise.weights = VerdictWeights(task.input, Consistent(task.input))
               /\ promise.weights # NoDistribution

IInv == /\ TaskInv /\ ResultInv /\ FoundInv /\ SpentInv
        /\ PromiseInv /\ LawfulCollection

-------------------------------------------------------------------------------
(***************************************************************************)
(* Sums                                                                    *)
(***************************************************************************)

LEMMA SumFunctionIsSum ==
  ASSUME NEW f
  PROVE  SumFunction(f) = Sum(f)
BY DEF SumFunction, SumFunctionOnSet, FoldFunctionOnSet, MapThenFoldSet, Sum, SumsUp, Member

LEMMA ListDomain ==
  ASSUME NEW s, List(s)
  PROVE  DOMAIN s = 1 .. Len(s) /\ Len(s) \in Nat /\ IsFiniteSet(DOMAIN s)
<1> DEFINE T == ToSet(s)
<1>1. s \in Seq(T)
  BY DEF List
<1> HIDE DEF T
<1>2. DOMAIN s = 1 .. Len(s) /\ Len(s) \in Nat
  BY <1>1
<1> QED BY <1>2, FS_Interval

(* Numbers that are at least one sum up to at least their number.          *)
LEMMA SumOfPositives ==
  ASSUME NEW S, IsFiniteSet(S), NEW f \in [S -> Int], \A x \in S : f[x] >= 1
  PROVE  Sum(f) \in Int /\ Sum(f) >= 0 /\ (S # {} => Sum(f) >= 1)
<1> DEFINE ones == [x \in S |-> 1]
<1>1. ones \in [S -> Int] /\ 1 \in Int /\ \A x \in S : 1 * ones[x] <= 1 * f[x]
  OBVIOUS
<1>2. Sum(ones) = Cardinality(S)
  BY SumCounts
<1>3. Sum(f) \in Int /\ 1 * Sum(ones) <= 1 * Sum(f)
  <2> HIDE DEF ones
  <2> QED BY <1>1, SumCompares
<1>4. Cardinality(S) \in Nat /\ (S # {} => Cardinality(S) # 0)
  BY FS_CardinalityType, FS_EmptySet
<1> HIDE DEF ones
<1> QED BY <1>2, <1>3, <1>4

(* The sum over three members.                                             *)
Three(f, a, b, c) == a # b /\ a # c /\ b # c /\ f \in [{a, b, c} -> Int]

LEMMA SumOfThree ==
  ASSUME NEW f, NEW a, NEW b, NEW c, Three(f, a, b, c)
  PROVE  Sum(f) = f[a] + f[b] + f[c]
<1> USE DEF Three
<1> DEFINE f0 == [x \in {} |-> 0]
           f1 == [x \in {a} |-> f[x]]
           f2 == [x \in {a, b} |-> f[x]]
<1>1. Sum(f0) = 0
  BY SumOfNone
<1>2. Grows(f1, f0, {}, a) /\ f1[a] = f[a]
  <2>1. {} \cup {a} = {a} /\ IsFiniteSet({})
    BY FS_EmptySet
  <2> QED BY <2>1 DEF Grows
<1>3. Grows(f2, f1, {a}, b) /\ f2[b] = f[b]
  <2>1. {a} \cup {b} = {a, b} /\ IsFiniteSet({a})
    BY FS_Singleton
  <2> QED BY <2>1 DEF Grows
<1>4. Grows(f, f2, {a, b}, c)
  <2>1. {a, b} \cup {c} = {a, b, c}
    OBVIOUS
  <2>2. IsFiniteSet({a, b})
    <3>1. IsFiniteSet({a} \cup {b})
      BY FS_Singleton, FS_Union
    <3>2. {a} \cup {b} = {a, b}
      OBVIOUS
    <3> QED BY <3>1, <3>2
  <2> QED BY <2>1, <2>2 DEF Grows
<1>5. f[a] \in Int /\ f[b] \in Int /\ f[c] \in Int
  OBVIOUS
<1> HIDE DEF f0, f1, f2
<1>6. Sum(f1) = f1[a] + Sum(f0) /\ Sum(f2) = f2[b] + Sum(f1) /\ Sum(f) = f[c] + Sum(f2)
  BY <1>2, <1>3, <1>4, SumGrows
<1> QED BY <1>1, <1>2, <1>3, <1>5, <1>6

-------------------------------------------------------------------------------
(***************************************************************************)
(* The planner's distributions                                             *)
(***************************************************************************)

(* Weights of scenarios: a mass is a number up to Weight, and that of a    *)
(* scenario or more is not zero.                                           *)
LEMMA MassType ==
  ASSUME NEW plan, PlanShape(plan), PlanOK(plan), PlannerAssumption,
         NEW S \in SUBSET DOMAIN plan.scenarios
  PROVE  /\ Mass(plan, S) \in 0 .. Weight
         /\ S # {} => Mass(plan, S) > 0
         /\ \A U \in SUBSET S : Mass(plan, S) = Mass(plan, U) + Mass(plan, S \ U)
<1> DEFINE D == DOMAIN plan.scenarios
           w == [i \in D |-> plan.scenarios[i].weight]
           Weighed(U) == [i \in U |-> plan.scenarios[i].weight]
<1>1. w \in [D -> 1 .. Weight] /\ Sum(w) = Weight /\ Weight \in Nat
  <2>1. ScenariosOK(plan.scenarios, ToSet(plan.study.required))
    BY DEF PlanOK
  <2>2. SumFunction(w) = Weight
    BY <2>1, Zenon DEF ScenariosOK
  <2>3. \A i \in D : plan.scenarios[i].weight \in 1 .. Weight
    BY <2>1 DEF ScenariosOK
  <2>4. Weight \in Nat
    BY DEF PlannerAssumption
  <2> QED BY <2>2, <2>3, <2>4, SumFunctionIsSum
<1>2. IsFiniteSet(D)
  BY ListDomain DEF PlanShape
<1>3. ASSUME NEW U \in SUBSET D
      PROVE  /\ IsFiniteSet(U) /\ Weighed(U) \in [U -> Int] /\ \A i \in U : Weighed(U)[i] >= 1
             /\ Mass(plan, U) = Sum(Weighed(U))
  <2>1. IsFiniteSet(U)
    BY <1>2, FS_Subset
  <2>2. \A i \in U : plan.scenarios[i].weight \in 1 .. Weight
    <3>1. \A i \in D : w[i] \in 1 .. Weight /\ w[i] = plan.scenarios[i].weight
      BY <1>1
    <3> HIDE DEF w
    <3> QED BY <3>1
  <2>3. Mass(plan, U) = Sum(Weighed(U))
    <3>1. Mass(plan, U) = SumFunction(Weighed(U))
      BY DEF Mass
    <3> HIDE DEF Weighed
    <3> QED BY <3>1, SumFunctionIsSum
  <2> QED BY <1>1, <2>1, <2>2, <2>3
<1>4. ASSUME NEW U \in SUBSET D
      PROVE  /\ Mass(plan, U) \in Int /\ Mass(plan, U) >= 0 /\ (U # {} => Mass(plan, U) >= 1)
  <2>1. /\ IsFiniteSet(U) /\ Weighed(U) \in [U -> Int] /\ \A i \in U : Weighed(U)[i] >= 1
        /\ Mass(plan, U) = Sum(Weighed(U))
    BY <1>3
  <2> HIDE DEF Weighed
  <2> QED BY <2>1, SumOfPositives
<1>5. ASSUME NEW V \in SUBSET D, NEW U \in SUBSET V
      PROVE  Mass(plan, V) = Mass(plan, U) + Mass(plan, V \ U)
  <2> DEFINE B == V \ U
             f == Weighed(V)
  <2>1. IsFiniteSet(U) /\ IsFiniteSet(B) /\ U \cap B = {} /\ U \cup B = V
    BY <1>3
  <2>2. f \in [U \cup B -> Int]
    BY <1>3, <2>1
  <2>3. Sum(f) = Sum([i \in U |-> f[i]]) + Sum([i \in B |-> f[i]])
    <3> HIDE DEF f, B
    <3> QED BY <2>1, <2>2, SumSplits
  <2>4. [i \in U |-> f[i]] = Weighed(U) /\ [i \in B |-> f[i]] = Weighed(B)
    OBVIOUS
  <2>5. Mass(plan, V) = Sum(f) /\ Mass(plan, U) = Sum(Weighed(U)) /\ Mass(plan, B) = Sum(Weighed(B))
    BY <1>3
  <2> QED BY <2>3, <2>4, <2>5
<1>6. Mass(plan, D) = Weight
  <2>1. Weighed(D) = w
    OBVIOUS
  <2> QED BY <1>1, <1>3, <2>1
<1>7. Mass(plan, S) \in 0 .. Weight
  <2>1. S \in SUBSET D /\ D \in SUBSET D /\ D \ S \in SUBSET D
    OBVIOUS
  <2>2. Mass(plan, D) = Mass(plan, S) + Mass(plan, D \ S)
    BY <1>5
  <2>3. /\ Mass(plan, S) \in Int /\ Mass(plan, S) >= 0
        /\ Mass(plan, D \ S) \in Int /\ Mass(plan, D \ S) >= 0
    BY <1>4, <2>1
  <2> QED BY <1>1, <1>6, <2>2, <2>3
<1> QED BY <1>4, <1>5, <1>7

LEMMA AllPassIsNoBlock ==
  ASSUME NEW study
  PROVE  /\ Verdict(study) \in Verdicts
         /\ StudyShape(study) => AllPassVerdict(study) \in {"REVIEW", "ELIGIBLE_FOR_SHADOW"}
<1>1. Verdict(study) \in Verdicts
  BY DEF Verdict, Verdicts
<1>2. ASSUME StudyShape(study)
      PROVE  AllPassVerdict(study) \in {"REVIEW", "ELIGIBLE_FOR_SHADOW"}
  <2> DEFINE passed == [study EXCEPT !.evidence = [name \in DOMAIN @ |-> "PASS"]]
  <2>1. \A name \in DOMAIN passed.evidence : passed.evidence[name] # "FAIL"
    BY <1>2 DEF StudyShape
  <2> HIDE DEF passed
  <2>2. Verdict(passed) \in {"REVIEW", "ELIGIBLE_FOR_SHADOW"}
    BY <2>1 DEF Verdict
  <2> QED BY <2>2 DEF AllPassVerdict, passed
<1> QED BY <1>1, <1>2

(* The distribution over some scenarios: what fails is blocked, the rest   *)
(* gets the verdict of a study that passed everything; together they are   *)
(* the mass.                                                               *)
Failing(plan, S) ==
  {i \in S : \E name \in DOMAIN plan.scenarios[i].evidence : plan.scenarios[i].evidence[name] = "FAIL"}

LEMMA WeightsType ==
  ASSUME NEW plan, PlanShape(plan), PlanOK(plan), PlannerAssumption,
         NEW S \in SUBSET DOMAIN plan.scenarios
  PROVE  LET weights == VerdictWeights(plan, S)
             allPass == AllPassVerdict(plan.study)
         IN  /\ weights \in [Verdicts -> 0 .. Weight]
             /\ SumFunction(weights) = Mass(plan, S)
             /\ weights["BLOCK"] = Mass(plan, Failing(plan, S))
             /\ weights[allPass] = Mass(plan, S \ Failing(plan, S))
             /\ weights = NoDistribution <=> S = {}
<1> DEFINE weights == VerdictWeights(plan, S)
           allPass == AllPassVerdict(plan.study)
           failing == Failing(plan, S)
           m == Mass(plan, failing)
           n == Mass(plan, S \ failing)
<1>1. allPass \in {"REVIEW", "ELIGIBLE_FOR_SHADOW"}
  BY AllPassIsNoBlock DEF PlanShape
<1>2. weights = [v \in Verdicts |-> (IF v = "BLOCK" THEN m ELSE 0) + (IF v = allPass THEN n ELSE 0)]
  BY DEF VerdictWeights, Failing
<1>3. failing \in SUBSET S
  BY DEF Failing
<1>4. m \in 0 .. Weight /\ n \in 0 .. Weight /\ Mass(plan, S) \in 0 .. Weight
      /\ Mass(plan, S) = m + n /\ (S # {} => Mass(plan, S) > 0)
  <2>1. failing \in SUBSET DOMAIN plan.scenarios /\ S \ failing \in SUBSET DOMAIN plan.scenarios
    BY <1>3
  <2>2. m \in 0 .. Weight
    <3> HIDE DEF failing
    <3> QED BY <2>1, MassType
  <2>3. n \in 0 .. Weight
    <3> HIDE DEF failing
    <3> QED BY <2>1, MassType
  <2>4. Mass(plan, S) \in 0 .. Weight /\ Mass(plan, S) = m + n /\ (S # {} => Mass(plan, S) > 0)
    <3> HIDE DEF failing
    <3> QED BY <1>3, MassType
  <2> QED BY <2>2, <2>3, <2>4
<1> HIDE DEF weights, allPass, m, n, failing
<1>5. Weight \in Nat
  BY DEF PlannerAssumption
<1>6. /\ weights["BLOCK"] = m /\ weights[allPass] = n
      /\ \A v \in Verdicts : v \notin {"BLOCK", allPass} => weights[v] = 0
      /\ weights \in [Verdicts -> 0 .. Weight]
  BY <1>1, <1>2, <1>4, <1>5 DEF Verdicts
<1>7. Sum(weights) = m + n
  <2>1. /\ Three(weights, "BLOCK", "REVIEW", "ELIGIBLE_FOR_SHADOW")
        /\ weights["BLOCK"] \in Int /\ weights["REVIEW"] \in Int
        /\ weights["ELIGIBLE_FOR_SHADOW"] \in Int
    BY <1>5, <1>6 DEF Verdicts, Three
  <2>2. Sum(weights) = weights["BLOCK"] + weights["REVIEW"] + weights["ELIGIBLE_FOR_SHADOW"]
    BY <2>1, SumOfThree
  <2>3. weights["REVIEW"] + weights["ELIGIBLE_FOR_SHADOW"] = n
    BY <1>1, <1>4, <1>6 DEF Verdicts
  <2>4. weights["REVIEW"] \in Int /\ weights["ELIGIBLE_FOR_SHADOW"] \in Int /\ n \in Int /\ m \in Int
    BY <2>1, <1>4
  <2> QED BY <1>6, <2>2, <2>3, <2>4
<1>8. weights = NoDistribution <=> S = {}
  <2>1. ASSUME S = {} PROVE weights = NoDistribution
    <3>1. failing = {}
      BY <2>1, <1>3
    <3>2. Mass(plan, {}) = 0
      <4>1. [i \in {} |-> plan.scenarios[i].weight] = [x \in {} |-> 0]
        OBVIOUS
      <4>2. Mass(plan, {}) = SumFunction([x \in {} |-> 0])
        BY <4>1 DEF Mass
      <4> QED BY <4>2, SumOfNone, SumFunctionIsSum
    <3>3. m = 0 /\ n = 0
      BY <2>1, <3>1, <3>2 DEF m, n
    <3> QED BY <1>2, <3>3 DEF NoDistribution
  <2>2. ASSUME S # {}, weights = NoDistribution PROVE FALSE
    <3>1. weights["BLOCK"] = 0 /\ weights[allPass] = 0
      BY <1>1, <2>2 DEF NoDistribution, Verdicts
    <3> QED BY <1>4, <1>6, <2>2, <3>1
  <2> QED BY <2>1, <2>2
<1> QED BY <1>4, <1>6, <1>7, <1>8, SumFunctionIsSum DEF weights, allPass, m, n, failing

LEMMA TableOfLogs ==
  /\ Len(Ln) \in Nat /\ Len(Ln) >= 4 /\ Ln[4] >= 13862
  /\ \A n \in 1 .. Len(Ln) : Ln[n] \in Nat
  /\ \A m, n \in 1 .. Len(Ln) : m <= n => Ln[m] <= Ln[n]
<1>1. Ln \in Seq(Nat) /\ Len(Ln) >= 4 /\ Ln[4] >= 13862
  BY LnAssumption DEF LnAssumption
<1>2. DOMAIN Ln = 1 .. Len(Ln) /\ Len(Ln) \in Nat /\ \A n \in 1 .. Len(Ln) : Ln[n] \in Nat
  BY <1>1
<1>3. \A m, n \in 1 .. Len(Ln) : m <= n => Ln[m] <= Ln[n]
  BY <1>2, LnAssumption DEF LnAssumption
<1> QED BY <1>1, <1>2, <1>3

LEMMA EntropyType ==
  ASSUME NEW weights \in [Verdicts -> 0 .. Weight], SumFunction(weights) \in 0 .. Weight,
         PlannerAssumption
  PROVE  Entropy(weights) \in Int
<1> DEFINE mass == SumFunction(weights)
           parts == [v \in Verdicts |-> weights[v] * (Log(mass) - Log(weights[v]))]
<1>1. \A n \in 0 .. Weight : Log(n) \in Int
  <2>1. Weight \in 1 .. Len(Ln)
    BY TableOfLogs DEF PlannerAssumption
  <2>2. ASSUME NEW n \in 0 .. Weight PROVE Log(n) \in Int
    <3>1. n = 0 \/ n \in 1 .. Len(Ln)
      BY <2>1
    <3>2. n \in 1 .. Len(Ln) => Ln[n] \in Nat
      BY TableOfLogs
    <3> QED BY <3>1, <3>2 DEF Log
  <2> QED BY <2>2
<1>2. parts \in [Verdicts -> Int]
  <2> HIDE DEF mass
  <2>1. ASSUME NEW v \in Verdicts PROVE weights[v] * (Log(mass) - Log(weights[v])) \in Int
    <3>1. weights[v] \in 0 .. Weight /\ mass \in 0 .. Weight
      BY DEF mass
    <3>2. Log(mass) \in Int /\ Log(weights[v]) \in Int /\ weights[v] \in Int
      BY <1>1, <3>1
    <3> DEFINE a == weights[v]
               b == Log(mass)
               c == Log(a)
    <3> HIDE DEF a, b, c
    <3>3. a \in Int /\ b \in Int /\ c \in Int
      BY <3>2 DEF a, b, c
    <3>4. a * (b - c) \in Int
      BY <3>3
    <3> QED BY <3>4 DEF a, b, c
  <2> QED BY <2>1
<1>3. IsFiniteSet(Verdicts)
  <2>1. Verdicts = {"BLOCK"} \cup {"REVIEW"} \cup {"ELIGIBLE_FOR_SHADOW"}
    BY DEF Verdicts
  <2> QED BY <2>1, FS_Singleton, FS_Union
<1>4. Entropy(weights) = SumFunction(parts)
  BY DEF Entropy
<1> HIDE DEF parts
<1> QED BY <1>2, <1>3, <1>4, SumType, SumFunctionIsSum

(* The scenarios an outcome leaves, and its entropy.                       *)
LEMMA OutcomeType ==
  ASSUME NEW plan, PlanShape(plan), PlanOK(plan), PlannerAssumption,
         NEW action, action.unavailable \in 0 .. Tenths, NEW status
  PROVE  Outcome(plan, action, status).entropy \in Int
<1> DEFINE left == Left(plan, action, status)
           weights == VerdictWeights(plan, left)
           share == IF status = "UNAVAILABLE" THEN action.unavailable
                    ELSE Tenths - action.unavailable
<1>1. left \in SUBSET DOMAIN plan.scenarios
  BY DEF Left, Consistent
<1>2. Entropy(weights) \in Int
  <2> HIDE DEF left
  <2>1. weights \in [Verdicts -> 0 .. Weight] /\ SumFunction(weights) = Mass(plan, left)
        /\ Mass(plan, left) \in 0 .. Weight
    BY <1>1, WeightsType, MassType
  <2> HIDE DEF weights
  <2> QED BY <2>1, EntropyType
<1>3. share \in Int
  BY DEF PlannerAssumption
<1>4. Outcome(plan, action, status).entropy
        = IF left # {} /\ share > 0 THEN share * Entropy(weights) ELSE 0
  BY DEF Outcome
<1> HIDE DEF left, weights, share
<1> QED BY <1>2, <1>3, <1>4

LEMMA GainType ==
  ASSUME NEW plan, PlanShape(plan), PlanOK(plan), PlannerAssumption,
         NEW action, action.unavailable \in 0 .. Tenths
  PROVE  RawGain(plan, action) \in Int
<1> DEFINE weights == VerdictWeights(plan, Consistent(plan))
           after == [status \in Statuses |-> Outcome(plan, action, status).entropy]
<1>1. Entropy(weights) \in Int
  <2> DEFINE S == Consistent(plan)
  <2>1. S \in SUBSET DOMAIN plan.scenarios
    BY DEF Consistent
  <2> HIDE DEF S
  <2>2. VerdictWeights(plan, S) \in [Verdicts -> 0 .. Weight]
        /\ SumFunction(VerdictWeights(plan, S)) = Mass(plan, S)
        /\ Mass(plan, S) \in 0 .. Weight
    BY <2>1, WeightsType, MassType
  <2>3. Entropy(VerdictWeights(plan, S)) \in Int
    BY <2>2, EntropyType
  <2> QED BY <2>3 DEF S
<1>2. after \in [Statuses -> Int]
  BY OutcomeType
<1>3. IsFiniteSet(Statuses)
  <2>1. Statuses = {"PASS"} \cup {"FAIL"} \cup {"UNAVAILABLE"}
    BY DEF Statuses
  <2> QED BY <2>1, FS_Singleton, FS_Union
<1>4. RawGain(plan, action) = Tenths * Entropy(weights) - SumFunction(after)
  BY DEF RawGain
<1>5. SumFunction(after) \in Int
  <2> HIDE DEF after
  <2> QED BY <1>2, <1>3, SumType, SumFunctionIsSum
<1>6. Tenths \in Int
  BY DEF PlannerAssumption
<1> HIDE DEF after, weights
<1> QED BY <1>1, <1>4, <1>5, <1>6

-------------------------------------------------------------------------------
(***************************************************************************)
(* The order of the candidates                                             *)
(***************************************************************************)

(* Ratios compare as their cross products do.                              *)
AtLeast(a, p, b, q) == a * q >= b * p
Same(a, p, b, q) == a * q = b * p

LEMMA RatiosCompare ==
  ASSUME NEW a \in Int, NEW b \in Int, NEW c \in Int,
         NEW p \in Nat \ {0}, NEW q \in Nat \ {0}, NEW r \in Nat \ {0},
         AtLeast(a, p, b, q), AtLeast(b, q, c, r)
  PROVE  /\ AtLeast(a, p, c, r)
         /\ Same(a, p, c, r) => Same(a, p, b, q) /\ Same(b, q, c, r)
<1> USE DEF AtLeast, Same
<1>1. (a * q) * r >= (b * p) * r /\ (b * r) * p >= (c * q) * p
  <2>1. \A x, y \in Int, z \in Nat : x >= y => x * z >= y * z
    OBVIOUS
  <2>2. a * q \in Int /\ b * p \in Int /\ b * r \in Int /\ c * q \in Int
    OBVIOUS
  <2> QED BY <2>1, <2>2
<1>2. (b * p) * r = (b * r) * p /\ (a * q) * r = (a * r) * q /\ (c * q) * p = (c * p) * q
  OBVIOUS
<1> DEFINE x == a * r
           y == c * p
           u == (b * p) * r
<1>3. x \in Int /\ y \in Int /\ u \in Int /\ x * q >= u /\ u >= y * q
  BY <1>1, <1>2
<1>4. \A k, l \in Int : k * q >= l * q => k >= l
  OBVIOUS
<1>5. x >= y
  <2> HIDE DEF x, y, u
  <2>1. x * q \in Int /\ y * q \in Int
    BY <1>3
  <2>2. x * q >= y * q
    BY <1>3, <2>1
  <2> QED BY <1>3, <1>4, <2>2
<1>6. ASSUME x = y
      PROVE  a * q = b * p /\ b * r = c * q
  <2>1. x * q = u /\ u = y * q
    <3> HIDE DEF x, y, u
    <3>1. x * q \in Int /\ y * q \in Int /\ x * q = y * q
      BY <1>3, <1>6
    <3> QED BY <1>3, <3>1
  <2>2. (a * q) * r = (b * p) * r /\ (b * r) * p = (c * q) * p
    BY <1>2, <2>1
  <2>3. \A k, l \in Int, z \in Nat \ {0} : k * z = l * z => k = l
    OBVIOUS
  <2>4. a * q \in Int /\ b * p \in Int /\ b * r \in Int /\ c * q \in Int
    OBVIOUS
  <2> QED BY <2>2, <2>3, <2>4
<1> QED BY <1>5, <1>6

(* Candidates with their costs, that may be chosen.                        *)
Qualified(c) ==
  /\ c.eligible = TRUE /\ c.gain \in Int /\ c.resolution \in Int
  /\ c.cost \in Nat \ {0} /\ c.id \in Int

LEMMA PrecedesTotal ==
  ASSUME NEW c, NEW d, Qualified(c), Qualified(d), c.id # d.id
  PROVE  Precedes(c, d) \/ Precedes(d, c)
<1> DEFINE g == c.gain * d.cost
           h == d.gain * c.cost
           k == c.resolution * d.cost
           l == d.resolution * c.cost
<1>1. g \in Int /\ h \in Int /\ k \in Int /\ l \in Int
  BY DEF Qualified
<1>2. c.cost \in Int /\ d.cost \in Int /\ c.id \in Int /\ d.id \in Int /\ c.eligible = d.eligible
  <2>1. c.eligible = d.eligible
    BY Zenon DEF Qualified
  <2> QED BY <2>1 DEF Qualified
<1>3. Precedes(c, d) <=>
        g > h \/ (g = h /\ (k > l \/ (k = l /\
          (c.cost < d.cost \/ (c.cost = d.cost /\ c.id < d.id)))))
  <2> HIDE DEF g, h, k, l
  <2> QED BY <1>2 DEF Precedes, LastKey, g, h, k, l, Qualified
<1>4. Precedes(d, c) <=>
        h > g \/ (h = g /\ (l > k \/ (l = k /\
          (d.cost < c.cost \/ (d.cost = c.cost /\ d.id < c.id)))))
  <2> HIDE DEF g, h, k, l
  <2> QED BY <1>2 DEF Precedes, LastKey, g, h, k, l, Qualified
<1> HIDE DEF g, h, k, l
<1> QED BY <1>1, <1>2, <1>3, <1>4

LEMMA PrecedesTransitive ==
  ASSUME NEW c, NEW d, NEW e, Qualified(c), Qualified(d), Qualified(e),
         Precedes(c, d), Precedes(d, e)
  PROVE  Precedes(c, e)
<1> DEFINE G(x, y) == x.gain * y.cost
           R(x, y) == x.resolution * y.cost
           Key(x, y) == \/ G(x, y) > G(y, x)
                        \/ /\ G(x, y) = G(y, x)
                           /\ \/ R(x, y) > R(y, x)
                              \/ /\ R(x, y) = R(y, x)
                                 /\ x.cost < y.cost \/ (x.cost = y.cost /\ x.id < y.id)
<1>1. \A x, y \in {c, d, e} : G(x, y) \in Int /\ R(x, y) \in Int
  BY DEF Qualified
<1>2. \A x \in {c, d, e} : x.cost \in Int /\ x.id \in Int /\ x.eligible = TRUE
  BY DEF Qualified
<1>3. /\ G(c, d) >= G(d, c) /\ G(d, e) >= G(e, d)
         => G(c, e) >= G(e, c) /\ (G(c, e) = G(e, c) => G(c, d) = G(d, c) /\ G(d, e) = G(e, d))
      /\ R(c, d) >= R(d, c) /\ R(d, e) >= R(e, d)
         => R(c, e) >= R(e, c) /\ (R(c, e) = R(e, c) => R(c, d) = R(d, c) /\ R(d, e) = R(e, d))
  <2>1. /\ c.gain \in Int /\ d.gain \in Int /\ e.gain \in Int
        /\ c.resolution \in Int /\ d.resolution \in Int /\ e.resolution \in Int
        /\ c.cost \in Nat \ {0} /\ d.cost \in Nat \ {0} /\ e.cost \in Nat \ {0}
    BY DEF Qualified
  <2>2. ASSUME G(c, d) >= G(d, c), G(d, e) >= G(e, d)
        PROVE  G(c, e) >= G(e, c) /\ (G(c, e) = G(e, c) => G(c, d) = G(d, c) /\ G(d, e) = G(e, d))
    <3>1. AtLeast(c.gain, c.cost, d.gain, d.cost) /\ AtLeast(d.gain, d.cost, e.gain, e.cost)
      BY <2>2 DEF AtLeast
    <3>2. /\ AtLeast(c.gain, c.cost, e.gain, e.cost)
          /\ Same(c.gain, c.cost, e.gain, e.cost)
               => Same(c.gain, c.cost, d.gain, d.cost) /\ Same(d.gain, d.cost, e.gain, e.cost)
      BY <2>1, <3>1, RatiosCompare
    <3> QED BY <3>2 DEF AtLeast, Same
  <2>3. ASSUME R(c, d) >= R(d, c), R(d, e) >= R(e, d)
        PROVE  R(c, e) >= R(e, c) /\ (R(c, e) = R(e, c) => R(c, d) = R(d, c) /\ R(d, e) = R(e, d))
    <3>1. AtLeast(c.resolution, c.cost, d.resolution, d.cost) /\ AtLeast(d.resolution, d.cost, e.resolution, e.cost)
      BY <2>3 DEF AtLeast
    <3>2. /\ AtLeast(c.resolution, c.cost, e.resolution, e.cost)
          /\ Same(c.resolution, c.cost, e.resolution, e.cost)
               => Same(c.resolution, c.cost, d.resolution, d.cost) /\ Same(d.resolution, d.cost, e.resolution, e.cost)
      BY <2>1, <3>1, RatiosCompare
    <3> QED BY <3>2 DEF AtLeast, Same
  <2> HIDE DEF G, R
  <2> QED BY <2>2, <2>3
<1>4. \A x, y \in {c, d, e} : Precedes(x, y) <=> Key(x, y)
  BY <1>2 DEF Precedes, LastKey
<1> HIDE DEF G, R
<1>5. Key(c, d) /\ Key(d, e)
  <2> HIDE DEF Key
  <2> QED BY <1>4
<1>6. G(c, d) >= G(d, c) /\ G(d, e) >= G(e, d)
  BY <1>1, <1>5
<1>7. G(c, e) >= G(e, c) /\ (G(c, e) = G(e, c) => G(c, d) = G(d, c) /\ G(d, e) = G(e, d))
  BY <1>3, <1>6
<1>8. Key(c, e)
  <2>1. CASE G(c, e) > G(e, c)
    BY <2>1
  <2>2. CASE G(c, e) = G(e, c)
    <3>1. G(c, d) = G(d, c) /\ G(d, e) = G(e, d)
      BY <1>7, <2>2
    <3>2. R(c, d) >= R(d, c) /\ R(d, e) >= R(e, d)
      BY <1>1, <1>5, <3>1
    <3>3. R(c, e) >= R(e, c) /\ (R(c, e) = R(e, c) => R(c, d) = R(d, c) /\ R(d, e) = R(e, d))
      BY <1>3, <3>2
    <3> QED BY <1>1, <1>2, <1>5, <2>2, <3>1, <3>3
  <2> QED BY <1>1, <1>7, <2>1, <2>2
<1> QED BY <1>4, <1>8

(* Of candidates with different ids one leads all others: max() has one to *)
(* find.                                                                   *)
LEMMA LeaderExists ==
  ASSUME NEW C, IsFiniteSet(C), C # {}, \A c \in C : Qualified(c),
         \A c, d \in C : c.id = d.id => c = d
  PROVE  \E c \in C : \A d \in C \ {c} : Leads(c, d)
<1> DEFINE Leader(U, c) == \A d \in U \ {c} : Precedes(c, d)
           F == {U \in SUBSET C : U # {} => \E c \in U : Leader(U, c)}
<1>1. {} \in F
  OBVIOUS
<1>2. ASSUME NEW U \in SUBSET C, NEW x \in C \ U, U \in F
      PROVE  U \cup {x} \in F
  <2>1. CASE U = {}
    <3>1. Leader(U \cup {x}, x)
      BY <2>1
    <3> QED BY <3>1
  <2>2. CASE U # {}
    <3>1. PICK c \in U : Leader(U, c)
      BY <1>2, <2>2
    <3>2. Qualified(c) /\ Qualified(x) /\ c.id # x.id
      OBVIOUS
    <3>3. CASE Precedes(c, x)
      <4>1. Leader(U \cup {x}, c)
        BY <3>1, <3>3
      <4> QED BY <4>1
    <3>4. CASE Precedes(x, c)
      <4>1. ASSUME NEW d \in U PROVE Precedes(x, d)
        <5>1. CASE d = c
          BY <3>4, <5>1
        <5>2. CASE d # c
          <6>1. Precedes(c, d) /\ Qualified(d)
            BY <3>1, <5>2
          <6> QED BY <3>2, <3>4, <6>1, PrecedesTransitive
        <5> QED BY <5>1, <5>2
      <4>2. Leader(U \cup {x}, x)
        BY <4>1
      <4> QED BY <4>2
    <3> QED BY <3>2, <3>3, <3>4, PrecedesTotal
  <2> QED BY <2>1, <2>2
<1>3. C \in F
  <2> HIDE DEF F
  <2> QED BY <1>1, <1>2, EveryFiniteSet
<1>4. \E c \in C : \A d \in C \ {c} : Leads(c, d)
  BY <1>3 DEF Leads
<1> QED BY <1>4

LEMMA BestExists ==
  ASSUME NEW C, IsFiniteSet(C), C # {}, \A c \in C : Qualified(c),
         \A c, d \in C : c.id = d.id => c = d
  PROVE  Best(C) \in C
BY LeaderExists DEF Best

-------------------------------------------------------------------------------
(***************************************************************************)
(* A round of the loop                                                     *)
(***************************************************************************)

(* A study with an item of evidence found.                                 *)
LEMMA FoundStudy ==
  ASSUME NEW study, StudyShape(study), NEW e \in DOMAIN study.evidence, NEW s \in Statuses,
         NEW found, found = [study EXCEPT !.evidence = [study.evidence EXCEPT ![e] = s]]
  PROVE  /\ StudyShape(found)
         /\ found.required = study.required
         /\ DOMAIN found.evidence = DOMAIN study.evidence
         /\ found.evidence[e] = s
         /\ \A name \in DOMAIN study.evidence \ {e} : found.evidence[name] = study.evidence[name]
         /\ StudyOK(study) => StudyOK(found)
         /\ AllPassVerdict(found) = AllPassVerdict(study)
<1>1. found = [clean |-> study.clean, observed |-> study.observed, heldOut |-> study.heldOut,
               frozen |-> study.frozen, threshold |-> study.threshold,
               maxError |-> study.maxError, invAlpha |-> study.invAlpha,
               minimum |-> study.minimum, classes |-> study.classes, groups |-> study.groups,
               required |-> study.required, samples |-> study.samples,
               evidence |-> [study.evidence EXCEPT ![e] = s]]
  BY DEF StudyShape
<1>2. /\ found.clean = study.clean /\ found.observed = study.observed
      /\ found.heldOut = study.heldOut /\ found.frozen = study.frozen
      /\ found.threshold = study.threshold /\ found.maxError = study.maxError
      /\ found.invAlpha = study.invAlpha /\ found.minimum = study.minimum
      /\ found.classes = study.classes /\ found.groups = study.groups
      /\ found.required = study.required /\ found.samples = study.samples
      /\ found.evidence = [study.evidence EXCEPT ![e] = s]
  BY <1>1
<1>3. /\ DOMAIN found.evidence = DOMAIN study.evidence /\ found.evidence[e] = s
      /\ \A name \in DOMAIN study.evidence \ {e} : found.evidence[name] = study.evidence[name]
  BY <1>2
<1>4. StudyShape(found)
  <2>1. Object(found.evidence)
    BY <1>2 DEF Object
  <2>2. found \in [clean : BOOLEAN, observed : BOOLEAN, heldOut : BOOLEAN, frozen : BOOLEAN,
                   threshold : Int, maxError : Int, invAlpha : Int, minimum : Int,
                   classes : {found.classes}, groups : {found.groups},
                   required : {found.required}, evidence : {found.evidence},
                   samples : {found.samples}]
    <3>1. /\ study.clean \in BOOLEAN /\ study.observed \in BOOLEAN
          /\ study.heldOut \in BOOLEAN /\ study.frozen \in BOOLEAN
          /\ study.threshold \in Int /\ study.maxError \in Int
          /\ study.invAlpha \in Int /\ study.minimum \in Int
      BY DEF StudyShape
    <3> QED BY <1>1, <3>1
  <2> QED BY <1>2, <2>1, <2>2 DEF StudyShape
<1>5. ASSUME StudyOK(study)
      PROVE  StudyOK(found)
  <2>1. \A name \in DOMAIN found.evidence : found.evidence[name] \in Statuses
    BY <1>3, <1>5 DEF StudyOK
  <2>2. DOMAIN found.evidence = ToSet(found.required)
    BY <1>2, <1>3, <1>5 DEF StudyOK
  <2> QED BY <1>2, <1>5, <2>1, <2>2 DEF StudyOK
<1>6. [found EXCEPT !.evidence = [name \in DOMAIN @ |-> "PASS"]]
        = [study EXCEPT !.evidence = [name \in DOMAIN @ |-> "PASS"]]
  <2> DEFINE all == [name \in DOMAIN study.evidence |-> "PASS"]
  <2>1. [found EXCEPT !.evidence = [name \in DOMAIN @ |-> "PASS"]]
          = [found EXCEPT !.evidence = all]
    BY <1>3
  <2>2. [found EXCEPT !.evidence = all] = [study EXCEPT !.evidence = all]
    <3> HIDE DEF all
    <3> QED BY DEF StudyShape
  <2> QED BY <2>1, <2>2
<1> QED BY <1>2, <1>3, <1>4, <1>5, <1>6 DEF AllPassVerdict

LEMMA PlanResult ==
  ASSUME TaskInv, ResultInv, task.kind = "plan", result.status = "ok"
  PROVE  /\ PlanShape(task.input) /\ PlanOK(task.input) /\ Consistent(task.input) # {}
         /\ result = PlanEvidence(task.input)
<1>1. result # Pending /\ result # Invalid
  BY DEF Pending, Invalid
<1>2. result = PlanEvidence(task.input)
  BY <1>1 DEF ResultInv, Computed
<1>3. PlanOK(task.input) /\ Consistent(task.input) # {}
  BY <1>2 DEF PlanEvidence
<1> QED BY <1>2, <1>3 DEF TaskInv

(* The candidates of a plan that may be chosen.                            *)
Eligible(plan) == {c \in {Candidate(plan, at) : at \in DOMAIN plan.actions} : c.eligible}

LEMMA EligibleChosen ==
  ASSUME NEW plan, PlanShape(plan), PlanOK(plan), PlannerAssumption
  PROVE  /\ \A c \in Eligible(plan) : Qualified(c)
         /\ \A c, d \in Eligible(plan) : c.id = d.id => c = d
         /\ IsFiniteSet(Eligible(plan))
<1> DEFINE D == DOMAIN plan.actions
<1>2. IsFiniteSet(D)
  BY ListDomain DEF PlanShape
<1>3. ActionsOK(plan.actions, ToSet(plan.study.required))
  BY DEF PlanOK
<1>4. ASSUME NEW at \in D, Candidate(plan, at).eligible
      PROVE  Qualified(Candidate(plan, at)) /\ Candidate(plan, at).id = plan.actions[at].id
  <2> DEFINE action == plan.actions[at]
             gain == RawGain(plan, action)
  <2>1. action.cost \in Int /\ action.cost >= 1 /\ action.unavailable \in 0 .. Tenths
        /\ action.id \in Nat
    BY <1>3 DEF ActionsOK, CostOK, PlanShape
  <2>2. gain \in Int
    <3> HIDE DEF action
    <3> QED BY <2>1, GainType
  <2>3. Max({0, gain}) \in Int
    <3> HIDE DEF gain
    <3>1. \E x \in {0, gain} : \A y \in {0, gain} : x >= y
      BY <2>2
    <3>2. Max({0, gain}) \in {0, gain}
      BY <3>1 DEF Max
    <3> QED BY <2>2, <3>2
  <2>4. Candidate(plan, at) =
          [at |-> at, id |-> action.id, cost |-> action.cost,
           eligible |-> ~Excluded(plan, action), gain |-> Max({0, gain}),
           resolution |-> Tenths - action.unavailable]
    BY DEF Candidate
  <2>5. Tenths \in Int
    BY DEF PlannerAssumption
  <2> HIDE DEF action, gain
  <2>6. /\ Candidate(plan, at).id = action.id /\ Candidate(plan, at).cost = action.cost
        /\ Candidate(plan, at).gain = Max({0, gain})
        /\ Candidate(plan, at).resolution = Tenths - action.unavailable
        /\ Candidate(plan, at).eligible = ~Excluded(plan, action)
    BY <2>4
  <2>7. Candidate(plan, at).eligible = TRUE
    BY <1>4, <2>6
  <2> QED BY <2>1, <2>3, <2>5, <2>6, <2>7 DEF Qualified, action
<1>5. \A c \in Eligible(plan) : Qualified(c)
  BY <1>4 DEF Eligible
<1>6. ASSUME NEW c \in Eligible(plan), NEW d \in Eligible(plan), c.id = d.id
      PROVE  c = d
  <2>1. PICK i \in D : c = Candidate(plan, i) /\ c.eligible
    BY DEF Eligible
  <2>2. PICK j \in D : d = Candidate(plan, j) /\ d.eligible
    BY DEF Eligible
  <2>3. plan.actions[i].id = plan.actions[j].id
    BY <1>4, <1>6, <2>1, <2>2
  <2>4. i = j
    BY <1>3, <2>3 DEF ActionsOK
  <2> QED BY <2>1, <2>2, <2>4
<1>7. IsFiniteSet(Eligible(plan))
  <2> DEFINE f == [at \in D |-> Candidate(plan, at)]
             all == {f[at] : at \in D}
  <2>1. IsFiniteSet(D)
    BY <1>2
  <2>2. f \in Surjection(D, all)
    BY Fun_IsSurj
  <2>3. IsFiniteSet(all)
    <3> HIDE DEF f, all
    <3> QED BY <2>1, <2>2, FS_Surjection
  <2>4. Eligible(plan) \subseteq all
    BY DEF Eligible
  <2> QED BY <2>3, <2>4, FS_Subset
<1> QED BY <1>5, <1>6, <1>7

(* What is proposed is an action of the plan that nothing excludes.        *)
LEMMA SelectedIsEligible ==
  ASSUME TaskInv, ResultInv, Proposed, PlannerAssumption
  PROVE  /\ task.kind = "plan" /\ PlanShape(task.input) /\ PlanOK(task.input)
         /\ Consistent(task.input) # {} /\ result = PlanEvidence(task.input)
         /\ \E at \in DOMAIN task.input.actions : Selected = task.input.actions[at]
         /\ ~Excluded(task.input, Selected)
<1> DEFINE plan == task.input
           best == Best(Eligible(plan))
<1>1. task.kind = "plan" /\ PlanShape(plan) /\ PlanOK(plan) /\ Consistent(plan) # {}
      /\ result = PlanEvidence(plan)
  BY PlanResult DEF Proposed
<1>2. Eligible(plan) # {} /\ result.selected = best.id
  <2>1. result.selected = IF Eligible(plan) = {} THEN NoAction ELSE best.id
    BY <1>1 DEF PlanEvidence, Eligible
  <2> QED BY <2>1 DEF Proposed
<1>3. best \in Eligible(plan)
  <2> HIDE DEF plan
  <2> QED BY <1>1, <1>2, EligibleChosen, BestExists
<1>4. PICK at \in DOMAIN plan.actions : best = Candidate(plan, at) /\ best.eligible
  BY <1>3 DEF Eligible
<1>5. best.id = plan.actions[at].id /\ ~Excluded(plan, plan.actions[at])
  <2> DEFINE action == plan.actions[at]
             gain == Max({0, RawGain(plan, action)})
  <2>1. Candidate(plan, at) =
          [at |-> at, id |-> action.id, cost |-> action.cost,
           eligible |-> ~Excluded(plan, action), gain |-> gain,
           resolution |-> Tenths - action.unavailable]
    BY DEF Candidate
  <2> HIDE DEF action, gain
  <2>2. /\ Candidate(plan, at).id = action.id
        /\ Candidate(plan, at).eligible = ~Excluded(plan, action)
    BY <2>1
  <2> QED BY <1>4, <2>2 DEF action
<1>6. \A i, j \in DOMAIN plan.actions : plan.actions[i].id = plan.actions[j].id => i = j
  BY <1>1 DEF PlanOK, ActionsOK
<1>7. Selected = plan.actions[at]
  <2>1. plan.actions[at] \in ToSet(plan.actions) /\ plan.actions[at].id = result.selected
    BY <1>2, <1>5 DEF ToSet
  <2>2. \A action \in ToSet(plan.actions) : action.id = result.selected => action = plan.actions[at]
    BY <1>2, <1>5, <1>6 DEF ToSet
  <2> QED BY <2>1, <2>2 DEF Selected
<1> QED BY <1>1, <1>5, <1>7

(* What a round does to the plan, to its evidence and to the budget.       *)
LEMMA CollectEffect ==
  ASSUME TaskInv, ResultInv, PlannerAssumption, NEW status \in Statuses, Collect(status)
  PROVE  LET plan == task.input
             next == task'.input
             name == Selected.evidence
         IN  /\ task.kind = "plan" /\ PlanShape(plan) /\ PlanOK(plan) /\ result = PlanEvidence(plan)
             /\ Consistent(plan) # {} /\ ~Excluded(plan, Selected)
             /\ Selected.cost \in Nat \ {0} /\ Selected.cost <= plan.budget
             /\ Selected.unavailable \in 0 .. Tenths - 1
             /\ \A other \in ToSet(Selected.requires) :
                  other \in DOMAIN plan.study.evidence /\ plan.study.evidence[other] = "PASS"
             /\ \A other \in DOMAIN plan.study.evidence : plan.study.evidence[other] # "FAIL"
             /\ name \in DOMAIN plan.study.evidence /\ plan.study.evidence[name] = "UNAVAILABLE"
             /\ task' \in [kind : Kinds, via : {"service", "cli"}, input : {next}]
             /\ task'.kind = "plan" /\ task'.via = task.via
             /\ PlanShape(next) /\ PlanOK(next)
             /\ next.budget = plan.budget - Selected.cost
             /\ next.scenarios = plan.scenarios
             /\ DOMAIN next.study.evidence = DOMAIN plan.study.evidence
             /\ next.study.evidence[name] = status
             /\ \A other \in DOMAIN plan.study.evidence \ {name} :
                  next.study.evidence[other] = plan.study.evidence[other]
             /\ AllPassVerdict(next.study) = AllPassVerdict(plan.study)
<1> DEFINE plan == task.input
           next == task'.input
           name == Selected.evidence
<1>0. Proposed
  BY DEF Collect
<1>1. /\ task.kind = "plan" /\ PlanShape(plan) /\ PlanOK(plan) /\ result = PlanEvidence(plan)
      /\ Consistent(plan) # {} /\ ~Excluded(plan, Selected)
  BY <1>0, SelectedIsEligible
<1>2. PICK at \in DOMAIN plan.actions : Selected = plan.actions[at]
  BY <1>0, SelectedIsEligible
<1>3. /\ name \in ToSet(plan.study.required) /\ Selected.cost >= 1
      /\ Selected.unavailable \in 0 .. Tenths
      /\ ToSet(Selected.requires) \subseteq ToSet(plan.study.required)
  BY <1>1, <1>2 DEF PlanOK, ActionsOK, CostOK
<1>4. Selected.cost \in Int /\ plan.budget \in Int
  BY <1>1, <1>2 DEF PlanShape
<1>5. /\ plan.study.evidence[name] = "UNAVAILABLE" /\ ~(Selected.cost > plan.budget)
      /\ Selected.unavailable # Tenths /\ Verdict(plan.study) # "BLOCK"
      /\ \A other \in ToSet(Selected.requires) : plan.study.evidence[other] = "PASS"
  BY <1>1 DEF Excluded, OverBudget, PrerequisiteNotPass
<1>6. Selected.cost \in Nat \ {0} /\ Selected.cost <= plan.budget
      /\ Selected.unavailable \in 0 .. Tenths - 1
  BY <1>3, <1>4, <1>5 DEF PlannerAssumption
<1>7. DOMAIN plan.study.evidence = ToSet(plan.study.required) /\ StudyOK(plan.study)
      /\ StudyShape(plan.study)
  BY <1>1 DEF PlanOK, StudyOK, PlanShape
<1>8. task \in [kind : Kinds, via : {"service", "cli"}, input : {task.input}]
  BY DEF TaskInv
<1>9. task' = [task EXCEPT !.input.study.evidence[name] = status, !.input.budget = @ - Selected.cost]
  BY DEF Collect
<1> HIDE DEF name
<1>10. /\ task' \in [kind : Kinds, via : {"service", "cli"}, input : {next}]
       /\ task'.kind = task.kind /\ task'.via = task.via
       /\ next = [clean |-> plan.clean, budget |-> plan.budget - Selected.cost,
                  study |-> next.study, scenarios |-> plan.scenarios, actions |-> plan.actions]
       /\ next.study = [plan.study EXCEPT !.evidence = [plan.study.evidence EXCEPT ![name] = status]]
  <2> DEFINE study == [plan.study EXCEPT !.evidence = [plan.study.evidence EXCEPT ![name] = status]]
  <2>1. plan \in [clean : BOOLEAN, budget : Int, study : {plan.study},
                  scenarios : {plan.scenarios}, actions : {plan.actions}]
    BY <1>1 DEF PlanShape
  <2>2. task' = [task EXCEPT !.input = [plan EXCEPT !.study = study, !.budget = @ - Selected.cost]]
    BY <1>8, <1>9, <2>1
  <2>3. next = [plan EXCEPT !.study = study, !.budget = @ - Selected.cost]
    BY <1>8, <2>2
  <2> HIDE DEF study
  <2>4. next = [clean |-> plan.clean, budget |-> plan.budget - Selected.cost, study |-> study,
                scenarios |-> plan.scenarios, actions |-> plan.actions]
    <3> HIDE DEF next, plan
    <3> QED BY <2>1, <2>3
  <2>5. task'.kind = task.kind /\ task'.via = task.via
    BY <1>8, <2>2
  <2>6. task' \in [kind : Kinds, via : {"service", "cli"}, input : {next}]
    BY <1>8, <2>2
  <2>7. next.study = study
    BY <2>4
  <2> QED BY <2>4, <2>5, <2>6, <2>7 DEF study
<1>11. /\ next.clean = plan.clean /\ next.budget = plan.budget - Selected.cost
       /\ next.scenarios = plan.scenarios /\ next.actions = plan.actions
  BY <1>10
<1>12. name \in DOMAIN plan.study.evidence
  BY <1>3, <1>7 DEF name
<1>13. /\ StudyShape(next.study) /\ StudyOK(next.study)
       /\ next.study.required = plan.study.required
       /\ DOMAIN next.study.evidence = DOMAIN plan.study.evidence
       /\ next.study.evidence[name] = status
       /\ \A other \in DOMAIN plan.study.evidence \ {name} :
            next.study.evidence[other] = plan.study.evidence[other]
       /\ AllPassVerdict(next.study) = AllPassVerdict(plan.study)
  <2> DEFINE study == plan.study
             found == next.study
  <2>1. StudyShape(study) /\ StudyOK(study) /\ name \in DOMAIN study.evidence
        /\ found = [study EXCEPT !.evidence = [study.evidence EXCEPT ![name] = status]]
    BY <1>7, <1>10, <1>12
  <2> HIDE DEF study, found
  <2>2. /\ StudyShape(found) /\ StudyOK(found) /\ found.required = study.required
        /\ DOMAIN found.evidence = DOMAIN study.evidence
        /\ found.evidence[name] = status
        /\ \A other \in DOMAIN study.evidence \ {name} :
             found.evidence[other] = study.evidence[other]
        /\ AllPassVerdict(found) = AllPassVerdict(study)
    BY <2>1, FoundStudy
  <2> QED BY <2>2 DEF study, found
<1>14. PlanShape(next)
  <2>1. next \in [clean : BOOLEAN, budget : Int, study : {next.study},
                  scenarios : {next.scenarios}, actions : {next.actions}]
    <3>1. plan.clean \in BOOLEAN /\ plan.budget - Selected.cost \in Int
      BY <1>1, <1>4 DEF PlanShape
    <3> HIDE DEF plan, next
    <3>2. next.clean \in BOOLEAN /\ next.budget \in Int
      BY <1>11, <3>1
    <3>3. next = [clean |-> next.clean, budget |-> next.budget, study |-> next.study,
                  scenarios |-> next.scenarios, actions |-> next.actions]
      BY <1>10, <1>11
    <3> QED BY <3>2, <3>3
  <2> QED BY <1>1, <1>11, <1>13, <2>1 DEF PlanShape
<1>15. PlanOK(next)
  <2>1. next.budget >= 0
    BY <1>4, <1>6, <1>11
  <2> QED BY <1>1, <1>11, <1>13, <2>1 DEF PlanOK
<1>16. \A other \in DOMAIN plan.study.evidence : plan.study.evidence[other] # "FAIL"
  BY <1>5 DEF Verdict
<1>17. \A other \in ToSet(Selected.requires) :
         other \in DOMAIN plan.study.evidence /\ plan.study.evidence[other] = "PASS"
  BY <1>3, <1>5, <1>7
<1> QED BY <1>1, <1>5, <1>6, <1>10, <1>11, <1>12, <1>13, <1>14, <1>15, <1>16, <1>17 DEF name

-------------------------------------------------------------------------------
(***************************************************************************)
(* The invariant holds                                                     *)
(***************************************************************************)

LEMMA InitIInv ==
  ASSUME TasksAssumption, Init
  PROVE  IInv
<1> USE DEF Init
<1>1. TaskInv
  BY DEF TaskInv, TasksAssumption
<1>2. ResultInv
  BY DEF ResultInv
<1>3. FoundInv
  <2>1. ASSUME task.kind = "plan" PROVE first.budget \in Int
    BY <1>1, <2>1 DEF TaskInv, PlanShape
  <2>2. List(log) /\ DOMAIN log = {}
    BY DEF List, ToSet
  <2> QED BY <2>1, <2>2 DEF FoundInv, Evidence, Given
<1>4. SpentInv
  <2>1. Costs = [x \in {} |-> 0]
    BY DEF Costs
  <2>2. SumFunction(Costs) = 0
    BY <2>1, SumOfNone, SumFunctionIsSum
  <2>3. ASSUME task.kind = "plan" PROVE first.budget - task.input.budget = 0
    BY <1>1, <2>3 DEF TaskInv, PlanShape
  <2> QED BY <2>2, <2>3 DEF SpentInv
<1>5. PromiseInv
  BY DEF PromiseInv, NoPromise
<1>6. LawfulCollection
  BY DEF LawfulCollection
<1> QED BY <1>1, <1>2, <1>3, <1>4, <1>5, <1>6 DEF IInv

LEMMA StepTaskInv ==
  ASSUME TaskInv, ResultInv, PlannerAssumption, [Next]_vars
  PROVE  TaskInv'
<1>1. ASSUME task' = task, log' = log, promise' = promise
      PROVE  TaskInv'
  BY <1>1 DEF TaskInv
<1>2. ASSUME NEW status \in Statuses, Collect(status)
      PROVE  TaskInv'
  <2>1. /\ task' \in [kind : Kinds, via : {"service", "cli"}, input : {task'.input}]
        /\ task'.kind = "plan" /\ PlanShape(task'.input)
    BY <1>2, CollectEffect
  <2> QED BY <2>1 DEF TaskInv
<1>3. Compute \/ Unreadable \/ Done \/ UNCHANGED vars => task' = task /\ log' = log /\ promise' = promise
  BY DEF Compute, Unreadable, Done, vars
<1> QED BY <1>1, <1>2, <1>3 DEF Next

LEMMA StepResultInv ==
  ASSUME ResultInv, [Next]_vars
  PROVE  ResultInv'
<1>1. CASE Compute
  <2>1. result' = Computed(task) /\ code' = CodeOf(result') /\ task' = task
    BY <1>1 DEF Compute, CodeOf
  <2> QED BY <2>1 DEF ResultInv, CodeOf
<1>2. CASE Unreadable
  BY <1>2 DEF Unreadable, ResultInv
<1>3. ASSUME NEW status \in Statuses, Collect(status) PROVE ResultInv'
  BY <1>3 DEF Collect, ResultInv
<1>4. CASE Done \/ UNCHANGED vars
  BY <1>4 DEF Done, vars, ResultInv, CodeOf
<1> QED BY <1>1, <1>2, <1>3, <1>4 DEF Next

LEMMA ListGrows ==
  ASSUME NEW s, List(s), NEW e
  PROVE  /\ List(Append(s, e)) /\ Len(s) \in Nat /\ Len(Append(s, e)) = Len(s) + 1
         /\ DOMAIN s = 1 .. Len(s) /\ DOMAIN Append(s, e) = 1 .. (Len(s) + 1)
         /\ \A k \in DOMAIN s : Append(s, e)[k] = s[k]
         /\ Append(s, e)[Len(s) + 1] = e
<1> DEFINE T == ToSet(s) \cup {e}
           t == Append(s, e)
<1>1. s \in Seq(T) /\ e \in T
  BY DEF List
<1>2. /\ t \in Seq(T) /\ Len(s) \in Nat /\ Len(t) = Len(s) + 1 /\ DOMAIN s = 1 .. Len(s)
      /\ DOMAIN t = 1 .. (Len(s) + 1) /\ t[Len(s) + 1] = e
      /\ \A k \in 1 .. Len(s) : t[k] = s[k]
  <2> HIDE DEF T
  <2> QED BY <1>1
<1>3. t \in Seq(ToSet(t))
  <2> HIDE DEF t, T
  <2>1. Len(t) \in Nat /\ t = [k \in 1 .. Len(t) |-> t[k]]
    BY <1>2
  <2>2. \A k \in 1 .. Len(t) : t[k] \in ToSet(t)
    BY <1>2 DEF ToSet
  <2> QED BY <2>1, <2>2, IsASeq
<1> QED BY <1>2, <1>3 DEF List

(* A round that obtained something: its item was unavailable from the      *)
(* start, and is the last of the log.                                      *)
LEMMA CollectLog ==
  ASSUME TaskInv, ResultInv, FoundInv, PlannerAssumption,
         NEW status \in Statuses \ {"UNAVAILABLE"}, Collect(status)
  PROVE  /\ List(log') /\ Len(log) \in Nat /\ Len(log') = Len(log) + 1
         /\ DOMAIN log = 1 .. Len(log) /\ DOMAIN log' = 1 .. (Len(log) + 1)
         /\ \A k \in DOMAIN log : log'[k] = log[k]
         /\ log'[Len(log) + 1] = [action |-> Selected, status |-> status]
         /\ first' = first
         /\ \A k \in DOMAIN log : log[k].action.evidence # Selected.evidence
         /\ Selected.evidence \in DOMAIN Given /\ Given[Selected.evidence] = "UNAVAILABLE"
<1> DEFINE name == Selected.evidence
           entry == [action |-> Selected, status |-> status]
<1>1. /\ task.kind = "plan" /\ name \in DOMAIN Evidence /\ Evidence[name] = "UNAVAILABLE"
  BY CollectEffect DEF Evidence
<1>2. log' = Append(log, entry) /\ first' = first
  BY DEF Collect
<1>3. List(log)
  BY <1>1 DEF FoundInv
<1>4. \A k \in DOMAIN log : log[k].action.evidence # name
  BY <1>1 DEF FoundInv
<1>5. name \in DOMAIN Given /\ Given[name] = "UNAVAILABLE"
  BY <1>1, <1>4 DEF FoundInv
<1> HIDE DEF entry, name
<1>6. /\ List(log') /\ Len(log) \in Nat /\ Len(log') = Len(log) + 1
      /\ DOMAIN log = 1 .. Len(log) /\ DOMAIN log' = 1 .. (Len(log) + 1)
      /\ \A k \in DOMAIN log : log'[k] = log[k]
      /\ log'[Len(log) + 1] = entry
  BY <1>2, <1>3, ListGrows
<1> QED BY <1>2, <1>4, <1>5, <1>6 DEF entry, name

LEMMA StepFoundInv ==
  ASSUME TaskInv, ResultInv, FoundInv, PlannerAssumption, [Next]_vars
  PROVE  FoundInv'
<1>1. ASSUME NEW status \in Statuses, Collect(status)
      PROVE  FoundInv'
  <2> DEFINE name == Selected.evidence
  <2>1. /\ task.kind = "plan" /\ name \in DOMAIN Evidence /\ Evidence[name] = "UNAVAILABLE"
        /\ DOMAIN Evidence' = DOMAIN Evidence /\ Evidence'[name] = status
        /\ \A other \in DOMAIN Evidence \ {name} : Evidence'[other] = Evidence[other]
        /\ Selected.cost \in Int
    BY <1>1, CollectEffect DEF Evidence
  <2>2. first' = first /\ Given' = Given
    BY <1>1 DEF Collect, Given
  <2>3. /\ DOMAIN Evidence = DOMAIN Given /\ first.budget \in Int /\ List(log)
        /\ \A k \in DOMAIN log :
             /\ log[k].status \in {"PASS", "FAIL"} /\ log[k].action.cost \in Int
             /\ log[k].action.evidence \in DOMAIN Given
             /\ Given[log[k].action.evidence] = "UNAVAILABLE"
             /\ Evidence[log[k].action.evidence] = log[k].status
        /\ \A other \in DOMAIN Given :
             Evidence[other] = Given[other] \/ \E k \in DOMAIN log : log[k].action.evidence = other
    BY <2>1 DEF FoundInv
  <2>4. CASE status = "UNAVAILABLE"
    <3>1. log' = log
      BY <1>1, <2>4 DEF Collect
    <3>2. \A other \in DOMAIN Evidence : Evidence'[other] = Evidence[other]
      BY <2>1, <2>4
    <3> HIDE DEF name
    <3> QED BY <2>1, <2>2, <2>3, <3>1, <3>2 DEF FoundInv
  <2>5. CASE status # "UNAVAILABLE"
    <3>1. /\ List(log') /\ Len(log) \in Nat
          /\ DOMAIN log = 1 .. Len(log) /\ DOMAIN log' = 1 .. (Len(log) + 1)
          /\ \A k \in DOMAIN log : log'[k] = log[k]
          /\ log'[Len(log) + 1] = [action |-> Selected, status |-> status]
          /\ \A k \in DOMAIN log : log[k].action.evidence # name
          /\ name \in DOMAIN Given /\ Given[name] = "UNAVAILABLE"
      BY <1>1, <2>5, CollectLog
    <3>2. /\ log'[Len(log) + 1].status = status /\ log'[Len(log) + 1].action.evidence = name
          /\ log'[Len(log) + 1].action.cost \in Int /\ status \in {"PASS", "FAIL"}
      BY <2>1, <2>5, <3>1 DEF Statuses
    <3> HIDE DEF name
    <3>3. ASSUME NEW k \in DOMAIN log'
          PROVE  /\ log'[k].status \in {"PASS", "FAIL"} /\ log'[k].action.cost \in Int
                 /\ log'[k].action.evidence \in DOMAIN Given
                 /\ Given[log'[k].action.evidence] = "UNAVAILABLE"
                 /\ Evidence'[log'[k].action.evidence] = log'[k].status
      <4>1. k \in DOMAIN log \/ k = Len(log) + 1
        BY <3>1
      <4>2. CASE k \in DOMAIN log
        <5>1. log'[k] = log[k] /\ log[k].action.evidence \in DOMAIN Evidence \ {name}
          BY <2>3, <3>1, <4>2
        <5> QED BY <2>1, <2>3, <4>2, <5>1
      <4>3. CASE k = Len(log) + 1
        BY <2>1, <3>1, <3>2, <4>3
      <4> QED BY <4>1, <4>2, <4>3
    <3>4. ASSUME NEW other \in DOMAIN Given
          PROVE  Evidence'[other] = Given[other]
                 \/ \E k \in DOMAIN log' : log'[k].action.evidence = other
      <4>1. CASE other = name
        <5>1. Len(log) + 1 \in DOMAIN log'
          BY <3>1
        <5> QED BY <3>2, <4>1, <5>1
      <4>2. CASE other # name
        <5>1. Evidence'[other] = Evidence[other]
          BY <2>1, <2>3, <4>2
        <5>2. \A k \in DOMAIN log : k \in DOMAIN log' /\ log'[k] = log[k]
          BY <3>1
        <5> QED BY <2>3, <5>1, <5>2
      <4> QED BY <4>1, <4>2
    <3> QED BY <2>1, <2>2, <2>3, <3>1, <3>3, <3>4 DEF FoundInv
  <2> QED BY <2>4, <2>5
<1>2. ASSUME task' = task, first' = first, log' = log
      PROVE  FoundInv'
  BY <1>2 DEF FoundInv, Evidence, Given
<1>3. Compute \/ Unreadable \/ Done \/ UNCHANGED vars => task' = task /\ first' = first /\ log' = log
  BY DEF Compute, Unreadable, Done, vars
<1> QED BY <1>1, <1>2, <1>3 DEF Next

LEMMA StepSpentInv ==
  ASSUME TaskInv, ResultInv, FoundInv, SpentInv, PlannerAssumption, [Next]_vars
  PROVE  SpentInv'
<1>1. ASSUME NEW status \in Statuses, Collect(status)
      PROVE  SpentInv'
  <2>1. /\ task.kind = "plan" /\ PlanShape(task.input) /\ Selected.cost \in Nat \ {0}
        /\ task'.input.budget = task.input.budget - Selected.cost
    BY <1>1, CollectEffect
  <2>2. first' = first /\ first.budget \in Int /\ task.input.budget \in Int
    BY <1>1, <2>1 DEF Collect, FoundInv, PlanShape
  <2>3. Costs \in [DOMAIN log -> Int] /\ IsFiniteSet(DOMAIN log)
    <3>1. \A k \in DOMAIN log : log[k].action.cost \in Int
      BY <2>1 DEF FoundInv
    <3>2. IsFiniteSet(DOMAIN log)
      BY <2>1, ListDomain DEF FoundInv
    <3> QED BY <3>1, <3>2 DEF Costs
  <2>4. Sum(Costs) \in Int /\ Sum(Costs) <= first.budget - task.input.budget
    BY <2>1, <2>3, SumType, SumFunctionIsSum DEF SpentInv
  <2>5. Sum(Costs') \in Int /\ Sum(Costs') <= Sum(Costs) + Selected.cost
    <3>1. CASE status = "UNAVAILABLE"
      <4>1. log' = log
        BY <1>1, <3>1 DEF Collect
      <4>2. Costs' = Costs
        BY <4>1 DEF Costs
      <4> QED BY <2>1, <2>4, <4>2
    <3>2. CASE status # "UNAVAILABLE"
      <4> DEFINE x == Len(log) + 1
                 T == DOMAIN log
      <4>0. /\ Len(log) \in Nat /\ DOMAIN log = 1 .. Len(log)
            /\ DOMAIN log' = 1 .. (Len(log) + 1)
            /\ \A k \in DOMAIN log : log'[k] = log[k]
            /\ log'[Len(log) + 1] = [action |-> Selected, status |-> status]
        <5>1. status \in Statuses \ {"UNAVAILABLE"}
          BY <3>2
        <5> HIDE DEF x, T
        <5> QED BY <1>1, <5>1, CollectLog
      <4>1. /\ Len(log) \in Nat /\ DOMAIN log = 1 .. Len(log) /\ DOMAIN log' = 1 .. x
            /\ \A k \in DOMAIN log : log'[k] = log[k]
            /\ log'[x].action.cost = Selected.cost
        BY <4>0
      <4>2. DOMAIN log' = T \cup {x} /\ x \notin T
        BY <4>1
      <4>3. Costs' \in [T \cup {x} -> Int] /\ Costs'[x] = Selected.cost
            /\ \A k \in T : Costs'[k] = Costs[k]
        <5>1. \A k \in DOMAIN log : log[k].action.cost \in Int
          BY <2>1 DEF FoundInv
        <5>2. \A k \in T : log[k].action.cost \in Int
          BY <5>1
        <5>3. \A k \in T : Costs[k] = log[k].action.cost
          BY DEF Costs
        <5>4. Costs' = [k \in DOMAIN log' |-> log'[k].action.cost]
          BY DEF Costs
        <5> HIDE DEF T, x
        <5>5. Costs' = [k \in T \cup {x} |-> log'[k].action.cost]
          BY <4>2, <5>4
        <5>6. \A k \in T : log'[k] = log[k]
          BY <4>1 DEF T
        <5>7. \A k \in T \cup {x} : log'[k].action.cost \in Int
          BY <2>1, <4>1, <5>2, <5>6
        <5>8. \A k \in T \cup {x} : Costs'[k] = log'[k].action.cost
          BY <5>5
        <5> QED BY <4>1, <5>3, <5>5, <5>6, <5>7, <5>8
      <4>4. Grows(Costs', Costs, T, x)
        BY <2>3, <4>2, <4>3 DEF Grows
      <4> HIDE DEF T, x
      <4>5. Sum(Costs') = Costs'[x] + Sum(Costs)
        BY <4>4, SumGrows
      <4> QED BY <2>1, <2>4, <4>3, <4>5
    <3> QED BY <3>1, <3>2
  <2>6. Sum(Costs') <= first.budget - task'.input.budget
    BY <2>1, <2>2, <2>4, <2>5
  <2> QED BY <2>2, <2>6, SumFunctionIsSum DEF SpentInv
<1>2. ASSUME task' = task, first' = first, log' = log
      PROVE  SpentInv'
  <2>1. Costs' = Costs
    BY <1>2 DEF Costs
  <2> QED BY <1>2, <2>1 DEF SpentInv
<1>3. Compute \/ Unreadable \/ Done \/ UNCHANGED vars => task' = task /\ first' = first /\ log' = log
  BY DEF Compute, Unreadable, Done, vars
<1> QED BY <1>1, <1>2, <1>3 DEF Next

(* What was found leaves the scenarios that have it.                       *)
LEMMA ConsistentLeft ==
  ASSUME NEW plan, NEW next, NEW action, NEW status \in Statuses,
         action.evidence \in DOMAIN plan.study.evidence,
         plan.study.evidence[action.evidence] = "UNAVAILABLE",
         next.scenarios = plan.scenarios,
         DOMAIN next.study.evidence = DOMAIN plan.study.evidence,
         next.study.evidence[action.evidence] = status,
         \A other \in DOMAIN plan.study.evidence \ {action.evidence} :
           next.study.evidence[other] = plan.study.evidence[other]
  PROVE  Consistent(next) = Left(plan, action, status)
<1> DEFINE D == DOMAIN plan.scenarios
           E == plan.study.evidence
           H == next.study.evidence
           name == action.evidence
<1>1. ASSUME NEW i \in D
      PROVE  (\A other \in DOMAIN H : H[other] \in {"UNAVAILABLE", plan.scenarios[i].evidence[other]})
             <=> (/\ \A other \in DOMAIN E : E[other] \in {"UNAVAILABLE", plan.scenarios[i].evidence[other]}
                  /\ status \in {"UNAVAILABLE", plan.scenarios[i].evidence[name]})
  <2> HIDE DEF E, H, name
  <2>1. /\ name \in DOMAIN E /\ E[name] = "UNAVAILABLE" /\ DOMAIN H = DOMAIN E /\ H[name] = status
        /\ \A other \in DOMAIN E \ {name} : H[other] = E[other]
    BY DEF E, H, name
  <2> QED BY <2>1
<1> QED BY <1>1 DEF Consistent, Left

LEMMA StepPromiseInv ==
  ASSUME TaskInv, ResultInv, PromiseInv, PlannerAssumption, [Next]_vars
  PROVE  PromiseInv'
<1>1. ASSUME NEW status \in Statuses, Collect(status)
      PROVE  PromiseInv'
  <2> DEFINE plan == task.input
             next == task'.input
             left == Left(plan, Selected, status)
  <2>1. /\ PlanShape(plan) /\ PlanOK(plan) /\ result = PlanEvidence(plan) /\ Consistent(plan) # {}
        /\ Selected.unavailable \in 0 .. Tenths - 1
        /\ task'.kind = "plan" /\ PlanShape(next) /\ PlanOK(next)
        /\ next.scenarios = plan.scenarios
        /\ AllPassVerdict(next.study) = AllPassVerdict(plan.study)
    BY <1>1, CollectEffect
  <2>2. Consistent(next) = left
    <3> DEFINE action == Selected
    <3>1. /\ action.evidence \in DOMAIN plan.study.evidence
          /\ plan.study.evidence[action.evidence] = "UNAVAILABLE"
          /\ DOMAIN next.study.evidence = DOMAIN plan.study.evidence
          /\ next.study.evidence[action.evidence] = status
          /\ \A other \in DOMAIN plan.study.evidence \ {action.evidence} :
               next.study.evidence[other] = plan.study.evidence[other]
      BY <1>1, CollectEffect
    <3> HIDE DEF plan, next, action
    <3>2. Consistent(next) = Left(plan, action, status)
      BY <2>1, <3>1, ConsistentLeft
    <3> QED BY <3>2 DEF action
  <2>3. \A S : VerdictWeights(next, S) = VerdictWeights(plan, S)
    BY <2>1 DEF VerdictWeights, Mass
  <2>4. left \in SUBSET DOMAIN plan.scenarios
    BY DEF Left, Consistent
  <2>5. VerdictWeights(plan, left) = NoDistribution <=> left = {}
    <3> HIDE DEF left, plan
    <3> QED BY <2>1, <2>4, WeightsType
  <2>6. promise'.made = TRUE
        /\ promise'.weights = IF left = {} THEN NoDistribution ELSE VerdictWeights(plan, left)
    <3>1. CASE status = "UNAVAILABLE"
      <4>1. left = Consistent(plan)
        BY <3>1 DEF Left
      <4>2. promise' = [made |-> TRUE, status |-> status, weights |-> result.prior]
        BY <1>1, <3>1 DEF Collect
      <4>3. result.prior = VerdictWeights(plan, Consistent(plan))
        BY <2>1 DEF PlanEvidence
      <4> QED BY <2>1, <4>1, <4>2, <4>3
    <3>2. CASE status # "UNAVAILABLE"
      <4>1. promise' = [made |-> TRUE, status |-> status,
                        weights |-> Outcome(plan, Selected, status).posterior]
        BY <1>1, <3>2 DEF Collect
      <4>2. Tenths - Selected.unavailable > 0
        BY <2>1 DEF PlannerAssumption
      <4>3. Outcome(plan, Selected, status).posterior
              = IF left = {} THEN NoDistribution ELSE VerdictWeights(plan, left)
        BY <3>2, <4>2 DEF Outcome
      <4> QED BY <4>1, <4>3
    <3> QED BY <3>1, <3>2
  <2> HIDE DEF left
  <2>7. IF Consistent(next) = {} THEN promise'.weights = NoDistribution
        ELSE /\ promise'.weights = VerdictWeights(next, Consistent(next))
             /\ promise'.weights # NoDistribution
    BY <2>2, <2>3, <2>5, <2>6
  <2> QED BY <2>1, <2>6, <2>7 DEF PromiseInv
<1>2. ASSUME task' = task, log' = log, promise' = promise
      PROVE  PromiseInv'
  BY <1>2 DEF PromiseInv
<1>3. Compute \/ Unreadable \/ Done \/ UNCHANGED vars => task' = task /\ log' = log /\ promise' = promise
  BY DEF Compute, Unreadable, Done, vars
<1> QED BY <1>1, <1>2, <1>3 DEF Next


(* What LawfulCollection says of the log alone.                            *)
LawfulLog(l) ==
  LET Passed(k) == {name \in DOMAIN Given : Given[name] = "PASS"}
                   \cup {l[j].action.evidence : j \in {i \in 1 .. (k - 1) : l[i].status = "PASS"}}
  IN  /\ \A k \in DOMAIN l : ToSet(l[k].action.requires) \subseteq Passed(k)
      /\ \A k \in 1 .. (Len(l) - 1) : l[k].status = "PASS"
      /\ \A name \in DOMAIN Given : Given[name] # "FAIL"
      /\ \A j, k \in DOMAIN l : l[j].action.evidence = l[k].action.evidence => j = k

LEMMA LawfulMeans ==
  LawfulCollection <=>
    (log # << >> => /\ LawfulLog(log) /\ SumFunction(Costs) <= first.budget - task.input.budget
                    /\ task.input.budget >= 0)
BY DEF LawfulCollection, LawfulLog, PassedBy, Costs, Plan, Given

(* A finding may be added to a lawful log.                                 *)
LEMMA LogStaysLawful ==
  ASSUME TaskInv, ResultInv, FoundInv, LawfulCollection, PlannerAssumption,
         NEW status \in Statuses \ {"UNAVAILABLE"}, Collect(status)
  PROVE  LawfulLog(log')
<1> DEFINE name == Selected.evidence
           n == Len(log)
<1>1. /\ task.kind = "plan"
      /\ \A other \in ToSet(Selected.requires) : other \in DOMAIN Evidence /\ Evidence[other] = "PASS"
      /\ \A other \in DOMAIN Evidence : Evidence[other] # "FAIL"
  BY CollectEffect DEF Evidence
<1>2. /\ DOMAIN Evidence = DOMAIN Given
      /\ \A k \in DOMAIN log :
           /\ log[k].status \in {"PASS", "FAIL"} /\ log[k].action.evidence \in DOMAIN Given
           /\ Given[log[k].action.evidence] = "UNAVAILABLE"
           /\ Evidence[log[k].action.evidence] = log[k].status
      /\ \A other \in DOMAIN Given :
           Evidence[other] = Given[other] \/ \E k \in DOMAIN log : log[k].action.evidence = other
  BY <1>1 DEF FoundInv
<1>3. /\ n \in Nat /\ Len(log') = n + 1 /\ DOMAIN log = 1 .. n /\ DOMAIN log' = 1 .. (n + 1)
      /\ \A k \in DOMAIN log : log'[k] = log[k]
      /\ log'[n + 1] = [action |-> Selected, status |-> status]
      /\ \A k \in DOMAIN log : log[k].action.evidence # name
  BY CollectLog
<1> HIDE DEF n
<1>4. log'[n + 1].action = Selected /\ log'[n + 1].action.evidence = name
  BY <1>3
<1>5. \A k \in DOMAIN log : log[k].status = "PASS"
  BY <1>1, <1>2
<1>6. \A other \in DOMAIN Given : Given[other] # "FAIL"
  BY <1>1, <1>2
<1>7. log # << >> => LawfulLog(log)
  BY LawfulMeans
<1>8. ASSUME NEW k \in DOMAIN log', NEW other \in ToSet(log'[k].action.requires)
      PROVE  \/ other \in DOMAIN Given /\ Given[other] = "PASS"
             \/ \E i \in 1 .. (k - 1) : log'[i].status = "PASS" /\ log'[i].action.evidence = other
  <2>1. CASE k = n + 1
    <3>1. other \in DOMAIN Given /\ Evidence[other] = "PASS"
      BY <1>1, <1>2, <1>4, <1>8, <2>1
    <3>2. ASSUME NEW i \in DOMAIN log, log[i].action.evidence = other
          PROVE  i \in 1 .. (k - 1) /\ log'[i].status = "PASS" /\ log'[i].action.evidence = other
      BY <1>3, <1>5, <2>1, <3>2
    <3> QED BY <1>2, <3>1, <3>2
  <2>2. CASE k # n + 1
    <3>1. k \in DOMAIN log /\ log # << >> /\ log'[k] = log[k] /\ 1 .. (k - 1) \subseteq DOMAIN log
      BY <1>3, <2>2
    <3>2. \/ other \in DOMAIN Given /\ Given[other] = "PASS"
          \/ \E i \in 1 .. (k - 1) : log[i].status = "PASS" /\ log[i].action.evidence = other
      BY <1>7, <1>8, <3>1 DEF LawfulLog
    <3> QED BY <1>3, <3>1, <3>2
  <2> QED BY <2>1, <2>2
<1>9. \A k \in 1 .. (Len(log') - 1) : log'[k].status = "PASS"
  BY <1>3, <1>5
<1>10. ASSUME NEW j \in DOMAIN log', NEW k \in DOMAIN log',
              log'[j].action.evidence = log'[k].action.evidence
       PROVE  j = k
  <2>1. CASE j \in DOMAIN log /\ k \in DOMAIN log
    <3>1. log # << >>
      BY <1>3, <2>1
    <3>2. log[j].action.evidence = log[k].action.evidence
      BY <1>3, <1>10, <2>1
    <3> QED BY <1>7, <2>1, <3>1, <3>2 DEF LawfulLog
  <2>2. CASE j = n + 1 /\ k = n + 1
    BY <2>2
  <2>3. CASE j = n + 1 /\ k \in DOMAIN log
    <3>1. log'[k] = log[k] /\ log[k].action.evidence # name /\ log'[j].action.evidence = name
      BY <1>3, <1>4, <2>3
    <3> QED BY <1>10, <3>1
  <2>4. CASE j \in DOMAIN log /\ k = n + 1
    <3>1. log'[j] = log[j] /\ log[j].action.evidence # name /\ log'[k].action.evidence = name
      BY <1>3, <1>4, <2>4
    <3> QED BY <1>10, <3>1
  <2>5. (j \in DOMAIN log \/ j = n + 1) /\ (k \in DOMAIN log \/ k = n + 1)
    BY <1>3
  <2> QED BY <2>1, <2>2, <2>3, <2>4, <2>5
<1> QED BY <1>6, <1>8, <1>9, <1>10 DEF LawfulLog

LEMMA StepLawful ==
  ASSUME TaskInv, ResultInv, FoundInv, SpentInv, LawfulCollection, PlannerAssumption, [Next]_vars
  PROVE  LawfulCollection'
<1>1. ASSUME NEW status \in Statuses, Collect(status)
      PROVE  LawfulCollection'
  <2>1. task'.kind = "plan" /\ task'.input.budget >= 0
    BY <1>1, CollectEffect DEF PlanOK
  <2>2. SumFunction(Costs') <= first'.budget - task'.input.budget
    BY <1>1, <2>1, StepSpentInv DEF SpentInv, Next
  <2>3. Given' = Given
    BY <1>1 DEF Collect, Given
  <2>4. log' # << >> => LawfulLog(log')
    <3>1. CASE status = "UNAVAILABLE"
      <4>1. log' = log
        BY <1>1, <3>1 DEF Collect
      <4> QED BY <4>1, LawfulMeans
    <3>2. CASE status # "UNAVAILABLE"
      <4>1. status \in Statuses \ {"UNAVAILABLE"}
        BY <3>2
      <4> QED BY <1>1, <4>1, LogStaysLawful
    <3> QED BY <3>1, <3>2
  <2> QED BY <2>1, <2>2, <2>3, <2>4
       DEF LawfulCollection, LawfulLog, PassedBy, Costs, Plan, Given
<1>2. ASSUME task' = task, first' = first, log' = log
      PROVE  LawfulCollection'
  BY <1>2 DEF LawfulCollection, PassedBy, Plan
<1>3. Compute \/ Unreadable \/ Done \/ UNCHANGED vars => task' = task /\ first' = first /\ log' = log
  BY DEF Compute, Unreadable, Done, vars
<1> QED BY <1>1, <1>2, <1>3 DEF Next

LEMMA NextIInv ==
  ASSUME PlannerAssumption, IInv, [Next]_vars
  PROVE  IInv'
BY StepTaskInv, StepResultInv, StepFoundInv, StepSpentInv, StepPromiseInv, StepLawful DEF IInv

(* Every state of the specification satisfies the invariant.               *)
THEOREM Invariance == Spec => []IInv
<1>1. Init => IInv
  BY InitIInv, TasksAssumption
<1>2. IInv /\ [Next]_vars => IInv'
  BY NextIInv, PlannerAssumption
<1> QED BY <1>1, <1>2, PTL DEF Spec

(* Prerequisites were found PASS, or given so, before what requires them;  *)
(* nothing was collected after a FAIL, nothing twice; what was found was   *)
(* paid for out of the first budget.                                       *)
THEOREM Lawful == Spec => []LawfulCollection
<1>1. IInv => LawfulCollection
  BY DEF IInv
<1> QED BY <1>1, Invariance, PTL

(* Every round of the loop leaves less budget, and never less than none.   *)
THEOREM Descent == Spec => LoopDescends
<1> DEFINE Down == result # Pending /\ result' = Pending
                     => task'.input.budget \in 0 .. (task.input.budget - 1)
<1>1. IInv /\ [Next]_vars => [Down]_vars
  <2>1. ASSUME IInv, NEW status \in Statuses, Collect(status)
        PROVE  Down
    <3>1. /\ PlanShape(task.input) /\ PlanShape(task'.input) /\ PlanOK(task'.input)
          /\ Selected.cost \in Nat \ {0}
          /\ task'.input.budget = task.input.budget - Selected.cost
      BY <2>1, CollectEffect, PlannerAssumption DEF IInv
    <3> QED BY <3>1 DEF PlanShape, PlanOK
  <2>2. ASSUME IInv, Compute \/ Unreadable \/ Done \/ UNCHANGED vars
        PROVE  [Down]_vars
    <3>1. CASE Compute \/ Unreadable
      <4>1. result = Pending
        BY <3>1 DEF Compute, Unreadable
      <4> QED BY <4>1
    <3>2. CASE Done \/ UNCHANGED vars
      BY <3>2 DEF Done
    <3> QED BY <2>2, <3>1, <3>2
  <2> QED BY <2>1, <2>2 DEF Next
<1>2. Spec => [][Down]_vars
  BY <1>1, Invariance, PTL DEF Spec
<1> QED BY <1>2 DEF LoopDescends

-------------------------------------------------------------------------------
(***************************************************************************)
(* What a plan says                                                        *)
(***************************************************************************)

(* A plan that is asked after a finding has the distribution the last plan *)
(* foretold for it, or is refused if that plan called it impossible.       *)
THEOREM Replans == Spec => []ReplanMatchesPosterior
<1>1. ASSUME IInv, promise.made, code \in {0, 200, 422}
      PROVE  IF promise.weights = NoDistribution THEN result.status = "invalid"
             ELSE result.status = "ok" /\ result.prior = promise.weights
  <2> DEFINE plan == task.input
  <2>1. task.kind = "plan" /\ PlanOK(plan)
        /\ IF Consistent(plan) = {} THEN promise.weights = NoDistribution
           ELSE /\ promise.weights = VerdictWeights(plan, Consistent(plan))
                /\ promise.weights # NoDistribution
    BY <1>1 DEF IInv, PromiseInv
  <2>2. result = PlanEvidence(plan)
    <3>1. result = Computed(task)
      BY <1>1 DEF IInv, ResultInv, NoCode
    <3> QED BY <2>1, <3>1 DEF Computed
  <2> HIDE DEF plan
  <2>3. CASE Consistent(plan) = {}
    BY <2>1, <2>2, <2>3 DEF PlanEvidence
  <2>4. CASE Consistent(plan) # {}
    <3>1. result.status = "ok" /\ result.prior = VerdictWeights(plan, Consistent(plan))
      BY <2>1, <2>2, <2>4 DEF PlanEvidence
    <3> QED BY <2>1, <2>4, <3>1
  <2> QED BY <2>3, <2>4
<1>2. IInv => ReplanMatchesPosterior
  BY <1>1 DEF ReplanMatchesPosterior
<1> QED BY <1>2, Invariance, PTL

(* A study that blocks, or has all its evidence, has nothing to acquire.   *)
LEMMA NothingEligible ==
  ASSUME NEW plan, PlanOK(plan),
         \/ Verdict(plan.study) = "BLOCK"
         \/ \A name \in DOMAIN plan.study.evidence : plan.study.evidence[name] # "UNAVAILABLE"
  PROVE  Eligible(plan) = {}
<1>1. ASSUME NEW at \in DOMAIN plan.actions
      PROVE  Candidate(plan, at).eligible = FALSE
  <2> DEFINE action == plan.actions[at]
             gain == Max({0, RawGain(plan, action)})
  <2>1. action.evidence \in DOMAIN plan.study.evidence
    BY DEF PlanOK, ActionsOK, StudyOK
  <2>2. Excluded(plan, action)
    BY <2>1 DEF Excluded
  <2>3. Candidate(plan, at) =
          [at |-> at, id |-> action.id, cost |-> action.cost,
           eligible |-> ~Excluded(plan, action), gain |-> gain,
           resolution |-> Tenths - action.unavailable]
    BY DEF Candidate
  <2> HIDE DEF action, gain
  <2>4. Candidate(plan, at).eligible = ~Excluded(plan, action)
    BY <2>3
  <2> QED BY <2>2, <2>4
<1> QED BY <1>1 DEF Eligible

(* If all evidence passed, the verdict is that of a study that passed.     *)
LEMMA AllPassed ==
  ASSUME NEW study, StudyShape(study),
         \A name \in DOMAIN study.evidence : study.evidence[name] = "PASS"
  PROVE  AllPassVerdict(study) = Verdict(study)
<1> DEFINE all == [name \in DOMAIN study.evidence |-> "PASS"]
<1>1. study.evidence = all
  BY DEF StudyShape, Object
<1>2. [study EXCEPT !.evidence = all] = study
  <2> HIDE DEF all
  <2> QED BY <1>1 DEF StudyShape
<1>3. [study EXCEPT !.evidence = [name \in DOMAIN @ |-> "PASS"]] = [study EXCEPT !.evidence = all]
  OBVIOUS
<1> QED BY <1>2, <1>3 DEF AllPassVerdict

LEMMA CertainPlan ==
  ASSUME NEW plan, PlanShape(plan), PlanOK(plan), Consistent(plan) # {}, PlannerAssumption,
         \/ \E name \in DOMAIN plan.study.evidence : plan.study.evidence[name] = "FAIL"
         \/ \A name \in DOMAIN plan.study.evidence : plan.study.evidence[name] # "UNAVAILABLE"
  PROVE  LET answer == PlanEvidence(plan)
         IN  /\ answer.prior[Assess(plan.study).verdict] = answer.retained
             /\ answer.selected = NoAction /\ answer.reason # "EXPECTED_INFORMATION_GAIN"
<1> DEFINE S == Consistent(plan)
           E == plan.study.evidence
           weights == VerdictWeights(plan, S)
           failing == Failing(plan, S)
<1>1. StudyOK(plan.study) /\ StudyShape(plan.study) /\ S \in SUBSET DOMAIN plan.scenarios
      /\ DOMAIN E = ToSet(plan.study.required)
  BY DEF PlanOK, StudyOK, PlanShape, Consistent
<1>2. Assess(plan.study).verdict = Verdict(plan.study)
  BY <1>1 DEF Assess
<1>3. \A i \in S : DOMAIN plan.scenarios[i].evidence = DOMAIN E
                   /\ \A name \in DOMAIN E : E[name] \in {"UNAVAILABLE", plan.scenarios[i].evidence[name]}
  BY <1>1 DEF PlanOK, ScenariosOK, Consistent
<1>4. /\ weights["BLOCK"] = Mass(plan, failing)
      /\ weights[AllPassVerdict(plan.study)] = Mass(plan, S \ failing)
  <2> HIDE DEF S
  <2> QED BY <1>1, WeightsType
<1>5. CASE \E name \in DOMAIN E : E[name] = "FAIL"
  <2>1. Verdict(plan.study) = "BLOCK"
    BY <1>5 DEF Verdict
  <2>2. failing = S
    <3> HIDE DEF S
    <3> QED BY <1>3, <1>5 DEF Failing
  <2>3. weights[Verdict(plan.study)] = Mass(plan, S) /\ Eligible(plan) = {}
    BY <1>4, <2>1, <2>2, NothingEligible
  <2> QED BY <1>2, <2>3 DEF PlanEvidence, Eligible
<1>6. CASE \A name \in DOMAIN E : E[name] # "UNAVAILABLE" /\ E[name] # "FAIL"
  <2>1. \A name \in DOMAIN E : E[name] = "PASS"
    BY <1>1, <1>6 DEF StudyOK, Statuses
  <2>2. AllPassVerdict(plan.study) = Verdict(plan.study)
    BY <1>1, <2>1, AllPassed
  <2>3. failing = {}
    <3> HIDE DEF S
    <3> QED BY <1>3, <2>1 DEF Failing
  <2>4. S \ failing = S
    BY <2>3
  <2>5. weights[Verdict(plan.study)] = Mass(plan, S) /\ Eligible(plan) = {}
    BY <1>4, <1>6, <2>2, <2>4, NothingEligible
  <2> QED BY <1>2, <2>5 DEF PlanEvidence, Eligible
<1> QED BY <1>5, <1>6

(* Once there is nothing left to be uncertain of, the modelled verdict is  *)
(* certain and the one the assessment gives, and nothing is proposed.      *)
THEOREM Certainty == Spec => []CertainOnceObserved
<1>1. ASSUME IInv, Answered("plan"),
             \/ "FAIL" \in {Plan.study.evidence[name] : name \in DOMAIN Plan.study.evidence}
             \/ "UNAVAILABLE" \notin {Plan.study.evidence[name] : name \in DOMAIN Plan.study.evidence}
      PROVE  /\ result.prior[Assess(Plan.study).verdict] = result.retained
             /\ result.selected = NoAction
             /\ result.reason # "EXPECTED_INFORMATION_GAIN"
  <2>1. PlanShape(Plan) /\ PlanOK(Plan) /\ Consistent(Plan) # {} /\ result = PlanEvidence(Plan)
    BY <1>1, PlanResult DEF IInv, Answered, Plan
  <2> HIDE DEF Plan
  <2> QED BY <1>1, <2>1, CertainPlan, PlannerAssumption
<1>2. IInv => CertainOnceObserved
  BY <1>1 DEF CertainOnceObserved
<1> QED BY <1>2, Invariance, PTL

-------------------------------------------------------------------------------
(***************************************************************************)
(* Winners                                                                 *)
(***************************************************************************)

LEMMA NoRepetition ==
  ASSUME NEW s, List(s), Unique(s)
  PROVE  \A i, j \in DOMAIN s : s[i] = s[j] => i = j
<1> DEFINE D == DOMAIN s
           T == ToSet(s)
<1>1. D = 1 .. Len(s) /\ Len(s) \in Nat /\ IsFiniteSet(D)
  BY ListDomain
<1>2. s \in [D -> T] /\ \A t \in T : \E i \in D : s[i] = t
  <2>1. s \in Seq(T)
    BY DEF List
  <2>2. s = [i \in D |-> s[i]]
    <3> HIDE DEF T
    <3> QED BY <2>1
  <2> QED BY <2>2 DEF ToSet
<1>3. s \in Surjection(D, T)
  <2> HIDE DEF D, T
  <2> QED BY <1>2 DEF Surjection
<1>4. Cardinality(D) = Len(s) /\ Cardinality(T) = Len(s)
  <2>1. ASSUME NEW n \in Nat PROVE Cardinality(1 .. n) = n
    <3>1. Cardinality(1 .. n) = IF 1 > n THEN 0 ELSE n - 1 + 1
      BY FS_Interval
    <3> QED BY <3>1
  <2> QED BY <1>1, <2>1 DEF Unique
<1>5. s \in Injection(D, T)
  <2>1. IsFiniteSet(D)
    BY <1>1
  <2> HIDE DEF D, T
  <2>2. Cardinality(T) = Cardinality(D) <=> s \in Injection(D, T)
    BY <1>3, <2>1, FS_Surjection
  <2> QED BY <1>4, <2>2
<1> QED BY <1>5 DEF Injection, IsInjective

(* The largest probability is that of a key, and no key has a larger one.  *)
LEMMA TopIsLargest ==
  ASSUME NEW probs, NEW keys, keys # {}, Distribution(probs, keys)
  PROVE  /\ Top(probs) \in 0 .. Unit /\ \E k \in keys : probs[k] = Top(probs)
         /\ \A k \in keys : probs[k] \in 0 .. Unit /\ probs[k] <= Top(probs)
<1> DEFINE S == {probs[k] : k \in DOMAIN probs}
<1>1. DOMAIN probs = keys /\ (\A k \in keys : probs[k] \in 0 .. Unit) /\ Unit \in Nat
  BY MetricsAssumption DEF Distribution
<1>2. S \subseteq 0 .. Unit /\ S # {}
  BY <1>1
<1>3. IsFiniteSet(S) /\ S \subseteq Int
  <2>1. IsFiniteSet(0 .. Unit) /\ 0 .. Unit \subseteq Int
    BY <1>1, FS_Interval
  <2> HIDE DEF S
  <2> QED BY <1>2, <2>1, FS_Subset
<1>4. \E m \in S : \A x \in S : m >= x
  <2> HIDE DEF S
  <2>1. \E m \in S : \A x \in S : x <= m
    BY <1>2, <1>3, GreatestInteger
  <2> QED BY <1>3, <2>1
<1>5. Top(probs) \in S /\ \A x \in S : Top(probs) >= x
  <2>1. Top(probs) = Max(S)
    BY DEF Top
  <2> HIDE DEF S
  <2> QED BY <1>4, <2>1 DEF Max
<1> QED BY <1>1, <1>2, <1>5

(* One winner leads all other keys; if there is more than one, none does.  *)
LEMMA WinnerLeads ==
  ASSUME NEW keys, List(keys), Names(keys, 2), NEW probs, Distribution(probs, ToSet(keys))
  PROVE  LET one == Cardinality(Winners(keys, probs)) = 1
             lead == {k \in ToSet(keys) : \A d \in ToSet(keys) \ {k} : probs[d] < probs[k]}
         IN  /\ ToSet(keys) # {} /\ one = (lead # {})
             /\ one => /\ lead = {FirstWinner(keys, probs)}
                       /\ probs[FirstWinner(keys, probs)] = Top(probs)
             /\ \A k \in lead : probs[k] = Top(probs)
<1> DEFINE W == Winners(keys, probs)
           T == ToSet(keys)
           lead == {k \in T : \A d \in T \ {k} : probs[d] < probs[k]}
           top == Top(probs)
<1>1. DOMAIN keys = 1 .. Len(keys) /\ Len(keys) >= 2 /\ Len(keys) \in Nat
  BY ListDomain DEF Names
<1>2. T # {} /\ \A i \in DOMAIN keys : keys[i] \in T
  <2>1. 1 \in DOMAIN keys
    BY <1>1
  <2> QED BY <2>1 DEF ToSet
<1>3. \A i, j \in DOMAIN keys : keys[i] = keys[j] => i = j
  BY NoRepetition DEF Names
<1>4. /\ top \in Int /\ (\E k \in T : probs[k] = top)
      /\ \A k \in T : probs[k] \in Int /\ probs[k] <= top
  <2>1. /\ top \in 0 .. Unit /\ (\E k \in T : probs[k] = top)
        /\ \A k \in T : probs[k] \in 0 .. Unit /\ probs[k] <= top
    <3>1. Distribution(probs, T)
      OBVIOUS
    <3> HIDE DEF T
    <3> QED BY <1>2, <3>1, TopIsLargest
  <2> HIDE DEF T, top
  <2> QED BY <2>1, MetricsAssumption
<1>5. W = {i \in DOMAIN keys : probs[keys[i]] = top}
  BY DEF Winners
<1>6. \A k \in T : \E i \in DOMAIN keys : keys[i] = k
  BY DEF ToSet
<1> HIDE DEF T, W, top
<1>7. \A k \in lead : probs[k] = top
  BY <1>4
<1>8. ASSUME NEW k \in lead
      PROVE  Cardinality(W) = 1
  <2>1. PICK i \in DOMAIN keys : keys[i] = k
    BY <1>6
  <2>2. ASSUME NEW j \in W PROVE j = i
    <3>1. keys[j] \in T /\ probs[keys[j]] = top /\ probs[k] = top /\ j \in DOMAIN keys
      BY <1>2, <1>5, <1>7
    <3>2. keys[j] = k
      BY <1>4, <3>1
    <3> QED BY <1>3, <2>1, <3>1, <3>2
  <2>3. W = {i}
    BY <1>5, <1>7, <2>1, <2>2
  <2> QED BY <2>3, FS_Singleton
<1>9. ASSUME Cardinality(W) = 1
      PROVE  lead = {FirstWinner(keys, probs)} /\ probs[FirstWinner(keys, probs)] = top
  <2>1. IsFiniteSet(W)
    <3>1. IsFiniteSet(DOMAIN keys) /\ W \subseteq DOMAIN keys
      BY <1>1, <1>5, FS_Interval
    <3> QED BY <3>1, FS_Subset
  <2>2. PICK i : W = {i}
    BY <1>9, <2>1, FS_Singleton
  <2>3. i \in DOMAIN keys /\ i \in Nat /\ probs[keys[i]] = top /\ keys[i] \in T
    BY <1>1, <1>2, <1>5, <2>2
  <2>4. Min(W) = i
    BY <2>2, <2>3 DEF Min
  <2>5. FirstWinner(keys, probs) = keys[i]
    BY <2>4 DEF FirstWinner, W
  <2>6. ASSUME NEW d \in T, d # keys[i] PROVE probs[d] < probs[keys[i]]
    <3>1. PICK j \in DOMAIN keys : keys[j] = d
      BY <1>6
    <3>2. probs[d] # top
      BY <1>5, <2>2, <2>6, <3>1
    <3> QED BY <1>4, <2>3, <3>2
  <2>7. lead = {keys[i]}
    <3>1. keys[i] \in lead
      BY <2>3, <2>6
    <3>2. ASSUME NEW k \in lead PROVE k = keys[i]
      <4>1. k \in T /\ (k # keys[i] => probs[keys[i]] < probs[k])
        BY <2>3
      <4> QED BY <1>4, <2>3, <4>1
    <3> QED BY <3>1, <3>2
  <2> QED BY <2>3, <2>5, <2>7
<1>10. lead # {} => Cardinality(W) = 1
  BY <1>8
<1>11. (Cardinality(W) = 1) = (lead # {})
  BY <1>9, <1>10
<1> QED BY <1>2, <1>7, <1>9, <1>11 DEF T, W, top

-------------------------------------------------------------------------------
(***************************************************************************)
(* Local decisions                                                         *)
(***************************************************************************)

LEMMA LocalResult ==
  ASSUME TaskInv, ResultInv, task.kind = "local", result # Pending
  PROVE  result = AnswerLocalQuestion(task.input) /\ AskShape(task.input)
<1>1. task.via # "cli"
  BY DEF TaskInv
<1> QED BY <1>1 DEF TaskInv, ResultInv, Computed

LEMMA LocalRefusal ==
  ASSUME TaskInv, ResultInv
  PROVE  RefusalOutranksTable
<1> SUFFICES ASSUME task.kind = "local", result # Pending, task.input.clean,
                    QuestionOK(task.input), ~(task.input.admitted /\ task.input.evidence)
             PROVE  /\ result.status = "ok" /\ result.type = "refusal" /\ result.reason # "TIE"
  BY DEF RefusalOutranksTable
<1>1. result = AnswerLocalQuestion(task.input)
  BY LocalResult
<1>2. result = Refusal("BACKEND_NOT_ADMITTED") \/ result = Refusal("EVIDENCE_ABSENT")
  BY <1>1 DEF AnswerLocalQuestion
<1> QED BY <1>2 DEF Refusal

(* What is answered to a question about options that comes with evidence   *)
(* and is put to the admitted backend.                                     *)
LEMMA AnswerIsTyped ==
  ASSUME NEW ask, AskShape(ask), ask.kind # "predicate", ask.admitted, ask.evidence,
         AnswerLocalQuestion(ask).status = "ok"
  PROVE  /\ Names(ask.options, 2) /\ Distribution(ask.table, ToSet(ask.options))
         /\ ask.clean /\ ask.isTable
         /\ AnswerLocalQuestion(ask) = IF ask.kind = "choice" THEN Choice(ask.options, ask.table)
                                       ELSE Score(ask.options, ask.table)
<1>1. Invalid.status = "invalid"
  BY DEF Invalid
<1>2. ask.clean /\ QuestionOK(ask) /\ AnswerLocalQuestion(ask) = Typed(ask)
  BY <1>1 DEF AnswerLocalQuestion
<1>3. Keys(ask) = ask.options /\ Names(ask.options, 2)
  BY <1>2 DEF Keys, QuestionOK
<1>4. ask.isTable /\ FirstRefused(ask.options, ask.table) = "none"
  <2>1. FirstRefused(ask.options, ask.table) # "ok"
    BY DEF FirstRefused
  <2> QED BY <1>1, <1>2, <1>3, <2>1 DEF Typed
<1>5. Distribution(ask.table, ToSet(ask.options))
  BY <1>1, <1>2, <1>3, <1>4 DEF Typed
<1> QED BY <1>1, <1>2, <1>3, <1>4, <1>5 DEF Typed

LEMMA LocalStudy ==
  ASSUME TaskInv, ResultInv
  PROVE  LocalAgreesWithStudy
<1> DEFINE ask == task.input
           sample == [probs |-> ask.table, label |-> result.choice]
<1> SUFFICES ASSUME Answered("local"), ask.kind = "choice", ask.admitted, ask.evidence
             PROVE  IF Accepts(AsStudy, AsSample)
                    THEN result.type = "choice" /\ Correct(AsStudy, sample)
                    ELSE result.type = "refusal" /\ result.reason = "TIE"
  BY DEF LocalAgreesWithStudy
<1>1. result = AnswerLocalQuestion(ask) /\ AskShape(ask)
  <2>1. task.kind = "local" /\ result # Pending
    BY DEF Answered, Pending
  <2> QED BY <2>1, LocalResult
<1>2. /\ Names(ask.options, 2) /\ Distribution(ask.table, ToSet(ask.options))
      /\ result = Choice(ask.options, ask.table)
  <2>1. result.status = "ok"
    BY DEF Answered
  <2> HIDE DEF ask
  <2> QED BY <1>1, <2>1, AnswerIsTyped
<1>3. Top(ask.table) >= 0
  <2>1. ToSet(ask.options) # {} /\ Top(ask.table) \in 0 .. Unit
    <3> HIDE DEF ask
    <3> QED BY <1>1, <1>2, WinnerLeads, TopIsLargest DEF AskShape
  <2> QED BY <2>1, MetricsAssumption
<1>4. Accepts(AsStudy, AsSample) <=> Cardinality(Winners(ask.options, ask.table)) = 1
  BY <1>3 DEF Accepts, AsStudy, AsSample
<1>5. Correct(AsStudy, sample) <=> FirstWinner(ask.options, ask.table) = result.choice
  BY DEF Correct, AsStudy
<1>6. CASE Cardinality(Winners(ask.options, ask.table)) = 1
  <2>1. result.type = "choice" /\ result.choice = FirstWinner(ask.options, ask.table)
    BY <1>2, <1>6 DEF Choice, Chosen
  <2> QED BY <1>4, <1>5, <1>6, <2>1
<1>7. CASE Cardinality(Winners(ask.options, ask.table)) # 1
  <2>1. result.type = "refusal" /\ result.reason = "TIE"
    BY <1>2, <1>7 DEF Choice, Refusal
  <2> QED BY <1>4, <1>7, <2>1
<1> QED BY <1>6, <1>7

(* A list from its end: the same members, as many.                         *)
LEMMA ReverseHolds ==
  ASSUME NEW s, List(s)
  PROVE  /\ Len(Reverse(s)) = Len(s) /\ DOMAIN Reverse(s) = 1 .. Len(s)
         /\ \A i \in 1 .. Len(s) : Reverse(s)[i] = s[Len(s) - i + 1]
         /\ ToSet(Reverse(s)) = ToSet(s)
<1> DEFINE n == Len(s)
           r == Reverse(s)
<1>1. DOMAIN s = 1 .. n /\ n \in Nat
  BY ListDomain
<1>2. r = [i \in 1 .. n |-> s[n - i + 1]]
  BY DEF Reverse
<1>3. DOMAIN r = 1 .. n /\ \A i \in 1 .. n : r[i] = s[n - i + 1]
  BY <1>2
<1>4. Len(r) = n
  <2> DEFINE T == ToSet(s)
  <2>1. \A i \in 1 .. n : s[i] \in T
    BY <1>1 DEF ToSet
  <2>2. \A i \in 1 .. n : n - i + 1 \in 1 .. n
    BY <1>1
  <2> HIDE DEF T, n, r
  <2>3. r \in Seq(T)
    BY <1>1, <1>2, <2>1, <2>2, IsASeq
  <2> QED BY <1>1, <1>3, <2>3
<1>5. ToSet(r) = ToSet(s)
  <2>1. \A i \in 1 .. n : n - i + 1 \in 1 .. n /\ n - (n - i + 1) + 1 = i
    BY <1>1
  <2> HIDE DEF n, r
  <2> QED BY <1>1, <1>3, <2>1 DEF ToSet
<1> QED BY <1>3, <1>4, <1>5

(* The two scores of a table, its levels read from either end.             *)
LEMMA ScoresMirror ==
  ASSUME NEW keys, List(keys), Names(keys, 2), NEW table, Object(table),
         Distribution(table, ToSet(keys))
  PROVE  /\ Score(keys, table).score >= 0
         /\ Score(keys, table).score + Score(Reverse(keys), table).score
              = Unit * (Len(keys) - 1)
<1> DEFINE n == Len(keys)
           D == 1 .. n
           T == ToSet(keys)
           at == [i \in D |-> table[keys[i]]]
           up == [i \in D |-> (i - 1) * at[i]]
           down == [i \in D |-> (n - i) * at[i]]
           turn == [i \in D |-> n - i + 1]
           both == [i \in D |-> up[i] + down[i]]
           ones == [i \in D |-> 1]
<1>1. DOMAIN keys = D /\ n \in Nat /\ n >= 2
  BY ListDomain DEF Names
<1>2. IsFiniteSet(D)
  BY <1>1, FS_Interval
<1>3. DOMAIN table = T /\ SumFunction(table) = Unit /\ Unit \in Nat
      /\ \A k \in T : table[k] \in 0 .. Unit
  BY MetricsAssumption DEF Distribution
<1>4. \A i \in D : keys[i] \in T
  BY <1>1 DEF ToSet
<1>5. at \in [D -> Nat]
  <2> HIDE DEF T, D
  <2> QED BY <1>3, <1>4
<1>6. ASSUME NEW i \in D
      PROVE  /\ up[i] \in Int /\ up[i] >= 0 /\ down[i] \in Int /\ down[i] >= 0
             /\ both[i] = (n - 1) * at[i] /\ at[i] \in Int
  <2> DEFINE a == at[i]
             b == i - 1
             c == n - i
  <2>1. a \in Nat /\ b \in Nat /\ c \in Nat
    BY <1>1, <1>5
  <2>2. up[i] = b * a /\ down[i] = c * a /\ both[i] = up[i] + down[i]
    OBVIOUS
  <2>3. n - 1 = b + c
    BY <1>1
  <2> HIDE DEF a, b, c, up, down, both, at
  <2>4. b * a \in Nat /\ c * a \in Nat /\ b * a + c * a = (b + c) * a
    BY <2>1
  <2>5. both[i] = (b + c) * a /\ up[i] \in Nat /\ down[i] \in Nat
    BY <2>2, <2>4
  <2>6. (b + c) * a = (n - 1) * a
    BY <2>3
  <2> QED BY <2>1, <2>5, <2>6 DEF a
<1>7. /\ up \in [D -> Int] /\ down \in [D -> Int] /\ both \in [D -> Int]
      /\ at \in [D -> Int] /\ ones \in [D -> Int]
  <2>1. \A i \in D : both[i] \in Int
    <3> HIDE DEF up, down
    <3> QED BY <1>6
  <2>2. \A i \in D : up[i] \in Int /\ down[i] \in Int /\ at[i] \in Int
    <3> HIDE DEF up, down, both, at
    <3> QED BY <1>6
  <2> QED BY <2>1, <2>2, SMTT(30)
<1>8. Sum(both) = Sum(up) + Sum(down)
  <2> HIDE DEF up, down, D
  <2> QED BY <1>2, <1>7, SumAdds
<1>9. Sum(at) = Unit
  <2>1. keys \in [D -> T]
    <3> HIDE DEF D
    <3>1. keys \in Seq(T)
      BY DEF List
    <3>2. keys = [i \in D |-> keys[i]]
      <4> HIDE DEF T
      <4> QED BY <1>1, <3>1
    <3> QED BY <1>4, <3>2
  <2>2. \A i, j \in D : keys[i] = keys[j] => i = j
    BY <1>1, NoRepetition DEF Names
  <2>3. {keys[i] : i \in D} = T
    BY <1>1 DEF ToSet
  <2>4. table = [k \in T |-> table[k]]
    BY <1>3 DEF Object
  <2> HIDE DEF D, T
  <2>5. table \in [T -> Int]
    BY <1>3, <2>4
  <2>6. Sum([i \in D |-> table[keys[i]]]) = Sum([k \in {keys[i] : i \in D} |-> table[k]])
    BY <1>2, <2>1, <2>2, <2>5, SumRenames
  <2>7. Sum(at) = Sum(table)
    BY <2>3, <2>4, <2>6
  <2> QED BY <1>3, <2>7, SumFunctionIsSum
<1>10. Sum(both) = (n - 1) * Unit
  <2>1. \A i \in D : 1 * both[i] <= (n - 1) * at[i] /\ (n - 1) * at[i] <= 1 * both[i]
    <3>1. \A i \in D : both[i] = (n - 1) * at[i] /\ both[i] \in Int
      BY <1>6, <1>7
    <3> HIDE DEF both, at
    <3> QED BY <3>1
  <2>2. 1 \in Int /\ n - 1 \in Int
    BY <1>1
  <2> DEFINE m == n - 1
  <2> HIDE DEF both, at, D, m
  <2>3. 1 * Sum(both) <= m * Sum(at) /\ m * Sum(at) <= 1 * Sum(both) /\ Sum(both) \in Int
    <3>1. m \in Int /\ \A i \in D : 1 * both[i] <= m * at[i] /\ m * at[i] <= 1 * both[i]
      BY <2>1, <2>2 DEF m
    <3>2. 1 * Sum(both) <= m * Sum(at) /\ Sum(both) \in Int
      BY <1>2, <1>7, <2>2, <3>1, SumCompares
    <3>3. m * Sum(at) <= 1 * Sum(both)
      BY <1>2, <1>7, <2>2, <3>1, SumCompares
    <3> QED BY <3>2, <3>3
  <2>4. m * Sum(at) \in Int
    BY <1>3, <1>9, <2>2 DEF m
  <2> QED BY <1>9, <2>3, <2>4 DEF m
<1>11. Sum(up) >= 0 /\ Sum(up) \in Int /\ Sum(down) \in Int
  <2>1. 0 \in Int /\ 1 \in Int /\ \A i \in D : 0 * ones[i] <= 1 * up[i]
    <3>1. \A i \in D : up[i] \in Int /\ up[i] >= 0
      BY <1>6
    <3> HIDE DEF up
    <3> QED BY <3>1
  <2> HIDE DEF up, down, ones, D
  <2>2. 0 * Sum(ones) <= 1 * Sum(up) /\ Sum(ones) \in Int /\ Sum(up) \in Int
    BY <1>2, <1>7, <2>1, SumCompares
  <2>3. Sum(down) \in Int
    BY <1>2, <1>7, SumType
  <2> QED BY <2>2, <2>3
<1>12. Score(keys, table).score = Sum(up)
  <2> DEFINE parts == [i \in DOMAIN keys |-> Level(i) * table[keys[i]]]
  <2>1. parts = up
    BY <1>1 DEF Level
  <2>2. Score(keys, table).score = SumFunction(parts)
    BY DEF Score
  <2> HIDE DEF parts, up
  <2> QED BY <2>1, <2>2, SumFunctionIsSum
<1>13. Score(Reverse(keys), table).score = Sum(down)
  <2> DEFINE back == Reverse(keys)
             parts == [i \in DOMAIN back |-> Level(i) * table[back[i]]]
  <2>1. DOMAIN back = D /\ \A i \in D : back[i] = keys[n - i + 1]
    BY ReverseHolds
  <2>2. turn \in [D -> D] /\ (\A i, j \in D : turn[i] = turn[j] => i = j)
        /\ \A i \in D : turn[turn[i]] = i
    BY <1>1
  <2>3. \A i \in D : turn[i] \in D /\ down[turn[i]] = Level(i) * table[back[i]]
    <3> TAKE i \in D
    <3> DEFINE j == n - i + 1
    <3>1. j \in D /\ n - j = i - 1
      BY <1>1
    <3>2. down[j] = (n - j) * table[keys[j]] /\ back[i] = keys[j]
      BY <2>1, <3>1
    <3> QED BY <3>1, <3>2 DEF Level
  <2>4. parts = [i \in D |-> down[turn[i]]]
    <3> HIDE DEF turn, back, down, D
    <3> QED BY <2>1, <2>3
  <2>5. {turn[i] : i \in D} = D
    <3> HIDE DEF turn, D
    <3> QED BY <2>2
  <2>6. down = [i \in D |-> down[i]]
    OBVIOUS
  <2>7. Score(back, table).score = SumFunction(parts)
    BY DEF Score
  <2> HIDE DEF parts, turn, down, D, back
  <2>8. Sum([i \in D |-> down[turn[i]]]) = Sum([d \in {turn[i] : i \in D} |-> down[d]])
    BY <1>2, <1>7, <2>2, SumRenames
  <2>9. SumFunction(parts) = Sum(down)
    BY <2>4, <2>5, <2>6, <2>8, SumFunctionIsSum
  <2> QED BY <2>7, <2>9 DEF back
<1>14. (n - 1) * Unit = Unit * (n - 1)
  BY <1>1, <1>3
<1> HIDE DEF up, down, both, at, D
<1> QED BY <1>8, <1>10, <1>11, <1>12, <1>13, <1>14

LEMMA LocalMirror ==
  ASSUME TaskInv, ResultInv
  PROVE  ScoreMirrors
<1> DEFINE ask == task.input
           back == Reverse(ask.options)
           mirror == [ask EXCEPT !.options = back]
<1> SUFFICES ASSUME Answered("local"), result.type = "score"
             PROVE  /\ result.score >= 0
                    /\ result.score + AnswerLocalQuestion(mirror).score
                         = Unit * (Len(ask.options) - 1)
  BY DEF ScoreMirrors
<1>1. result = AnswerLocalQuestion(ask) /\ AskShape(ask) /\ result.status = "ok"
  <2>1. task.kind = "local" /\ result # Pending /\ result.status = "ok"
    BY DEF Answered, Pending
  <2> QED BY <2>1, LocalResult
<1>2. ask.admitted /\ ask.evidence /\ ask.kind # "predicate"
  <2> HIDE DEF ask
  <2>1. Invalid.status = "invalid"
    BY DEF Invalid
  <2>2. ask.admitted /\ ask.evidence /\ result = Typed(ask)
    BY <1>1, <2>1 DEF AnswerLocalQuestion, Refusal
  <2>3. ASSUME ask.kind = "predicate" PROVE FALSE
    <3>1. FirstRefused(Keys(ask), ask.table) # "ok"
      BY DEF FirstRefused
    <3> QED BY <1>1, <2>1, <2>2, <2>3, <3>1 DEF Typed
  <2> QED BY <2>2, <2>3
<1>3. /\ Names(ask.options, 2) /\ Distribution(ask.table, ToSet(ask.options))
      /\ ask.clean /\ ask.isTable
      /\ result = IF ask.kind = "choice" THEN Choice(ask.options, ask.table)
                  ELSE Score(ask.options, ask.table)
  <2> HIDE DEF ask
  <2> QED BY <1>1, <1>2, AnswerIsTyped
<1>4. ask.kind # "choice"
  BY <1>3 DEF Choice, Chosen, Refusal
<1>5. /\ Len(back) = Len(ask.options) /\ ToSet(back) = ToSet(ask.options)
      /\ DOMAIN back = 1 .. Len(back)
      /\ Len(back) \in Nat /\ Names(back, 2)
  <2>1. List(ask.options)
    BY <1>1 DEF AskShape
  <2>2. /\ Len(back) = Len(ask.options) /\ ToSet(back) = ToSet(ask.options)
        /\ DOMAIN back = 1 .. Len(ask.options) /\ Len(ask.options) \in Nat
    <3> HIDE DEF ask
    <3> QED BY <2>1, ListDomain, ReverseHolds
  <2> QED BY <1>3, <2>2 DEF Names, Unique
<1>6. /\ mirror.clean = ask.clean /\ mirror.admitted = ask.admitted
      /\ mirror.evidence = ask.evidence /\ mirror.isTable = ask.isTable
      /\ mirror.kind = ask.kind /\ mirror.table = ask.table /\ mirror.options = back
  BY <1>1 DEF AskShape
<1> HIDE DEF mirror, back
<1>7. Keys(mirror) = back /\ QuestionOK(mirror)
  BY <1>2, <1>5, <1>6 DEF Keys, QuestionOK
<1>8. FirstRefused(back, mirror.table) = "none"
  <2>1. \A i \in DOMAIN back : back[i] \in ToSet(ask.options)
    BY <1>5 DEF ToSet
  <2>2. \A k \in ToSet(ask.options) : ask.table[k] \in 0 .. Unit
    BY <1>3 DEF Distribution
  <2> QED BY <1>6, <2>1, <2>2 DEF FirstRefused
<1>9. DOMAIN mirror.table = ToSet(back) /\ Distribution(mirror.table, ToSet(mirror.options))
  BY <1>3, <1>5, <1>6 DEF Distribution
<1>10. AnswerLocalQuestion(mirror) = Score(back, ask.table)
  <2>1. AnswerLocalQuestion(mirror) = Typed(mirror)
    BY <1>2, <1>3, <1>6, <1>7 DEF AnswerLocalQuestion
  <2>2. Typed(mirror) = Score(back, ask.table)
    BY <1>2, <1>3, <1>4, <1>6, <1>7, <1>8, <1>9 DEF Typed
  <2> QED BY <2>1, <2>2
<1>11. /\ Score(ask.options, ask.table).score >= 0
       /\ Score(ask.options, ask.table).score + Score(back, ask.table).score
            = Unit * (Len(ask.options) - 1)
  <2> HIDE DEF ask
  <2> QED BY <1>1, <1>3, ScoresMirror DEF AskShape, back
<1> QED BY <1>3, <1>4, <1>10, <1>11

(* A refusal outranks the table, a choice is the class a study predicts,   *)
(* and a score is as far from one end as its mirror from the other.        *)
THEOREM LocalAnswers == Spec => []LocalInv
<1>1. IInv => LocalInv
  BY LocalRefusal, LocalStudy, LocalMirror DEF IInv, LocalInv
<1> QED BY <1>1, Invariance, PTL

-------------------------------------------------------------------------------
(***************************************************************************)
(* Decision studies                                                        *)
(***************************************************************************)

(* Whom the assessment accepts, and what it then predicts.                 *)
LEMMA AcceptedIsClear ==
  ASSUME NEW study, StudyShape(study), StudyOK(study), NEW i \in DOMAIN study.samples
  PROVE  LET sample == study.samples[i]
         IN  /\ Accepts(study, sample) <=> Clear(sample, study) # {}
             /\ Accepts(study, sample) =>
                  (Correct(study, sample) <=> sample.label \in Clear(sample, study))
<1> DEFINE sample == study.samples[i]
           probs == sample.probs
           keys == study.classes
           T == ToSet(keys)
           lead == {k \in T : \A d \in T \ {k} : probs[d] < probs[k]}
           clear == Clear(sample, study)
           best == FirstWinner(keys, probs)
           one == Cardinality(Winners(keys, probs)) = 1
<1>1. List(keys) /\ Names(keys, 2) /\ Distribution(probs, T) /\ DOMAIN probs = T
  BY DEF StudyShape, StudyOK, Distribution
<1>2. /\ one = (lead # {}) /\ (one => lead = {best} /\ probs[best] = Top(probs))
      /\ \A k \in lead : probs[k] = Top(probs)
  <2> HIDE DEF keys, probs
  <2> QED BY <1>1, WinnerLeads
<1>3. clear = {k \in lead : probs[k] >= study.threshold}
  BY <1>1 DEF Clear
<1>4. Accepts(study, sample) <=> one /\ Top(probs) >= study.threshold
  BY DEF Accepts
<1>5. Correct(study, sample) <=> best = sample.label
  BY DEF Correct
<1> HIDE DEF sample, probs, keys, T, lead, clear, best, one
<1>6. clear # {} <=> one /\ Top(probs) >= study.threshold
  BY <1>2, <1>3
<1>7. one /\ Top(probs) >= study.threshold => clear = {best}
  BY <1>2, <1>3
<1>8. Accepts(study, sample) <=> clear # {}
  BY <1>4, <1>6
<1>9. Accepts(study, sample) => (Correct(study, sample) <=> sample.label \in clear)
  BY <1>4, <1>5, <1>7
<1> QED BY <1>8, <1>9 DEF sample, clear

(* The logarithms the bound takes, of four and more, are at least that of  *)
(* four.                                                                   *)
LEMMA LogOfFour == \A n \in 4 .. Len(Ln) : Ln[n] \in Nat /\ Ln[n] >= 13862
<1>1. ASSUME NEW n \in 4 .. Len(Ln)
      PROVE  Ln[n] \in Nat /\ Ln[n] >= 13862
  <2>1. n \in 1 .. Len(Ln) /\ 4 \in 1 .. Len(Ln) /\ 4 <= n
    BY TableOfLogs
  <2>2. Ln[n] \in Nat /\ Ln[4] \in Nat /\ Ln[4] <= Ln[n] /\ Ln[4] >= 13862
    BY <2>1, TableOfLogs
  <2> QED BY <2>2
<1> QED BY <1>1

(* The arithmetic of the bound: a product keeps an order, and with it the  *)
(* margin of a bound that half of everything limits needs three samples.   *)
LEMMA ProductKeeps ==
  ASSUME NEW a \in Nat, NEW b \in Nat, NEW c \in Nat, a <= b
  PROVE  a * c \in Nat /\ b * c \in Nat /\ a * c <= b * c
<1> DEFINE d == b - a
<1>1. d \in Nat /\ b = a + d
  OBVIOUS
<1> HIDE DEF d
<1>2. a * c \in Nat /\ d * c \in Nat /\ (a + d) * c = a * c + d * c
  BY <1>1
<1> QED BY <1>1, <1>2

LEMMA MarginNeedsThree ==
  ASSUME NEW U \in Nat \ {0}, NEW n \in Nat \ {0}, NEW L \in Nat, NEW room \in Nat,
         L >= 13862, 2 * room <= U * n, L * n * U * U <= 20000 * room * room
  PROVE  n >= 3
<1> DEFINE a == U * n
           r == 2 * room
           x == L * n * U * U
           y == n * U * U
<1>1. a \in Nat /\ r \in Nat /\ r <= a
  OBVIOUS
<1>2. r * r <= r * a /\ r * a <= a * a /\ r * r \in Nat /\ a * a \in Nat /\ r * a \in Nat
  <2> HIDE DEF a, r
  <2>1. r * r \in Nat /\ a * r \in Nat /\ r * r <= a * r
    BY <1>1, ProductKeeps
  <2>2. r * a \in Nat /\ a * a \in Nat /\ r * a <= a * a
    BY <1>1, ProductKeeps
  <2>3. r * a = a * r
    BY <1>1
  <2> QED BY <2>1, <2>2, <2>3
<1>3. 20000 * room * room = 5000 * (r * r)
  OBVIOUS
<1>4. y \in Nat /\ y >= 1 /\ x = L * y /\ a * a = n * y
  <2>1. y \in Nat /\ x = L * y /\ a * a = n * y
    OBVIOUS
  <2>2. y # 0
    OBVIOUS
  <2> QED BY <2>1, <2>2
<1>5. L * y <= 5000 * (n * y)
  <2> HIDE DEF a, r, x, y
  <2>1. x <= 5000 * (a * a)
    <3>1. x <= 5000 * (r * r)
      BY <1>3 DEF x
    <3>2. L * y \in Nat
      BY <1>4
    <3> QED BY <1>2, <1>4, <3>1, <3>2
  <2> QED BY <1>4, <2>1
<1> HIDE DEF a, r, x, y
<1>6. 13862 * y <= L * y
  BY <1>4, ProductKeeps
<1>7. CASE n = 1
  BY <1>4, <1>5, <1>6, <1>7
<1>8. CASE n = 2
  BY <1>4, <1>5, <1>6, <1>8
<1> QED BY <1>7, <1>8

(* A group passes with three accepted samples at least, of which no larger *)
(* part than max_error is wrong.                                           *)
LEMMA PassingGroup ==
  ASSUME NEW study, StudyShape(study), StudyOK(study), NEW g, Passes(study, g)
  PROVE  LET n == Cardinality(Accepted(study, g))
             errors == Cardinality(Errors(study, g))
         IN  /\ n \in Nat /\ n >= 3 /\ n >= study.minimum
             /\ Unit * errors <= study.maxError * n
<1> DEFINE A == Accepted(study, g)
           n == Cardinality(A)
           e == Cardinality(Errors(study, g))
           k == Len(study.groups) * study.invAlpha
           L == Ln[k]
           m == study.maxError
           room == m * n - Unit * e
<1>1. n \in Nat /\ e \in Nat
  <2>1. IsFiniteSet(DOMAIN study.samples)
    BY ListDomain DEF StudyShape
  <2>2. A \subseteq DOMAIN study.samples /\ Errors(study, g) \subseteq A
    BY DEF Accepted, GroupSamples, Errors
  <2>3. IsFiniteSet(A) /\ IsFiniteSet(Errors(study, g))
    <3> HIDE DEF A
    <3> QED BY <2>1, <2>2, FS_Subset
  <2> HIDE DEF A
  <2> QED BY <2>3, FS_CardinalityType
<1>2. k \in 4 .. Len(Ln)
  <2> DEFINE a == Len(study.groups)
             b == study.invAlpha
  <2>1. a \in Nat /\ a >= 1 /\ b \in Int /\ b >= 4
    BY ListDomain DEF StudyShape, StudyOK, Names
  <2>2. a * b <= Len(Ln)
    <3>1. (a + 1) * b <= Len(Ln)
      BY TableOfLogs DEF StudyShape
    <3> HIDE DEF a, b
    <3>2. a * b \in Int /\ (a + 1) * b = a * b + b
      BY <2>1
    <3> QED BY <2>1, <3>1, <3>2
  <2> HIDE DEF a, b
  <2>3. 1 * b <= a * b /\ a * b \in Nat
    <3>1. 1 \in Nat /\ 1 <= a /\ a \in Nat /\ b \in Nat
      BY <2>1
    <3> QED BY <3>1, ProductKeeps
  <2>4. a * b \in 4 .. Len(Ln)
    BY <2>1, <2>2, <2>3, TableOfLogs
  <2> QED BY <2>4 DEF a, b
<1>3. L \in Nat /\ L >= 13862
  <2> HIDE DEF k
  <2> QED BY <1>2, LogOfFour
<1>4. Unit \in Nat \ {0} /\ m \in Nat /\ 2 * m <= Unit
  BY MetricsAssumption DEF StudyShape, StudyOK
<1>5. /\ n >= study.minimum /\ n > 0 /\ room >= 0
      /\ L * n * Unit * Unit <= 2 * LnScale * room * room
  BY DEF Passes, BoundHolds
<1> HIDE DEF A, n, e, k, L, m
<1>6. room \in Nat /\ 2 * room <= Unit * n
  <2> DEFINE p == Unit * e
             q == m * n
  <2>1. p \in Nat /\ q \in Nat /\ room = q - p
    BY <1>1, <1>4
  <2>2. (2 * m) * n <= Unit * n /\ (2 * m) * n = 2 * q
    <3>1. 2 * m \in Nat
      BY <1>4
    <3>2. (2 * m) * n <= Unit * n
      BY <1>1, <1>4, <3>1, ProductKeeps
    <3> QED BY <1>1, <1>4, <3>2
  <2>3. Unit * n \in Nat
    BY <1>1, <1>4
  <2> HIDE DEF p, q
  <2> QED BY <1>5, <2>1, <2>2, <2>3
<1>7. n >= 3
  <2> HIDE DEF room
  <2>1. L * n * Unit * Unit <= 20000 * room * room
    BY <1>5 DEF LnScale
  <2> QED BY <1>1, <1>3, <1>4, <1>5, <1>6, <2>1, MarginNeedsThree
<1>8. Unit * e <= m * n
  <2>1. Unit * e \in Nat /\ m * n \in Nat
    BY <1>1, <1>4
  <2> QED BY <1>5, <2>1
<1> QED BY <1>1, <1>5, <1>7, <1>8 DEF n, A, e, m

LEMMA EligibleEarns ==
  ASSUME NEW study, StudyShape(study), StudyOK(study), Verdict(study) = "ELIGIBLE_FOR_SHADOW"
  PROVE  EarnedBy(study)
<1>1. Reasons(study) = {}
  BY DEF Verdict
<1>2. /\ study.observed /\ study.heldOut /\ study.frozen
      /\ \A name \in DOMAIN study.evidence : study.evidence[name] = "PASS"
      /\ \A g \in ToSet(study.groups) : Passes(study, g)
  BY <1>1 DEF Reasons
<1>3. DOMAIN study.evidence = ToSet(study.required)
  BY DEF StudyOK
<1>4. ASSUME NEW g \in ToSet(study.groups)
      PROVE  LET counted == {i \in GroupSamples(study, g) : Clear(study.samples[i], study) # {}}
                 wrong == {i \in counted : study.samples[i].label \notin Clear(study.samples[i], study)}
             IN  /\ Cardinality(counted) >= Max({3, study.minimum})
                 /\ Unit * Cardinality(wrong) <= study.maxError * Cardinality(counted)
  <2> DEFINE counted == {i \in GroupSamples(study, g) : Clear(study.samples[i], study) # {}}
             wrong == {i \in counted : study.samples[i].label \notin Clear(study.samples[i], study)}
  <2>1. \A i \in GroupSamples(study, g) :
          /\ Accepts(study, study.samples[i]) <=> Clear(study.samples[i], study) # {}
          /\ Accepts(study, study.samples[i]) =>
               (Correct(study, study.samples[i])
                  <=> study.samples[i].label \in Clear(study.samples[i], study))
    BY AcceptedIsClear DEF GroupSamples
  <2>2. counted = Accepted(study, g)
    BY <2>1 DEF Accepted
  <2>3. wrong = Errors(study, g)
    <3>1. wrong = {i \in Accepted(study, g) :
                     study.samples[i].label \notin Clear(study.samples[i], study)}
      BY <2>2
    <3>2. \A i \in Accepted(study, g) :
            i \in GroupSamples(study, g) /\ Accepts(study, study.samples[i])
      BY DEF Accepted
    <3> HIDE DEF wrong, counted
    <3> QED BY <2>1, <3>1, <3>2 DEF Errors
  <2> HIDE DEF counted, wrong
  <2>4. /\ Cardinality(counted) \in Nat /\ Cardinality(counted) >= 3
        /\ Cardinality(counted) >= study.minimum
        /\ Unit * Cardinality(wrong) <= study.maxError * Cardinality(counted)
    BY <1>2, <2>2, <2>3, PassingGroup
  <2>5. Max({3, study.minimum}) \in {3, study.minimum}
    <3>1. study.minimum \in Int
      BY DEF StudyShape
    <3>2. \E x \in {3, study.minimum} : \A y \in {3, study.minimum} : x >= y
      BY <3>1
    <3> QED BY <3>2 DEF Max
  <2> QED BY <2>4, <2>5 DEF counted, wrong
<1> QED BY <1>2, <1>3, <1>4 DEF EarnedBy

(* An eligible study earned it in every group, and the command line's 0    *)
(* says that a study is eligible and nothing else.                         *)
THEOREM Earned == Spec => []EligibleIsEarned
<1>1. ASSUME IInv, task.kind = "study", result # Pending
      PROVE  /\ result.status = "ok" /\ result.verdict = "ELIGIBLE_FOR_SHADOW" => EarnedBy(task.input)
             /\ task.via = "cli" =>
                  (code = 0 <=> result.status = "ok" /\ result.verdict = "ELIGIBLE_FOR_SHADOW")
  <2> DEFINE study == task.input
  <2>1. CASE result = Invalid /\ code = 1
    BY <2>1 DEF Invalid
  <2>2. CASE result = Assess(study) /\ code = CodeOf(result)
    <3>1. ASSUME result.status = "ok" PROVE StudyOK(study) /\ result.verdict = Verdict(study)
      BY <2>2, <3>1 DEF Assess
    <3>2. StudyShape(study)
      BY <1>1 DEF IInv, TaskInv
    <3>3. result.status = "ok" /\ result.verdict = "ELIGIBLE_FOR_SHADOW" => EarnedBy(study)
      <4> HIDE DEF study
      <4> QED BY <3>1, <3>2, EligibleEarns
    <3>4. ASSUME task.via = "cli"
          PROVE  code = 0 <=> result.status = "ok" /\ result.verdict = "ELIGIBLE_FOR_SHADOW"
      <4>1. code = DecisionExit(result)
        BY <1>1, <2>2, <3>4 DEF CodeOf, Exit
      <4> QED BY <4>1 DEF DecisionExit
    <3> QED BY <3>3, <3>4
  <2>3. (result = Invalid /\ code = 1) \/ (result = Assess(study) /\ code = CodeOf(result))
    BY <1>1 DEF IInv, ResultInv, Computed
  <2> QED BY <2>1, <2>2, <2>3
<1>2. IInv => EligibleIsEarned
  BY <1>1 DEF EligibleIsEarned
<1> QED BY <1>2, Invariance, PTL

-------------------------------------------------------------------------------
(***************************************************************************)
(* Types                                                                   *)
(***************************************************************************)

(* A loop finds each required item once.                                   *)
LEMMA LogFits ==
  ASSUME IInv, task.kind = "plan"
  PROVE  Len(log) <= Len(task.input.study.required)
<1> DEFINE required == task.input.study.required
           R == ToSet(required)
           n == Len(log)
           D == DOMAIN log
           of == [k \in D |-> log[k].action.evidence]
<1>1. List(required) /\ Len(required) \in Nat
  BY ListDomain DEF IInv, TaskInv, PlanShape, StudyShape
<1>2. List(log) /\ \A k \in D : log[k].action.evidence \in DOMAIN Evidence
  BY DEF IInv, FoundInv
<1>3. D = 1 .. n /\ n \in Nat /\ IsFiniteSet(D)
  <2> HIDE DEF n
  <2> QED BY <1>2, ListDomain DEF n
<1>4. CASE log = << >>
  BY <1>1, <1>4
<1>5. CASE log # << >>
  <2>1. StudyOK(task.input.study)
    BY <1>5 DEF IInv, PromiseInv, PlanOK
  <2>2. DOMAIN Evidence = R /\ Cardinality(R) = Len(required)
    BY <2>1 DEF StudyOK, Names, Unique, Evidence
  <2>3. IsFiniteSet(R)
    <3>1. IsFiniteSet(DOMAIN required)
      BY <1>1, ListDomain
    <3> DEFINE f == [i \in DOMAIN required |-> required[i]]
    <3>2. f \in Surjection(DOMAIN required, {f[i] : i \in DOMAIN required})
      BY Fun_IsSurj
    <3>3. {f[i] : i \in DOMAIN required} = R
      BY DEF ToSet
    <3> HIDE DEF f, R, required
    <3> QED BY <3>1, <3>2, <3>3, FS_Surjection
  <2>4. \A j, k \in D : of[j] = of[k] => j = k
    BY <1>5 DEF IInv, LawfulCollection
  <2>5. of \in [D -> R]
    BY <1>2, <2>2
  <2>6. of \in Injection(D, R)
    <3> HIDE DEF of, D, R
    <3> QED BY <2>4, <2>5 DEF Injection, IsInjective
  <2>7. Cardinality(D) <= Cardinality(R)
    <3> HIDE DEF of, D, R
    <3> QED BY <2>3, <2>6, FS_Injection
  <2>8. Cardinality(D) = n
    <3>1. ASSUME NEW m \in Nat PROVE Cardinality(1 .. m) = m
      <4>1. Cardinality(1 .. m) = IF 1 > m THEN 0 ELSE m - 1 + 1
        BY FS_Interval
      <4> QED BY <4>1
    <3> HIDE DEF n, D
    <3> QED BY <1>3, <3>1
  <2> QED BY <2>2, <2>7, <2>8
<1> QED BY <1>4, <1>5

(* What is computed is ok, refused as invalid, or an overflow of a table.  *)
LEMMA ComputedType ==
  ASSUME TaskInv
  PROVE  Computed(task).status \in {"ok", "invalid", "overflow"}
<1>1. CASE task.kind = "score"
  BY <1>1 DEF Computed, ScoreBatch
<1>2. CASE task.kind = "local"
  <2> DEFINE ask == task.input
  <2>1. Computed(task) = AnswerLocalQuestion(ask)
    BY <1>2 DEF Computed
  <2> HIDE DEF ask
  <2>2. FirstRefused(Keys(ask), ask.table) \in {"none", "overflow", "invalid"}
    BY DEF FirstRefused
  <2>3. Typed(ask).status \in {"ok", "invalid", "overflow"}
    BY <2>2 DEF Typed, Invalid, Choice, Chosen, Refusal, Score
  <2>4. AnswerLocalQuestion(ask).status \in {"ok", "invalid", "overflow"}
    BY <2>3 DEF AnswerLocalQuestion, Invalid, Refusal
  <2> QED BY <1>2, <2>1, <2>4
<1>3. CASE task.kind = "study"
  BY <1>3 DEF Computed, Assess
<1>4. CASE task.kind = "plan"
  BY <1>4 DEF Computed, PlanEvidence
<1> QED BY <1>1, <1>2, <1>3, <1>4 DEF TaskInv, Kinds

(* Every variable keeps its type; the loop finds nothing more often than   *)
(* it is required and leaves a budget that can be asked with.              *)
THEOREM TypeCorrect == Spec => []TypeOK
<1>1. ASSUME IInv
      PROVE  TypeOK
  <2>1. task.kind \in Kinds /\ task.via \in {"service", "cli"}
    BY <1>1 DEF IInv, TaskInv
  <2>2. /\ result.status \in {"pending", "ok", "invalid", "overflow"}
        /\ code \in {NoCode, 0, 1, 2, 200, 422, 500}
    <3>1. CASE result = Pending /\ code = NoCode
      BY <3>1 DEF Pending
    <3>2. CASE result = Invalid /\ code = 1
      BY <3>2 DEF Invalid
    <3>3. CASE result = Computed(task) /\ code = CodeOf(result)
      <4>1. result.status \in {"ok", "invalid", "overflow"}
        BY <1>1, <3>3, ComputedType DEF IInv
      <4>2. Status(result) \in {200, 422, 500}
        BY <4>1 DEF Status
      <4>3. Exit(task, result) \in {0, 1, 2}
        BY DEF Exit, DecisionExit, PlannerExit
      <4> QED BY <3>3, <4>1, <4>2, <4>3 DEF CodeOf
    <3> QED BY <1>1, <3>1, <3>2, <3>3 DEF IInv, ResultInv
  <2>3. ASSUME task.kind = "plan"
        PROVE  /\ task.input.budget \in Int /\ Len(log) <= Len(task.input.study.required)
               /\ promise.made => task.input.budget \in Nat
    <3>1. task.input.budget \in Int
      BY <1>1, <2>3 DEF IInv, TaskInv, PlanShape
    <3>2. promise.made => task.input.budget >= 0
      BY <1>1 DEF IInv, PromiseInv, PlanOK
    <3> QED BY <1>1, <2>3, <3>1, <3>2, LogFits
  <2> QED BY <2>1, <2>2, <2>3 DEF TypeOK
<1> QED BY <1>1, Invariance, PTL

-------------------------------------------------------------------------------
(***************************************************************************)
(* Orders in which a request is written down                               *)
(***************************************************************************)

(* t has the elements of s in another order, the same way there and back.  *)
Rearranges(h, s, t) ==
  /\ List(s) /\ List(t) /\ Len(t) = Len(s)
  /\ h \in [1 .. Len(s) -> 1 .. Len(s)] /\ \A i \in 1 .. Len(s) : h[h[i]] = i
  /\ \A i \in 1 .. Len(s) : t[i] = s[h[i]]

LEMMA ReverseRearranges ==
  ASSUME NEW s, List(s)
  PROVE  /\ \E h : Rearranges(h, s, Reverse(s))
         /\ \E h : Rearranges(h, s, s)
<1> DEFINE n == Len(s)
           r == Reverse(s)
           h == [i \in 1 .. n |-> n - i + 1]
           id == [i \in 1 .. n |-> i]
<1>1. DOMAIN s = 1 .. n /\ n \in Nat
  BY ListDomain
<1>2. /\ Len(r) = n /\ DOMAIN r = 1 .. n /\ \A i \in 1 .. n : r[i] = s[n - i + 1]
      /\ ToSet(r) = ToSet(s)
  BY ReverseHolds
<1>3. h \in [1 .. n -> 1 .. n] /\ \A i \in 1 .. n : h[i] = n - i + 1 /\ h[h[i]] = i
  BY <1>1
<1>4. List(r)
  <2> DEFINE T == ToSet(s)
  <2>1. r = [i \in 1 .. n |-> r[i]]
    <3>1. r = [i \in 1 .. n |-> s[n - i + 1]]
      BY DEF Reverse
    <3> QED BY <3>1
  <2>2. \A i \in 1 .. n : r[i] \in T
    BY <1>2 DEF ToSet
  <2> HIDE DEF T, n, r
  <2>3. r \in Seq(T)
    BY <1>1, <2>1, <2>2, IsASeq
  <2> QED BY <1>2, <2>3 DEF List, T
<1>5. Rearranges(h, s, r)
  <2> HIDE DEF h, r, n
  <2> QED BY <1>2, <1>3, <1>4 DEF Rearranges, n
<1>6. Rearranges(id, s, s)
  <2>1. id \in [1 .. n -> 1 .. n] /\ \A i \in 1 .. n : id[i] = i /\ id[id[i]] = i
    OBVIOUS
  <2> HIDE DEF id, n
  <2> QED BY <2>1 DEF Rearranges, n
<1> QED BY <1>5, <1>6

LEMMA Rearranged ==
  ASSUME NEW h, NEW s, NEW t, Rearranges(h, s, t)
  PROVE  /\ DOMAIN s = 1 .. Len(s) /\ DOMAIN t = 1 .. Len(s) /\ IsFiniteSet(1 .. Len(s))
         /\ ToSet(t) = ToSet(s) /\ Len(s) \in Nat
<1> DEFINE n == Len(s)
<1>1. /\ DOMAIN s = 1 .. n /\ n \in Nat /\ IsFiniteSet(1 .. n)
      /\ DOMAIN t = 1 .. n
  BY ListDomain DEF Rearranges
<1>2. /\ h \in [1 .. n -> 1 .. n] /\ (\A i \in 1 .. n : h[h[i]] = i)
      /\ \A i \in 1 .. n : t[i] = s[h[i]]
  BY DEF Rearranges
<1> HIDE DEF n
<1>3. \A i \in 1 .. n : h[i] \in 1 .. n /\ s[i] = t[h[i]]
  BY <1>2
<1>4. ToSet(t) = ToSet(s)
  BY <1>1, <1>2, <1>3 DEF ToSet
<1> QED BY <1>1, <1>4 DEF n

(* What h leads into S.                                                    *)
Through(h, S) == {i \in DOMAIN h : h[i] \in S}

LEMMA ThroughSize ==
  ASSUME NEW D, IsFiniteSet(D), NEW h \in [D -> D], \A i \in D : h[h[i]] = i,
         NEW S \in SUBSET D
  PROVE  /\ Through(h, S) \in SUBSET D /\ Cardinality(Through(h, S)) = Cardinality(S)
         /\ Through(h, S) = {} <=> S = {}
<1> DEFINE T == Through(h, S)
           f == [i \in T |-> h[i]]
<1>1. T = {i \in D : h[i] \in S}
  BY DEF Through
<1>2. \A i \in S : h[i] \in T /\ h[h[i]] = i
  BY <1>1
<1> HIDE DEF T
<1>3. f \in [T -> S] /\ (\A i \in T : f[i] = h[i] /\ i \in D) /\ T \subseteq D
  BY <1>1
<1> HIDE DEF f
<1>4. f \in Injection(T, S)
  <2>1. \A x, y \in T : f[x] = f[y] => x = y
    BY <1>3
  <2> QED BY <1>3, <2>1 DEF Injection, IsInjective
<1>5. f \in Surjection(T, S)
  BY <1>2, <1>3 DEF Surjection
<1>6. IsFiniteSet(S)
  BY FS_Subset
<1>7. Cardinality(T) = Cardinality(S)
  BY <1>4, <1>5, <1>6, FS_Injection
<1>8. T = {} <=> S = {}
  BY <1>2, <1>3
<1> QED BY <1>3, <1>7, <1>8 DEF T

LEMMA ThroughSum ==
  ASSUME NEW D, IsFiniteSet(D), NEW h \in [D -> D], \A i \in D : h[h[i]] = i,
         NEW S \in SUBSET D, NEW w \in [D -> Int]
  PROVE  Sum([i \in Through(h, S) |-> w[h[i]]]) = Sum([i \in S |-> w[i]])
<1> DEFINE T == Through(h, S)
           f == [i \in T |-> h[i]]
<1>1. T = {i \in D : h[i] \in S}
  BY DEF Through
<1>2. \A i \in S : h[i] \in T /\ h[h[i]] = i
  BY <1>1
<1> HIDE DEF T
<1>3. f \in [T -> D] /\ (\A i \in T : f[i] = h[i] /\ i \in D /\ h[i] \in S) /\ T \subseteq D
  BY <1>1
<1>4. [i \in T |-> w[f[i]]] = [i \in T |-> w[h[i]]]
  OBVIOUS
<1> HIDE DEF f
<1>5. \A x, y \in T : f[x] = f[y] => x = y
  BY <1>3
<1>6. {f[x] : x \in T} = S
  BY <1>2, <1>3
<1>7. IsFiniteSet(T)
  BY <1>3, FS_Subset
<1>8. Sum([x \in T |-> w[f[x]]]) = Sum([d \in {f[x] : x \in T} |-> w[d]])
  BY <1>3, <1>5, <1>7, SumRenames
<1> QED BY <1>4, <1>6, <1>8 DEF T

(* Two studies that differ in the order of their lists.                    *)
Alike(s, t, h) ==
  /\ StudyShape(s) /\ StudyShape(t)
  /\ \A name \in {"clean", "observed", "heldOut", "frozen", "threshold", "maxError",
                  "invAlpha", "minimum", "evidence"} : t[name] = s[name]
  /\ \A name \in {"classes", "groups", "required"} :
       ToSet(t[name]) = ToSet(s[name]) /\ Len(t[name]) = Len(s[name])
  /\ Rearranges(h, s.samples, t.samples)

LEMMA AlikeFields ==
  ASSUME NEW s, NEW t, NEW h, Alike(s, t, h)
  PROVE  /\ t.clean = s.clean /\ t.observed = s.observed /\ t.heldOut = s.heldOut
         /\ t.frozen = s.frozen /\ t.threshold = s.threshold /\ t.maxError = s.maxError
         /\ t.invAlpha = s.invAlpha /\ t.minimum = s.minimum /\ t.evidence = s.evidence
         /\ ToSet(t.classes) = ToSet(s.classes) /\ Len(t.classes) = Len(s.classes)
         /\ ToSet(t.groups) = ToSet(s.groups) /\ Len(t.groups) = Len(s.groups)
         /\ ToSet(t.required) = ToSet(s.required) /\ Len(t.required) = Len(s.required)
         /\ StudyShape(s) /\ StudyShape(t) /\ Rearranges(h, s.samples, t.samples)
BY DEF Alike

LEMMA AlikeOK ==
  ASSUME NEW s, NEW t, NEW h, Alike(s, t, h), StudyOK(s)
  PROVE  StudyOK(t)
<1> DEFINE a == s.samples
           b == t.samples
           n == Len(a)
<1>1. /\ DOMAIN a = 1 .. n /\ DOMAIN b = 1 .. n /\ h \in [1 .. n -> 1 .. n]
      /\ (\A i \in 1 .. n : h[h[i]] = i /\ b[i] = a[h[i]]) /\ List(a) /\ List(b)
      /\ Len(b) = n /\ n \in Nat
  <2>1. Rearranges(h, a, b)
    BY AlikeFields
  <2> HIDE DEF a, b
  <2> QED BY <2>1, Rearranged DEF Rearranges
<1>2. /\ Names(t.classes, 2) /\ Names(t.groups, 1) /\ Names(t.required, 1)
  <2>1. Names(s.classes, 2) /\ Names(s.groups, 1) /\ Names(s.required, 1)
    BY DEF StudyOK
  <2> QED BY <2>1, AlikeFields DEF Names, Unique
<1>3. b # << >>
  <2>1. a # << >>
    BY DEF StudyOK
  <2>2. 1 .. n # {}
    <3> HIDE DEF a
    <3>1. n # 0
      BY <1>1, <2>1 DEF List
    <3> QED BY <1>1, <3>1
  <2> HIDE DEF a, b, n
  <2> QED BY <1>1, <2>2
<1>4. \A i, j \in DOMAIN b : b[i].id = b[j].id => i = j
  <2>1. \A i, j \in DOMAIN a : a[i].id = a[j].id => i = j
    BY DEF StudyOK
  <2> HIDE DEF a, b, n
  <2> QED BY <1>1, <2>1
<1>5. ASSUME NEW i \in DOMAIN b
      PROVE  /\ b[i].group \in ToSet(t.groups) /\ b[i].label \in ToSet(t.classes)
             /\ Distribution(b[i].probs, ToSet(t.classes))
  <2>1. h[i] \in DOMAIN a /\ b[i] = a[h[i]]
    BY <1>1
  <2>2. /\ a[h[i]].group \in ToSet(s.groups) /\ a[h[i]].label \in ToSet(s.classes)
        /\ Distribution(a[h[i]].probs, ToSet(s.classes))
    BY <2>1 DEF StudyOK
  <2>3. ToSet(t.groups) = ToSet(s.groups) /\ ToSet(t.classes) = ToSet(s.classes)
    BY AlikeFields
  <2> HIDE DEF a, b
  <2> QED BY <2>1, <2>2, <2>3
<1>6. /\ t.clean /\ 2 * t.threshold \in Unit..(2 * Unit) /\ 2 * t.maxError \in 0..Unit
      /\ t.invAlpha >= 4 /\ t.invAlpha <= InvAlphaLimit /\ t.minimum >= 1
      /\ DOMAIN t.evidence = ToSet(t.required)
      /\ \A name \in DOMAIN t.evidence : t.evidence[name] \in Statuses
  BY AlikeFields DEF StudyOK
<1> QED BY <1>2, <1>3, <1>4, <1>5, <1>6, Zenon DEF StudyOK

(* The same samples are accepted, and the same of them are wrong.          *)
LEMMA AlikeSamples ==
  ASSUME NEW s, NEW t, NEW h, Alike(s, t, h), StudyOK(s), NEW i \in DOMAIN t.samples
  PROVE  /\ h[i] \in DOMAIN s.samples /\ t.samples[i] = s.samples[h[i]]
         /\ Accepts(t, t.samples[i]) <=> Accepts(s, s.samples[h[i]])
         /\ Accepts(t, t.samples[i]) =>
              (Correct(t, t.samples[i]) <=> Correct(s, s.samples[h[i]]))
<1> DEFINE sample == t.samples[i]
<1>1. h[i] \in DOMAIN s.samples /\ sample = s.samples[h[i]]
  <2> DEFINE a == s.samples
             b == t.samples
  <2>1. Rearranges(h, a, b)
    BY AlikeFields
  <2>2. i \in DOMAIN b
    OBVIOUS
  <2>3. h[i] \in DOMAIN a /\ b[i] = a[h[i]]
    <3> HIDE DEF a, b
    <3> QED BY <2>1, <2>2, Rearranged DEF Rearranges
  <2> QED BY <2>3
<1>2. /\ Accepts(t, sample) <=> Clear(sample, t) # {}
      /\ Accepts(t, sample) => (Correct(t, sample) <=> sample.label \in Clear(sample, t))
  BY AlikeFields, AlikeOK, AcceptedIsClear
<1>3. /\ Accepts(s, sample) <=> Clear(sample, s) # {}
      /\ Accepts(s, sample) => (Correct(s, sample) <=> sample.label \in Clear(sample, s))
  BY <1>1, AlikeFields, AcceptedIsClear
<1>4. Clear(sample, t) = Clear(sample, s)
  BY AlikeFields DEF Clear
<1> HIDE DEF sample
<1>5. /\ Accepts(t, sample) <=> Accepts(s, sample)
      /\ Accepts(t, sample) => (Correct(t, sample) <=> Correct(s, sample))
  BY <1>2, <1>3, <1>4
<1> QED BY <1>1, <1>5 DEF sample

LEMMA AlikeGroups ==
  ASSUME NEW s, NEW t, NEW h, Alike(s, t, h), StudyOK(s), NEW g
  PROVE  /\ Cardinality(Accepted(t, g)) = Cardinality(Accepted(s, g))
         /\ Cardinality(Errors(t, g)) = Cardinality(Errors(s, g))
         /\ Cardinality({i \in DOMAIN t.samples : Accepts(t, t.samples[i])})
              = Cardinality({i \in DOMAIN s.samples : Accepts(s, s.samples[i])})
<1> DEFINE D == DOMAIN s.samples
           all(study) == {i \in DOMAIN study.samples : Accepts(study, study.samples[i])}
<1>1. /\ IsFiniteSet(D) /\ h \in [D -> D] /\ (\A i \in D : h[h[i]] = i)
      /\ DOMAIN t.samples = D
  <2> DEFINE a == s.samples
             b == t.samples
  <2>1. Rearranges(h, a, b)
    BY AlikeFields
  <2>2. /\ IsFiniteSet(DOMAIN a) /\ h \in [DOMAIN a -> DOMAIN a]
        /\ (\A i \in DOMAIN a : h[h[i]] = i) /\ DOMAIN b = DOMAIN a
    <3> HIDE DEF a, b
    <3> QED BY <2>1, Rearranged DEF Rearranges
  <2> QED BY <2>2
<1>2. \A i \in D : /\ h[i] \in D /\ t.samples[i] = s.samples[h[i]]
                   /\ Accepts(t, t.samples[i]) <=> Accepts(s, s.samples[h[i]])
                   /\ Accepts(t, t.samples[i]) =>
                        (Correct(t, t.samples[i]) <=> Correct(s, s.samples[h[i]]))
  BY <1>1, AlikeSamples
<1>3. Accepted(t, g) = Through(h, Accepted(s, g))
  <2>1. \A i \in D : i \in Accepted(t, g) <=> h[i] \in Accepted(s, g)
    BY <1>1, <1>2 DEF Accepted, GroupSamples
  <2> QED BY <1>1, <2>1 DEF Through, Accepted, GroupSamples
<1>4. Errors(t, g) = Through(h, Errors(s, g))
  <2>1. \A i \in D : i \in Errors(t, g) <=> h[i] \in Errors(s, g)
    BY <1>1, <1>2 DEF Errors, Accepted, GroupSamples
  <2> QED BY <1>1, <2>1 DEF Through, Errors, Accepted, GroupSamples
<1>5. all(t) = Through(h, all(s))
  <2>1. \A i \in D : i \in all(t) <=> h[i] \in all(s)
    BY <1>1, <1>2
  <2> QED BY <1>1, <2>1 DEF Through
<1>6. Accepted(s, g) \in SUBSET D /\ Errors(s, g) \in SUBSET D /\ all(s) \in SUBSET D
  BY DEF Accepted, Errors, GroupSamples
<1>7. \A S \in SUBSET D : Cardinality(Through(h, S)) = Cardinality(S)
  <2> HIDE DEF D
  <2> QED BY <1>1, ThroughSize
<1> HIDE DEF D
<1>8. Cardinality(all(t)) = Cardinality(all(s))
  <2> HIDE DEF all
  <2> QED BY <1>5, <1>6, <1>7
<1>9. /\ Cardinality(Accepted(t, g)) = Cardinality(Accepted(s, g))
      /\ Cardinality(Errors(t, g)) = Cardinality(Errors(s, g))
  BY <1>3, <1>4, <1>6, <1>7
<1> QED BY <1>8, <1>9

LEMMA AlikeAssessed ==
  ASSUME NEW s, NEW t, NEW h, Alike(s, t, h), StudyOK(s)
  PROVE  Assess(t) = Assess(s)
<1>1. \A g : Passes(t, g) <=> Passes(s, g)
  <2> TAKE g
  <2> DEFINE n == Cardinality(Accepted(s, g))
             e == Cardinality(Errors(s, g))
  <2>1. Cardinality(Accepted(t, g)) = n /\ Cardinality(Errors(t, g)) = e
    BY AlikeGroups
  <2>2. t.maxError = s.maxError /\ Len(t.groups) = Len(s.groups) /\ t.invAlpha = s.invAlpha
        /\ t.minimum = s.minimum
    BY AlikeFields
  <2> HIDE DEF n, e
  <2>3. BoundHolds(t, n, e) <=> BoundHolds(s, n, e)
    BY <2>2 DEF BoundHolds
  <2> QED BY <2>1, <2>2, <2>3 DEF Passes, n, e
<1>2. Reasons(t) = Reasons(s)
  <2>1. (\A g \in ToSet(t.groups) : Passes(t, g)) <=> (\A g \in ToSet(s.groups) : Passes(s, g))
    BY <1>1, AlikeFields
  <2>2. /\ t.observed = s.observed /\ t.heldOut = s.heldOut /\ t.frozen = s.frozen
        /\ t.evidence = s.evidence
    BY AlikeFields
  <2> QED BY <2>1, <2>2 DEF Reasons
<1>3. Verdict(t) = Verdict(s)
  <2>1. t.evidence = s.evidence
    BY AlikeFields
  <2> QED BY <1>2, <2>1 DEF Verdict
<1>4. StudyOK(t)
  BY AlikeOK
<1>5. Cardinality({i \in DOMAIN t.samples : Accepts(t, t.samples[i])})
        = Cardinality({i \in DOMAIN s.samples : Accepts(s, s.samples[i])})
  BY AlikeGroups
<1> QED BY <1>2, <1>3, <1>4, <1>5 DEF Assess

LEMMA StudyOrders ==
  ASSUME NEW s, StudyShape(s), StudyOK(s),
         NEW field \in {"classes", "groups", "samples", "required"}
  PROVE  Assess([s EXCEPT ![field] = Reverse(@)]) = Assess(s)
<1> DEFINE t == [s EXCEPT ![field] = Reverse(@)]
           fields == {"clean", "observed", "heldOut", "frozen", "threshold", "maxError",
                      "invAlpha", "minimum", "classes", "groups", "required", "evidence",
                      "samples"}
<1>1. List(s[field])
  BY DEF StudyShape
<1>2. t = [f \in fields |-> IF f = field THEN Reverse(s[f]) ELSE s[f]]
  <2>1. DOMAIN s = fields
    BY DEF StudyShape
  <2>2. s = [f \in fields |-> s[f]]
    BY <2>1 DEF StudyShape
  <2> HIDE DEF fields
  <2> QED BY <2>1, <2>2
<1>3. \A f \in fields : t[f] = IF f = field THEN Reverse(s[f]) ELSE s[f]
  BY <1>2
<1>4. /\ Len(Reverse(s[field])) = Len(s[field]) /\ ToSet(Reverse(s[field])) = ToSet(s[field])
      /\ List(Reverse(s[field]))
  <2>1. \E h : Rearranges(h, s[field], Reverse(s[field]))
    BY <1>1, ReverseRearranges
  <2> QED BY <1>1, <2>1, ReverseHolds DEF Rearranges
<1>5. StudyShape(t)
  <2> HIDE DEF t
  <2>1. /\ t.clean = s.clean /\ t.observed = s.observed /\ t.heldOut = s.heldOut
        /\ t.frozen = s.frozen /\ t.threshold = s.threshold /\ t.maxError = s.maxError
        /\ t.invAlpha = s.invAlpha /\ t.minimum = s.minimum /\ t.evidence = s.evidence
    BY <1>3
  <2>2. /\ List(t.classes) /\ List(t.groups) /\ List(t.required) /\ List(t.samples)
        /\ Len(t.groups) = Len(s.groups) /\ ToSet(t.samples) = ToSet(s.samples)
    BY <1>3, <1>4 DEF StudyShape
  <2>3. t \in [clean : BOOLEAN, observed : BOOLEAN, heldOut : BOOLEAN, frozen : BOOLEAN,
               threshold : Int, maxError : Int, invAlpha : Int, minimum : Int,
               classes : {t.classes}, groups : {t.groups}, required : {t.required},
               evidence : {t.evidence}, samples : {t.samples}]
    <3>1. t = [clean |-> t.clean, observed |-> t.observed, heldOut |-> t.heldOut,
               frozen |-> t.frozen, threshold |-> t.threshold, maxError |-> t.maxError,
               invAlpha |-> t.invAlpha, minimum |-> t.minimum, classes |-> t.classes,
               groups |-> t.groups, required |-> t.required, evidence |-> t.evidence,
               samples |-> t.samples]
      BY <1>2 DEF t
    <3>2. /\ s.clean \in BOOLEAN /\ s.observed \in BOOLEAN /\ s.heldOut \in BOOLEAN
          /\ s.frozen \in BOOLEAN /\ s.threshold \in Int /\ s.maxError \in Int
          /\ s.invAlpha \in Int /\ s.minimum \in Int
      BY DEF StudyShape
    <3> QED BY <2>1, <3>1, <3>2
  <2> QED BY <2>1, <2>2, <2>3 DEF StudyShape
<1>6. \E h : Alike(s, t, h)
  <2>1. \E h : Rearranges(h, s.samples, t.samples)
    <3>1. List(s.samples)
      BY DEF StudyShape
    <3>2. t.samples = s.samples \/ t.samples = Reverse(s.samples)
      BY <1>3
    <3> HIDE DEF t
    <3> QED BY <3>1, <3>2, ReverseRearranges
  <2>2. PICK h : Rearranges(h, s.samples, t.samples)
    BY <2>1
  <2> HIDE DEF t
  <2>3. \A f \in {"clean", "observed", "heldOut", "frozen", "threshold", "maxError",
                  "invAlpha", "minimum", "evidence"} : t[f] = s[f]
    BY <1>3
  <2>4. \A f \in {"classes", "groups", "required"} :
          ToSet(t[f]) = ToSet(s[f]) /\ Len(t[f]) = Len(s[f])
    BY <1>3, <1>4
  <2> QED BY <1>5, <2>2, <2>3, <2>4 DEF Alike
<1> HIDE DEF t
<1>7. Assess(t) = Assess(s)
  BY <1>6, AlikeAssessed
<1> QED BY <1>7 DEF t

(* Two plans that differ in the order of their actions and scenarios.      *)
SamePlan(p, q, g, h) ==
  /\ PlanShape(p) /\ PlanShape(q)
  /\ q.clean = p.clean /\ q.budget = p.budget /\ q.study = p.study
  /\ Rearranges(g, p.actions, q.actions)
  /\ Rearranges(h, p.scenarios, q.scenarios)

LEMMA SameLists ==
  ASSUME NEW h, NEW s, NEW t, Rearranges(h, s, t)
  PROVE  /\ IsFiniteSet(DOMAIN s) /\ h \in [DOMAIN s -> DOMAIN s]
         /\ (\A i \in DOMAIN s : h[h[i]] = i) /\ DOMAIN t = DOMAIN s /\ DOMAIN h = DOMAIN s
         /\ (\A i \in DOMAIN s : t[i] = s[h[i]]) /\ (s # << >> => t # << >>)
<1> DEFINE n == Len(s)
<1>1. /\ DOMAIN s = 1 .. n /\ DOMAIN t = 1 .. n /\ IsFiniteSet(1 .. n) /\ n \in Nat
  BY Rearranged
<1>2. /\ h \in [1 .. n -> 1 .. n] /\ (\A i \in 1 .. n : h[h[i]] = i)
      /\ (\A i \in 1 .. n : t[i] = s[h[i]]) /\ List(s)
  BY DEF Rearranges
<1>3. s # << >> => t # << >>
  <2>1. s # << >> => n # 0
    BY <1>2 DEF List
  <2>2. n # 0 => 1 .. n # {}
    BY <1>1
  <2>3. t = << >> => DOMAIN t = {}
    OBVIOUS
  <2> HIDE DEF n
  <2> QED BY <1>1, <2>1, <2>2, <2>3
<1> HIDE DEF n
<1> QED BY <1>1, <1>2, <1>3

LEMMA SameMass ==
  ASSUME NEW p, NEW q, NEW g, NEW h, SamePlan(p, q, g, h),
         \A i \in DOMAIN p.scenarios : p.scenarios[i].weight \in Int,
         NEW S \in SUBSET DOMAIN p.scenarios
  PROVE  Mass(q, Through(h, S)) = Mass(p, S)
<1> DEFINE a == p.scenarios
           b == q.scenarios
           D == DOMAIN a
           w == [i \in D |-> a[i].weight]
           T == Through(h, S)
           inQ == [i \in T |-> b[i].weight]
           inP == [i \in S |-> a[i].weight]
<1>1. /\ IsFiniteSet(D) /\ h \in [D -> D] /\ (\A i \in D : h[h[i]] = i)
      /\ \A i \in D : b[i] = a[h[i]]
  <2>1. Rearranges(h, a, b)
    BY DEF SamePlan
  <2> HIDE DEF a, b
  <2> QED BY <2>1, SameLists
<1>2. w \in [D -> Int] /\ \A i \in D : w[i] = a[i].weight
  OBVIOUS
<1>3. T = {i \in D : h[i] \in S}
  BY <1>1 DEF Through
<1>4. inQ = [i \in T |-> w[h[i]]]
  <2>1. \A i \in T : i \in D /\ h[i] \in D
    BY <1>1, <1>3
  <2> HIDE DEF T, D, a, b
  <2> QED BY <1>1, <2>1
<1>5. inP = [i \in S |-> w[i]]
  OBVIOUS
<1>6. Mass(q, T) = Sum(inQ) /\ Mass(p, S) = Sum(inP)
  <2>1. Mass(q, T) = SumFunction(inQ) /\ Mass(p, S) = SumFunction(inP)
    BY DEF Mass
  <2> HIDE DEF inQ, inP
  <2> QED BY <2>1, SumFunctionIsSum
<1>7. Sum([i \in T |-> w[h[i]]]) = Sum([i \in S |-> w[i]])
  <2>1. S \in SUBSET D
    OBVIOUS
  <2> HIDE DEF D, w
  <2> QED BY <1>1, <1>2, <2>1, ThroughSum
<1> HIDE DEF T, w, inQ, inP
<1>8. Mass(q, T) = Mass(p, S)
  BY <1>4, <1>5, <1>6, <1>7
<1> QED BY <1>8 DEF T

LEMMA SameOK ==
  ASSUME NEW p, NEW q, NEW g, NEW h, SamePlan(p, q, g, h), PlanOK(p)
  PROVE  PlanOK(q)
<1> DEFINE required == ToSet(p.study.required)
           a == p.scenarios
           b == q.scenarios
           c == p.actions
           d == q.actions
<1>1. p.clean /\ p.budget >= 0 /\ StudyOK(p.study) /\ ScenariosOK(a, required)
      /\ ActionsOK(c, required)
  BY DEF PlanOK
<1>2. q.clean = p.clean /\ q.budget = p.budget /\ q.study = p.study
      /\ Rearranges(g, c, d) /\ Rearranges(h, a, b)
  BY DEF SamePlan
<1>3. /\ IsFiniteSet(DOMAIN a) /\ h \in [DOMAIN a -> DOMAIN a]
      /\ (\A i \in DOMAIN a : h[h[i]] = i) /\ DOMAIN b = DOMAIN a /\ DOMAIN h = DOMAIN a
      /\ (\A i \in DOMAIN a : b[i] = a[h[i]]) /\ (a # << >> => b # << >>)
  <2> HIDE DEF a, b, c, d
  <2> QED BY <1>2, SameLists
<1>4. /\ g \in [DOMAIN c -> DOMAIN c]
      /\ (\A i \in DOMAIN c : g[g[i]] = i) /\ DOMAIN d = DOMAIN c
      /\ (\A i \in DOMAIN c : d[i] = c[g[i]])
  <2> HIDE DEF a, b, c, d
  <2> QED BY <1>2, SameLists
<1>5. ScenariosOK(b, required)
  <2>1. SumFunction([i \in DOMAIN b |-> b[i].weight]) = Weight
    <3>1. \A i \in DOMAIN a : a[i].weight \in Int
      BY <1>1 DEF ScenariosOK
    <3>2. Mass(q, Through(h, DOMAIN a)) = Mass(p, DOMAIN a)
      <4>1. DOMAIN a \in SUBSET DOMAIN p.scenarios
        OBVIOUS
      <4> QED BY <3>1, <4>1, SameMass
    <3>3. Through(h, DOMAIN a) = DOMAIN b
      <4> HIDE DEF a, b
      <4> QED BY <1>3 DEF Through
    <3>4. Mass(p, DOMAIN a) = SumFunction([i \in DOMAIN a |-> a[i].weight])
          /\ Mass(q, DOMAIN b) = SumFunction([i \in DOMAIN b |-> b[i].weight])
      BY DEF Mass
    <3>5. SumFunction([i \in DOMAIN a |-> a[i].weight]) = Weight
      BY <1>1, Zenon DEF ScenariosOK
    <3> QED BY <3>2, <3>3, <3>4, <3>5, Zenon
  <2> HIDE DEF a, b, c, d, required
  <2>2. \A i \in DOMAIN b :
          /\ b[i].weight \in 1..Weight
          /\ DOMAIN b[i].evidence = required
          /\ \A name \in required : b[i].evidence[name] \in {"PASS", "FAIL"}
    BY <1>1, <1>3 DEF ScenariosOK
  <2>3. \A i, j \in DOMAIN b :
          b[i].id = b[j].id \/ b[i].evidence = b[j].evidence => i = j
    <3>1. \A i, j \in DOMAIN a :
            a[i].id = a[j].id \/ a[i].evidence = a[j].evidence => i = j
      BY <1>1 DEF ScenariosOK
    <3> QED BY <1>3, <3>1
  <2>4. b # << >>
    BY <1>1, <1>3 DEF ScenariosOK
  <2> QED BY <2>1, <2>2, <2>3, <2>4, Zenon DEF ScenariosOK
<1>6. ActionsOK(d, required)
  <2> HIDE DEF a, b, c, d, required
  <2>1. \A i \in DOMAIN d :
          /\ d[i].evidence \in required
          /\ CostOK(d[i].cost) /\ d[i].unavailable \in 0..Tenths
          /\ ToSet(d[i].requires) \subseteq required \ {d[i].evidence}
          /\ Unique(d[i].requires)
    BY <1>1, <1>4 DEF ActionsOK
  <2>2. \A i, j \in DOMAIN d :
          d[i].id = d[j].id \/ d[i].evidence = d[j].evidence => i = j
    <3>1. \A i, j \in DOMAIN c :
            c[i].id = c[j].id \/ c[i].evidence = c[j].evidence => i = j
      BY <1>1 DEF ActionsOK
    <3> QED BY <1>4, <3>1
  <2> QED BY <2>1, <2>2, Zenon DEF ActionsOK
<1> QED BY <1>1, <1>2, <1>5, <1>6 DEF PlanOK

(* The same scenarios are left, wherever they stand, and weigh the same.   *)
LEMMA SameWeights ==
  ASSUME NEW p, NEW q, NEW g, NEW h, SamePlan(p, q, g, h), PlanOK(p)
  PROVE  /\ Consistent(q) = Through(h, Consistent(p))
         /\ \A action, status : Left(q, action, status) = Through(h, Left(p, action, status))
         /\ \A S \in SUBSET DOMAIN p.scenarios :
              /\ VerdictWeights(q, Through(h, S)) = VerdictWeights(p, S)
              /\ Mass(q, Through(h, S)) = Mass(p, S)
              /\ Through(h, S) = {} <=> S = {}
<1> DEFINE a == p.scenarios
           b == q.scenarios
           D == DOMAIN a
<1>1. /\ IsFiniteSet(D) /\ h \in [D -> D] /\ (\A i \in D : h[h[i]] = i)
      /\ DOMAIN b = D /\ DOMAIN h = D /\ \A i \in D : b[i] = a[h[i]]
  <2>1. Rearranges(h, a, b)
    BY DEF SamePlan
  <2> HIDE DEF a, b
  <2> QED BY <2>1, SameLists
<1>2. q.study = p.study
  BY DEF SamePlan
<1>3. Consistent(q) = Through(h, Consistent(p))
  BY <1>1, <1>2 DEF Consistent, Through
<1>4. ASSUME NEW action, NEW status
      PROVE  Left(q, action, status) = Through(h, Left(p, action, status))
  <2>1. \A i \in D : b[i].evidence[action.evidence] = a[h[i]].evidence[action.evidence]
    BY <1>1
  <2>2. Consistent(q) \subseteq D /\ Consistent(p) \subseteq D
    BY <1>1 DEF Consistent
  <2>3. \A i \in D : i \in Consistent(q) <=> h[i] \in Consistent(p)
    BY <1>1, <1>3 DEF Through
  <2>4. \A i \in D : i \in Left(q, action, status) <=> h[i] \in Left(p, action, status)
    BY <2>1, <2>3 DEF Left
  <2>5. Left(q, action, status) \subseteq D
    BY <2>2 DEF Left
  <2> QED BY <1>1, <2>4, <2>5 DEF Through
<1>5. \A i \in D : a[i].weight \in Int
  BY DEF PlanOK, ScenariosOK
<1>6. ASSUME NEW S \in SUBSET D
      PROVE  /\ VerdictWeights(q, Through(h, S)) = VerdictWeights(p, S)
             /\ Mass(q, Through(h, S)) = Mass(p, S)
             /\ Through(h, S) = {} <=> S = {}
  <2>1. \A U \in SUBSET D : Mass(q, Through(h, U)) = Mass(p, U)
    BY <1>5, SameMass
  <2>2. Failing(q, Through(h, S)) = Through(h, Failing(p, S))
    <3> HIDE DEF a, b, D
    <3>1. \A i \in D : i \in Through(h, S) <=> h[i] \in S
      BY <1>1 DEF Through
    <3>2. Through(h, S) \subseteq D
      BY <1>1 DEF Through
    <3>3. \A i \in D : i \in Failing(q, Through(h, S)) <=> h[i] \in Failing(p, S)
      BY <1>1, <3>1 DEF Failing, a, b
    <3>4. Failing(q, Through(h, S)) \subseteq D
      BY <3>2 DEF Failing
    <3> QED BY <1>1, <3>3, <3>4 DEF Through
  <2>3. Through(h, S) \ Through(h, Failing(p, S)) = Through(h, S \ Failing(p, S))
    BY DEF Through
  <2>4. Failing(p, S) \in SUBSET D /\ S \ Failing(p, S) \in SUBSET D
    BY DEF Failing
  <2>5. /\ Mass(q, Through(h, Failing(p, S))) = Mass(p, Failing(p, S))
        /\ Mass(q, Through(h, S \ Failing(p, S))) = Mass(p, S \ Failing(p, S))
    BY <2>1, <2>4
  <2>6. VerdictWeights(q, Through(h, S)) = VerdictWeights(p, S)
    <3>1. \A plan, U : VerdictWeights(plan, U) =
            [v \in Verdicts |->
               (IF v = "BLOCK" THEN Mass(plan, Failing(plan, U)) ELSE 0)
               + (IF v = AllPassVerdict(plan.study) THEN Mass(plan, U \ Failing(plan, U)) ELSE 0)]
      BY DEF VerdictWeights, Failing
    <3>2. /\ Mass(q, Failing(q, Through(h, S))) = Mass(p, Failing(p, S))
          /\ Mass(q, Through(h, S) \ Failing(q, Through(h, S))) = Mass(p, S \ Failing(p, S))
      BY <2>2, <2>3, <2>5
    <3> QED BY <1>2, <3>1, <3>2
  <2>7. Through(h, S) = {} <=> S = {}
    <3> HIDE DEF D
    <3> QED BY <1>1, ThroughSize
  <2> QED BY <2>1, <2>6, <2>7
<1> QED BY <1>3, <1>4, <1>6

LEMMA SameGain ==
  ASSUME NEW p, NEW q, NEW g, NEW h, SamePlan(p, q, g, h), PlanOK(p), NEW action
  PROVE  /\ RawGain(q, action) = RawGain(p, action)
         /\ Excluded(q, action) <=> Excluded(p, action)
<1>1. /\ Consistent(q) = Through(h, Consistent(p))
      /\ \A status : Left(q, action, status) = Through(h, Left(p, action, status))
      /\ \A S \in SUBSET DOMAIN p.scenarios :
           /\ VerdictWeights(q, Through(h, S)) = VerdictWeights(p, S)
           /\ Through(h, S) = {} <=> S = {}
  BY SameWeights
<1>2. Consistent(p) \in SUBSET DOMAIN p.scenarios
  BY DEF Consistent
<1>3. VerdictWeights(q, Consistent(q)) = VerdictWeights(p, Consistent(p))
  BY <1>1, <1>2
<1>4. ASSUME NEW status
      PROVE  Outcome(q, action, status).entropy = Outcome(p, action, status).entropy
  <2> DEFINE inP == Left(p, action, status)
             inQ == Left(q, action, status)
             share == IF status = "UNAVAILABLE" THEN action.unavailable
                      ELSE Tenths - action.unavailable
             wP == VerdictWeights(p, inP)
             wQ == VerdictWeights(q, inQ)
  <2>1. inP \in SUBSET DOMAIN p.scenarios
    BY <1>2 DEF Left
  <2>2. wQ = wP /\ (inQ = {} <=> inP = {})
    BY <1>1, <2>1
  <2>3. /\ Outcome(p, action, status).entropy
             = IF inP # {} /\ share > 0 THEN share * Entropy(wP) ELSE 0
        /\ Outcome(q, action, status).entropy
             = IF inQ # {} /\ share > 0 THEN share * Entropy(wQ) ELSE 0
    BY DEF Outcome
  <2> HIDE DEF inP, inQ, wP, wQ, share
  <2> QED BY <2>2, <2>3
<1>5. [status \in Statuses |-> Outcome(q, action, status).entropy]
        = [status \in Statuses |-> Outcome(p, action, status).entropy]
  BY <1>4
<1>6. RawGain(q, action) = RawGain(p, action)
  BY <1>3, <1>5, Zenon DEF RawGain
<1>7. q.study = p.study /\ q.budget = p.budget
  BY DEF SamePlan
<1>8. Excluded(q, action) <=> Excluded(p, action)
  BY <1>7 DEF Excluded, PrerequisiteNotPass, OverBudget
<1> QED BY <1>6, <1>8

(* The best candidate precedes all others.                                 *)
LEMMA BestLeads ==
  ASSUME NEW C, IsFiniteSet(C), C # {}, \A c \in C : Qualified(c),
         \A c, d \in C : c.id = d.id => c = d
  PROVE  Best(C) \in C /\ \A d \in C : d.id # Best(C).id => Precedes(Best(C), d)
<1> DEFINE c == Best(C)
<1>1. c \in C
  BY BestExists
<1>2. \A d \in C \ {c} : Leads(c, d)
  <2>1. \E e \in C : \A d \in C \ {e} : Leads(e, d)
    BY LeaderExists
  <2> QED BY <2>1 DEF Best
<1> HIDE DEF c
<1>3. ASSUME NEW d \in C, d.id # c.id
      PROVE  Precedes(c, d)
  <2>1. Leads(c, d) /\ Qualified(c) /\ Qualified(d)
    BY <1>1, <1>2, <1>3
  <2>2. Precedes(c, d) \/ Precedes(d, c)
    BY <1>3, <2>1, PrecedesTotal
  <2> QED BY <2>1, <2>2 DEF Leads
<1> QED BY <1>1, <1>3 DEF c

(* Candidates that differ in where they stand.                             *)
Twins(c, d) ==
  /\ c.id = d.id /\ c.cost = d.cost /\ c.eligible = d.eligible /\ c.gain = d.gain
  /\ c.resolution = d.resolution

LEMMA TwinsLead ==
  ASSUME NEW C, IsFiniteSet(C), C # {}, \A c \in C : Qualified(c),
         \A c, d \in C : c.id = d.id => c = d,
         NEW E, IsFiniteSet(E), E # {}, \A c \in E : Qualified(c),
         \A c, d \in E : c.id = d.id => c = d,
         \A c \in C : \E d \in E : Twins(c, d),
         \A d \in E : \E c \in C : Twins(c, d)
  PROVE  Best(C).id = Best(E).id /\ Best(C).gain = Best(E).gain
<1> DEFINE b == Best(C)
           e == Best(E)
<1>1. b \in C /\ \A d \in C : d.id # b.id => Precedes(b, d)
  BY BestLeads
<1>2. e \in E /\ \A d \in E : d.id # e.id => Precedes(e, d)
  BY BestLeads
<1> HIDE DEF b, e
<1>3. PICK c \in C : Twins(c, e)
  BY <1>2
<1>4. PICK d \in E : Twins(b, d)
  BY <1>1
<1>5. CASE c.id = b.id
  <2>1. c = b
    BY <1>1, <1>5
  <2> QED BY <1>3, <2>1 DEF Twins, b, e
<1>6. CASE c.id # b.id
  <2>1. Precedes(b, c)
    BY <1>1, <1>6
  <2>2. Precedes(e, d)
    BY <1>2, <1>3, <1>4, <1>6 DEF Twins
  <2>3. Precedes(c, b)
    BY <1>3, <1>4, <2>2 DEF Precedes, LastKey, Twins
  <2>4. Precedes(b, b) /\ Qualified(b)
    BY <1>1, <2>1, <2>3, PrecedesTransitive
  <2> QED BY <2>4 DEF Precedes, LastKey, Qualified
<1> QED BY <1>5, <1>6

(* A candidate is that of the action at the place it came from.            *)
LEMMA CandidateFields ==
  ASSUME NEW plan, NEW at
  PROVE  LET action == plan.actions[at]
             c == Candidate(plan, at)
         IN  /\ c.id = action.id /\ c.cost = action.cost
             /\ c.eligible = ~Excluded(plan, action)
             /\ c.gain = Max({0, RawGain(plan, action)})
             /\ c.resolution = Tenths - action.unavailable
<1> DEFINE action == plan.actions[at]
           gain == Max({0, RawGain(plan, action)})
<1>1. Candidate(plan, at) =
        [at |-> at, id |-> action.id, cost |-> action.cost,
         eligible |-> ~Excluded(plan, action), gain |-> gain,
         resolution |-> Tenths - action.unavailable]
  BY DEF Candidate
<1> HIDE DEF action, gain
<1> QED BY <1>1 DEF action, gain

LEMMA SameCandidates ==
  ASSUME NEW p, NEW q, NEW g, NEW h, SamePlan(p, q, g, h), PlanOK(p)
  PROVE  /\ \A c \in Eligible(p) : \E d \in Eligible(q) : Twins(c, d)
         /\ \A d \in Eligible(q) : \E c \in Eligible(p) : Twins(c, d)
<1> DEFINE a == p.actions
           b == q.actions
           D == DOMAIN a
<1>1. /\ g \in [D -> D] /\ (\A i \in D : g[g[i]] = i)
      /\ DOMAIN b = D /\ \A i \in D : b[i] = a[g[i]]
  <2>1. Rearranges(g, a, b)
    BY DEF SamePlan
  <2> HIDE DEF a, b
  <2> QED BY <2>1, SameLists
<1>2. ASSUME NEW i \in D
      PROVE  Twins(Candidate(p, g[i]), Candidate(q, i))
  <2>1. b[i] = a[g[i]]
    BY <1>1
  <2>2. /\ RawGain(q, b[i]) = RawGain(p, a[g[i]])
        /\ Excluded(q, b[i]) <=> Excluded(p, a[g[i]])
    BY <2>1, SameGain
  <2> DEFINE c == Candidate(p, g[i])
             d == Candidate(q, i)
             x == a[g[i]]
             y == b[i]
             notP == ~Excluded(p, x)
             notQ == ~Excluded(q, y)
  <2>3. notQ = notP
    BY <2>2
  <2>4. /\ c.id = x.id /\ c.cost = x.cost /\ c.eligible = notP
        /\ c.gain = Max({0, RawGain(p, x)}) /\ c.resolution = Tenths - x.unavailable
    BY CandidateFields
  <2>5. /\ d.id = y.id /\ d.cost = y.cost /\ d.eligible = notQ
        /\ d.gain = Max({0, RawGain(q, y)}) /\ d.resolution = Tenths - y.unavailable
    BY CandidateFields
  <2> HIDE DEF c, d, x, y, notP, notQ
  <2>6. c.eligible = d.eligible
    BY <2>3, <2>4, <2>5
  <2> QED BY <2>1, <2>2, <2>4, <2>5, <2>6 DEF Twins, c, d, x, y
<1>3. ASSUME NEW c \in Eligible(p)
      PROVE  \E d \in Eligible(q) : Twins(c, d)
  <2>1. PICK j \in D : c = Candidate(p, j) /\ c.eligible
    BY DEF Eligible
  <2>2. g[j] \in D /\ g[g[j]] = j
    BY <1>1
  <2>3. Twins(c, Candidate(q, g[j]))
    BY <1>2, <2>1, <2>2
  <2>4. Candidate(q, g[j]).eligible
    BY <2>1, <2>3, Zenon DEF Twins
  <2> QED BY <1>1, <2>2, <2>3, <2>4 DEF Eligible
<1>4. ASSUME NEW d \in Eligible(q)
      PROVE  \E c \in Eligible(p) : Twins(c, d)
  <2>1. PICK i \in D : d = Candidate(q, i) /\ d.eligible
    BY <1>1 DEF Eligible
  <2>2. g[i] \in D /\ Twins(Candidate(p, g[i]), d)
    BY <1>1, <1>2, <2>1
  <2>3. Candidate(p, g[i]).eligible
    BY <2>1, <2>2, Zenon DEF Twins
  <2> QED BY <2>2, <2>3 DEF Eligible
<1> QED BY <1>3, <1>4

LEMMA SamePlanned ==
  ASSUME NEW p, NEW q, NEW g, NEW h, SamePlan(p, q, g, h), PlanOK(p),
         Consistent(p) # {}, PlannerAssumption
  PROVE  PlanEvidence(q) = PlanEvidence(p)
<1> DEFINE C == Eligible(p)
           E == Eligible(q)
           Answer(plan) ==
             [status |-> "ok", prior |-> VerdictWeights(plan, Consistent(plan)),
              retained |-> Mass(plan, Consistent(plan)),
              selected |-> IF Eligible(plan) = {} THEN NoAction ELSE Best(Eligible(plan)).id,
              reason |->
                IF Eligible(plan) # {}
                THEN IF Best(Eligible(plan)).gain > 0 THEN "EXPECTED_INFORMATION_GAIN"
                     ELSE "REQUIRED_EVIDENCE_PENDING"
                ELSE IF Verdict(plan.study) = "BLOCK" THEN "CURRENT_DECISION_BLOCKED"
                     ELSE "NO_ELIGIBLE_ACQUISITION"]
<1>1. PlanShape(p) /\ PlanShape(q) /\ q.study = p.study
  BY DEF SamePlan
<1>2. PlanOK(q)
  BY SameOK
<1>3. /\ VerdictWeights(q, Consistent(q)) = VerdictWeights(p, Consistent(p))
      /\ Mass(q, Consistent(q)) = Mass(p, Consistent(p)) /\ Consistent(q) # {}
  <2>1. Consistent(p) \in SUBSET DOMAIN p.scenarios
    BY DEF Consistent
  <2> QED BY <2>1, SameWeights
<1>4. /\ \A c \in C : \E d \in E : Twins(c, d)
      /\ \A d \in E : \E c \in C : Twins(c, d)
  BY SameCandidates
<1>5. C = {} <=> E = {}
  BY <1>4
<1>6. C # {} => Best(C).id = Best(E).id /\ Best(C).gain = Best(E).gain
  <2>1. /\ \A c \in C : Qualified(c)
        /\ \A c, d \in C : c.id = d.id => c = d
        /\ IsFiniteSet(C)
    BY <1>1, EligibleChosen
  <2>2. /\ \A c \in E : Qualified(c)
        /\ \A c, d \in E : c.id = d.id => c = d
        /\ IsFiniteSet(E)
    BY <1>1, <1>2, EligibleChosen
  <2> HIDE DEF C, E
  <2> QED BY <1>4, <1>5, <2>1, <2>2, TwinsLead
<1>7. PlanEvidence(p) = Answer(p) /\ PlanEvidence(q) = Answer(q)
  BY <1>2, <1>3, Zenon DEF PlanEvidence, Eligible
<1>8. Answer(q) = Answer(p)
  BY <1>1, <1>3, <1>5, <1>6
<1> QED BY <1>7, <1>8

LEMMA PlanOrders ==
  ASSUME NEW p, PlanShape(p), PlanOK(p), Consistent(p) # {}, PlannerAssumption
  PROVE  /\ PlanEvidence([p EXCEPT !.actions = Reverse(@)]) = PlanEvidence(p)
         /\ PlanEvidence([p EXCEPT !.scenarios = Reverse(@)]) = PlanEvidence(p)
<1> DEFINE x == [p EXCEPT !.actions = Reverse(@)]
           y == [p EXCEPT !.scenarios = Reverse(@)]
<1>1. p = [clean |-> p.clean, budget |-> p.budget, study |-> p.study,
           scenarios |-> p.scenarios, actions |-> p.actions]
  BY DEF PlanShape
<1>2. /\ x = [clean |-> p.clean, budget |-> p.budget, study |-> p.study,
              scenarios |-> p.scenarios, actions |-> Reverse(p.actions)]
      /\ y = [clean |-> p.clean, budget |-> p.budget, study |-> p.study,
              scenarios |-> Reverse(p.scenarios), actions |-> p.actions]
  BY <1>1
<1>3. List(p.actions) /\ List(p.scenarios) /\ StudyShape(p.study)
      /\ p.clean \in BOOLEAN /\ p.budget \in Int
  BY DEF PlanShape
<1>4. PICK g : Rearranges(g, p.actions, Reverse(p.actions))
  BY <1>3, ReverseRearranges
<1>5. PICK h : Rearranges(h, p.scenarios, Reverse(p.scenarios))
  BY <1>3, ReverseRearranges
<1>6. PICK i : Rearranges(i, p.actions, p.actions)
  BY <1>3, ReverseRearranges
<1>7. PICK j : Rearranges(j, p.scenarios, p.scenarios)
  BY <1>3, ReverseRearranges
<1>8. \A k \in DOMAIN p.actions :
        /\ p.actions[k].id \in Nat \ {NoAction} /\ p.actions[k].cost \in Int
        /\ p.actions[k].unavailable \in Int
  BY DEF PlanShape
<1> HIDE DEF x, y
<1>9. SamePlan(p, x, g, j)
  <2> DEFINE a == p.actions
             r == Reverse(a)
  <2>1. /\ x.clean = p.clean /\ x.budget = p.budget /\ x.study = p.study
        /\ x.scenarios = p.scenarios /\ x.actions = r
    BY <1>2
  <2>2. \A k \in DOMAIN r : /\ r[k].id \in Nat \ {NoAction} /\ r[k].cost \in Int
                            /\ r[k].unavailable \in Int
    <3>1. Rearranges(g, a, r)
      BY <1>4
    <3>2. /\ g \in [DOMAIN a -> DOMAIN a] /\ DOMAIN r = DOMAIN a
          /\ \A k \in DOMAIN a : r[k] = a[g[k]]
      <4> HIDE DEF r, a
      <4> QED BY <3>1, SameLists
    <3> HIDE DEF r
    <3> QED BY <1>8, <3>2
  <2>3. List(r) /\ Rearranges(g, p.actions, r)
    BY <1>4 DEF Rearranges
  <2> HIDE DEF r, a
  <2>4. PlanShape(x)
    BY <1>2, <1>3, <2>1, <2>2, <2>3 DEF PlanShape
  <2> QED BY <1>7, <2>1, <2>3, <2>4 DEF SamePlan
<1>10. SamePlan(p, y, i, h)
  <2> DEFINE r == Reverse(p.scenarios)
  <2>1. /\ y.clean = p.clean /\ y.budget = p.budget /\ y.study = p.study
        /\ y.scenarios = r /\ y.actions = p.actions
    BY <1>2
  <2>2. List(r) /\ Rearranges(h, p.scenarios, r)
    BY <1>5 DEF Rearranges
  <2> HIDE DEF r
  <2>3. PlanShape(y)
    BY <1>2, <1>3, <1>8, <2>1, <2>2 DEF PlanShape
  <2> QED BY <1>6, <2>1, <2>2, <2>3 DEF SamePlan
<1>11. PlanEvidence(x) = PlanEvidence(p) /\ PlanEvidence(y) = PlanEvidence(p)
  BY <1>9, <1>10, SamePlanned
<1> QED BY <1>11 DEF x, y

(* No order in which a study is written down decides its verdict, reasons  *)
(* or number accepted, and none of a plan its proposal.                    *)
THEOREM Orders == Spec => []OrderIrrelevant
<1>1. ASSUME IInv, Answered("study")
      PROVE  \A field \in {"classes", "groups", "samples", "required"} :
               Assess([task.input EXCEPT ![field] = Reverse(@)]) = result
  <2> DEFINE study == task.input
  <2>1. result = Assess(study) /\ StudyShape(study)
    <3>1. task.kind = "study" /\ result.status = "ok" /\ result # Pending
      BY <1>1 DEF Answered, Pending
    <3>2. result # Invalid
      BY <3>1 DEF Invalid
    <3> QED BY <1>1, <3>1, <3>2 DEF IInv, TaskInv, ResultInv, Computed
  <2>2. StudyOK(study)
    BY <1>1, <2>1 DEF Assess, Answered
  <2> HIDE DEF study
  <2>3. \A field \in {"classes", "groups", "samples", "required"} :
          Assess([study EXCEPT ![field] = Reverse(@)]) = result
    BY <2>1, <2>2, StudyOrders
  <2> QED BY <2>3 DEF study
<1>2. ASSUME IInv, Answered("plan")
      PROVE  /\ PlanEvidence([Plan EXCEPT !.actions = Reverse(@)]) = result
             /\ PlanEvidence([Plan EXCEPT !.scenarios = Reverse(@)]) = result
  <2>1. /\ PlanShape(Plan) /\ PlanOK(Plan) /\ Consistent(Plan) # {}
        /\ result = PlanEvidence(Plan)
    BY <1>2, PlanResult DEF IInv, Answered, Plan
  <2> QED BY <2>1, PlannerAssumption, PlanOrders
<1>3. IInv => OrderIrrelevant
  BY <1>1, <1>2 DEF OrderIrrelevant, ClassOrderIrrelevant, ProposalOrderFree
<1> QED BY <1>3, Invariance, PTL

-------------------------------------------------------------------------------
(***************************************************************************)
(* Bins: what is summed over the rows is summed bin by bin.                *)
(***************************************************************************)

LEMMA LeastOfTwo ==
  ASSUME NEW a \in Int, NEW b \in Int
  PROVE  Min({a, b}) = IF a <= b THEN a ELSE b
<1> DEFINE m == IF a <= b THEN a ELSE b
<1>1. m \in {a, b} /\ \A y \in {a, b} : m <= y
  OBVIOUS
<1>2. \A x \in {a, b} : (\A y \in {a, b} : x <= y) => x = m
  OBVIOUS
<1> HIDE DEF m
<1>3. Min({a, b}) = m
  BY <1>1, <1>2 DEF Min
<1> QED BY <1>3 DEF m

(* A probability is in a bin whose bounds hold it, the lower one included  *)
(* and the upper one too where the product rounds down; of twice as many   *)
(* bins it is in one of the two halves of that bin.                        *)
LEMMA BinBounds ==
  ASSUME NEW p \in 0 .. Unit, NEW n \in Nat \ {0}, NEW low
  PROVE  LET b == BinOf(p, n, low)
         IN  /\ b \in 0 .. (n - 1)
             /\ b * Unit <= n * p /\ n * p <= (b + 1) * Unit
<1> DEFINE a == p * n
           e == a \div Unit
           r == IF p \in low /\ p < Unit /\ a % Unit = 0 /\ p > 0 THEN e - 1 ELSE e
           b == IF r <= n - 1 THEN r ELSE n - 1
<1>1. Unit \in Nat \ {0} /\ p \in Nat /\ p <= Unit
  BY MetricsAssumption
<1>2. a \in Nat /\ n * p = a /\ a <= Unit * n /\ (p = 0 <=> a = 0)
      /\ (p < Unit => a < Unit * n)
  <2>1. p * n \in Nat /\ n * p = p * n /\ p * n <= Unit * n
    BY <1>1
  <2>2. p = 0 <=> p * n = 0
    BY <1>1
  <2>3. p < Unit => p * n < Unit * n
    BY <1>1
  <2> QED BY <2>1, <2>2, <2>3
<1>3. e \in Nat /\ Unit * e <= a /\ a < Unit * e + Unit /\ (a % Unit = 0 <=> a = Unit * e)
  <2> HIDE DEF a
  <2> QED BY <1>1, <1>2, Division
<1>4. BinOf(p, n, low) = b
  <2>1. r \in Int /\ n - 1 \in Int
    BY <1>3
  <2>2. BinOf(p, n, low) = Min({r, n - 1})
    BY DEF BinOf
  <2> HIDE DEF r
  <2> QED BY <2>1, <2>2, LeastOfTwo
<1>5. \A x, y \in Int : Unit * x < Unit * y => x < y
  BY <1>1
<1>6. e <= n
  <2>1. Unit * e < Unit * (n + 1)
    <3>1. Unit * (n + 1) = Unit * n + Unit /\ Unit * n \in Int /\ Unit * e \in Int
      BY <1>1, <1>3
    <3> HIDE DEF a, e
    <3> QED BY <1>1, <1>2, <1>3, <3>1
  <2> HIDE DEF e
  <2> QED BY <1>3, <1>5, <2>1
<1>7. b * Unit = Unit * b /\ (b + 1) * Unit = Unit * b + Unit /\ Unit * b \in Int /\ b \in Int
  <2>1. b \in Int
    BY <1>3
  <2> HIDE DEF b
  <2> QED BY <1>1, <2>1
<1>8. CASE r = e - 1
  <2>1. CASE e = r
    BY <1>3, <1>8, <2>1
  <2>2. CASE e # r
    <3>1. a = Unit * e /\ p > 0 /\ p < Unit
      BY <1>3, <2>2
    <3>2. e >= 1
      <4>1. a > 0
        BY <1>2, <3>1
      <4>2. e = 0 => Unit * e = 0
        BY <1>1
      <4> HIDE DEF a, e
      <4> QED BY <1>3, <3>1, <4>1, <4>2
    <3>3. e <= n /\ b = e - 1
      BY <1>3, <1>6, <1>8
    <3>4. Unit * b = Unit * e - Unit
      <4> HIDE DEF b, e
      <4> QED BY <1>1, <1>3, <3>3
    <3> HIDE DEF b, e, a
    <3> QED BY <1>1, <1>2, <1>3, <1>4, <1>6, <1>7, <3>1, <3>2, <3>3, <3>4
  <2> QED BY <2>1, <2>2
<1>9. CASE r = e
  <2>1. CASE e <= n - 1
    <3>1. b = e
      BY <1>9, <2>1
    <3> HIDE DEF b, e, a
    <3> QED BY <1>1, <1>2, <1>3, <1>4, <1>7, <2>1, <3>1
  <2>2. CASE e = n
    <3>1. b = n - 1
      BY <1>9, <2>2
    <3>2. Unit * b = Unit * n - Unit /\ Unit * n \in Int
      <4> HIDE DEF b
      <4> QED BY <1>1, <3>1
    <3> HIDE DEF b, e, a
    <3> QED BY <1>1, <1>2, <1>3, <1>4, <1>7, <2>2, <3>1, <3>2
  <2>3. e <= n - 1 \/ e = n
    <3> HIDE DEF e
    <3> QED BY <1>3, <1>6
  <2> QED BY <2>1, <2>2, <2>3
<1>10. r = e \/ r = e - 1
  OBVIOUS
<1> QED BY <1>8, <1>9, <1>10

LEMMA BinHalves ==
  ASSUME NEW p \in 0 .. Unit, NEW n \in Nat \ {0}, NEW low
  PROVE  BinOf(p, n, low) = BinOf(p, 2 * n, low) \div 2
<1> DEFINE R(e, z) == IF p \in low /\ p < Unit /\ z /\ p > 0 THEN e - 1 ELSE e
           B(r, m) == IF r <= m - 1 THEN r ELSE m - 1
           a == p * n
           e1 == a \div Unit
           z1 == a % Unit = 0
           a2 == p * (2 * n)
           e2 == a2 \div Unit
           z2 == a2 % Unit = 0
<1>1. Unit \in Nat \ {0} /\ p \in Nat /\ p <= Unit
  BY MetricsAssumption
<1>2. a \in Nat /\ a2 = 2 * a /\ a2 \in Nat
  BY <1>1
<1>3. /\ e1 \in Nat /\ Unit * e1 <= a /\ a < Unit * e1 + Unit /\ (z1 <=> a = Unit * e1)
      /\ e2 \in Nat /\ Unit * e2 <= a2 /\ a2 < Unit * e2 + Unit /\ (z2 <=> a2 = Unit * e2)
  <2> HIDE DEF a, a2
  <2> QED BY <1>1, <1>2, Division
<1>4. BinOf(p, n, low) = B(R(e1, z1), n) /\ BinOf(p, 2 * n, low) = B(R(e2, z2), 2 * n)
  <2>1. R(e1, z1) \in Int /\ R(e2, z2) \in Int /\ n - 1 \in Int /\ 2 * n - 1 \in Int
    BY <1>3
  <2>2. BinOf(p, n, low) = Min({R(e1, z1), n - 1})
        /\ BinOf(p, 2 * n, low) = Min({R(e2, z2), 2 * n - 1})
    BY DEF BinOf
  <2>3. \A r, m \in Int : Min({r, m}) = IF r <= m THEN r ELSE m
    BY LeastOfTwo
  <2> HIDE DEF R
  <2> QED BY <2>1, <2>2, <2>3
<1>5. (e2 = 2 * e1 /\ (z2 <=> z1)) \/ (e2 = 2 * e1 + 1 /\ ~z1)
  <2> HIDE DEF a, a2, e1, e2, z1, z2
  <2>1. Unit * (2 * e1) = 2 * (Unit * e1) /\ Unit * (2 * e1 + 1) = 2 * (Unit * e1) + Unit
        /\ Unit * (2 * e1 + 2) = 2 * (Unit * e1) + 2 * Unit /\ Unit * (e2 + 1) = Unit * e2 + Unit
        /\ Unit * e1 \in Int /\ Unit * e2 \in Int
    BY <1>1, <1>3
  <2>2. \A x, y \in Int : Unit * x < Unit * y => x < y
    BY <1>1
  <2>3. Unit * (2 * e1) < Unit * (e2 + 1) /\ Unit * e2 < Unit * (2 * e1 + 2)
    BY <1>1, <1>2, <1>3, <2>1
  <2>4. 2 * e1 < e2 + 1 /\ e2 < 2 * e1 + 2
    BY <1>3, <2>2, <2>3
  <2>5. e2 = 2 * e1 \/ e2 = 2 * e1 + 1
    BY <1>3, <2>4
  <2>6. e2 = 2 * e1 => (z2 <=> z1)
    BY <1>1, <1>2, <1>3, <2>1
  <2>7. e2 = 2 * e1 + 1 => ~z1
    BY <1>1, <1>2, <1>3, <2>1
  <2> QED BY <2>5, <2>6, <2>7
<1> HIDE DEF a, a2, e1, e2, z1, z2
<1>6. B(R(e1, z1), n) = B(R(e2, z2), 2 * n) \div 2
  BY <1>3, <1>5
<1> QED BY <1>4, <1>6

(* A batch that is answered: its rows, its bins, and what they come to.    *)
Batch(rows, n) == List(rows) /\ ValidRows(rows) /\ n \in Nat \ {0}

BinAt(rows, n, low) == [i \in DOMAIN rows |-> BinOf(rows[i].p, n, low)]
Excess(rows) == [i \in DOMAIN rows |-> Unit * rows[i].y - rows[i].p]
Conf(rows) == [i \in DOMAIN rows |-> rows[i].p]
Label(rows) == [i \in DOMAIN rows |-> rows[i].y]
Ones(rows) == [i \in DOMAIN rows |-> 1]

LEMMA BatchTypes ==
  ASSUME NEW rows, NEW n, Batch(rows, n), NEW low
  PROVE  /\ IsFiniteSet(DOMAIN rows) /\ DOMAIN rows = 1 .. Len(rows) /\ Len(rows) \in Nat \ {0}
         /\ Cardinality(DOMAIN rows) = Len(rows)
         /\ IsFiniteSet(0 .. (n - 1)) /\ Unit \in Nat \ {0}
         /\ \A i \in DOMAIN rows : rows[i].p \in 0 .. Unit /\ rows[i].y \in {0, 1}
         /\ BinAt(rows, n, low) \in [DOMAIN rows -> 0 .. (n - 1)]
         /\ Excess(rows) \in [DOMAIN rows -> Int] /\ Conf(rows) \in [DOMAIN rows -> Int]
         /\ Label(rows) \in [DOMAIN rows -> Int] /\ Ones(rows) \in [DOMAIN rows -> Int]
<1>1. IsFiniteSet(DOMAIN rows) /\ DOMAIN rows = 1 .. Len(rows) /\ Len(rows) \in Nat
  BY ListDomain DEF Batch
<1>2. Len(rows) # 0
  <2> DEFINE T == ToSet(rows)
  <2>1. rows \in Seq(T) /\ rows # << >>
    BY DEF Batch, List, ValidRows
  <2> HIDE DEF T
  <2> QED BY <2>1, EmptySeq
<1>3. Cardinality(DOMAIN rows) = Len(rows)
  <2>1. 1 \in Int /\ Len(rows) \in Int /\ ~(1 > Len(rows)) /\ Len(rows) - 1 + 1 = Len(rows)
    BY <1>1, <1>2
  <2>2. Cardinality(1 .. Len(rows)) = Len(rows)
    BY <2>1, FS_Interval
  <2> QED BY <1>1, <2>2
<1>4. IsFiniteSet(0 .. (n - 1)) /\ Unit \in Nat \ {0}
  BY MetricsAssumption, FS_Interval DEF Batch
<1>5. \A i \in DOMAIN rows : rows[i].p \in 0 .. Unit /\ rows[i].y \in {0, 1}
  BY DEF Batch, ValidRows
<1>6. BinAt(rows, n, low) \in [DOMAIN rows -> 0 .. (n - 1)]
  <2>1. \A i \in DOMAIN rows : BinOf(rows[i].p, n, low) \in 0 .. (n - 1)
    BY <1>5, BinBounds DEF Batch
  <2> QED BY <2>1 DEF BinAt
<1>7. \A i \in DOMAIN rows : /\ rows[i].p \in Int /\ rows[i].y \in Int
                             /\ Unit * rows[i].y - rows[i].p \in Int
  BY <1>4, <1>5
<1> QED BY <1>1, <1>2, <1>3, <1>4, <1>5, <1>6, <1>7 DEF Excess, Conf, Label, Ones

(* Accuracy less confidence, of any rows.                                  *)
LEMMA ExcessOf ==
  ASSUME NEW rows, NEW n, Batch(rows, n), NEW U \in SUBSET DOMAIN rows
  PROVE  /\ Sum(On(Excess(rows), U)) = Unit * Sum(On(Label(rows), U)) - Sum(On(Conf(rows), U))
         /\ Distance(Unit * Sum(On(Label(rows), U)), Sum(On(Conf(rows), U)))
              = Magnitude(Sum(On(Excess(rows), U)))
         /\ Sum(On(Label(rows), U)) \in Int /\ Sum(On(Conf(rows), U)) \in Int
<1> DEFINE d == On(Excess(rows), U)
           p == On(Conf(rows), U)
           y == On(Label(rows), U)
           s == [x \in U |-> d[x] + p[x]]
<1>1. /\ IsFiniteSet(U) /\ Unit \in Nat
      /\ d \in [U -> Int] /\ p \in [U -> Int] /\ y \in [U -> Int]
  <2>1. IsFiniteSet(U) /\ Unit \in Nat
    BY BatchTypes, FS_Subset
  <2> QED BY <2>1, BatchTypes DEF On
<1>2. s \in [U -> Int] /\ \A x \in U : s[x] = Unit * y[x]
  <2>1. \A x \in U : d[x] = Unit * y[x] - p[x]
    BY DEF On, Excess, Conf, Label
  <2> HIDE DEF d, p, y
  <2>2. \A x \in U : d[x] \in Int /\ p[x] \in Int /\ Unit * y[x] \in Int
    BY <1>1
  <2> QED BY <2>1, <2>2
<1>3. Sum(s) = Sum(d) + Sum(p) /\ Sum(d) \in Int /\ Sum(p) \in Int /\ Sum(y) \in Int
  <2> HIDE DEF d, p, y
  <2> QED BY <1>1, SumAdds, SumType
<1>4. Sum(s) = Unit * Sum(y)
  <2> HIDE DEF s, y
  <2> QED BY <1>1, <1>2, SumScales
<1> HIDE DEF d, p, y, s
<1>5. Sum(d) = Unit * Sum(y) - Sum(p) /\ Unit * Sum(y) \in Int
  BY <1>1, <1>3, <1>4
<1>6. Distance(Unit * Sum(y), Sum(p)) = Magnitude(Sum(d))
  BY <1>3, <1>5 DEF Distance, Magnitude
<1> QED BY <1>3, <1>5, <1>6 DEF d, p, y

(* The bin of an index, as reliability_bins reports it.                    *)
BinRecord(rows, n, low, b) ==
  LET U == Part(BinAt(rows, n, low), b)
  IN  [bin |-> b, count |-> Cardinality(U),
       sumP |-> SumFunction([i \in U |-> rows[i].p]), sumY |-> SumFunction([i \in U |-> rows[i].y])]
Used(rows, n, low) == {c \in 0 .. (n - 1) : Part(BinAt(rows, n, low), c) # {}}

LEMMA BinsAreParts ==
  ASSUME NEW rows, NEW n, Batch(rows, n), NEW low
  PROVE  ReliabilityBins(rows, n, low)
           = {BinRecord(rows, n, low, b) : b \in Used(rows, n, low)}
<1>1. \A b : {i \in DOMAIN rows : BinOf(rows[i].p, n, low) = b} = Part(BinAt(rows, n, low), b)
  BY DEF Part, BinAt
<1> QED BY <1>1 DEF ReliabilityBins, BinRecord, Used

Counts(rows, n, low) == [b \in 0 .. (n - 1) |-> Cardinality(Part(BinAt(rows, n, low), b))]

(* Count and gap of a bin, a bin without rows included.                    *)
LEMMA BinFields ==
  ASSUME NEW rows, NEW n, Batch(rows, n), NEW low, NEW b \in 0 .. (n - 1)
  PROVE  LET bin == BinRecord(rows, n, low, b)
             size == PartSizes(Excess(rows), BinAt(rows, n, low), 0 .. (n - 1))[b]
             count == Counts(rows, n, low)[b]
         IN  /\ bin.bin = b /\ bin.count = count /\ Gap(bin) = size
             /\ count \in Nat /\ size \in Nat
             /\ (b \in Used(rows, n, low) => count > 0)
             /\ (b \notin Used(rows, n, low) => count = 0 /\ size = 0)
<1> DEFINE k == BinAt(rows, n, low)
           U == Part(k, b)
           e == Sum(On(Excess(rows), U))
           bin == BinRecord(rows, n, low, b)
           size == PartSizes(Excess(rows), k, 0 .. (n - 1))[b]
           count == Counts(rows, n, low)[b]
<1>1. U \in SUBSET DOMAIN rows /\ IsFiniteSet(U) /\ k \in [DOMAIN rows -> 0 .. (n - 1)]
  <2>1. IsFiniteSet(DOMAIN rows) /\ k \in [DOMAIN rows -> 0 .. (n - 1)]
    BY BatchTypes
  <2>2. U \in SUBSET DOMAIN rows
    BY <2>1 DEF Part
  <2> QED BY <2>1, <2>2, FS_Subset
<1>2. /\ bin.bin = b /\ bin.count = Cardinality(U)
      /\ bin.sumP = Sum(On(Conf(rows), U)) /\ bin.sumY = Sum(On(Label(rows), U))
  <2>1. /\ bin.bin = b /\ bin.count = Cardinality(U)
        /\ bin.sumP = SumFunction([i \in U |-> rows[i].p])
        /\ bin.sumY = SumFunction([i \in U |-> rows[i].y])
    BY DEF BinRecord
  <2>2. [i \in U |-> rows[i].p] = On(Conf(rows), U) /\ [i \in U |-> rows[i].y] = On(Label(rows), U)
    BY <1>1 DEF On, Conf, Label
  <2> HIDE DEF bin, U
  <2> QED BY <2>1, <2>2, SumFunctionIsSum
<1>3. size = Magnitude(e) /\ count = Cardinality(U)
  BY DEF PartSizes, Counts
<1>4. Gap(bin) = Magnitude(e) /\ e \in Int
  <2>1. Gap(bin) = Distance(Unit * Sum(On(Label(rows), U)), Sum(On(Conf(rows), U)))
    <3> HIDE DEF bin, U
    <3> QED BY <1>2 DEF Gap
  <2>2. Excess(rows) \in [DOMAIN rows -> Int] /\ IsFiniteSet(DOMAIN rows)
    BY BatchTypes
  <2>3. e \in Int
    <3> HIDE DEF U
    <3> QED BY <1>1, <2>2, PartType
  <2> HIDE DEF U
  <2> QED BY <1>1, <2>1, <2>3, ExcessOf
<1>5. Cardinality(U) \in Nat /\ (Cardinality(U) = 0 <=> U = {})
  BY <1>1, FS_CardinalityType, FS_EmptySet
<1>6. b \in Used(rows, n, low) <=> U # {}
  BY DEF Used
<1>7. U = {} => e = 0
  <2>1. On(Excess(rows), {}) = [x \in {} |-> 0]
    BY DEF On
  <2>2. Sum(On(Excess(rows), {})) = 0
    BY <2>1, SumOfNone
  <2> HIDE DEF U
  <2> QED BY <2>2
<1>8. Magnitude(e) \in Nat /\ (e = 0 => Magnitude(e) = 0)
  <2> HIDE DEF e
  <2> QED BY <1>4 DEF Magnitude
<1> HIDE DEF bin, size, count, U, e
<1>9. /\ bin.bin = b /\ bin.count = count /\ Gap(bin) = size /\ count \in Nat /\ size \in Nat
      /\ (b \in Used(rows, n, low) => count > 0)
      /\ (b \notin Used(rows, n, low) => count = 0 /\ size = 0)
  BY <1>2, <1>3, <1>4, <1>5, <1>6, <1>7, <1>8
<1> QED BY <1>9 DEF bin, size, count

(* What is summed over the bins there are is summed over all n of them.    *)
OverBins(rows, n, low, f, g) ==
  /\ f \in [0 .. (n - 1) -> Int]
  /\ g = [bin \in ReliabilityBins(rows, n, low) |-> g[bin]]
  /\ \A b \in Used(rows, n, low) : g[BinRecord(rows, n, low, b)] = f[b]
  /\ \A b \in 0 .. (n - 1) : b \notin Used(rows, n, low) => f[b] = 0

LEMMA SumOfBins ==
  ASSUME NEW rows, NEW n, Batch(rows, n), NEW low, NEW f, NEW g, OverBins(rows, n, low, f, g)
  PROVE  SumFunction(g) = Sum(f)
<1> USE DEF OverBins
<1> DEFINE N == 0 .. (n - 1)
           A == Used(rows, n, low)
           B == N \ A
           R == ReliabilityBins(rows, n, low)
           h == [b \in A |-> BinRecord(rows, n, low, b)]
<1>1. IsFiniteSet(N) /\ A \in SUBSET N /\ B \in SUBSET N /\ A \cup B = N /\ A \cap B = {}
  BY BatchTypes DEF Used
<1>2. IsFiniteSet(A) /\ IsFiniteSet(B)
  <2> HIDE DEF N, A, B
  <2> QED BY <1>1, FS_Subset
<1>3. R = {h[b] : b \in A} /\ h \in [A -> R] /\ (\A b \in A : h[b].bin = b)
  <2>1. R = {BinRecord(rows, n, low, b) : b \in A}
    BY BinsAreParts
  <2>2. \A b \in A : BinRecord(rows, n, low, b).bin = b
    BY DEF BinRecord
  <2> HIDE DEF A, R
  <2> QED BY <2>1, <2>2
<1>4. \A b \in A : g[h[b]] = f[b] /\ f[b] \in Int
  BY <1>1
<1>5. g \in [R -> Int]
  <2>1. \A r \in R : g[r] \in Int
    <3> HIDE DEF R, A, h
    <3> QED BY <1>3, <1>4
  <2>2. g = [r \in R |-> g[r]]
    OBVIOUS
  <2> HIDE DEF R, OverBins
  <2> QED BY <2>1, <2>2
<1>6. \A x, y \in A : h[x] = h[y] => x = y
  <2> HIDE DEF h, A
  <2> QED BY <1>3
<1>7. Matches(On(f, A), g, h, A, R)
  <2>1. On(f, A) \in [A -> Int] /\ \A b \in A : On(f, A)[b] = g[h[b]]
    BY <1>4 DEF On
  <2> HIDE DEF h, A, R, OverBins
  <2> QED BY <1>3, <1>5, <1>6, <2>1 DEF Matches
<1>8. Sum(On(f, A)) = Sum(g)
  <2> HIDE DEF h, A, R, OverBins
  <2> QED BY <1>2, <1>7, SumMatches
<1>9. Sum(On(f, B)) = 0
  <2>1. On(f, B) \in [B -> Int] /\ \A x \in B : On(f, B)[x] = 0
    BY DEF On
  <2> HIDE DEF B
  <2> QED BY <1>2, <2>1, SumOfZeros
<1>10. Sum(On(f, N)) = Sum(On(f, A)) + Sum(On(f, B)) /\ On(f, N) = f
  <2>1. On(f, N) = f
    BY DEF On
  <2>2. Sum(On(f, A \cup B)) = Sum(On(f, A)) + Sum(On(f, B))
    <3>1. f \in [N -> Int]
      OBVIOUS
    <3> HIDE DEF N, A, B
    <3> QED BY <1>1, <3>1, SumOfUnion
  <2> HIDE DEF N, A, B
  <2> QED BY <1>1, <2>1, <2>2
<1>11. On(f, A) \in [A -> Int]
  BY <1>4 DEF On
<1>12. Sum(On(f, A)) \in Int
  <2> HIDE DEF A
  <2> QED BY <1>2, <1>11, SumType
<1> HIDE DEF N, A, B, R, h
<1> QED BY <1>7, <1>8, <1>9, <1>10, <1>12, SumFunctionIsSum

(* The ECE is the magnitudes of the excesses of all bins.                  *)
LEMMA EceIsSizes ==
  ASSUME NEW rows, NEW n, Batch(rows, n), NEW low
  PROVE  /\ Ece(rows, n, low) = Sum(PartSizes(Excess(rows), BinAt(rows, n, low), 0 .. (n - 1)))
         /\ PartSizes(Excess(rows), BinAt(rows, n, low), 0 .. (n - 1)) \in [0 .. (n - 1) -> Int]
<1> DEFINE f == PartSizes(Excess(rows), BinAt(rows, n, low), 0 .. (n - 1))
           g == [bin \in ReliabilityBins(rows, n, low) |-> Gap(bin)]
<1>1. f \in [0 .. (n - 1) -> Int]
  <2>1. f = [b \in 0 .. (n - 1) |-> f[b]]
    BY DEF PartSizes
  <2>2. \A b \in 0 .. (n - 1) : f[b] \in Nat
    BY BinFields
  <2> HIDE DEF f
  <2> QED BY <2>1, <2>2
<1>2. \A b \in Used(rows, n, low) :
        /\ BinRecord(rows, n, low, b) \in ReliabilityBins(rows, n, low)
        /\ b \in 0 .. (n - 1)
  BY BinsAreParts DEF Used
<1>3. \A b \in Used(rows, n, low) : g[BinRecord(rows, n, low, b)] = f[b]
  BY <1>2, BinFields
<1>4. \A b \in 0 .. (n - 1) : b \notin Used(rows, n, low) => f[b] = 0
  BY BinFields
<1>5. g = [bin \in ReliabilityBins(rows, n, low) |-> g[bin]]
  OBVIOUS
<1>6. Ece(rows, n, low) = SumFunction(g)
  BY DEF Ece
<1>7. SumFunction(g) = Sum(f)
  <2>1. OverBins(rows, n, low, f, g)
    <3> HIDE DEF f, g
    <3> QED BY <1>1, <1>3, <1>4, <1>5 DEF OverBins
  <2> HIDE DEF f, g
  <2> QED BY <2>1, SumOfBins
<1> HIDE DEF f, g
<1> QED BY <1>1, <1>6, <1>7 DEF f

(* Every row is counted in one bin.                                        *)
LEMMA EveryRowCounted ==
  ASSUME NEW rows, NEW n, Batch(rows, n), NEW low
  PROVE  /\ Sum(Counts(rows, n, low)) = Len(rows)
         /\ Counts(rows, n, low) \in [0 .. (n - 1) -> Int]
         /\ SumFunction([b \in ReliabilityBins(rows, n, low) |-> b.count]) = Len(rows)
<1> DEFINE k == BinAt(rows, n, low)
           N == 0 .. (n - 1)
           f == Counts(rows, n, low)
           g == [b \in ReliabilityBins(rows, n, low) |-> b.count]
           one == Ones(rows)
<1>1. /\ IsFiniteSet(DOMAIN rows) /\ IsFiniteSet(N) /\ k \in [DOMAIN rows -> N]
      /\ one \in [DOMAIN rows -> Int]
  BY BatchTypes
<1>2. Sum(one) = Len(rows)
  BY <1>1, BatchTypes, SumCounts DEF Ones
<1>3. Parts(one, k, N) = f
  <2>1. ASSUME NEW b \in N
        PROVE  Sum(On(one, Part(k, b))) = Cardinality(Part(k, b))
    <3> DEFINE U == Part(k, b)
    <3>1. U \in SUBSET DOMAIN rows
      <4> HIDE DEF k
      <4> QED BY <1>1 DEF Part
    <3>2. IsFiniteSet(U) /\ On(one, U) = [x \in U |-> 1]
      BY <1>1, <3>1, FS_Subset DEF On, Ones
    <3> HIDE DEF U
    <3>3. Sum(On(one, U)) = Cardinality(U)
      BY <3>2, SumCounts
    <3> QED BY <3>3 DEF U
  <2> HIDE DEF one
  <2> QED BY <2>1 DEF Parts, Counts, k
<1>4. Sum(one) = Sum(Parts(one, k, N))
  <2> HIDE DEF one, k, N
  <2> QED BY <1>1, SumByParts
<1>5. f \in [N -> Int]
  <2>1. \A b \in N : f[b] \in Nat
    BY BinFields
  <2>2. f = [b \in N |-> f[b]]
    BY DEF Counts
  <2> HIDE DEF f, N
  <2> QED BY <2>1, <2>2
<1>6. \A b \in Used(rows, n, low) :
        /\ BinRecord(rows, n, low, b) \in ReliabilityBins(rows, n, low)
        /\ b \in 0 .. (n - 1)
  BY BinsAreParts DEF Used
<1>7. \A b \in Used(rows, n, low) : g[BinRecord(rows, n, low, b)] = f[b]
  BY <1>6, BinFields
<1>8. \A b \in 0 .. (n - 1) : b \notin Used(rows, n, low) => f[b] = 0
  BY BinFields
<1>9. g = [b \in ReliabilityBins(rows, n, low) |-> g[b]]
  OBVIOUS
<1>10. SumFunction(g) = Sum(f)
  <2> HIDE DEF f, g
  <2>1. OverBins(rows, n, low, f, g)
    BY <1>5, <1>7, <1>8, <1>9 DEF OverBins
  <2> QED BY <2>1, SumOfBins
<1> QED BY <1>2, <1>3, <1>4, <1>5, <1>10

(* Ratios with positive denominators: gc/sc <= gb/sb < gx/sx.              *)
LEMMA RatioChain ==
  ASSUME NEW gc \in Nat, NEW gb \in Nat, NEW gx \in Nat,
         NEW sc \in Nat \ {0}, NEW sb \in Nat \ {0}, NEW sx \in Nat \ {0},
         gc * sb <= gb * sc, gb * sx < gx * sb
  PROVE  gc * sx <= gx * sc
<1>1. (gc * sb) * sx <= (gb * sc) * sx
  <2>1. \A x, y \in Nat : x <= y => x * sx <= y * sx
    OBVIOUS
  <2>2. gc * sb \in Nat /\ gb * sc \in Nat
    OBVIOUS
  <2> QED BY <2>1, <2>2
<1>2. (gb * sx) * sc <= (gx * sb) * sc
  <2>1. \A x, y \in Nat : x <= y => x * sc <= y * sc
    OBVIOUS
  <2>2. gb * sx \in Nat /\ gx * sb \in Nat
    OBVIOUS
  <2> QED BY <2>1, <2>2
<1>3. /\ (gb * sc) * sx = (gb * sx) * sc /\ (gc * sb) * sx = sb * (gc * sx)
      /\ (gx * sb) * sc = sb * (gx * sc)
      /\ (gb * sx) * sc \in Int /\ gc * sx \in Nat /\ gx * sc \in Nat
  OBVIOUS
<1>4. sb * (gc * sx) <= sb * (gx * sc)
  <2>1. sb * (gc * sx) \in Int /\ sb * (gx * sc) \in Int
    OBVIOUS
  <2> QED BY <1>1, <1>2, <1>3, <2>1
<1>5. \A x, y \in Nat : sb * x <= sb * y => x <= y
  OBVIOUS
<1> QED BY <1>3, <1>4, <1>5

(* Among bins that hold rows one has the largest gap per row.              *)
LEMMA WorstExists ==
  ASSUME NEW S, IsFiniteSet(S), S # {}, NEW gap \in [S -> Nat], NEW size \in [S -> Nat \ {0}]
  PROVE  \E b \in S : \A c \in S : gap[c] * size[b] <= gap[b] * size[c]
<1> DEFINE F == {U \in SUBSET S :
                   U # {} => \E b \in U : \A c \in U : gap[c] * size[b] <= gap[b] * size[c]}
<1>1. {} \in F
  OBVIOUS
<1>2. ASSUME NEW U \in SUBSET S, NEW x \in S \ U, U \in F
      PROVE  U \cup {x} \in F
  <2>1. CASE U = {}
    <3>1. gap[x] * size[x] <= gap[x] * size[x]
      OBVIOUS
    <3> QED BY <2>1, <3>1
  <2>2. CASE U # {}
    <3>1. PICK b \in U : \A c \in U : gap[c] * size[b] <= gap[b] * size[c]
      BY <1>2, <2>2
    <3>2. CASE gap[x] * size[b] <= gap[b] * size[x]
      BY <3>1, <3>2
    <3>3. CASE ~(gap[x] * size[b] <= gap[b] * size[x])
      <4>1. ASSUME NEW c \in U
            PROVE  gap[c] * size[x] <= gap[x] * size[c]
        <5> DEFINE gc == gap[c]
                   sc == size[c]
                   gb == gap[b]
                   sb == size[b]
                   gx == gap[x]
                   sx == size[x]
        <5>1. /\ gc \in Nat /\ gb \in Nat /\ gx \in Nat
              /\ sc \in Nat \ {0} /\ sb \in Nat \ {0} /\ sx \in Nat \ {0}
          OBVIOUS
        <5>2. gc * sb <= gb * sc /\ gb * sx < gx * sb
          <6>1. gb * sx \in Int /\ gx * sb \in Int
            OBVIOUS
          <6> QED BY <3>1, <3>3, <6>1
        <5> HIDE DEF gc, sc, gb, sb, gx, sx
        <5>3. gc * sx <= gx * sc
          BY <5>1, <5>2, RatioChain
        <5> QED BY <5>3 DEF gc, sc, gb, sb, gx, sx
      <4>2. gap[x] * size[x] <= gap[x] * size[x]
        OBVIOUS
      <4> QED BY <4>1, <4>2
    <3> QED BY <3>2, <3>3
  <2> QED BY <2>1, <2>2
<1>3. S \in F
  <2> HIDE DEF F
  <2> QED BY <1>1, <1>2, EveryFiniteSet
<1> QED BY <1>3

(* The ECE is at most the gap per row of the worst bin, times the rows.    *)
LEMMA WorstBounds ==
  ASSUME NEW rows, NEW n, Batch(rows, n), NEW low
  PROVE  LET worst == WorstBin(rows, n, low)
         IN  Ece(rows, n, low) * worst.count <= Gap(worst) * Len(rows)
<1> DEFINE N == 0 .. (n - 1)
           k == BinAt(rows, n, low)
           A == Used(rows, n, low)
           R == ReliabilityBins(rows, n, low)
           rec(b) == BinRecord(rows, n, low, b)
           z == PartSizes(Excess(rows), k, N)
           m == Counts(rows, n, low)
           worst == WorstBin(rows, n, low)
<1>1. /\ IsFiniteSet(N) /\ A \in SUBSET N /\ IsFiniteSet(A)
      /\ z \in [N -> Int] /\ m \in [N -> Int] /\ R = {rec(b) : b \in A}
      /\ Ece(rows, n, low) = Sum(z) /\ Sum(m) = Len(rows)
  <2>1. IsFiniteSet(N) /\ A \in SUBSET N
    BY BatchTypes DEF Used
  <2>2. IsFiniteSet(A)
    <3> HIDE DEF N, A
    <3> QED BY <2>1, FS_Subset
  <2>3. z \in [N -> Int] /\ Ece(rows, n, low) = Sum(z)
    BY EceIsSizes
  <2>4. m \in [N -> Int] /\ Sum(m) = Len(rows)
    BY EveryRowCounted
  <2>5. R = {rec(b) : b \in A}
    BY BinsAreParts
  <2> HIDE DEF N, A, R, rec, z, m
  <2> QED BY <2>1, <2>2, <2>3, <2>4, <2>5
<1>2. \A b \in N : /\ rec(b).bin = b /\ rec(b).count = m[b] /\ Gap(rec(b)) = z[b]
                   /\ m[b] \in Nat /\ z[b] \in Nat /\ (b \in A => m[b] > 0)
                   /\ (b \notin A => m[b] = 0 /\ z[b] = 0)
  BY BinFields
<1>3. A # {}
  <2>1. 1 \in DOMAIN rows /\ k \in [DOMAIN rows -> N]
    BY BatchTypes
  <2>2. k[1] \in N /\ 1 \in Part(k, k[1])
    BY <2>1 DEF Part
  <2>3. k[1] \in A
    BY <2>2 DEF Used
  <2> QED BY <2>3
<1> HIDE DEF N, A, R, rec, z, m, k
<1>4. \E b \in A : \A c \in A : z[c] * m[b] <= z[b] * m[c]
  <2> DEFINE gap == [b \in A |-> z[b]]
             size == [b \in A |-> m[b]]
  <2>1. gap \in [A -> Nat] /\ size \in [A -> Nat \ {0}]
    BY <1>1, <1>2
  <2>2. \A b \in A : gap[b] = z[b] /\ size[b] = m[b]
    OBVIOUS
  <2> HIDE DEF gap, size
  <2>3. \E b \in A : \A c \in A : gap[c] * size[b] <= gap[b] * size[c]
    BY <1>1, <1>3, <2>1, WorstExists
  <2> QED BY <2>2, <2>3
<1>5. \E r \in R : \A s \in R : Gap(s) * r.count <= Gap(r) * s.count
  <2>1. PICK b \in A : \A c \in A : z[c] * m[b] <= z[b] * m[c]
    BY <1>4
  <2>2. rec(b) \in R /\ rec(b).count = m[b] /\ Gap(rec(b)) = z[b]
    BY <1>1, <1>2
  <2>3. ASSUME NEW s \in R
        PROVE  Gap(s) * rec(b).count <= Gap(rec(b)) * s.count
    <3>1. PICK c \in A : s = rec(c)
      BY <1>1
    <3>2. s.count = m[c] /\ Gap(s) = z[c]
      BY <1>1, <1>2, <3>1
    <3> QED BY <2>1, <2>2, <3>2
  <2> QED BY <2>2, <2>3
<1>6. R # {} /\ worst = CHOOSE r \in R : \A s \in R : Gap(s) * r.count <= Gap(r) * s.count
  <2>1. R # {}
    BY <1>5
  <2> QED BY <2>1 DEF WorstBin, R
<1> HIDE DEF worst
<1>7. worst \in R /\ \A s \in R : Gap(s) * worst.count <= Gap(worst) * s.count
  BY <1>5, <1>6
<1>8. PICK w \in A : worst = rec(w)
  BY <1>1, <1>7
<1> DEFINE a == m[w]
           c == z[w]
<1>9. a = worst.count /\ c = Gap(worst) /\ a \in Nat /\ c \in Nat
  BY <1>1, <1>2, <1>8
<1>10. \A b \in N : a * z[b] <= c * m[b]
  <2> TAKE b \in N
  <2>1. CASE b \in A
    <3>1. rec(b) \in R
      BY <1>1, <2>1
    <3>2. z[b] * a <= c * m[b]
      BY <1>2, <1>7, <1>9, <3>1
    <3> HIDE DEF a, c
    <3> QED BY <1>2, <1>9, <3>2
  <2>2. CASE b \notin A
    <3>1. z[b] = 0 /\ m[b] = 0
      BY <1>2, <2>2
    <3> HIDE DEF a, c
    <3> QED BY <1>9, <3>1
  <2> QED BY <2>1, <2>2
<1> HIDE DEF a, c
<1>11. Sum(z) \in Int /\ Sum(m) \in Int /\ a * Sum(z) <= c * Sum(m)
  <2>1. a \in Int /\ c \in Int
    BY <1>9
  <2>2. IsFiniteSet(N) /\ z \in [N -> Int] /\ m \in [N -> Int]
    BY <1>1
  <2> QED BY <1>10, <2>1, <2>2, SumCompares
<1>12. a * Sum(z) = Sum(z) * a
  BY <1>9, <1>11
<1>13. Ece(rows, n, low) * worst.count <= Gap(worst) * Len(rows)
  BY <1>1, <1>9, <1>11, <1>12
<1> QED BY <1>13 DEF worst

(* The overall excess is at most the ECE: bins only hide cancellations.    *)
LEMMA OverallBelowEce ==
  ASSUME NEW rows, NEW n, Batch(rows, n), NEW low
  PROVE  Distance(Unit * Sum(Label(rows)), Sum(Conf(rows))) <= Ece(rows, n, low)
<1> DEFINE N == 0 .. (n - 1)
           k == BinAt(rows, n, low)
           d == Excess(rows)
           z == PartSizes(d, k, N)
           e == Parts(d, k, N)
           D == DOMAIN rows
<1>1. /\ IsFiniteSet(D) /\ IsFiniteSet(N) /\ k \in [D -> N] /\ d \in [D -> Int]
      /\ Ece(rows, n, low) = Sum(z) /\ z \in [N -> Int]
  BY BatchTypes, EceIsSizes
<1>2. Distance(Unit * Sum(Label(rows)), Sum(Conf(rows))) = Magnitude(Sum(d))
  <2>1. On(d, D) = d /\ On(Label(rows), D) = Label(rows) /\ On(Conf(rows), D) = Conf(rows)
    BY DEF On, Excess, Label, Conf
  <2>2. Distance(Unit * Sum(On(Label(rows), D)), Sum(On(Conf(rows), D)))
          = Magnitude(Sum(On(d, D)))
    BY ExcessOf
  <2> HIDE DEF d, D
  <2> QED BY <2>1, <2>2
<1>3. Sum(d) = Sum(e) /\ e \in [N -> Int]
  <2> HIDE DEF N, k, d, D
  <2> QED BY <1>1, SumByParts, PartType
<1>4. z = [b \in N |-> Magnitude(e[b])]
  BY DEF PartSizes, Parts
<1>5. Magnitude(Sum(e)) <= Sum([b \in N |-> Magnitude(e[b])])
  <2> HIDE DEF N, e
  <2> QED BY <1>1, <1>3, SumTriangle
<1> HIDE DEF N, k, d, z, e, D
<1> QED BY <1>1, <1>2, <1>3, <1>4, <1>5

(* The square of the ECE is at most the Brier score: the ECE is at most    *)
(* the mean deviation of a single row, whose square is at most the mean    *)
(* square.                                                                 *)
LEMMA EceBelowBrier ==
  ASSUME NEW rows, NEW n, Batch(rows, n), NEW low
  PROVE  Ece(rows, n, low) * Ece(rows, n, low) <= Len(rows) * Brier(rows)
<1> DEFINE N == 0 .. (n - 1)
           k == BinAt(rows, n, low)
           d == Excess(rows)
           D == DOMAIN rows
           z == PartSizes(d, k, N)
           a == [i \in D |-> Magnitude(d[i])]
           q == [i \in D |-> a[i] * a[i]]
           ece == Ece(rows, n, low)
<1>1. /\ IsFiniteSet(D) /\ IsFiniteSet(N) /\ k \in [D -> N] /\ d \in [D -> Int]
      /\ ece = Sum(z) /\ z \in [N -> Int] /\ Cardinality(D) = Len(rows)
  BY BatchTypes, EceIsSizes
<1>2. a \in [D -> Int] /\ \A i \in D : a[i] = Magnitude(d[i])
  BY <1>1 DEF Magnitude
<1>3. Brier(rows) = Sum(q)
  <2>1. \A i \in D : q[i] = (rows[i].p - Unit * rows[i].y) * (rows[i].p - Unit * rows[i].y)
    <3> TAKE i \in D
    <3> DEFINE x == rows[i].p
               y == Unit * rows[i].y
    <3>1. x \in Int /\ y \in Int /\ d[i] = y - x /\ q[i] = a[i] * a[i]
      <4>1. rows[i].p \in 0 .. Unit /\ rows[i].y \in {0, 1} /\ Unit \in Nat
        BY BatchTypes
      <4> QED BY <4>1 DEF Excess
    <3>2. a[i] = y - x \/ a[i] = x - y
      <4> HIDE DEF x, y, d, a
      <4> QED BY <1>2, <3>1 DEF Magnitude
    <3>3. (y - x) * (y - x) = (x - y) * (x - y)
      <4> HIDE DEF x, y
      <4> QED BY <3>1
    <3> HIDE DEF x, y, d, a, q
    <3>4. q[i] = (x - y) * (x - y)
      BY <3>1, <3>2, <3>3
    <3> QED BY <3>4 DEF x, y
  <2> DEFINE g == [i \in D |-> (rows[i].p - Unit * rows[i].y) * (rows[i].p - Unit * rows[i].y)]
  <2>2. q = g
    <3>1. DOMAIN q = D /\ DOMAIN g = D /\ \A i \in D : q[i] = g[i]
      BY <2>1
    <3>2. q = [i \in D |-> q[i]] /\ g = [i \in D |-> g[i]]
      OBVIOUS
    <3> HIDE DEF q, g
    <3> QED BY <3>1, <3>2
  <2>3. Brier(rows) = SumFunction(g)
    BY DEF Brier
  <2> HIDE DEF q, g
  <2> QED BY <2>2, <2>3, SumFunctionIsSum
<1>4. Sum(z) <= Sum(a)
  <2> DEFINE e == Parts(a, k, N)
  <2>1. e \in [N -> Int] /\ Sum(a) = Sum(e)
    <3> HIDE DEF N, k, a, D
    <3> QED BY <1>1, <1>2, SumByParts, PartType
  <2>2. ASSUME NEW b \in N
        PROVE  z[b] <= e[b]
    <3> DEFINE U == Part(k, b)
               dU == On(d, U)
    <3>1. U \in SUBSET D /\ IsFiniteSet(U) /\ dU \in [U -> Int]
      <4>1. U \in SUBSET D
        <5> HIDE DEF D, k
        <5> QED BY <1>1 DEF Part
      <4> HIDE DEF U, D, d
      <4> QED BY <1>1, <4>1, FS_Subset DEF On
    <3>2. Magnitude(Sum(dU)) <= Sum([x \in U |-> Magnitude(dU[x])])
      <4> HIDE DEF U, dU
      <4> QED BY <3>1, SumTriangle
    <3>3. [x \in U |-> Magnitude(dU[x])] = On(a, U)
      <4>1. \A x \in U : dU[x] = d[x] /\ a[x] = Magnitude(d[x])
        <5> HIDE DEF U, d, a
        <5> QED BY <1>2, <3>1 DEF On
      <4> HIDE DEF U, dU, a, d
      <4> QED BY <4>1 DEF On
    <3>4. z[b] = Magnitude(Sum(dU)) /\ e[b] = Sum(On(a, U))
      BY DEF PartSizes, Parts
    <3> HIDE DEF z, e, U, dU, a
    <3> QED BY <3>2, <3>3, <3>4
  <2> HIDE DEF N, z, e, a
  <2> QED BY <1>1, <1>2, <2>1, <2>2, SumAtMost
<1>5. Sum(a) * Sum(a) <= Len(rows) * Sum(q)
  <2>1. Sum(a) * Sum(a) <= Cardinality(D) * Sum(q)
    <3> HIDE DEF D, a
    <3> QED BY <1>1, <1>2, SquareOfSum
  <2> QED BY <1>1, <2>1
<1>6. Sum(z) \in Nat /\ Sum(a) \in Int
  <2>1. Sum(z) \in Int /\ Sum(a) \in Int
    <3> HIDE DEF N, z, a, D
    <3> QED BY <1>1, <1>2, SumType
  <2>2. 0 <= Sum(z)
    <3> DEFINE o == [b \in N |-> 0]
    <3>1. o \in [N -> Int] /\ \A b \in N : o[b] = 0
      OBVIOUS
    <3>2. \A b \in N : z[b] \in Nat
      BY BinFields
    <3>3. \A b \in N : o[b] <= z[b]
      <4> HIDE DEF z, N, o
      <4> QED BY <3>1, <3>2
    <3> HIDE DEF N, o, z
    <3>4. Sum(o) = 0 /\ Sum(o) <= Sum(z)
      BY <1>1, <3>1, <3>3, SumOfZeros, SumAtMost
    <3> QED BY <3>4
  <2> QED BY <2>1, <2>2
<1>7. Sum(z) * Sum(z) <= Sum(a) * Sum(a)
  <2> DEFINE u == Sum(z)
             v == Sum(a)
  <2>1. u \in Nat /\ v \in Nat /\ u <= v
    BY <1>4, <1>6
  <2> HIDE DEF u, v
  <2>2. u * u <= u * v /\ u * v <= v * v
    BY <2>1
  <2>3. u * u \in Int /\ u * v \in Int /\ v * v \in Int
    BY <2>1
  <2>4. u * u <= v * v
    BY <2>2, <2>3
  <2> QED BY <2>4 DEF u, v
<1>8. Sum(q) \in Int
  <2>1. q \in [D -> Int]
    <3>1. \A i \in D : a[i] * a[i] \in Int
      <4> HIDE DEF a
      <4> QED BY <1>2
    <3> QED BY <3>1
  <2> HIDE DEF q, D
  <2> QED BY <1>1, <2>1, SumType
<1>9. Len(rows) \in Int
  BY BatchTypes
<1> HIDE DEF z, a, q, ece
<1>10. Sum(z) * Sum(z) \in Int /\ Sum(a) * Sum(a) \in Int /\ Len(rows) * Sum(q) \in Int
  BY <1>6, <1>8, <1>9
<1>11. ece * ece <= Len(rows) * Sum(q)
  BY <1>1, <1>5, <1>7, <1>10
<1> QED BY <1>3, <1>11 DEF ece

(* Twice as many bins: every bin is cut in two.                            *)
LEMMA FinerEce ==
  ASSUME NEW rows, NEW n, Batch(rows, n), NEW low
  PROVE  Ece(rows, n, low) <= Ece(rows, 2 * n, low)
<1> DEFINE N == 0 .. (2 * n - 1)
           M == 0 .. (n - 1)
           D == DOMAIN rows
           k == BinAt(rows, 2 * n, low)
           l == BinAt(rows, n, low)
           m == [b \in N |-> b \div 2]
           d == Excess(rows)
<1>1. Batch(rows, 2 * n) /\ n \in Nat \ {0}
  BY DEF Batch
<1>2. /\ IsFiniteSet(D) /\ IsFiniteSet(N) /\ k \in [D -> N] /\ d \in [D -> Int]
      /\ Ece(rows, 2 * n, low) = Sum(PartSizes(d, k, N))
  BY <1>1, BatchTypes, EceIsSizes
<1>3. IsFiniteSet(M) /\ l \in [D -> M] /\ Ece(rows, n, low) = Sum(PartSizes(d, l, M))
  BY BatchTypes, EceIsSizes
<1>4. m \in [N -> M] /\ \A b \in N : m[b] = b \div 2
  <2>1. \A b \in N : b \div 2 \in M
    BY <1>1
  <2> HIDE DEF N, M
  <2> QED BY <2>1
<1>5. \A i \in D : l[i] = m[k[i]]
  <2> TAKE i \in D
  <2>1. rows[i].p \in 0 .. Unit
    BY BatchTypes
  <2>2. BinOf(rows[i].p, n, low) = BinOf(rows[i].p, 2 * n, low) \div 2
    BY <1>1, <2>1, BinHalves
  <2>3. l[i] = BinOf(rows[i].p, n, low) /\ k[i] = BinOf(rows[i].p, 2 * n, low)
    BY DEF BinAt
  <2>4. k[i] \in N
    BY <1>2
  <2> HIDE DEF l, k, m, N
  <2> QED BY <1>4, <2>2, <2>3, <2>4
<1>6. Sum(PartSizes(d, l, M)) <= Sum(PartSizes(d, k, N))
  <2> HIDE DEF N, M, D, k, l, m, d
  <2> QED BY <1>2, <1>3, <1>4, <1>5, SumCoarser
<1> QED BY <1>2, <1>3, <1>6

LEMMA BatchAnswer ==
  ASSUME TaskInv, ResultInv, Answered("score")
  PROVE  /\ Batch(Rows, task.input.bins) /\ DOMAIN Rows = DOMAIN task.input.rows
         /\ result.brier = Brier(Rows) /\ result.ece = Ece(Rows, task.input.bins, task.input.low)
         /\ result.mce.num = Gap(WorstBin(Rows, task.input.bins, task.input.low))
         /\ result.mce.den = WorstBin(Rows, task.input.bins, task.input.low).count
         /\ result.auroc = IF BothClasses(Rows)
                           THEN [num |-> Auroc(Rows),
                                 den |-> 2 * Cardinality(Positives(Rows))
                                           * (Len(Rows) - Cardinality(Positives(Rows)))]
                           ELSE NoAuroc
<1>1. /\ task.kind = "score" /\ result.status = "ok" /\ BatchShape(task.input)
      /\ task.via # "cli"
  BY DEF Answered, TaskInv, Kinds
<1>2. result # Pending /\ result # Invalid
  BY <1>1 DEF Pending, Invalid
<1>3. result = ScoreBatch(Rows, task.input.bins, task.input.low)
  BY <1>1, <1>2 DEF ResultInv, Computed, Rows
<1>4. ValidRows(Rows)
  BY <1>1, <1>3 DEF ScoreBatch
<1>5. List(Rows) /\ task.input.bins \in Nat \ {0}
  BY <1>1 DEF BatchShape, Rows
<1> QED BY <1>3, <1>4, <1>5 DEF ScoreBatch, Batch, Rows

(* Every row counts in one bin, which holds it; the ECE lies between the   *)
(* overall gap and the MCE, its square below the Brier score, and finer    *)
(* bins do not lower it; for any number of rows and bins.                  *)
THEOREM Bins == Spec => []BinsInv
<1>1. ASSUME IInv
      PROVE  BinsHoldRows
  <2> SUFFICES ASSUME Answered("score")
               PROVE  LET n == task.input.bins
                          bins == ReliabilityBins(Rows, n, task.input.low)
                      IN  /\ SumFunction([b \in bins |-> b.count]) = Len(Rows)
                          /\ \A i \in DOMAIN Rows :
                               LET b == BinOf(Rows[i].p, n, task.input.low)
                               IN  /\ b \in 0..(n - 1)
                                   /\ b * Unit <= n * Rows[i].p
                                   /\ n * Rows[i].p <= (b + 1) * Unit
    BY DEF BinsHoldRows
  <2>1. Batch(Rows, task.input.bins) /\ task.input.bins \in Nat \ {0}
    BY <1>1, BatchAnswer DEF IInv, Batch
  <2>2. \A i \in DOMAIN Rows : Rows[i].p \in 0 .. Unit
    BY <2>1, BatchTypes
  <2> QED BY <2>1, <2>2, EveryRowCounted, BinBounds
<1>2. ASSUME IInv
      PROVE  MetricsBracket /\ FinerBinsNeverHide
  <2> SUFFICES ASSUME Answered("score")
               PROVE  /\ Distance(Unit * Y(DOMAIN Rows), P(DOMAIN Rows)) <= result.ece
                      /\ result.ece * result.mce.den <= result.mce.num * Len(Rows)
                      /\ result.ece * result.ece <= Len(Rows) * result.brier
                      /\ Ece(Rows, 2 * task.input.bins, task.input.low) >= result.ece
    BY DEF MetricsBracket, FinerBinsNeverHide
  <2> DEFINE n == task.input.bins
             low == task.input.low
             worst == WorstBin(Rows, n, low)
  <2>1. /\ Batch(Rows, n) /\ result.ece = Ece(Rows, n, low) /\ result.brier = Brier(Rows)
        /\ result.mce.num = Gap(worst) /\ result.mce.den = worst.count
    BY <1>2, BatchAnswer DEF IInv
  <2>2. Y(DOMAIN Rows) = Sum(Label(Rows)) /\ P(DOMAIN Rows) = Sum(Conf(Rows))
    BY SumFunctionIsSum DEF Y, P, Label, Conf
  <2>3. Ece(Rows, n, low) <= Ece(Rows, 2 * n, low)
    BY <2>1, FinerEce
  <2> HIDE DEF n, low, worst
  <2>5. Distance(Unit * Y(DOMAIN Rows), P(DOMAIN Rows)) <= Ece(Rows, n, low)
    BY <2>1, <2>2, OverallBelowEce
  <2>6. Ece(Rows, n, low) * worst.count <= Gap(worst) * Len(Rows)
    BY <2>1, WorstBounds DEF worst
  <2>7. Ece(Rows, n, low) * Ece(Rows, n, low) <= Len(Rows) * Brier(Rows)
    BY <2>1, EceBelowBrier
  <2> QED BY <2>1, <2>3, <2>5, <2>6, <2>7 DEF n, low, worst
<1>3. IInv => BinsHoldRows /\ MetricsBracket /\ FinerBinsNeverHide
  BY <1>1, <1>2
<1>4. TypeOK /\ BinsHoldRows /\ MetricsBracket /\ FinerBinsNeverHide => BinsInv
  BY DEF BinsInv
<1> QED BY <1>3, <1>4, Invariance, TypeCorrect, PTL

-------------------------------------------------------------------------------
(***************************************************************************)
(* Ranks                                                                   *)
(***************************************************************************)

LEMMA FewerRows ==
  ASSUME NEW S, IsFiniteSet(S), NEW A, NEW B, A \subseteq B, B \subseteq S
  PROVE  /\ IsFiniteSet(A) /\ IsFiniteSet(B) /\ Cardinality(A) \in Nat /\ Cardinality(B) \in Nat
         /\ Cardinality(A) <= Cardinality(B)
         /\ A # B => Cardinality(A) < Cardinality(B)
<1>1. IsFiniteSet(B)
  BY FS_Subset
<1>2. IsFiniteSet(A) /\ Cardinality(A) <= Cardinality(B)
      /\ (Cardinality(B) = Cardinality(A) => B = A)
  BY <1>1, FS_Subset
<1>3. Cardinality(A) \in Nat /\ Cardinality(B) \in Nat
  BY <1>1, <1>2, FS_CardinalityType
<1> QED BY <1>1, <1>2, <1>3

(* The order has every row once, the k-th after k - 1 others.              *)
LEMMA OrderSorts ==
  ASSUME NEW rows, NEW n, Batch(rows, n)
  PROVE  LET D == DOMAIN rows
             o == Order(rows)
         IN  /\ o \in [D -> D] /\ (\A k, l \in D : o[k] = o[l] => k = l)
             /\ (\A i \in D : \E k \in D : o[k] = i)
             /\ \A k \in D : Cardinality(Ahead(rows, o[k])) = k - 1
<1> DEFINE D == DOMAIN rows
           m == Len(rows)
           o == Order(rows)
           place == [i \in D |-> Cardinality(Ahead(rows, i)) + 1]
<1>1. /\ IsFiniteSet(D) /\ D = 1 .. m /\ m \in Nat \ {0} /\ Cardinality(D) = m
      /\ \A i \in D : rows[i].p \in Int
  BY BatchTypes
<1>2. \A i, j \in D : i # j => RowBefore(rows, i, j) \/ RowBefore(rows, j, i)
  BY <1>1 DEF RowBefore
<1>3. ASSUME NEW i \in D, NEW j \in D, RowBefore(rows, i, j)
      PROVE  Cardinality(Ahead(rows, i)) < Cardinality(Ahead(rows, j))
  <2>1. Ahead(rows, i) \subseteq Ahead(rows, j) /\ i \in Ahead(rows, j) /\ i \notin Ahead(rows, i)
    BY <1>1, <1>3 DEF Ahead, RowBefore
  <2>2. Ahead(rows, j) \subseteq D
    BY DEF Ahead
  <2> QED BY <1>1, <2>1, <2>2, FewerRows
<1>4. \A i \in D : Cardinality(Ahead(rows, i)) \in Nat /\ Cardinality(Ahead(rows, i)) < m
  <2> TAKE i \in D
  <2>1. Ahead(rows, i) \subseteq D /\ Ahead(rows, i) # D
    BY <1>1 DEF Ahead, RowBefore
  <2> HIDE DEF D
  <2> QED BY <1>1, <2>1, FewerRows
<1>5. place \in [D -> D] /\ \A i \in D : place[i] = Cardinality(Ahead(rows, i)) + 1
  <2>1. \A i \in D : Cardinality(Ahead(rows, i)) + 1 \in D
    BY <1>1, <1>4
  <2> HIDE DEF D
  <2> QED BY <2>1
<1> HIDE DEF place
<1>6. ASSUME NEW i \in D, NEW j \in D, place[i] = place[j]
      PROVE  i = j
  BY <1>2, <1>3, <1>4, <1>5, <1>6
<1>7. place \in Injection(D, D)
  <2>1. IsInjective(place)
    BY <1>5, <1>6 DEF IsInjective
  <2> QED BY <1>5, <2>1 DEF Injection
<1>8. \A k \in D : \E i \in D : place[i] = k
  <2>1. place \in Surjection(D, D)
    <3> HIDE DEF D
    <3> QED BY <1>1, <1>7, FS_Injection
  <2> QED BY <2>1 DEF Surjection
<1>9. \A k \in D : o[k] \in D /\ Cardinality(Ahead(rows, o[k])) = k - 1
  <2> TAKE k \in D
  <2>1. \E i \in D : Cardinality(Ahead(rows, i)) = k - 1
    <3>1. PICK i \in D : place[i] = k
      BY <1>8
    <3>2. k = Cardinality(Ahead(rows, i)) + 1 /\ Cardinality(Ahead(rows, i)) \in Nat
      BY <1>4, <1>5, <3>1
    <3> QED BY <3>2
  <2>2. o[k] = CHOOSE i \in D : Cardinality(Ahead(rows, i)) = k - 1
    BY DEF Order
  <2> HIDE DEF o, D
  <2> QED BY <2>1, <2>2
<1>10. o \in [D -> D]
  <2>1. o = [k \in D |-> o[k]]
    BY DEF Order
  <2> HIDE DEF o, D
  <2> QED BY <1>9, <2>1
<1>11. \A k \in D : place[o[k]] = k
  <2> TAKE k \in D
  <2>1. place[o[k]] = Cardinality(Ahead(rows, o[k])) + 1 /\ k \in Int
    BY <1>1, <1>5, <1>9
  <2> QED BY <1>9, <2>1
<1>12. \A k, l \in D : o[k] = o[l] => k = l
  BY <1>11
<1>13. \A i \in D : \E k \in D : o[k] = i
  <2> TAKE i \in D
  <2>1. place[i] \in D /\ place[o[place[i]]] = place[i] /\ o[place[i]] \in D
    BY <1>5, <1>10, <1>11
  <2> QED BY <1>6, <2>1
<1> QED BY <1>9, <1>10, <1>12, <1>13

(* Matching sets have one size.                                            *)
LEMMA MatchedSize ==
  ASSUME NEW S, IsFiniteSet(S), NEW T, NEW h, h \in [S -> T],
         \A x, y \in S : h[x] = h[y] => x = y, \A t \in T : \E x \in S : h[x] = t
  PROVE  IsFiniteSet(T) /\ Cardinality(T) = Cardinality(S)
<1>1. h \in Bijection(S, T)
  BY DEF Bijection, Injection, Surjection, IsInjective
<1> QED BY <1>1, FS_Bijection DEF ExistsBijection

(* Twice the rank of a row, averaged over its ties: the rows below it      *)
(* count twice, those of its score once.                                   *)
Lower(rows, i) == {j \in DOMAIN rows : rows[j].p < rows[i].p}
Tied(rows, i) == {j \in DOMAIN rows : rows[j].p = rows[i].p}

LEMMA RankCounts ==
  ASSUME NEW rows, NEW n, Batch(rows, n), NEW k \in DOMAIN rows
  PROVE  DoubleRank(rows, Order(rows), k)
           = 2 * Cardinality(Lower(rows, Order(rows)[k]))
               + Cardinality(Tied(rows, Order(rows)[k])) + 1
<1> DEFINE D == DOMAIN rows
           o == Order(rows)
           i == o[k]
           A == Lower(rows, i)
           B == Tied(rows, i)
           L == Cardinality(A)
           N == Cardinality(B)
           run == {j \in D : rows[o[j]].p = rows[i].p}
           all == (L + 1) .. (L + N)
<1>1. /\ o \in [D -> D] /\ (\A j, l \in D : o[j] = o[l] => j = l)
      /\ (\A r \in D : \E j \in D : o[j] = r)
      /\ \A j \in D : Cardinality(Ahead(rows, o[j])) = j - 1
  BY OrderSorts
<1>2. IsFiniteSet(D) /\ D \subseteq Int /\ (\A r \in D : rows[r].p \in Int)
  BY BatchTypes
<1> HIDE DEF o
<1>3. /\ i \in D /\ A \subseteq D /\ B \subseteq D /\ A \cap B = {} /\ i \in B
      /\ IsFiniteSet(A) /\ IsFiniteSet(B) /\ L \in Nat /\ N \in Nat /\ N > 0
  <2>1. i \in D
    BY <1>1
  <2>2. A \subseteq D /\ B \subseteq D /\ A \cap B = {} /\ i \in B
    BY <1>2, <2>1 DEF Lower, Tied
  <2> HIDE DEF A, B, D, i
  <2>3. IsFiniteSet(A) /\ IsFiniteSet(B) /\ L \in Nat /\ N \in Nat
    BY <1>2, <2>2, FewerRows
  <2>4. N # 0
    BY <2>2, <2>3, FS_EmptySet
  <2> QED BY <2>1, <2>2, <2>3, <2>4
<1>4. Cardinality(A \cup B) = L + N /\ IsFiniteSet(A \cup B)
  <2> HIDE DEF A, B
  <2>1. Cardinality(A \cup B) = L + N - Cardinality(A \cap B) /\ IsFiniteSet(A \cup B)
    BY <1>3, FS_Union
  <2>2. Cardinality(A \cap B) = 0
    BY <1>3, FS_EmptySet
  <2> QED BY <1>3, <2>1, <2>2
<1>5. ASSUME NEW r \in B
      PROVE  Cardinality(Ahead(rows, r)) \in L .. (L + N - 1)
  <2> DEFINE C == Ahead(rows, r)
             U == (A \cup B) \ {r}
  <2>1. A \subseteq C /\ C \subseteq U
    BY <1>2, <1>3 DEF Ahead, RowBefore, Lower, Tied
  <2>2. Cardinality(U) = L + N - 1 /\ IsFiniteSet(U)
    <3> DEFINE W == A \cup B
    <3> HIDE DEF A, B
    <3>1. r \in W /\ IsFiniteSet(W) /\ Cardinality(W) = L + N
      BY <1>4
    <3> HIDE DEF W, L, N
    <3>2. IsFiniteSet(W \ {r}) /\ Cardinality(W \ {r}) = Cardinality(W) - 1
      BY <3>1, FS_RemoveElement
    <3>3. U = W \ {r}
      BY DEF W
    <3> HIDE DEF U
    <3> QED BY <1>3, <3>1, <3>2, <3>3
  <2> HIDE DEF A, B, C, U
  <2>3. L <= Cardinality(C) /\ Cardinality(C) <= Cardinality(U) /\ Cardinality(C) \in Nat
    BY <2>1, <2>2, FewerRows
  <2> QED BY <1>3, <2>2, <2>3 DEF C
<1>6. run \subseteq all
  <2>1. ASSUME NEW j \in run
        PROVE  j \in all
    <3>1. j \in D /\ o[j] \in B
      BY <1>1 DEF Tied
    <3>2. Cardinality(Ahead(rows, o[j])) \in L .. (L + N - 1)
          /\ Cardinality(Ahead(rows, o[j])) = j - 1 /\ j \in Int
      BY <1>1, <1>2, <1>5, <3>1
    <3> HIDE DEF A, B, run, D, i
    <3> QED BY <1>3, <3>2
  <2> QED BY <2>1
<1>7. IsFiniteSet(run) /\ Cardinality(run) = N
  <2> DEFINE h == [j \in run |-> o[j]]
  <2>1. IsFiniteSet(run)
    BY <1>2, FS_Subset
  <2>2. h \in [run -> B]
    BY <1>1 DEF Tied
  <2>3. \A x, y \in run : h[x] = h[y] => x = y
    BY <1>1
  <2>4. \A t \in B : \E x \in run : h[x] = t
    <3> TAKE t \in B
    <3>1. t \in D /\ rows[t].p = rows[i].p
      BY DEF Tied
    <3>2. PICK x \in D : o[x] = t
      BY <1>1, <3>1
    <3> QED BY <3>1, <3>2
  <2> HIDE DEF h, run, B
  <2> QED BY <2>1, <2>2, <2>3, <2>4, MatchedSize
<1>8. run = all
  <2>1. IsFiniteSet(all) /\ Cardinality(all) = N
    <3> HIDE DEF A, B
    <3>1. L + 1 \in Int /\ L + N \in Int /\ ~(L + 1 > L + N) /\ (L + N) - (L + 1) + 1 = N
      BY <1>3
    <3> QED BY <3>1, FS_Interval
  <2> HIDE DEF run, all
  <2> QED BY <1>6, <1>7, <2>1, FS_Subset
<1>9. Min(all) = L + 1 /\ Max(all) = L + N
  <2> HIDE DEF A, B, L, N
  <2>1. L + 1 \in all /\ L + N \in all /\ \A y \in all : L + 1 <= y /\ L + N >= y
    BY <1>3
  <2>2. \A x \in all : (\A y \in all : x <= y) => x = L + 1
    BY <1>3, <2>1
  <2>3. \A x \in all : (\A y \in all : x >= y) => x = L + N
    BY <1>3, <2>1
  <2>4. Min(all) = L + 1
    <3> HIDE DEF all
    <3> QED BY <2>1, <2>2 DEF Min
  <2>5. Max(all) = L + N
    <3> HIDE DEF all
    <3> QED BY <2>1, <2>3 DEF Max
  <2> QED BY <2>4, <2>5
<1>10. DoubleRank(rows, o, k) = Min(run) + Max(run)
  <2>1. DOMAIN o = D
    BY <1>1
  <2> QED BY <2>1 DEF DoubleRank
<1> HIDE DEF A, B, run, all
<1>11. DoubleRank(rows, o, k) = 2 * L + N + 1
  BY <1>3, <1>8, <1>9, <1>10
<1> QED BY <1>11 DEF o, A, B

(* Counting pairs by their first half, by induction in SumByParts.         *)
CountsPairs(f, A, B, Q) ==
  /\ Q \in SUBSET (A \X B)
  /\ f = [i \in A |-> Cardinality({j \in B : <<i, j>> \in Q})]

LEMMA PairsByFirst ==
  ASSUME NEW A, IsFiniteSet(A), NEW B, IsFiniteSet(B), NEW Q, NEW f, CountsPairs(f, A, B, Q)
  PROVE  Sum(f) = Cardinality(Q) /\ IsFiniteSet(Q) /\ f \in [A -> Nat]
<1> USE DEF CountsPairs
<1> DEFINE one == [x \in Q |-> 1]
           k == [x \in Q |-> x[1]]
           row(i) == {j \in B : <<i, j>> \in Q}
<1>1. IsFiniteSet(Q)
  <2>1. IsFiniteSet(A \X B)
    BY FS_Product
  <2> QED BY <2>1, FS_Subset
<1>2. one \in [Q -> Int] /\ k \in [Q -> A] /\ Sum(one) = Cardinality(Q)
  BY <1>1, SumCounts
<1>3. Sum(one) = Sum(Parts(one, k, A))
  <2> HIDE DEF one, k
  <2> QED BY <1>1, <1>2, SumByParts
<1>4. ASSUME NEW i \in A
      PROVE  Sum(On(one, Part(k, i))) = Cardinality(row(i)) /\ Cardinality(row(i)) \in Nat
  <2> DEFINE U == Part(k, i)
             R == row(i)
             h == [j \in R |-> <<i, j>>]
  <2>1. U = {x \in Q : x[1] = i}
    BY DEF Part
  <2>2. IsFiniteSet(U) /\ IsFiniteSet(R)
    <3>1. U \subseteq Q /\ R \subseteq B
      BY <2>1
    <3> HIDE DEF U, R
    <3> QED BY <1>1, <3>1, FS_Subset
  <2>3. h \in [R -> U] /\ \A x, y \in R : h[x] = h[y] => x = y
    BY <2>1
  <2>4. \A t \in U : \E x \in R : h[x] = t
    <3> TAKE t \in U
    <3>1. t \in Q /\ t[1] = i
      BY <2>1
    <3>2. t[2] \in B /\ t = <<i, t[2]>>
      BY <3>1
    <3>3. t[2] \in R /\ h[t[2]] = t
      BY <3>1, <3>2
    <3> QED BY <3>3
  <2>5. Cardinality(U) = Cardinality(R)
    <3> HIDE DEF U, R, h
    <3> QED BY <2>2, <2>3, <2>4, MatchedSize
  <2>6. On(one, U) = [x \in U |-> 1]
    BY <2>1 DEF On
  <2>7. Sum(On(one, U)) = Cardinality(U)
    <3> HIDE DEF U, one
    <3> QED BY <2>2, <2>6, SumCounts
  <2> HIDE DEF R
  <2>8. Cardinality(R) \in Nat
    BY <2>2, FS_CardinalityType
  <2> QED BY <2>5, <2>7, <2>8 DEF R
<1>5. Parts(one, k, A) = f
  <2> HIDE DEF one, k
  <2> QED BY <1>4 DEF Parts
<1>6. f \in [A -> Nat]
  BY <1>4
<1> QED BY <1>1, <1>2, <1>3, <1>5, <1>6

(* Pairs of rows, the first of a higher score than the second, and of the  *)
(* same.                                                                   *)
Over(rows, A, B) == {x \in A \X B : rows[x[1]].p > rows[x[2]].p}
Even(rows, A, B) == {x \in A \X B : rows[x[1]].p = rows[x[2]].p}

LEMMA DisjointUnion ==
  ASSUME NEW S, IsFiniteSet(S), NEW T, IsFiniteSet(T), S \cap T = {}
  PROVE  /\ IsFiniteSet(S \cup T) /\ Cardinality(S) \in Nat /\ Cardinality(T) \in Nat
         /\ Cardinality(S \cup T) = Cardinality(S) + Cardinality(T)
<1>1. IsFiniteSet(S \cup T) /\ Cardinality(S \cup T) = Cardinality(S) + Cardinality(T) - Cardinality(S \cap T)
  BY FS_Union
<1>2. Cardinality(S \cap T) = 0
  BY FS_EmptySet
<1>3. Cardinality(S) \in Nat /\ Cardinality(T) \in Nat
  BY FS_CardinalityType
<1> QED BY <1>1, <1>2, <1>3

(* Within one set of rows, every pair and its mirror image add one.        *)
LEMMA PairsWithin ==
  ASSUME NEW rows, NEW A, IsFiniteSet(A), \A i \in A : rows[i].p \in Int
  PROVE  /\ Cardinality(Over(rows, A, A)) \in Nat /\ Cardinality(Even(rows, A, A)) \in Nat
         /\ 2 * Cardinality(Over(rows, A, A)) + Cardinality(Even(rows, A, A))
              = Cardinality(A) * Cardinality(A)
<1> DEFINE O == Over(rows, A, A)
           E == Even(rows, A, A)
           U == {x \in A \X A : rows[x[1]].p < rows[x[2]].p}
           h == [x \in O |-> <<x[2], x[1]>>]
<1>1. IsFiniteSet(A \X A) /\ Cardinality(A \X A) = Cardinality(A) * Cardinality(A)
  BY FS_Product
<1>2. IsFiniteSet(O) /\ IsFiniteSet(E) /\ IsFiniteSet(U)
  <2>1. O \subseteq A \X A /\ E \subseteq A \X A /\ U \subseteq A \X A
    BY DEF Over, Even
  <2> HIDE DEF O, E, U
  <2> QED BY <1>1, <2>1, FS_Subset
<1>3. Cardinality(U) = Cardinality(O)
  <2>1. h \in [O -> U]
    BY DEF Over
  <2>2. \A x, y \in O : h[x] = h[y] => x = y
    BY DEF Over
  <2>3. \A t \in U : \E x \in O : h[x] = t
    <3> TAKE t \in U
    <3>1. <<t[2], t[1]>> \in O
      BY DEF Over
    <3>2. h[<<t[2], t[1]>>] = t
      BY <3>1
    <3> QED BY <3>1, <3>2
  <2> HIDE DEF O, U, h
  <2> QED BY <1>2, <2>1, <2>2, <2>3, MatchedSize
<1>4. /\ O \cap U = {} /\ (O \cup U) \cap E = {} /\ (O \cup U) \cup E = A \X A
  BY DEF Over, Even
<1> HIDE DEF O, E, U
<1>5. Cardinality(O \cup U) = Cardinality(O) + Cardinality(U) /\ IsFiniteSet(O \cup U)
      /\ Cardinality(O) \in Nat
  BY <1>2, <1>4, DisjointUnion
<1>6. Cardinality((O \cup U) \cup E) = Cardinality(O \cup U) + Cardinality(E) /\ Cardinality(E) \in Nat
  BY <1>2, <1>4, <1>5, DisjointUnion
<1>7. Cardinality(A \X A) = 2 * Cardinality(O) + Cardinality(E)
  <2>1. Cardinality(A \X A) = Cardinality((O \cup U) \cup E)
    BY <1>4
  <2> QED BY <1>3, <1>5, <1>6, <2>1
<1> QED BY <1>1, <1>5, <1>6, <1>7 DEF O, E

(* The ranks of the positive rows, summed up.                              *)
LEMMA RankSum ==
  ASSUME NEW rows, NEW n, Batch(rows, n)
  PROVE  LET D == DOMAIN rows
             A == Positives(rows)
         IN  Auroc(rows) = 2 * Cardinality(Over(rows, A, D)) + Cardinality(Even(rows, A, D))
                             + Cardinality(A) - Cardinality(A) * (Cardinality(A) + 1)
<1> DEFINE D == DOMAIN rows
           A == Positives(rows)
           o == Order(rows)
           pos == {k \in D : o[k] \in A}
           f == [k \in pos |-> DoubleRank(rows, o, k)]
           lo == [i \in A |-> Cardinality({j \in D : <<i, j>> \in Over(rows, A, D)})]
           ev == [i \in A |-> Cardinality({j \in D : <<i, j>> \in Even(rows, A, D)})]
           one == [i \in A |-> 1]
           g == [i \in A |-> 2 * lo[i] + ev[i] + 1]
           h == [k \in pos |-> o[k]]
<1>1. /\ o \in [D -> D] /\ (\A k, l \in D : o[k] = o[l] => k = l)
      /\ (\A i \in D : \E k \in D : o[k] = i)
  BY OrderSorts
<1>2. IsFiniteSet(D) /\ A \subseteq D /\ IsFiniteSet(A) /\ IsFiniteSet(pos)
      /\ \A i \in D : rows[i].p \in Int
  <2>1. IsFiniteSet(D) /\ \A i \in D : rows[i].p \in Int
    BY BatchTypes
  <2>2. A \subseteq D
    BY DEF Positives
  <2> QED BY <2>1, <2>2, FS_Subset
<1>3. /\ Sum(lo) = Cardinality(Over(rows, A, D)) /\ lo \in [A -> Nat]
      /\ Sum(ev) = Cardinality(Even(rows, A, D)) /\ ev \in [A -> Nat]
  <2>1. CountsPairs(lo, A, D, Over(rows, A, D)) /\ CountsPairs(ev, A, D, Even(rows, A, D))
    BY DEF CountsPairs, Over, Even
  <2> HIDE DEF A, D, lo, ev
  <2> QED BY <1>2, <2>1, PairsByFirst
<1>4. \A i \in A : lo[i] = Cardinality(Lower(rows, i)) /\ ev[i] = Cardinality(Tied(rows, i))
  <2> TAKE i \in A
  <2>1. {j \in D : <<i, j>> \in Over(rows, A, D)} = Lower(rows, i)
    BY <1>2 DEF Over, Lower
  <2>2. {j \in D : <<i, j>> \in Even(rows, A, D)} = Tied(rows, i)
    BY DEF Even, Tied
  <2> QED BY <2>1, <2>2
<1>5. g \in [A -> Int] /\ \A i \in A : g[i] = 2 * lo[i] + ev[i] + 1
  <2> HIDE DEF lo, ev, A
  <2> QED BY <1>3
<1>6. h \in [pos -> A] /\ A = {h[k] : k \in pos} /\ \A k, l \in pos : h[k] = h[l] => k = l
  <2>1. h \in [pos -> A] /\ \A k, l \in pos : h[k] = h[l] => k = l
    BY <1>1
  <2>2. \A i \in A : \E k \in pos : h[k] = i
    <3> TAKE i \in A
    <3>1. PICK k \in D : o[k] = i
      BY <1>1, <1>2
    <3> QED BY <3>1
  <2> HIDE DEF h, pos, A
  <2> QED BY <2>1, <2>2
<1>7. \A k \in pos : f[k] = g[h[k]]
  <2> TAKE k \in pos
  <2>1. h[k] = o[k] /\ o[k] \in A /\ f[k] = DoubleRank(rows, o, k) /\ k \in D
    OBVIOUS
  <2>2. DoubleRank(rows, o, k)
          = 2 * Cardinality(Lower(rows, o[k])) + Cardinality(Tied(rows, o[k])) + 1
    BY <2>1, RankCounts
  <2> HIDE DEF f, g, h, o, lo, ev, A
  <2> QED BY <1>4, <1>5, <2>1, <2>2
<1>8. Sum(f) = Sum(g)
  <2>1. f \in [pos -> Int]
    <3> HIDE DEF g, h, A
    <3>1. \A k \in pos : f[k] \in Int
      BY <1>5, <1>6, <1>7, ZenonT(60)
    <3> HIDE DEF pos, o
    <3> QED BY <3>1
  <2>2. Matches(f, g, h, pos, A)
    <3> HIDE DEF f, g, h, pos, A
    <3> QED BY <1>5, <1>6, <1>7, <2>1 DEF Matches
  <2> HIDE DEF f, g, h, pos, A
  <2> QED BY <1>2, <2>2, SumMatches
<1>9. Cardinality(pos) = Cardinality(A) /\ Cardinality(A) \in Nat
  <2>1. \A t \in A : \E k \in pos : h[k] = t
    <3> HIDE DEF h, pos, A
    <3> QED BY <1>6
  <2> HIDE DEF h, pos, A
  <2>2. Cardinality(pos) = Cardinality(A)
    BY <1>2, <1>6, <2>1, MatchedSize
  <2> QED BY <1>2, <2>2, FS_CardinalityType
<1>10. Sum(g) = 2 * Sum(lo) + Sum(ev) + Cardinality(A) /\ Sum(lo) \in Int /\ Sum(ev) \in Int
  <2> DEFINE d == [i \in A |-> 2 * lo[i]]
             e == [i \in A |-> d[i] + ev[i]]
  <2>1. /\ d \in [A -> Int] /\ (\A i \in A : d[i] = 2 * lo[i])
        /\ lo \in [A -> Int] /\ ev \in [A -> Int]
    <3> HIDE DEF lo, ev, A
    <3> QED BY <1>3
  <2>2. e \in [A -> Int] /\ \A i \in A : e[i] = d[i] + ev[i]
    <3> HIDE DEF d, ev, A
    <3> QED BY <2>1
  <2>3. one \in [A -> Int] /\ Sum(one) = Cardinality(A)
    BY <1>2, SumCounts
  <2>4. Sum(d) = 2 * Sum(lo)
    <3> HIDE DEF d, lo, A
    <3> QED BY <1>2, <2>1, SumScales
  <2>5. Sum(e) = Sum(d) + Sum(ev)
    <3> HIDE DEF d, ev, A
    <3> QED BY <1>2, <2>1, SumAdds
  <2>6. Sum([i \in A |-> e[i] + one[i]]) = Sum(e) + Sum(one)
    <3> HIDE DEF e, one, A
    <3> QED BY <1>2, <2>2, <2>3, SumAdds
  <2>7. [i \in A |-> e[i] + one[i]] = g
    <3>1. \A i \in A : e[i] + one[i] = g[i]
      <4> HIDE DEF d, e, g, lo, ev, A
      <4> QED BY <1>5, <2>1, <2>2
    <3> DEFINE s == [i \in A |-> e[i] + one[i]]
    <3>2. s \in [A -> Int] /\ \A i \in A : s[i] = e[i] + one[i]
      <4> HIDE DEF e, one, A
      <4> QED BY <2>2, <2>3
    <3>3. s = g
      <4> HIDE DEF s, g, e, one, A
      <4> QED BY <1>5, <3>1, <3>2
    <3> QED BY <3>3
  <2>8. Sum(lo) \in Int /\ Sum(ev) \in Int
    <3> HIDE DEF lo, ev, A
    <3> QED BY <1>2, <2>1, SumType
  <2> HIDE DEF d, e, g, lo, ev, one, A
  <2> QED BY <1>9, <2>3, <2>4, <2>5, <2>6, <2>7, <2>8
<1>11. Auroc(rows) = Sum(f) - Cardinality(pos) * (Cardinality(pos) + 1)
  <2>1. DOMAIN o = D
    BY <1>1
  <2>2. Auroc(rows) = SumFunction(f) - Cardinality(pos) * (Cardinality(pos) + 1)
    BY <2>1 DEF Auroc
  <2> HIDE DEF f, pos
  <2> QED BY <2>2, SumFunctionIsSum
<1> HIDE DEF D, A, o, pos, f, lo, ev, one, g, h
<1>12. Auroc(rows) = 2 * Cardinality(Over(rows, A, D)) + Cardinality(Even(rows, A, D))
                       + Cardinality(A) - Cardinality(A) * (Cardinality(A) + 1)
  BY <1>3, <1>8, <1>9, <1>10, <1>11
<1> QED BY <1>12 DEF A, D

LEMMA AurocCountsPairs ==
  ASSUME NEW rows, NEW n, Batch(rows, n)
  PROVE  LET A == Positives(rows)
             B == DOMAIN rows \ Positives(rows)
         IN  /\ Auroc(rows) = 2 * Cardinality(Over(rows, A, B)) + Cardinality(Even(rows, A, B))
             /\ 2 * Cardinality(A) * (Len(rows) - Cardinality(A)) = 2 * Cardinality(A \X B)
<1> DEFINE D == DOMAIN rows
           A == Positives(rows)
           B == D \ A
           a == Cardinality(A)
           oa == Cardinality(Over(rows, A, A))
           ob == Cardinality(Over(rows, A, B))
           ea == Cardinality(Even(rows, A, A))
           eb == Cardinality(Even(rows, A, B))
<1>1. /\ IsFiniteSet(D) /\ A \subseteq D /\ B \subseteq D /\ Cardinality(D) = Len(rows)
      /\ (\A i \in D : rows[i].p \in Int) /\ A \cap B = {} /\ A \cup B = D
  <2>1. IsFiniteSet(D) /\ Cardinality(D) = Len(rows) /\ (\A i \in D : rows[i].p \in Int)
    BY BatchTypes
  <2>2. A \subseteq D
    BY DEF Positives
  <2> HIDE DEF D, A
  <2> QED BY <2>1, <2>2
<1> HIDE DEF D, A, B
<1>2. IsFiniteSet(A) /\ IsFiniteSet(B) /\ a \in Nat /\ Cardinality(B) \in Nat
      /\ Len(rows) = a + Cardinality(B)
  <2>1. IsFiniteSet(A) /\ IsFiniteSet(B)
    BY <1>1, FS_Subset
  <2> QED BY <1>1, <2>1, DisjointUnion
<1>3. 2 * oa + ea = a * a /\ oa \in Nat /\ ea \in Nat
  <2>1. \A i \in A : rows[i].p \in Int
    BY <1>1
  <2> QED BY <1>2, <2>1, PairsWithin
<1>4. /\ Cardinality(Over(rows, A, D)) = oa + ob /\ ob \in Nat
      /\ Cardinality(Even(rows, A, D)) = ea + eb /\ eb \in Nat
  <2>1. IsFiniteSet(A \X A) /\ IsFiniteSet(A \X B)
    BY <1>2, FS_Product
  <2>2. /\ Over(rows, A, A) \subseteq A \X A /\ Over(rows, A, B) \subseteq A \X B
        /\ Even(rows, A, A) \subseteq A \X A /\ Even(rows, A, B) \subseteq A \X B
    BY DEF Over, Even
  <2>3. /\ IsFiniteSet(Over(rows, A, A)) /\ IsFiniteSet(Over(rows, A, B))
        /\ IsFiniteSet(Even(rows, A, A)) /\ IsFiniteSet(Even(rows, A, B))
    BY <2>1, <2>2, FS_Subset
  <2>4. (A \X A) \cap (A \X B) = {}
    BY <1>1
  <2>5. Over(rows, A, A) \cap Over(rows, A, B) = {} /\ Even(rows, A, A) \cap Even(rows, A, B) = {}
    BY <2>2, <2>4
  <2>6. /\ Over(rows, A, A) \cup Over(rows, A, B) = Over(rows, A, D)
        /\ Even(rows, A, A) \cup Even(rows, A, B) = Even(rows, A, D)
    BY <1>1 DEF Over, Even
  <2> QED BY <2>3, <2>5, <2>6, DisjointUnion
<1>5. Auroc(rows) = 2 * Cardinality(Over(rows, A, D)) + Cardinality(Even(rows, A, D))
                      + a - a * (a + 1)
  BY RankSum DEF A, D
<1>6. a * (a + 1) = a * a + a /\ a * a \in Int
  BY <1>2
<1> HIDE DEF a, oa, ob, ea, eb
<1>7. Auroc(rows) = 2 * ob + eb
  BY <1>2, <1>3, <1>4, <1>5, <1>6
<1>8. 2 * a * (Len(rows) - a) = 2 * Cardinality(A \X B)
  <2>1. Cardinality(A \X B) = a * Cardinality(B)
    BY <1>2, FS_Product DEF a
  <2>2. Len(rows) - a = Cardinality(B)
    BY <1>2
  <2> DEFINE b == Cardinality(B)
  <2> HIDE DEF b
  <2>3. b \in Nat /\ 2 * a * b = 2 * (a * b)
    BY <1>2 DEF b
  <2> QED BY <2>1, <2>2, <2>3 DEF b
<1> QED BY <1>7, <1>8 DEF a, ob, eb, A, B, D

(* The rank formula counts the pairs in which the positive row scores      *)
(* higher, ties half; for any number of rows and any scores.               *)
THEOREM Ranks == Spec => []AurocIsPairwise
<1>1. ASSUME IInv
      PROVE  AurocIsPairwise
  <2> DEFINE pos == Positives(Rows)
             neg == DOMAIN Rows \ pos
             pairs == pos \X neg
             over == {x \in pairs : Rows[x[1]].p > Rows[x[2]].p}
             ties == {x \in pairs : Rows[x[1]].p = Rows[x[2]].p}
             pairwise == [num |-> 2 * Cardinality(over) + Cardinality(ties),
                          den |-> 2 * Cardinality(pairs)]
  <2> SUFFICES ASSUME Answered("score")
               PROVE  IF pairs = {} THEN result.auroc = NoAuroc ELSE result.auroc = pairwise
    BY DEF AurocIsPairwise
  <2>1. /\ Batch(Rows, task.input.bins)
        /\ result.auroc = IF BothClasses(Rows)
                          THEN [num |-> Auroc(Rows),
                                den |-> 2 * Cardinality(pos) * (Len(Rows) - Cardinality(pos))]
                          ELSE NoAuroc
    BY <1>1, BatchAnswer DEF IInv
  <2>2. over = Over(Rows, pos, neg) /\ ties = Even(Rows, pos, neg)
    BY DEF Over, Even
  <2>3. Auroc(Rows) = 2 * Cardinality(over) + Cardinality(ties)
        /\ 2 * Cardinality(pos) * (Len(Rows) - Cardinality(pos)) = 2 * Cardinality(pairs)
    BY <2>1, <2>2, AurocCountsPairs
  <2>4. BothClasses(Rows) <=> pairs # {}
    <3>1. pos \subseteq DOMAIN Rows
      BY DEF Positives
    <3>2. BothClasses(Rows) <=> pos # {} /\ pos # DOMAIN Rows
      BY DEF BothClasses
    <3>3. neg = {} <=> pos = DOMAIN Rows
      <4> HIDE DEF pos
      <4> QED BY <3>1
    <3> HIDE DEF pos, neg
    <3>4. \A x \in pos, y \in neg : <<x, y>> \in pairs
      OBVIOUS
    <3>5. pos = {} \/ neg = {} => pairs = {}
      OBVIOUS
    <3> HIDE DEF pairs
    <3> QED BY <3>2, <3>3, <3>4, <3>5
  <2> HIDE DEF pos, pairs, over, ties
  <2> QED BY <2>1, <2>3, <2>4
<1> QED BY <1>1, Invariance, PTL

-------------------------------------------------------------------------------
(***************************************************************************)
(* What makes a study worse makes no verdict better.                       *)
(***************************************************************************)

(* More accepted samples wrong, less error allowed or more doubt spread    *)
(* never make a bound hold that did not.                                   *)
LEMMA BoundEases ==
  ASSUME NEW s, NEW t, NEW n \in Nat, NEW d \in Nat, NEW e \in Nat, d <= e,
         s.maxError \in Nat, t.maxError \in Int, t.maxError <= s.maxError,
         Len(s.groups) * s.invAlpha \in 4 .. Len(Ln), Len(t.groups) * t.invAlpha \in 4 .. Len(Ln),
         Len(s.groups) * s.invAlpha <= Len(t.groups) * t.invAlpha,
         BoundHolds(t, n, e)
  PROVE  BoundHolds(s, n, d)
<1> DEFINE j == Len(s.groups) * s.invAlpha
           k == Len(t.groups) * t.invAlpha
           L == Ln[j]
           M == Ln[k]
           q == s.maxError * n - Unit * d
           r == t.maxError * n - Unit * e
           x == n * Unit * Unit
<1>1. Unit \in Nat
  BY MetricsAssumption
<1>2. L \in Nat /\ M \in Nat /\ L <= M
  <2>1. j \in 1 .. Len(Ln) /\ k \in 1 .. Len(Ln) /\ j <= k
    OBVIOUS
  <2> HIDE DEF j, k
  <2> QED BY <2>1, TableOfLogs
<1>3. r >= 0 /\ M * n * Unit * Unit <= 2 * LnScale * r * r
  BY DEF BoundHolds
<1>4. q \in Int /\ r \in Int /\ r <= q
  <2> DEFINE a == s.maxError
             b == t.maxError
             c == a - b
             f == e - d
  <2>1. a \in Int /\ b \in Int /\ c \in Nat /\ f \in Nat /\ a = b + c /\ e = d + f
    OBVIOUS
  <2> HIDE DEF c, f, a, b
  <2>2. c * n \in Nat /\ Unit * f \in Nat /\ b * n \in Int /\ Unit * d \in Int
    BY <1>1, <2>1
  <2>3. (b + c) * n = b * n + c * n /\ Unit * (d + f) = Unit * d + Unit * f
    BY <1>1, <2>1
  <2>4. q = (b * n + c * n) - Unit * d /\ r = b * n - (Unit * d + Unit * f)
    BY <2>1, <2>3 DEF a, b
  <2> DEFINE B == b * n
             C == c * n
             D == Unit * d
             G == Unit * f
  <2>5. C \in Nat /\ G \in Nat /\ B \in Int /\ D \in Int /\ q = (B + C) - D /\ r = B - (D + G)
    BY <2>2, <2>4
  <2> HIDE DEF q, r, B, C, D, G
  <2> QED BY <2>5
<1>5. x \in Nat /\ M * n * Unit * Unit = M * x /\ L * n * Unit * Unit = L * x
  <2> HIDE DEF L, M
  <2> QED BY <1>1, <1>2
<1> HIDE DEF j, k, L, M, q, r, x
<1>6. L * x <= M * x /\ L * x \in Nat /\ M * x \in Nat
  BY <1>2, <1>5, ProductKeeps
<1>7. r * r <= q * q /\ r * r \in Nat /\ q * q \in Nat
  <2>1. r \in Nat /\ q \in Nat
    BY <1>3, <1>4
  <2>2. r * r <= q * r /\ q * r \in Nat /\ r * r \in Nat
    BY <1>4, <2>1, ProductKeeps
  <2>3. r * q <= q * q /\ q * q \in Nat
    BY <1>4, <2>1, ProductKeeps
  <2>4. r * q = q * r
    BY <2>1
  <2> QED BY <2>2, <2>3, <2>4
<1>8. 2 * LnScale * r * r = 20000 * (r * r) /\ 2 * LnScale * q * q = 20000 * (q * q)
  BY <1>4 DEF LnScale
<1>9. q >= 0 /\ L * n * Unit * Unit <= 2 * LnScale * q * q
  BY <1>3, <1>4, <1>5, <1>6, <1>7, <1>8
<1> QED BY <1>9 DEF BoundHolds, L, j, q

(* t is no better than s in any respect the verdict looks at.              *)
Weakens(s, t) ==
  /\ StudyShape(s) /\ StudyOK(s)
  /\ t.classes = s.classes /\ t.threshold = s.threshold /\ t.minimum = s.minimum
  /\ t.maxError \in Int /\ t.maxError <= s.maxError
  /\ ToSet(s.groups) \subseteq ToSet(t.groups)
  /\ Len(t.groups) * t.invAlpha \in 4 .. Len(Ln)
  /\ Len(s.groups) * s.invAlpha <= Len(t.groups) * t.invAlpha
  /\ DOMAIN t.samples = DOMAIN s.samples
  /\ \A i \in DOMAIN s.samples :
       /\ t.samples[i].group = s.samples[i].group /\ t.samples[i].probs = s.samples[i].probs
       /\ Correct(t, t.samples[i]) => Correct(s, s.samples[i])
  /\ t.observed => s.observed
  /\ t.heldOut => s.heldOut
  /\ t.frozen => s.frozen
  /\ DOMAIN t.evidence = DOMAIN s.evidence
  /\ \A name \in DOMAIN s.evidence :
       /\ s.evidence[name] = "FAIL" => t.evidence[name] = "FAIL"
       /\ t.evidence[name] = "PASS" => s.evidence[name] = "PASS"

LEMMA DoubtInTable ==
  ASSUME NEW s, StudyShape(s), StudyOK(s)
  PROVE  /\ Len(s.groups) \in Nat /\ Len(s.groups) >= 1
         /\ s.invAlpha \in Nat /\ s.invAlpha >= 4
         /\ Len(s.groups) * s.invAlpha \in 4 .. Len(Ln)
         /\ (Len(s.groups) + 1) * s.invAlpha \in 4 .. Len(Ln)
         /\ Len(s.groups) * (s.invAlpha + 1) \in 4 .. Len(Ln)
         /\ Len(s.groups) * s.invAlpha <= (Len(s.groups) + 1) * s.invAlpha
         /\ Len(s.groups) * s.invAlpha <= Len(s.groups) * (s.invAlpha + 1)
<1> DEFINE a == Len(s.groups)
           b == s.invAlpha
<1>1. a \in Nat /\ a >= 1 /\ b \in Nat /\ b >= 4
  BY ListDomain DEF StudyShape, StudyOK, Names
<1>2. (a + 1) * b <= Len(Ln) /\ a * (b + 1) <= Len(Ln)
  BY TableOfLogs DEF StudyShape
<1> HIDE DEF a, b
<1>3. a * b \in Nat /\ (a + 1) * b = a * b + b /\ a * (b + 1) = a * b + a
  BY <1>1
<1>4. 1 * b <= a * b
  <2>1. 1 \in Nat /\ 1 <= a
    BY <1>1
  <2> QED BY <1>1, <2>1, ProductKeeps
<1>5. /\ a * b \in 4 .. Len(Ln) /\ (a + 1) * b \in 4 .. Len(Ln) /\ a * (b + 1) \in 4 .. Len(Ln)
      /\ a * b <= (a + 1) * b /\ a * b <= a * (b + 1)
  BY <1>1, <1>2, <1>3, <1>4, TableOfLogs
<1> QED BY <1>1, <1>5 DEF a, b

(* A group that passes in the worse study passes in the better one.        *)
LEMMA WeakerPasses ==
  ASSUME NEW s, NEW t, Weakens(s, t), NEW g, Passes(t, g)
  PROVE  Passes(s, g)
<1> DEFINE A == Accepted(s, g)
           d == Cardinality(Errors(s, g))
           e == Cardinality(Errors(t, g))
           n == Cardinality(A)
<1>1. GroupSamples(t, g) = GroupSamples(s, g)
  BY DEF Weakens, GroupSamples
<1>2. \A i \in DOMAIN s.samples : Accepts(t, t.samples[i]) = Accepts(s, s.samples[i])
  BY DEF Weakens, Accepts
<1>3. GroupSamples(s, g) \subseteq DOMAIN s.samples
  BY DEF GroupSamples
<1>4. Accepted(t, g) = A
  BY <1>1, <1>2, <1>3 DEF Accepted
<1>5. Errors(s, g) \subseteq Errors(t, g) /\ Errors(t, g) \subseteq A /\ A \subseteq DOMAIN s.samples
  <2>1. A \subseteq DOMAIN s.samples
    BY <1>3 DEF Accepted
  <2> HIDE DEF A
  <2>2. Errors(s, g) = {i \in A : ~Correct(s, s.samples[i])}
        /\ Errors(t, g) = {i \in A : ~Correct(t, t.samples[i])}
    BY <1>4 DEF Errors, A
  <2> QED BY <2>1, <2>2 DEF Weakens
<1>6. n \in Nat /\ d \in Nat /\ e \in Nat /\ d <= e
  <2>1. IsFiniteSet(DOMAIN s.samples)
    BY ListDomain DEF Weakens, StudyShape
  <2> HIDE DEF A
  <2>2. IsFiniteSet(A) /\ IsFiniteSet(Errors(t, g))
    <3>1. Errors(t, g) \subseteq DOMAIN s.samples
      BY <1>5
    <3> QED BY <1>5, <2>1, <3>1, FS_Subset
  <2>3. IsFiniteSet(Errors(s, g)) /\ d <= e
    BY <1>5, <2>2, FS_Subset
  <2> QED BY <2>2, <2>3, FS_CardinalityType
<1>7. n >= t.minimum /\ n > 0 /\ BoundHolds(t, n, e)
  BY <1>4 DEF Passes
<1> HIDE DEF A, n, d, e
<1>8. BoundHolds(s, n, d)
  <2>1. s.maxError \in Nat
    <3>1. s.maxError \in Int /\ 2 * s.maxError \in 0 .. Unit
      BY DEF Weakens, StudyShape, StudyOK
    <3> QED BY <3>1, MetricsAssumption
  <2>2. Len(s.groups) * s.invAlpha \in 4 .. Len(Ln)
    BY DoubtInTable DEF Weakens
  <2>3. /\ t.maxError \in Int /\ t.maxError <= s.maxError
        /\ Len(t.groups) * t.invAlpha \in 4 .. Len(Ln)
        /\ Len(s.groups) * s.invAlpha <= Len(t.groups) * t.invAlpha
    BY DEF Weakens
  <2> QED BY <1>6, <1>7, <2>1, <2>2, <2>3, BoundEases
<1>9. n >= s.minimum
  BY <1>7 DEF Weakens
<1> QED BY <1>7, <1>8, <1>9 DEF Passes, A, n, d

LEMMA WeakerVerdict ==
  ASSUME NEW s, NEW t, Weakens(s, t)
  PROVE  Rank[Verdict(t)] <= Rank[Verdict(s)]
<1>1. Rank["BLOCK"] = 1 /\ Rank["REVIEW"] = 2 /\ Rank["ELIGIBLE_FOR_SHADOW"] = 3
  BY DEF Rank
<1>2. Verdict(s) = "BLOCK" => Verdict(t) = "BLOCK"
  BY DEF Verdict, Weakens
<1>3. Reasons(t) = {} => Reasons(s) = {}
  <2>1. ASSUME Reasons(t) = {}
        PROVE  Reasons(s) = {}
    <3>1. /\ t.observed /\ t.heldOut /\ t.frozen
          /\ \A name \in DOMAIN t.evidence : t.evidence[name] = "PASS"
          /\ \A g \in ToSet(t.groups) : Passes(t, g)
      BY <2>1 DEF Reasons
    <3>2. /\ s.observed /\ s.heldOut /\ s.frozen
          /\ \A name \in DOMAIN s.evidence : s.evidence[name] = "PASS"
      BY <3>1 DEF Weakens
    <3>3. \A g \in ToSet(s.groups) : Passes(s, g)
      <4>1. ToSet(s.groups) \subseteq ToSet(t.groups)
        BY DEF Weakens
      <4> QED BY <3>1, <4>1, WeakerPasses
    <3> QED BY <3>2, <3>3 DEF Reasons
  <2> QED BY <2>1
<1>4. Verdict(t) = "ELIGIBLE_FOR_SHADOW" => Verdict(s) \in {"BLOCK", "ELIGIBLE_FOR_SHADOW"}
  BY <1>3 DEF Verdict
<1>5. Verdict(s) \in Verdicts /\ Verdict(t) \in Verdicts
  BY AllPassIsNoBlock
<1> QED BY <1>1, <1>2, <1>4, <1>5 DEF Verdicts

(* An update of one field of a study.                                      *)
Update(s, t, field, value) ==
  /\ \A f \in {"clean", "observed", "heldOut", "frozen", "threshold", "maxError", "invAlpha",
               "minimum", "classes", "groups", "required", "evidence", "samples"} :
       f # field => t[f] = s[f]
  /\ t[field] = value

(* An update that leaves the samples alone weakens a study if it does so   *)
(* in the field it changes.                                                *)
LEMMA UpdateWeakens ==
  ASSUME NEW s, StudyShape(s), StudyOK(s), NEW t, NEW field, NEW value,
         Update(s, t, field, value),
         field \in {"observed", "frozen", "maxError", "invAlpha", "groups", "evidence"},
         field = "observed" => value = FALSE,
         field = "frozen" => value = FALSE,
         field = "maxError" => value = s.maxError - 1,
         field = "invAlpha" => value = s.invAlpha + 1,
         field = "groups" => Len(value) = Len(s.groups) + 1 /\ ToSet(s.groups) \subseteq ToSet(value),
         field = "evidence" =>
           /\ DOMAIN value = DOMAIN s.evidence
           /\ \A name \in DOMAIN s.evidence :
                /\ s.evidence[name] = "FAIL" => value[name] = "FAIL"
                /\ value[name] = "PASS" => s.evidence[name] = "PASS"
  PROVE  Weakens(s, t)
<1>1. /\ t.classes = s.classes /\ t.threshold = s.threshold /\ t.minimum = s.minimum
      /\ t.samples = s.samples /\ t.heldOut = s.heldOut
  BY DEF Update
<1>2. t.maxError \in Int /\ t.maxError <= s.maxError
  <2>1. s.maxError \in Int
    BY DEF StudyShape
  <2>2. t.maxError = s.maxError \/ t.maxError = s.maxError - 1
    BY DEF Update
  <2> QED BY <2>1, <2>2
<1>3. /\ ToSet(s.groups) \subseteq ToSet(t.groups)
      /\ Len(t.groups) * t.invAlpha \in 4 .. Len(Ln)
      /\ Len(s.groups) * s.invAlpha <= Len(t.groups) * t.invAlpha
  <2>1. \/ t.groups = s.groups /\ t.invAlpha = s.invAlpha
        \/ t.groups = s.groups /\ t.invAlpha = s.invAlpha + 1
        \/ /\ Len(t.groups) = Len(s.groups) + 1 /\ ToSet(s.groups) \subseteq ToSet(t.groups)
           /\ t.invAlpha = s.invAlpha
    BY DEF Update
  <2> DEFINE a == Len(s.groups)
             b == s.invAlpha
  <2>2. /\ a * b \in 4 .. Len(Ln) /\ (a + 1) * b \in 4 .. Len(Ln) /\ a * (b + 1) \in 4 .. Len(Ln)
        /\ a * b <= (a + 1) * b /\ a * b <= a * (b + 1) /\ a * b <= a * b
    <3>1. a * b \in 4 .. Len(Ln)
      BY DoubtInTable
    <3> QED BY <3>1, DoubtInTable
  <2>3. ASSUME NEW k, k = Len(t.groups) * t.invAlpha
        PROVE  k \in {a * b, a * (b + 1), (a + 1) * b}
    BY <2>1, <2>3
  <2> HIDE DEF a, b
  <2>4. Len(t.groups) * t.invAlpha \in {a * b, a * (b + 1), (a + 1) * b}
    BY <2>3
  <2>5. Len(t.groups) * t.invAlpha \in 4 .. Len(Ln) /\ a * b <= Len(t.groups) * t.invAlpha
    BY <2>2, <2>4
  <2>6. ToSet(s.groups) \subseteq ToSet(t.groups)
    BY <2>1
  <2> QED BY <2>5, <2>6 DEF a, b
<1>4. /\ t.observed => s.observed
      /\ t.frozen => s.frozen
  BY DEF Update
<1>5. /\ DOMAIN t.evidence = DOMAIN s.evidence
      /\ \A name \in DOMAIN s.evidence :
           /\ s.evidence[name] = "FAIL" => t.evidence[name] = "FAIL"
           /\ t.evidence[name] = "PASS" => s.evidence[name] = "PASS"
  <2>1. field # "evidence" => t.evidence = s.evidence
    BY DEF Update
  <2>2. field = "evidence" => t.evidence = value
    BY DEF Update
  <2> QED BY <2>1, <2>2
<1>6. \A i \in DOMAIN s.samples : Correct(t, t.samples[i]) => Correct(s, s.samples[i])
  BY <1>1 DEF Correct
<1> QED BY <1>1, <1>2, <1>3, <1>4, <1>5, <1>6 DEF Weakens

(* The first right sample of a group is one of its right samples.          *)
LEMMA FirstIsRight ==
  ASSUME NEW s, StudyShape(s), NEW i \in Firsts(s)
  PROVE  i \in DOMAIN s.samples /\ Correct(s, s.samples[i])
<1> DEFINE Right(g) == {k \in Accepted(s, g) : Correct(s, s.samples[k])}
<1>1. PICK g \in ToSet(s.groups) : Right(g) # {} /\ i = Min(Right(g))
  BY DEF Firsts
<1>2. Right(g) \subseteq DOMAIN s.samples /\ DOMAIN s.samples \subseteq Nat
  <2>1. DOMAIN s.samples \subseteq Nat
    <3>1. DOMAIN s.samples = 1 .. Len(s.samples)
      BY ListDomain DEF StudyShape
    <3> QED BY <3>1
  <2> QED BY <2>1 DEF Accepted, GroupSamples
<1>3. \A k \in Right(g) : Correct(s, s.samples[k])
  OBVIOUS
<1> DEFINE R == Right(g)
<1> HIDE DEF Right
<1>4. R # {} /\ R \in SUBSET Nat /\ i = Min(R)
  BY <1>1, <1>2
<1> HIDE DEF R
<1>5. \E m \in R : \A k \in R : m <= k
  BY <1>4, LeastNatural
<1>6. Min(R) \in R
  BY <1>5 DEF Min
<1> QED BY <1>2, <1>3, <1>4, <1>6 DEF R

LEMMA RelabelWeakens ==
  ASSUME NEW s, StudyShape(s), StudyOK(s), NEW t, NEW i \in Firsts(s), NEW label,
         t = [s EXCEPT !.samples[i].label = label]
  PROVE  Weakens(s, t)
<1> DEFINE one == s.samples[i]
           two == [one EXCEPT !.label = label]
           all == [s.samples EXCEPT ![i] = two]
<1>1. i \in DOMAIN s.samples /\ Correct(s, one)
  BY FirstIsRight
<1>2. one \in [id : {one.id}, group : {one.group}, probs : {one.probs}, label : {one.label}]
  <2>1. one \in ToSet(s.samples)
    BY <1>1 DEF ToSet
  <2> QED BY <2>1 DEF StudyShape, SampleShape
<1>3. two.group = one.group /\ two.probs = one.probs
  BY <1>2
<1>4. t = [s EXCEPT !.samples = all]
  OBVIOUS
<1>5. /\ t.classes = s.classes /\ t.threshold = s.threshold /\ t.minimum = s.minimum
      /\ t.maxError = s.maxError /\ t.invAlpha = s.invAlpha /\ t.groups = s.groups
      /\ t.observed = s.observed /\ t.heldOut = s.heldOut /\ t.frozen = s.frozen
      /\ t.evidence = s.evidence /\ t.samples = all
  <2> HIDE DEF all
  <2> QED BY <1>4 DEF StudyShape
<1>6. DOMAIN all = DOMAIN s.samples /\ \A k \in DOMAIN s.samples :
        all[k] = IF k = i THEN two ELSE s.samples[k]
  <2> HIDE DEF two
  <2> QED OBVIOUS
<1> HIDE DEF two, all, one
<1>7. \A k \in DOMAIN s.samples :
        /\ t.samples[k].group = s.samples[k].group /\ t.samples[k].probs = s.samples[k].probs
        /\ Correct(t, t.samples[k]) => Correct(s, s.samples[k])
  <2>1. ASSUME NEW k \in DOMAIN s.samples, k = i
        PROVE  /\ t.samples[k] = two /\ s.samples[k] = one
    BY <1>5, <1>6, <2>1 DEF one
  <2>2. ASSUME NEW k \in DOMAIN s.samples, k # i
        PROVE  /\ t.samples[k] = s.samples[k]
               /\ Correct(t, t.samples[k]) = Correct(s, s.samples[k])
    <3>1. t.samples[k] = s.samples[k]
      BY <1>5, <1>6, <2>2
    <3> QED BY <1>5, <3>1 DEF Correct
  <2> QED BY <1>1, <1>3, <2>1, <2>2
<1>8. s.maxError \in Int
  BY DEF StudyShape
<1>9. Len(s.groups) * s.invAlpha \in 4 .. Len(Ln)
  BY DoubtInTable
<1> QED BY <1>5, <1>6, <1>7, <1>8, <1>9 DEF Weakens

LEMMA WorseWeakens ==
  ASSUME NEW s, StudyShape(s), StudyOK(s), NEW t \in Worse(s)
  PROVE  Weakens(s, t)
<1>1. CASE \E x \in (DOMAIN s.evidence) \X Statuses :
             x[2] \in Fallen(s.evidence[x[1]]) /\ t = [s EXCEPT !.evidence[x[1]] = x[2]]
  <2>1. PICK x \in (DOMAIN s.evidence) \X Statuses :
          x[2] \in Fallen(s.evidence[x[1]]) /\ t = [s EXCEPT !.evidence[x[1]] = x[2]]
    BY <1>1
  <2> DEFINE name == x[1]
             v == x[2]
             e == [s.evidence EXCEPT ![name] = v]
  <2>2. name \in DOMAIN s.evidence /\ v \in Fallen(s.evidence[name]) /\ t = [s EXCEPT !.evidence = e]
    BY <2>1
  <2> HIDE DEF name, v
  <2>3. /\ DOMAIN e = DOMAIN s.evidence
        /\ \A other \in DOMAIN s.evidence :
             /\ s.evidence[other] = "FAIL" => e[other] = "FAIL"
             /\ e[other] = "PASS" => s.evidence[other] = "PASS"
    BY <2>2 DEF Fallen
  <2> HIDE DEF e
  <2>4. Update(s, t, "evidence", e)
    BY <2>2 DEF Update, StudyShape
  <2> QED BY <2>3, <2>4, UpdateWeakens
<1>2. CASE \E i \in Firsts(s), label \in ToSet(s.classes) : t = [s EXCEPT !.samples[i].label = label]
  BY <1>2, RelabelWeakens
<1>3. CASE t = [s EXCEPT !.frozen = FALSE]
  <2>1. Update(s, t, "frozen", FALSE)
    BY <1>3 DEF Update, StudyShape
  <2> QED BY <2>1, UpdateWeakens
<1>4. CASE t = [s EXCEPT !.observed = FALSE]
  <2>1. Update(s, t, "observed", FALSE)
    BY <1>4 DEF Update, StudyShape
  <2> QED BY <2>1, UpdateWeakens
<1>5. CASE t = [s EXCEPT !.groups = Append(@, "another")]
  <2> DEFINE more == Append(s.groups, "another")
  <2>1. Len(more) = Len(s.groups) + 1 /\ ToSet(s.groups) \subseteq ToSet(more)
    <3> DEFINE g == s.groups
               S == ToSet(g) \cup {"another"}
    <3>1. g \in Seq(S)
      <4>1. g \in Seq(ToSet(g))
        BY DEF StudyShape, List
      <4> QED BY <4>1
    <3> HIDE DEF S
    <3>2. Len(more) = Len(g) + 1 /\ \A i \in 1 .. Len(g) : more[i] = g[i]
      BY <3>1
    <3>3. DOMAIN more = 1 .. Len(g) + 1 /\ DOMAIN g = 1 .. Len(g) /\ Len(g) \in Nat
      <4>1. more \in Seq(S \cup {"another"})
        BY <3>1
      <4> HIDE DEF more
      <4> QED BY <3>1, <3>2, <4>1
    <3> HIDE DEF g, more
    <3>4. ToSet(g) \subseteq ToSet(more)
      <4>1. \A i \in DOMAIN g : i \in DOMAIN more /\ more[i] = g[i]
        BY <3>2, <3>3
      <4> QED BY <4>1 DEF ToSet
    <3> QED BY <3>2, <3>4 DEF g
  <2> HIDE DEF more
  <2>2. t = [s EXCEPT !.groups = more]
    BY <1>5 DEF more
  <2>3. Update(s, t, "groups", more)
    BY <2>2 DEF Update, StudyShape
  <2> QED BY <2>1, <2>3, UpdateWeakens
<1>6. CASE t = [s EXCEPT !.maxError = @ - 1]
  <2>1. Update(s, t, "maxError", s.maxError - 1)
    BY <1>6 DEF Update, StudyShape
  <2> QED BY <2>1, UpdateWeakens
<1>7. CASE t = [s EXCEPT !.invAlpha = @ + 1]
  <2>1. Update(s, t, "invAlpha", s.invAlpha + 1)
    BY <1>7 DEF Update, StudyShape
  <2> QED BY <2>1, UpdateWeakens
<1> QED BY <1>1, <1>2, <1>3, <1>4, <1>5, <1>6, <1>7 DEF Worse

(* Fallen evidence, a right answer made wrong, an assertion withdrawn,     *)
(* another group to cover, less error or less doubt allowed: none makes    *)
(* the verdict of a study better.                                          *)
THEOREM Monotone == Spec => []VerdictMonotone
<1>1. ASSUME IInv, Answered("study"), NEW worse \in Worse(task.input), StudyOK(worse)
      PROVE  Rank[Assess(worse).verdict] <= Rank[result.verdict]
  <2> DEFINE study == task.input
  <2>1. result = Assess(study) /\ StudyShape(study)
    <3>1. task.kind = "study" /\ result.status = "ok" /\ result # Pending
      BY <1>1 DEF Answered, Pending
    <3>2. result # Invalid
      BY <3>1 DEF Invalid
    <3> QED BY <1>1, <3>1, <3>2 DEF IInv, TaskInv, ResultInv, Computed
  <2>2. StudyOK(study) /\ worse \in Worse(study)
    BY <1>1, <2>1 DEF Assess, Answered
  <2> HIDE DEF study
  <2>3. Rank[Verdict(worse)] <= Rank[Verdict(study)]
    BY <2>1, <2>2, WorseWeakens, WeakerVerdict
  <2>4. Assess(worse).verdict = Verdict(worse) /\ result.verdict = Verdict(study)
    BY <1>1, <2>1, <2>2 DEF Assess
  <2> QED BY <2>3, <2>4
<1>2. IInv => VerdictMonotone
  BY <1>1 DEF VerdictMonotone
<1> QED BY <1>2, Invariance, PTL

-------------------------------------------------------------------------------
(***************************************************************************)
(* The gain of an item of evidence                                         *)
(***************************************************************************)

LEMMA LogType ==
  ASSUME NEW n \in 0 .. Weight, NEW m \in 0 .. Weight, m <= n
  PROVE  Log(n) \in Nat /\ Log(m) \in Nat /\ Log(m) <= Log(n)
<1>1. Weight \in 1 .. Len(Ln)
  BY PlannerAssumption, TableOfLogs DEF PlannerAssumption
<1>2. CASE m = 0
  <2>1. n = 0 \/ n \in 1 .. Len(Ln)
    BY <1>1
  <2>2. n \in 1 .. Len(Ln) => Ln[n] \in Nat
    BY TableOfLogs
  <2> QED BY <1>2, <2>1, <2>2 DEF Log
<1>3. CASE m # 0
  <2>1. m \in 1 .. Len(Ln) /\ n \in 1 .. Len(Ln) /\ n # 0
    BY <1>1, <1>3
  <2>2. Ln[m] \in Nat /\ Ln[n] \in Nat /\ Ln[m] <= Ln[n]
    BY <2>1, TableOfLogs
  <2> QED BY <1>3, <2>1, <2>2 DEF Log
<1> QED BY <1>2, <1>3

LEMMA SpreadType ==
  ASSUME NEW b \in 0 .. Weight, NEW r \in 0 .. Weight, b + r \in 0 .. Weight
  PROVE  Spread(b, r) \in Nat
<1>1. Weight \in Nat
  BY PlannerAssumption, TableOfLogs DEF PlannerAssumption
<1>2. b <= b + r /\ r <= b + r /\ b \in Nat /\ r \in Nat
  BY <1>1
<1> DEFINE x == Log(b + r) - Log(b)
           y == Log(b + r) - Log(r)
<1>3. x \in Nat
  <2>1. Log(b + r) \in Nat /\ Log(b) \in Nat /\ Log(b) <= Log(b + r)
    BY <1>2, LogType
  <2> QED BY <2>1
<1>4. y \in Nat
  <2>1. Log(b + r) \in Nat /\ Log(r) \in Nat /\ Log(r) <= Log(b + r)
    BY <1>2, LogType
  <2> QED BY <2>1
<1>5. Spread(b, r) = b * x + r * y
  BY DEF Spread
<1> HIDE DEF x, y
<1> QED BY <1>2, <1>3, <1>4, <1>5

(* What is blocked and what gets the other verdict: the entropy of the     *)
(* distribution is theirs.                                                 *)
Blocked(plan, S) == Mass(plan, Failing(plan, S))
Rest(plan, S) == Mass(plan, S \ Failing(plan, S))

LEMMA EntropyIsSpread ==
  ASSUME NEW plan, PlanShape(plan), PlanOK(plan), NEW S \in SUBSET DOMAIN plan.scenarios
  PROVE  /\ Blocked(plan, S) \in 0 .. Weight /\ Rest(plan, S) \in 0 .. Weight
         /\ Blocked(plan, S) + Rest(plan, S) \in 0 .. Weight
         /\ Entropy(VerdictWeights(plan, S)) = Spread(Blocked(plan, S), Rest(plan, S))
<1> DEFINE weights == VerdictWeights(plan, S)
           allPass == AllPassVerdict(plan.study)
           b == Blocked(plan, S)
           r == Rest(plan, S)
           mass == SumFunction(weights)
           part == [v \in Verdicts |-> weights[v] * (Log(mass) - Log(weights[v]))]
<1>1. allPass \in {"REVIEW", "ELIGIBLE_FOR_SHADOW"}
  BY AllPassIsNoBlock DEF PlanShape
<1>2. /\ weights["BLOCK"] = b /\ weights[allPass] = r /\ weights \in [Verdicts -> 0 .. Weight]
      /\ mass = Mass(plan, S)
  BY WeightsType, PlannerAssumption DEF Blocked, Rest
<1>3. \A v \in Verdicts : v \notin {"BLOCK", allPass} => weights[v] = 0
  BY DEF VerdictWeights
<1>4. Failing(plan, S) \in SUBSET S
  BY DEF Failing
<1>5. mass = b + r /\ mass \in 0 .. Weight
  <2>1. /\ Mass(plan, S) \in 0 .. Weight
        /\ Mass(plan, S) = Mass(plan, Failing(plan, S)) + Mass(plan, S \ Failing(plan, S))
    BY <1>4, MassType, PlannerAssumption
  <2> QED BY <1>2, <2>1 DEF Blocked, Rest
<1>6. Weight \in Nat
  BY PlannerAssumption, TableOfLogs DEF PlannerAssumption
<1>7. b \in 0 .. Weight /\ r \in 0 .. Weight
  BY <1>1, <1>2 DEF Verdicts
<1>8. \A n \in 0 .. Weight : Log(n) \in Int
  <2>1. ASSUME NEW n \in 0 .. Weight PROVE Log(n) \in Int
    <3>1. n <= n
      BY <1>6
    <3>2. Log(n) \in Nat
      BY <3>1, LogType
    <3> QED BY <3>2
  <2> QED BY <2>1
<1>9. Entropy(weights) = Sum(part)
  <2>1. Entropy(weights) = SumFunction(part)
    BY DEF Entropy
  <2> HIDE DEF part
  <2> QED BY <2>1, SumFunctionIsSum
<1> HIDE DEF weights, allPass, b, r, mass
<1>10. \A v \in Verdicts : weights[v] \in Int /\ Log(weights[v]) \in Int /\ Log(mass) \in Int
  BY <1>2, <1>5, <1>6, <1>8
<1>11. /\ part["BLOCK"] = b * (Log(b + r) - Log(b)) /\ part[allPass] = r * (Log(b + r) - Log(r))
       /\ \A v \in Verdicts : v \notin {"BLOCK", allPass} => part[v] = 0
  <2>1. \A v \in Verdicts : part[v] = weights[v] * (Log(mass) - Log(weights[v]))
    OBVIOUS
  <2>2. \A v \in Verdicts : v \notin {"BLOCK", allPass} => part[v] = 0
    <3>1. ASSUME NEW v \in Verdicts, v \notin {"BLOCK", allPass} PROVE part[v] = 0
      <4>1. weights[v] = 0 /\ Log(mass) - Log(weights[v]) \in Int
        BY <1>3, <1>10, <3>1
      <4> QED BY <2>1, <4>1
    <3> QED BY <3>1
  <2> HIDE DEF part
  <2>3. "BLOCK" \in Verdicts /\ allPass \in Verdicts
    BY <1>1 DEF Verdicts
  <2> QED BY <1>2, <1>5, <2>1, <2>2, <2>3
<1>12. \A v \in Verdicts : part[v] \in Int
  <2>1. ASSUME NEW v \in Verdicts PROVE part[v] \in Int
    <3> DEFINE x == weights[v]
               y == Log(mass) - Log(weights[v])
    <3>1. x \in Int /\ y \in Int /\ part[v] = x * y
      BY <1>10
    <3> HIDE DEF x, y, part
    <3> QED BY <3>1
  <2> QED BY <2>1
<1>13. Sum(part) = part["BLOCK"] + part["REVIEW"] + part["ELIGIBLE_FOR_SHADOW"]
  <2>1. Three(part, "BLOCK", "REVIEW", "ELIGIBLE_FOR_SHADOW")
    BY <1>12 DEF Verdicts, Three
  <2> HIDE DEF part
  <2> QED BY <2>1, SumOfThree
<1>14. Sum(part) = part["BLOCK"] + part[allPass]
  <2>1. /\ part["BLOCK"] \in Int /\ part["REVIEW"] \in Int /\ part["ELIGIBLE_FOR_SHADOW"] \in Int
        /\ allPass = "REVIEW" => part["ELIGIBLE_FOR_SHADOW"] = 0
        /\ allPass = "ELIGIBLE_FOR_SHADOW" => part["REVIEW"] = 0
    BY <1>11, <1>12 DEF Verdicts
  <2> HIDE DEF part
  <2> QED BY <1>1, <1>13, <2>1
<1>15. Sum(part) = Spread(b, r)
  BY <1>11, <1>14 DEF Spread
<1>16. b + r \in 0 .. Weight
  BY <1>5
<1> HIDE DEF part
<1> QED BY <1>7, <1>9, <1>15, <1>16 DEF weights, b, r

(* What the two outcomes leave are the two parts of what stands.           *)
LEMMA OutcomesPart ==
  ASSUME NEW plan, PlanShape(plan), PlanOK(plan), NEW action \in ToSet(plan.actions)
  PROVE  LET all == Consistent(plan)
             pass == Left(plan, action, "PASS")
             fail == Left(plan, action, "FAIL")
         IN  /\ all \in SUBSET DOMAIN plan.scenarios
             /\ pass \in SUBSET all /\ fail = all \ pass
             /\ Left(plan, action, "UNAVAILABLE") = all
             /\ action.unavailable \in 0 .. Tenths
<1>1. PICK at \in DOMAIN plan.actions : action = plan.actions[at]
  BY DEF ToSet
<1>2. action.evidence \in ToSet(plan.study.required) /\ action.unavailable \in 0 .. Tenths
  BY <1>1 DEF PlanOK, ActionsOK
<1>3. \A i \in DOMAIN plan.scenarios : plan.scenarios[i].evidence[action.evidence] \in {"PASS", "FAIL"}
  BY <1>2 DEF PlanOK, ScenariosOK
<1>4. Consistent(plan) \in SUBSET DOMAIN plan.scenarios
  BY DEF Consistent
<1>5. /\ Left(plan, action, "PASS") \in SUBSET Consistent(plan)
      /\ Left(plan, action, "FAIL") = Consistent(plan) \ Left(plan, action, "PASS")
      /\ Left(plan, action, "UNAVAILABLE") = Consistent(plan)
  BY <1>3, <1>4 DEF Left
<1> QED BY <1>2, <1>4, <1>5

LEMMA PartsAddUp ==
  ASSUME NEW plan, PlanShape(plan), PlanOK(plan), NEW S \in SUBSET DOMAIN plan.scenarios,
         NEW Q \in SUBSET S
  PROVE  /\ Blocked(plan, S) = Blocked(plan, Q) + Blocked(plan, S \ Q)
         /\ Rest(plan, S) = Rest(plan, Q) + Rest(plan, S \ Q)
<1> DEFINE F == Failing(plan, S)
           N == S \ F
<1>1. /\ F \in SUBSET DOMAIN plan.scenarios /\ N \in SUBSET DOMAIN plan.scenarios
      /\ Failing(plan, Q) \in SUBSET F /\ F \ Failing(plan, Q) = Failing(plan, S \ Q)
      /\ Q \ Failing(plan, Q) \in SUBSET N
      /\ N \ (Q \ Failing(plan, Q)) = (S \ Q) \ Failing(plan, S \ Q)
  BY DEF Failing
<1>2. /\ Mass(plan, F) = Mass(plan, Failing(plan, Q)) + Mass(plan, F \ Failing(plan, Q))
      /\ Mass(plan, N) = Mass(plan, Q \ Failing(plan, Q)) + Mass(plan, N \ (Q \ Failing(plan, Q)))
  <2> HIDE DEF F, N
  <2> QED BY <1>1, MassType, PlannerAssumption
<1> HIDE DEF F, N
<1>3. Blocked(plan, S) = Mass(plan, F) /\ Rest(plan, S) = Mass(plan, N)
  BY DEF Blocked, Rest, F, N
<1> QED BY <1>1, <1>2, <1>3 DEF Blocked, Rest

LEMMA WeightsAddUp ==
  ASSUME NEW plan, PlanShape(plan), PlanOK(plan), NEW S \in SUBSET DOMAIN plan.scenarios,
         NEW Q \in SUBSET S, NEW v \in Verdicts
  PROVE  VerdictWeights(plan, S)[v] = VerdictWeights(plan, Q)[v] + VerdictWeights(plan, S \ Q)[v]
<1> DEFINE allPass == AllPassVerdict(plan.study)
           W(U) == VerdictWeights(plan, U)[v]
<1>1. /\ Blocked(plan, S) = Blocked(plan, Q) + Blocked(plan, S \ Q)
      /\ Rest(plan, S) = Rest(plan, Q) + Rest(plan, S \ Q)
  BY PartsAddUp
<1>2. /\ Blocked(plan, Q) \in Int /\ Blocked(plan, S \ Q) \in Int
      /\ Rest(plan, Q) \in Int /\ Rest(plan, S \ Q) \in Int
  <2>1. Q \in SUBSET DOMAIN plan.scenarios /\ S \ Q \in SUBSET DOMAIN plan.scenarios
    OBVIOUS
  <2>2. /\ Blocked(plan, Q) \in 0 .. Weight /\ Blocked(plan, S \ Q) \in 0 .. Weight
        /\ Rest(plan, Q) \in 0 .. Weight /\ Rest(plan, S \ Q) \in 0 .. Weight
    BY <2>1, EntropyIsSpread
  <2> QED BY <2>2
<1>3. \A U : W(U) = (IF v = "BLOCK" THEN Blocked(plan, U) ELSE 0)
                      + (IF v = allPass THEN Rest(plan, U) ELSE 0)
  BY DEF VerdictWeights, Failing, Blocked, Rest
<1> HIDE DEF W, allPass
<1>4. W(S) = W(Q) + W(S \ Q)
  BY <1>1, <1>2, <1>3
<1> QED BY <1>4 DEF W

(* An outcome has the distribution of what it leaves, and its entropy      *)
(* counts by its share, also when it is impossible.                        *)
LEMMA OutcomeIs ==
  ASSUME NEW plan, PlanShape(plan), PlanOK(plan), NEW action \in ToSet(plan.actions),
         NEW status \in Statuses
  PROVE  LET left == Left(plan, action, status)
             share == IF status = "UNAVAILABLE" THEN action.unavailable
                      ELSE Tenths - action.unavailable
         IN  /\ share \in Nat
             /\ Outcome(plan, action, status).entropy = share * Entropy(VerdictWeights(plan, left))
             /\ share > 0 => Outcome(plan, action, status).posterior = VerdictWeights(plan, left)
<1> DEFINE left == Left(plan, action, status)
           weights == VerdictWeights(plan, left)
           share == IF status = "UNAVAILABLE" THEN action.unavailable
                    ELSE Tenths - action.unavailable
           out == Outcome(plan, action, status)
<1>1. share \in Nat
  <2>1. Tenths \in Nat
    BY PlannerAssumption DEF PlannerAssumption
  <2>2. action.unavailable \in 0 .. Tenths
    BY OutcomesPart
  <2> QED BY <2>1, <2>2
<1>2. left \in SUBSET DOMAIN plan.scenarios
  BY DEF Left, Consistent
<1>3. left = {} => weights = NoDistribution
  <2> HIDE DEF left
  <2> QED BY <1>2, WeightsType, PlannerAssumption
<1>4. Entropy(weights) \in Nat /\ (left = {} => Entropy(weights) = 0)
  <2> HIDE DEF left
  <2>1. /\ Blocked(plan, left) \in 0 .. Weight /\ Rest(plan, left) \in 0 .. Weight
        /\ Blocked(plan, left) + Rest(plan, left) \in 0 .. Weight
        /\ Entropy(weights) = Spread(Blocked(plan, left), Rest(plan, left))
    BY <1>2, EntropyIsSpread
  <2>2. Entropy(weights) \in Nat
    BY <2>1, SpreadType
  <2>3. ASSUME left = {} PROVE Entropy(weights) = 0
    <3>1. Blocked(plan, left) = 0 /\ Rest(plan, left) = 0
      <4>1. weights["BLOCK"] = 0 /\ weights[AllPassVerdict(plan.study)] = 0
        <5>1. AllPassVerdict(plan.study) \in Verdicts /\ "BLOCK" \in Verdicts
          BY AllPassIsNoBlock DEF PlanShape, Verdicts
        <5> QED BY <1>3, <2>3, <5>1 DEF NoDistribution
      <4> QED BY <1>2, <4>1, WeightsType, PlannerAssumption DEF Blocked, Rest
    <3>2. Spread(0, 0) = 0
      BY DEF Spread, Log
    <3> QED BY <2>1, <3>1, <3>2
  <2> QED BY <2>2, <2>3
<1>5. /\ out.entropy = IF left # {} /\ share > 0 THEN share * Entropy(weights) ELSE 0
      /\ out.posterior = IF left # {} /\ share > 0 THEN weights ELSE NoDistribution
  BY DEF Outcome
<1> HIDE DEF left, weights, share, out
<1>6. out.entropy = share * Entropy(weights)
  <2>1. CASE left # {} /\ share > 0
    BY <1>5, <2>1
  <2>2. CASE left = {}
    BY <1>1, <1>4, <1>5, <2>2
  <2>3. CASE share = 0
    BY <1>4, <1>5, <2>3
  <2> QED BY <1>1, <2>1, <2>2, <2>3
<1>7. share > 0 => out.posterior = weights
  BY <1>3, <1>5
<1> QED BY <1>1, <1>6, <1>7 DEF left, weights, share, out

(* The gain is the share of the outcomes that tell something times what    *)
(* keeping the two parts apart takes off the entropy.                      *)
LEMMA GainInRange ==
  ASSUME NEW plan, PlanShape(plan), PlanOK(plan), NEW action \in ToSet(plan.actions)
  PROVE  RawGain(plan, action) \in 0 .. (Tenths * Entropy(VerdictWeights(plan, Consistent(plan))))
<1> DEFINE all == Consistent(plan)
           pass == Left(plan, action, "PASS")
           fail == Left(plan, action, "FAIL")
           H(S) == Entropy(VerdictWeights(plan, S))
           u == action.unavailable
           w == Tenths - u
           after == [status \in Statuses |-> Outcome(plan, action, status).entropy]
           a == H(all)
           p == H(pass)
           f == H(fail)
<1>1. /\ all \in SUBSET DOMAIN plan.scenarios /\ pass \in SUBSET all /\ fail = all \ pass
      /\ Left(plan, action, "UNAVAILABLE") = all /\ u \in 0 .. Tenths
  BY OutcomesPart
<1>2. Tenths \in Nat /\ Weight \in Nat
  BY PlannerAssumption, TableOfLogs DEF PlannerAssumption
<1>3. u \in Nat /\ w \in Nat /\ u + w = Tenths
  BY <1>1, <1>2
<1>4. after["PASS"] = w * p /\ after["FAIL"] = w * f /\ after["UNAVAILABLE"] = u * a
  <2>1. /\ Outcome(plan, action, "PASS").entropy = w * p
        /\ Outcome(plan, action, "FAIL").entropy = w * f
    BY OutcomeIs DEF Statuses
  <2>2. Outcome(plan, action, "UNAVAILABLE").entropy
          = u * Entropy(VerdictWeights(plan, Left(plan, action, "UNAVAILABLE")))
    BY OutcomeIs DEF Statuses
  <2>3. Outcome(plan, action, "UNAVAILABLE").entropy = u * a
    BY <1>1, <2>2
  <2> HIDE DEF u, w, a, p, f
  <2> QED BY <2>1, <2>3 DEF Statuses
<1>5. RawGain(plan, action) = Tenths * a - Sum(after)
  <2>1. RawGain(plan, action) = Tenths * a - SumFunction(after)
    BY DEF RawGain
  <2> HIDE DEF after, a
  <2> QED BY <2>1, SumFunctionIsSum
<1> HIDE DEF all, pass, fail
<1>6. a \in Nat /\ p \in Nat /\ f \in Nat /\ p + f <= a
  <2>1. /\ pass \in SUBSET DOMAIN plan.scenarios /\ fail \in SUBSET DOMAIN plan.scenarios
        /\ all \in SUBSET DOMAIN plan.scenarios
    BY <1>1
  <2>2. /\ Blocked(plan, all) = Blocked(plan, pass) + Blocked(plan, all \ pass)
        /\ Rest(plan, all) = Rest(plan, pass) + Rest(plan, all \ pass)
    <3>1. \A v \in SUBSET all :
            /\ Blocked(plan, all) = Blocked(plan, v) + Blocked(plan, all \ v)
            /\ Rest(plan, all) = Rest(plan, v) + Rest(plan, all \ v)
      <4>1. ASSUME NEW S \in SUBSET DOMAIN plan.scenarios, NEW Q \in SUBSET S
            PROVE  /\ Blocked(plan, S) = Blocked(plan, Q) + Blocked(plan, S \ Q)
                   /\ Rest(plan, S) = Rest(plan, Q) + Rest(plan, S \ Q)
        BY PartsAddUp
      <4> QED BY <2>1, <4>1
    <3> QED BY <1>1, <3>1
  <2> DEFINE b == Blocked(plan, pass)
             r == Rest(plan, pass)
             c == Blocked(plan, fail)
             s == Rest(plan, fail)
  <2>3. /\ b \in 0 .. Weight /\ r \in 0 .. Weight /\ b + r \in 0 .. Weight /\ p = Spread(b, r)
        /\ c \in 0 .. Weight /\ s \in 0 .. Weight /\ c + s \in 0 .. Weight /\ f = Spread(c, s)
    BY <2>1, EntropyIsSpread
  <2>4. Blocked(plan, all) = b + c /\ Rest(plan, all) = r + s
    BY <1>1, <2>2 DEF b, r, c, s
  <2>5. /\ b + c \in 0 .. Weight /\ r + s \in 0 .. Weight /\ (b + c) + (r + s) \in 0 .. Weight
        /\ a = Spread(b + c, r + s)
    BY <2>1, <2>4, EntropyIsSpread
  <2> HIDE DEF b, r, c, s, a, p, f
  <2>6. a \in Nat /\ p \in Nat /\ f \in Nat
    BY <2>3, <2>5, SpreadType
  <2>7. b + r + c + s <= Weight
    BY <1>2, <2>3, <2>5
  <2>8. Spread(b, r) + Spread(c, s) <= Spread(b + c, r + s)
    BY <2>3, <2>7, LogsAssumption DEF LogsAssumption
  <2> QED BY <2>3, <2>5, <2>6, <2>8
<1> HIDE DEF u, w, a, p, f, after
<1>7. Sum(after) = w * p + w * f + u * a
  <2>1. w * p \in Int /\ w * f \in Int /\ u * a \in Int
    BY <1>3, <1>6
  <2>2. DOMAIN after = Statuses /\ after = [status \in Statuses |-> after[status]]
    BY DEF after
  <2>3. Three(after, "PASS", "FAIL", "UNAVAILABLE")
    BY <1>4, <2>1, <2>2 DEF Three, Statuses
  <2> QED BY <1>4, <2>3, SumOfThree
<1>8. Tenths * a = u * a + w * a
  BY <1>3, <1>6
<1> DEFINE g == a - (p + f)
<1>9. g \in Nat /\ g <= a /\ a = g + (p + f)
  BY <1>6
<1> HIDE DEF g
<1>10. w * a = w * g + (w * p + w * f) /\ w * g \in Nat /\ w * p \in Nat /\ w * f \in Nat
  <2>1. w * (g + (p + f)) = w * g + (w * p + w * f)
    BY <1>3, <1>6, <1>9
  <2> QED BY <1>3, <1>6, <1>9, <2>1
<1>11. u * a \in Nat
  BY <1>3, <1>6
<1>12. RawGain(plan, action) \in Nat /\ RawGain(plan, action) <= Tenths * a /\ Tenths * a \in Nat
  BY <1>5, <1>7, <1>8, <1>10, <1>11
<1> QED BY <1>12 DEF a, all

(* What is found is never expected to tell less than nothing, nor more     *)
(* than is left to tell, and the two findings share out the distribution.  *)
THEOREM Gains == Spec => []GainIsInformation
<1>1. ASSUME IInv, Answered("plan"), NEW action \in ToSet(Plan.actions)
      PROVE  /\ RawGain(Plan, action) \in 0 .. (Tenths * Entropy(result.prior))
             /\ action.unavailable # Tenths =>
                  \A v \in Verdicts :
                    Outcome(Plan, action, "PASS").posterior[v] + Outcome(Plan, action, "FAIL").posterior[v]
                      = result.prior[v]
  <2> DEFINE plan == Plan
  <2>1. PlanShape(plan) /\ PlanOK(plan) /\ action \in ToSet(plan.actions)
        /\ result.prior = VerdictWeights(plan, Consistent(plan))
    <3>1. /\ PlanShape(Plan) /\ PlanOK(Plan) /\ Consistent(Plan) # {}
          /\ result = PlanEvidence(Plan)
      BY <1>1, PlanResult DEF IInv, Answered, Plan
    <3> QED BY <1>1, <3>1 DEF PlanEvidence
  <2> HIDE DEF plan
  <2>2. RawGain(plan, action) \in 0 .. (Tenths * Entropy(result.prior))
    BY <2>1, GainInRange
  <2>3. ASSUME action.unavailable # Tenths, NEW v \in Verdicts
        PROVE  Outcome(plan, action, "PASS").posterior[v] + Outcome(plan, action, "FAIL").posterior[v]
                 = result.prior[v]
    <3> DEFINE all == Consistent(plan)
               pass == Left(plan, action, "PASS")
               fail == Left(plan, action, "FAIL")
    <3>1. /\ all \in SUBSET DOMAIN plan.scenarios /\ pass \in SUBSET all /\ fail = all \ pass
          /\ action.unavailable \in 0 .. Tenths
      BY <2>1, OutcomesPart
    <3>2. Tenths - action.unavailable > 0
      BY <2>3, <3>1, PlannerAssumption DEF PlannerAssumption
    <3>3. /\ Outcome(plan, action, "PASS").posterior = VerdictWeights(plan, pass)
          /\ Outcome(plan, action, "FAIL").posterior = VerdictWeights(plan, fail)
      BY <2>1, <3>2, OutcomeIs DEF Statuses
    <3> HIDE DEF all, pass, fail
    <3>4. VerdictWeights(plan, all)[v] = VerdictWeights(plan, pass)[v] + VerdictWeights(plan, fail)[v]
      BY <2>1, <2>3, <3>1, WeightsAddUp
    <3> QED BY <2>1, <3>3, <3>4 DEF all
  <2> QED BY <2>2, <2>3 DEF plan
<1>2. IInv => GainIsInformation
  BY <1>1 DEF GainIsInformation
<1> QED BY <1>2, Invariance, PTL
=============================================================================
