--------------------------- MODULE EvidencePlanner ---------------------------
(***************************************************************************)
(* plan_evidence() of src/szl_calibration/evidence_planner.py.             *)
(*                                                                         *)
(* plan.clean says that fields, schema, basis and texts are well formed    *)
(* and no size above its limit; every other check is translated.  A        *)
(* scenario weighs an integer part of Weight, an action is unavailable     *)
(* with probability unavailable / Tenths.                                  *)
(* Action ids are integers, which stand for strings in their order.        *)
(* An entropy is multiplied by the weight it is over, in units of          *)
(* 1 / LnScale nat: sums of weights times logarithms, exact enough to tell *)
(* any two of these small weights apart.                                   *)
(***************************************************************************)
EXTENDS Decisions

CONSTANTS Weight, Tenths

ASSUME PlannerAssumption == Weight \in 1..Len(Ln) /\ Tenths \in Nat \ {0}

Verdicts == {"BLOCK", "REVIEW", "ELIGIBLE_FOR_SHADOW"}
NoDistribution == [v \in Verdicts |-> 0]

ScenariosOK(scenarios, required) ==
  /\ scenarios # << >>
  /\ \A i \in DOMAIN scenarios :
       /\ scenarios[i].weight \in 1..Weight
       /\ DOMAIN scenarios[i].evidence = required
       /\ \A name \in required : scenarios[i].evidence[name] \in {"PASS", "FAIL"}
  /\ \A i, j \in DOMAIN scenarios :
       scenarios[i].id = scenarios[j].id \/ scenarios[i].evidence = scenarios[j].evidence
         => i = j
  /\ SumFunction([i \in DOMAIN scenarios |-> scenarios[i].weight]) = Weight

(* Mutant: a cost of zero is taken.                                        *)
CostOKZero(cost) == cost >= 0

(* _units(action["cost_units"], "cost_units", 1).                          *)
CostOK(cost) == cost >= 1

ActionsOK(actions, required) ==
  /\ \A i \in DOMAIN actions :
       LET action == actions[i]
       IN  /\ action.evidence \in required
           /\ CostOK(action.cost) /\ action.unavailable \in 0..Tenths
           /\ ToSet(action.requires) \subseteq required \ {action.evidence}
           /\ Unique(action.requires)
  /\ \A i, j \in DOMAIN actions :
       actions[i].id = actions[j].id \/ actions[i].evidence = actions[j].evidence => i = j

PlanOK(plan) ==
  LET required == ToSet(plan.study.required)
  IN  /\ plan.clean /\ plan.budget >= 0
      /\ StudyOK(plan.study)
      /\ ScenariosOK(plan.scenarios, required)
      /\ ActionsOK(plan.actions, required)

-----------------------------------------------------------------------------
(* Mutant: every scenario that was declared.                               *)
ConsistentAll(plan) == DOMAIN plan.scenarios

Consistent(plan) ==
  {i \in DOMAIN plan.scenarios : \A name \in DOMAIN plan.study.evidence :
     plan.study.evidence[name] \in {"UNAVAILABLE", plan.scenarios[i].evidence[name]}}

AllPassVerdict(study) ==
  Verdict([study EXCEPT !.evidence = [name \in DOMAIN @ |-> "PASS"]])

Mass(plan, S) == SumFunction([i \in S |-> plan.scenarios[i].weight])

(* _distribution, over the mass of S.                                      *)
VerdictWeights(plan, S) ==
  LET allPass == AllPassVerdict(plan.study)
      failing == {i \in S : \E name \in DOMAIN plan.scenarios[i].evidence :
                             plan.scenarios[i].evidence[name] = "FAIL"}
  IN  [v \in Verdicts |-> (IF v = "BLOCK" THEN Mass(plan, failing) ELSE 0)
                         + (IF v = allPass THEN Mass(plan, S \ failing) ELSE 0)]

(* _entropy, times the mass.                                               *)
Log(n) == IF n = 0 THEN 0 ELSE Ln[n]
Entropy(weights) ==
  LET mass == SumFunction(weights)
  IN  SumFunction([v \in Verdicts |-> weights[v] * (Log(mass) - Log(weights[v]))])

(* The entropy of two weights.  The logarithms are exact enough for the     *)
(* masses up to Weight: keeping two parts apart never adds entropy, which  *)
(* holds of real logarithms at any mass.                                   *)
Spread(b, r) == b * (Log(b + r) - Log(b)) + r * (Log(b + r) - Log(r))
ASSUME LogsAssumption ==
  \A b, r, c, s \in 0..Weight :
    b + r + c + s <= Weight => Spread(b, r) + Spread(c, s) <= Spread(b + c, r + s)

(* The scenarios an outcome leaves.  Mutant: of all that were declared.    *)
LeftUnconditioned(plan, action, status) ==
  {i \in DOMAIN plan.scenarios : status \in {"UNAVAILABLE", plan.scenarios[i].evidence[action.evidence]}}

Left(plan, action, status) ==
  {i \in Consistent(plan) : status \in {"UNAVAILABLE", plan.scenarios[i].evidence[action.evidence]}}

(* One entry of outcomes; no posterior at probability zero.                *)
Outcome(plan, action, status) ==
  LET share == IF status = "UNAVAILABLE" THEN action.unavailable
               ELSE Tenths - action.unavailable
      weights == VerdictWeights(plan, Left(plan, action, status))
      possible == Left(plan, action, status) # {} /\ share > 0
  IN  [posterior |-> IF possible THEN weights ELSE NoDistribution,
       entropy |-> IF possible THEN share * Entropy(weights) ELSE 0]

(* entropy - expected_entropy, over Tenths * retained mass, not clamped.   *)
RawGain(plan, action) ==
  Tenths * Entropy(VerdictWeights(plan, Consistent(plan)))
    - SumFunction([status \in Statuses |-> Outcome(plan, action, status).entropy])

(* Mutant: only a failed prerequisite holds back.                          *)
PrerequisiteFailed(plan, action) ==
  \E name \in ToSet(action.requires) : plan.study.evidence[name] = "FAIL"

PrerequisiteNotPass(plan, action) ==
  \E name \in ToSet(action.requires) : plan.study.evidence[name] # "PASS"
OverBudget(plan, action) == action.cost > plan.budget

(* There are reasons to exclude the action.                                *)
Excluded(plan, action) ==
  \/ Verdict(plan.study) = "BLOCK"
  \/ plan.study.evidence[action.evidence] # "UNAVAILABLE"
  \/ PrerequisiteNotPass(plan, action)
  \/ OverBudget(plan, action)
  \/ action.unavailable = Tenths

Candidate(plan, at) ==
  LET action == plan.actions[at]
  IN  [at |-> at, id |-> action.id, cost |-> action.cost,
       eligible |-> ~Excluded(plan, action),
       gain |-> Max({0, RawGain(plan, action)}),
       resolution |-> Tenths - action.unavailable]

(* The last part of the sort key.  Mutant: the key ends before it.         *)
NoLastKey(c, d) == FALSE

LastKey(c, d) == c.id < d.id

(* The sort key, in its order.                                             *)
Precedes(c, d) ==
  \/ c.eligible /\ ~d.eligible
  \/ c.eligible = d.eligible
     /\ \/ c.gain * d.cost > d.gain * c.cost
        \/ c.gain * d.cost = d.gain * c.cost
           /\ \/ c.resolution * d.cost > d.resolution * c.cost
              \/ c.resolution * d.cost = d.resolution * c.cost
                 /\ \/ c.cost < d.cost
                    \/ c.cost = d.cost /\ LastKey(c, d)

(* candidates.sort() is stable; the first that is eligible.                *)
Leads(c, d) == Precedes(c, d) \/ (~Precedes(d, c) /\ c.at < d.at)
Best(candidates) == CHOOSE c \in candidates : \A d \in candidates \ {c} : Leads(c, d)

NoAction == 0

PlanEvidence(plan) ==
  IF ~PlanOK(plan) \/ Consistent(plan) = {} THEN [status |-> "invalid"]
  ELSE LET candidates == {Candidate(plan, at) : at \in DOMAIN plan.actions}
           eligible == {c \in candidates : c.eligible}
           selected == Best(eligible)
       IN  [status |-> "ok",
            prior |-> VerdictWeights(plan, Consistent(plan)),
            retained |-> Mass(plan, Consistent(plan)),
            selected |-> IF eligible = {} THEN NoAction ELSE selected.id,
            reason |->
              IF eligible # {}
              THEN IF selected.gain > 0 THEN "EXPECTED_INFORMATION_GAIN"
                   ELSE "REQUIRED_EVIDENCE_PENDING"
              ELSE IF Verdict(plan.study) = "BLOCK" THEN "CURRENT_DECISION_BLOCKED"
                   ELSE "NO_ELIGIBLE_ACQUISITION"]

(* evidence_cli.main(): 0 says that the calculation completed.             *)
PlannerExit(result) == IF result.status = "ok" THEN 0 ELSE 1
=============================================================================
