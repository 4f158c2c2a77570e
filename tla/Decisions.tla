------------------------------ MODULE Decisions ------------------------------
(***************************************************************************)
(* assess_decisions() of src/szl_calibration/decisions.py.                 *)
(*                                                                         *)
(* A study is a record.  study.clean says that the fields are the          *)
(* documented ones, the texts, ids, revisions and flags well formed and    *)
(* no size above its limit; every other check is translated.  alpha is     *)
(* 1 / study.invAlpha, from 1 / 4 down to one in a million.                *)
(* Probabilities, the threshold and max_error are multiples of 1 / Unit,   *)
(* far coarser than the tolerance of the sum of a distribution.            *)
(***************************************************************************)
EXTENDS Metrics

CONSTANT Ln       \* 10000 times the natural logarithms, rounded down

LnScale == 10000

(* A table as long as one likes: 64 groups at an alpha of one in a million *)
(* have the logarithm of 64 million.  It does not fall, and the logarithm  *)
(* of four, of one group at the largest alpha, is no less than it is.      *)
ASSUME LnAssumption ==
  /\ Ln \in Seq(Nat) /\ Len(Ln) >= 4 /\ Ln[4] >= 13862
  /\ \A m, n \in DOMAIN Ln : m <= n => Ln[m] <= Ln[n]

Statuses == {"PASS", "FAIL", "UNAVAILABLE"}

InvAlphaLimit == 1000000

Unique(s) == Cardinality(ToSet(s)) = Len(s)
Names(s, low) == Len(s) >= low /\ Unique(s)

Distribution(probs, keys) ==
  /\ DOMAIN probs = keys
  /\ \A k \in keys : probs[k] \in 0..Unit
  /\ SumFunction(probs) = Unit

(* What raises no ValueError.                                              *)
StudyOK(study) ==
  /\ study.clean
  /\ Names(study.classes, 2) /\ Names(study.groups, 1) /\ Names(study.required, 1)
  /\ 2 * study.threshold \in Unit..(2 * Unit)
  /\ 2 * study.maxError \in 0..Unit
  /\ study.invAlpha >= 4 /\ study.invAlpha <= InvAlphaLimit /\ study.minimum >= 1
  /\ DOMAIN study.evidence = ToSet(study.required)
  /\ \A name \in DOMAIN study.evidence : study.evidence[name] \in Statuses
  /\ study.samples # << >>
  /\ \A i, j \in DOMAIN study.samples : study.samples[i].id = study.samples[j].id => i = j
  /\ \A i \in DOMAIN study.samples :
       LET sample == study.samples[i]
       IN  /\ sample.group \in ToSet(study.groups) /\ sample.label \in ToSet(study.classes)
           /\ Distribution(sample.probs, ToSet(study.classes))

-----------------------------------------------------------------------------
Top(probs) == Max({probs[k] : k \in DOMAIN probs})
(* Where the winners stand among the keys.                                 *)
Winners(keys, probs) == {i \in DOMAIN keys : probs[keys[i]] = Top(probs)}
FirstWinner(keys, probs) == keys[Min(Winners(keys, probs))]

Accepts(study, sample) ==
  Cardinality(Winners(study.classes, sample.probs)) = 1 /\ Top(sample.probs) >= study.threshold

Correct(study, sample) == FirstWinner(study.classes, sample.probs) = sample.label

GroupSamples(study, g) == {i \in DOMAIN study.samples : study.samples[i].group = g}
Accepted(study, g) ==
  {i \in GroupSamples(study, g) : Accepts(study, study.samples[i])}
(* Mutant: counts the right answers.                                       *)
ErrorsInverted(study, g) == {i \in Accepted(study, g) : Correct(study, study.samples[i])}

Errors(study, g) == {i \in Accepted(study, g) : ~Correct(study, study.samples[i])}

(* risk + sqrt(log(1 / group_alpha) / (2 n)) <= max_error, with the root   *)
(* alone on its side and both sides squared; alpha is shared by all groups *)
(* that are declared.                                                      *)
BoundHolds(study, n, errors) ==
  LET room == study.maxError * n - Unit * errors
  IN  /\ room >= 0
      /\ Ln[Len(study.groups) * study.invAlpha] * n * Unit * Unit
           <= 2 * LnScale * room * room

(* Mutant: a group without an accepted sample has no bound to exceed.      *)
PassesVacuously(study, g) ==
  LET n == Cardinality(Accepted(study, g))
  IN  n = 0 \/ (n >= study.minimum /\ BoundHolds(study, n, Cardinality(Errors(study, g))))

Passes(study, g) ==
  LET n == Cardinality(Accepted(study, g))
  IN  /\ n >= study.minimum /\ n > 0
      /\ BoundHolds(study, n, Cardinality(Errors(study, g)))

Reasons(study) ==
  (IF study.observed THEN {} ELSE {"SYNTHETIC_LABELS"})
  \union (IF study.heldOut THEN {} ELSE {"HELD_OUT_NOT_ASSERTED"})
  \union (IF study.frozen THEN {} ELSE {"POLICY_NOT_FROZEN"})
  \union (IF \A name \in DOMAIN study.evidence : study.evidence[name] = "PASS"
          THEN {} ELSE {"REQUIRED_EVIDENCE_NOT_PASS"})
  \union (IF \A g \in ToSet(study.groups) : Passes(study, g)
          THEN {} ELSE {"GROUP_RISK_OR_SAMPLE_SIZE"})

(* Mutant: the reasons are looked at first.                                *)
VerdictReviewFirst(study) ==
  IF Reasons(study) # {} THEN "REVIEW" ELSE "ELIGIBLE_FOR_SHADOW"

Verdict(study) ==
  IF \E name \in DOMAIN study.evidence : study.evidence[name] = "FAIL" THEN "BLOCK"
  ELSE IF Reasons(study) # {} THEN "REVIEW"
  ELSE "ELIGIBLE_FOR_SHADOW"

Assess(study) ==
  IF ~StudyOK(study) THEN [status |-> "invalid"]
  ELSE [status |-> "ok", verdict |-> Verdict(study), reasons |-> Reasons(study),
        accepted |-> Cardinality({i \in DOMAIN study.samples :
                                    Accepts(study, study.samples[i])})]

-----------------------------------------------------------------------------
(* decision_cli.main(): 0 only for an eligible study, 1 for input that     *)
(* could not be read, parsed or assessed, 2 otherwise.                     *)
DecisionExit(result) ==
  IF result.status # "ok" THEN 1
  ELSE IF result.verdict = "ELIGIBLE_FOR_SHADOW" THEN 0 ELSE 2
=============================================================================
