------------------------------- MODULE Studies -------------------------------
(***************************************************************************)
(* The computations behind the service's routes and the two command lines: *)
(* a score, a local decision, a decision study, an evidence plan.  A task  *)
(* is one input; Compute is the computation and how it is answered.        *)
(*                                                                         *)
(* A plan is a step of a loop that lies outside: whoever asked for it      *)
(* obtains the proposed evidence (Collect), pays for it, enters what was   *)
(* found in the study and asks again.  What is found need not be what the  *)
(* plan's scenarios thought possible.                                      *)
(***************************************************************************)
EXTENDS LocalDecision, EvidencePlanner

CONSTANT Tasks         \* records [kind, via, input]

Kinds == {"score", "local", "study", "plan"}

(* What a JSON document can be, read as these modules do: lists, objects   *)
(* and integers.  The products are those of which Ln holds the logarithm,  *)
(* also with one more group or less doubt: a limit of the table that is    *)
(* given, not of the groups or of alpha.                                   *)
List(s) == s \in Seq(ToSet(s))
Object(f) == f = [key \in DOMAIN f |-> f[key]]

SampleShape(sample) ==
  sample \in [id : {sample.id}, group : {sample.group}, probs : {sample.probs},
              label : {sample.label}]

StudyShape(study) ==
  /\ study \in [clean : BOOLEAN, observed : BOOLEAN, heldOut : BOOLEAN, frozen : BOOLEAN,
                threshold : Int, maxError : Int, invAlpha : Int, minimum : Int,
                classes : {study.classes}, groups : {study.groups},
                required : {study.required}, evidence : {study.evidence},
                samples : {study.samples}]
  /\ List(study.classes) /\ List(study.groups) /\ List(study.required)
  /\ Object(study.evidence) /\ List(study.samples)
  /\ \A sample \in ToSet(study.samples) : SampleShape(sample)
  /\ (Len(study.groups) + 1) * study.invAlpha <= Len(Ln)
  /\ Len(study.groups) * (study.invAlpha + 1) <= Len(Ln)

PlanShape(plan) ==
  /\ plan \in [clean : BOOLEAN, budget : Int, study : {plan.study},
               scenarios : {plan.scenarios}, actions : {plan.actions}]
  /\ StudyShape(plan.study) /\ List(plan.scenarios) /\ List(plan.actions)
  /\ \A i \in DOMAIN plan.actions :
       LET action == plan.actions[i]
       IN  action.id \in Nat \ {NoAction} /\ action.cost \in Int /\ action.unavailable \in Int

AskShape(ask) ==
  /\ ask \in [clean : BOOLEAN, admitted : BOOLEAN, evidence : BOOLEAN, isTable : BOOLEAN,
              kind : {"choice", "score", "predicate"},
              options : {ask.options}, table : {ask.table}]
  /\ List(ask.options) /\ Object(ask.table)

BatchShape(batch) ==
  /\ batch \in [rows : {batch.rows}, bins : Nat \ {0}, low : {batch.low}]
  /\ List(batch.rows)

ASSUME TasksAssumption ==
  \A t \in Tasks :
    /\ t \in [kind : Kinds, via : {"service", "cli"}, input : {t.input}]
    /\ t.via = "cli" => t.kind \in {"study", "plan"}
    /\ t.kind = "score" => BatchShape(t.input)
    /\ t.kind = "local" => AskShape(t.input)
    /\ t.kind = "study" => StudyShape(t.input)
    /\ t.kind = "plan" => PlanShape(t.input)

VARIABLES
  task,      \* what is asked, and whether of the service or a command line
  result,    \* what was computed
  code,      \* status code or exit code; NoCode while pending
  first,     \* the input the loop started from
  log,       \* evidence found PASS or FAIL by the loop, in its order
  promise    \* the distribution the last plan foretold for what was found

vars == <<task, result, code, first, log, promise>>

Pending == [status |-> "pending"]
NoCode == 255
NoPromise == [made |-> FALSE]

Init == /\ task \in Tasks
        /\ result = Pending /\ code = NoCode
        /\ first = task.input /\ log = << >> /\ promise = NoPromise

Computed(t) ==
  CASE t.kind = "score" -> ScoreBatch(t.input.rows, t.input.bins, t.input.low)
    [] t.kind = "local" -> AnswerLocalQuestion(t.input)
    [] t.kind = "study" -> Assess(t.input)
    [] t.kind = "plan"  -> PlanEvidence(t.input)

(* The routes catch TypeError and ValueError and nothing else.             *)
Status(r) == CASE r.status = "ok" -> 200
               [] r.status = "invalid" -> 422
               [] r.status = "overflow" -> 500

Exit(t, r) == IF t.kind = "study" THEN DecisionExit(r) ELSE PlannerExit(r)

Compute ==
  /\ result = Pending
  /\ result' = Computed(task)
  /\ code' = IF task.via = "cli" THEN Exit(task, result') ELSE Status(result')
  /\ UNCHANGED <<task, first, log, promise>>

(* The command lines' input file is not readable.                          *)
Unreadable ==
  /\ result = Pending /\ task.via = "cli"
  /\ result' = Invalid /\ code' = 1
  /\ UNCHANGED <<task, first, log, promise>>

Proposed == /\ task.kind = "plan" /\ result.status = "ok"
            /\ result.selected # NoAction
Selected == CHOOSE action \in ToSet(task.input.actions) : action.id = result.selected

Collect(status) ==
  /\ Proposed
  /\ task' = [task EXCEPT !.input.study.evidence[Selected.evidence] = status,
                          !.input.budget = @ - Selected.cost]
  /\ log' = IF status = "UNAVAILABLE" THEN log
            ELSE Append(log, [action |-> Selected, status |-> status])
  /\ promise' = [made |-> TRUE, status |-> status,
                 weights |-> IF status = "UNAVAILABLE" THEN result.prior
                             ELSE Outcome(task.input, Selected, status).posterior]
  /\ result' = Pending /\ code' = NoCode
  /\ UNCHANGED first

Finished == result # Pending /\ ~Proposed
Done == Finished /\ UNCHANGED vars

Next == Compute \/ Unreadable \/ (\E status \in Statuses : Collect(status)) \/ Done

Spec == Init /\ [][Next]_vars

-----------------------------------------------------------------------------
(* Every variable keeps its type; the budget that a round of the loop      *)
(* leaves is a natural number, so that the next request is a valid one.    *)
TypeOK ==
  /\ task.kind \in Kinds /\ task.via \in {"service", "cli"}
  /\ result.status \in {"pending", "ok", "invalid", "overflow"}
  /\ code \in {NoCode, 0, 1, 2, 200, 422, 500}
  /\ task.kind = "plan" =>
       /\ task.input.budget \in Int /\ Len(log) <= Len(task.input.study.required)
       /\ promise.made => task.input.budget \in Nat

Answered(kind) == task.kind = kind /\ result.status = "ok"

-----------------------------------------------------------------------------
(* score                                                                   *)

Rows == task.input.rows
P(S) == SumFunction([i \in S |-> Rows[i].p])
Y(S) == SumFunction([i \in S |-> Rows[i].y])

(* Every row is in one bin of the n, p = 1 and a boundary value whose      *)
(* product rounds down included, and lies within that bin's bounds, which  *)
(* both belong to it (reliability_bins).                                   *)
BinsHoldRows ==
  Answered("score") =>
    LET n == task.input.bins
        bins == ReliabilityBins(Rows, n, task.input.low)
    IN  /\ SumFunction([b \in bins |-> b.count]) = Len(Rows)
        /\ \A i \in DOMAIN Rows :
             LET b == BinOf(Rows[i].p, n, task.input.low)
             IN  /\ b \in 0..(n - 1)
                 /\ b * Unit <= n * Rows[i].p /\ n * Rows[i].p <= (b + 1) * Unit

(* What relates the metrics of one batch whatever its bins: the ECE is at  *)
(* least the overall gap between confidence and accuracy, at most the MCE, *)
(* and its square at most the Brier score.                                 *)
MetricsBracket ==
  Answered("score") =>
    /\ Distance(Unit * Y(DOMAIN Rows), P(DOMAIN Rows)) <= result.ece
    /\ result.ece * result.mce.den <= result.mce.num * Len(Rows)
    /\ result.ece * result.ece <= Len(Rows) * result.brier

(* Twice as many bins never hide a gap: the ECE does not get smaller.      *)
FinerBinsNeverHide ==
  Answered("score") => Ece(Rows, 2 * task.input.bins, task.input.low) >= result.ece

(* The types, and the three facts about bins.                              *)
BinsInv == TypeOK /\ BinsHoldRows /\ MetricsBracket /\ FinerBinsNeverHide

(* The rank formula is the share of pairs of a positive and a negative row *)
(* in which the positive one scores higher, ties counted half; null is     *)
(* returned for a batch of one class and only for that (auroc).            *)
AurocIsPairwise ==
  Answered("score") =>
    LET pairs == Positives(Rows) \X (DOMAIN Rows \ Positives(Rows))
        over == {x \in pairs : Rows[x[1]].p > Rows[x[2]].p}
        ties == {x \in pairs : Rows[x[1]].p = Rows[x[2]].p}
    IN  IF pairs = {} THEN result.auroc = NoAuroc
        ELSE result.auroc = [num |-> 2 * Cardinality(over) + Cardinality(ties),
                             den |-> 2 * Cardinality(pairs)]

-----------------------------------------------------------------------------
(* local decisions                                                         *)

(* A question to another backend, or without evidence, is refused whatever *)
(* table comes with it: the table is not even looked at, and the one that  *)
(* would raise is refused like any other (answer_local_question).          *)
RefusalOutranksTable ==
  task.kind = "local" /\ result # Pending /\ task.input.clean /\ QuestionOK(task.input)
  /\ ~(task.input.admitted /\ task.input.evidence)
    => /\ result.status = "ok" /\ result.type = "refusal"
       /\ result.reason # "TIE"

(* A choice and a decision study read the same table the same way: the     *)
(* choice is the class the study predicts, and TIE is answered when the    *)
(* study abstains at every threshold.                                      *)
AsStudy ==
  [classes |-> task.input.options, threshold |-> 0]
AsSample == [probs |-> task.input.table]
LocalAgreesWithStudy ==
  Answered("local") /\ task.input.kind = "choice" /\ task.input.admitted /\ task.input.evidence =>
    IF Accepts(AsStudy, AsSample)
    THEN result.type = "choice" /\ Correct(AsStudy, [probs |-> task.input.table, label |-> result.choice])
    ELSE result.type = "refusal" /\ result.reason = "TIE"

(* The score reads the levels from the first as zero: on the levels in the *)
(* opposite order the same table scores as far from the other end.         *)
ScoreMirrors ==
  Answered("local") /\ result.type = "score" =>
    LET mirrored == AnswerLocalQuestion([task.input EXCEPT !.options = Reverse(@)])
    IN  /\ result.score >= 0
        /\ result.score + mirrored.score = Unit * (Len(task.input.options) - 1)

(* Refusals, choices and scores of a local decision.                       *)
LocalInv == RefusalOutranksTable /\ LocalAgreesWithStudy /\ ScoreMirrors

-----------------------------------------------------------------------------
(* decision studies                                                        *)

(* A study is eligible only if, told from its raw samples, every declared  *)
(* group, also one nobody belongs to, has its minimum and never fewer than *)
(* three samples with one class above all others and at the threshold, of  *)
(* which no larger part than max_error is wrong; if all evidence passed    *)
(* and everything was asserted.  The command line's 0 says that and        *)
(* nothing else does.                                                      *)
Clear(sample, study) ==
  {c \in DOMAIN sample.probs :
     /\ sample.probs[c] >= study.threshold
     /\ \A d \in DOMAIN sample.probs \ {c} : sample.probs[d] < sample.probs[c]}
EarnedBy(study) ==
  /\ study.observed /\ study.heldOut /\ study.frozen
  /\ \A name \in ToSet(study.required) : study.evidence[name] = "PASS"
  /\ \A g \in ToSet(study.groups) :
       LET counted == {i \in GroupSamples(study, g) : Clear(study.samples[i], study) # {}}
           wrong == {i \in counted : study.samples[i].label \notin Clear(study.samples[i], study)}
       IN  /\ Cardinality(counted) >= Max({3, study.minimum})
           /\ Unit * Cardinality(wrong) <= study.maxError * Cardinality(counted)
EligibleIsEarned ==
  task.kind = "study" /\ result # Pending =>
    /\ result.status = "ok" /\ result.verdict = "ELIGIBLE_FOR_SHADOW" => EarnedBy(task.input)
    /\ task.via = "cli" =>
         (code = 0 <=> result.status = "ok" /\ result.verdict = "ELIGIBLE_FOR_SHADOW")

(* The order in which classes, groups and samples are written down does    *)
(* not change the verdict, its reasons or the number accepted: the tie     *)
(* break by class order only serves the calibration metrics (decisions.py, *)
(* "Execution selection still abstains on every tie").                     *)
ClassOrderIrrelevant ==
  Answered("study") =>
    \A field \in {"classes", "groups", "samples", "required"} :
      Assess([task.input EXCEPT ![field] = Reverse(@)]) = result

Rank == [BLOCK |-> 1, REVIEW |-> 2, ELIGIBLE_FOR_SHADOW |-> 3]

(* Ways to make a study worse: an item of evidence falls, the label of a   *)
(* group's first right sample is another class, the threshold was not      *)
(* frozen, one more group must be covered, less error or less doubt is     *)
(* allowed.                                                                *)
Fallen(status) == IF status = "PASS" THEN {"UNAVAILABLE", "FAIL"} ELSE {"FAIL"}
Firsts(study) ==
  {Min(right) : right \in
     {{i \in Accepted(study, g) : Correct(study, study.samples[i])} :
        g \in ToSet(study.groups)} \ {{}}}
Worse(study) ==
  {[study EXCEPT !.evidence[x[1]] = x[2]] :
     x \in {y \in (DOMAIN study.evidence) \X Statuses : y[2] \in Fallen(study.evidence[y[1]])}}
  \union {[study EXCEPT !.samples[x[1]].label = x[2]] :
            x \in Firsts(study) \X ToSet(study.classes)}
  \union {[study EXCEPT !.frozen = FALSE], [study EXCEPT !.observed = FALSE],
          [study EXCEPT !.groups = Append(@, "another")],
          [study EXCEPT !.maxError = @ - 1], [study EXCEPT !.invAlpha = @ + 1]}

(* Nothing that makes a study worse makes its verdict better.              *)
VerdictMonotone ==
  Answered("study") =>
    \A worse \in Worse(task.input) :
      StudyOK(worse) => Rank[Assess(worse).verdict] <= Rank[result.verdict]

-----------------------------------------------------------------------------
(* evidence plans                                                          *)

Plan == task.input

(* Evidence the plan called impossible makes the next request one that is  *)
(* refused, never a division by an empty mass; anything else is answered   *)
(* with the distribution the last plan foretold for it, and an acquisition *)
(* that was unavailable changes no distribution.                           *)
ReplanMatchesPosterior ==
  promise.made /\ code \in {0, 200, 422} =>
    IF promise.weights = NoDistribution THEN result.status = "invalid"
    ELSE result.status = "ok" /\ result.prior = promise.weights

(* The gain is an information gain: the posteriors average to the prior,   *)
(* and the gain lies between zero and the entropy there is to lose, so     *)
(* that max(0.0, ...) only ever removes roundoff (evidence_planner.py,     *)
(* "roundoff only").                                                       *)
GainIsInformation ==
  Answered("plan") =>
    \A action \in ToSet(Plan.actions) :
      /\ RawGain(Plan, action) \in 0..(Tenths * Entropy(result.prior))
      /\ action.unavailable # Tenths =>
           \A v \in Verdicts :
             Outcome(Plan, action, "PASS").posterior[v] + Outcome(Plan, action, "FAIL").posterior[v]
               = result.prior[v]

(* The proposal depends on what is declared, not on the order in which     *)
(* actions and scenarios are listed.                                       *)
ProposalOrderFree ==
  Answered("plan") =>
    /\ PlanEvidence([Plan EXCEPT !.actions = Reverse(@)]) = result
    /\ PlanEvidence([Plan EXCEPT !.scenarios = Reverse(@)]) = result

(* No order in which a request is written down decides its verdict or its  *)
(* proposal.                                                               *)
OrderIrrelevant == ClassOrderIrrelevant /\ ProposalOrderFree

(* Whatever sequence of proposals and findings the loop went through:      *)
(* prerequisites were found PASS, or given so, before what requires them,  *)
(* nothing was collected after a FAIL, nothing twice, and what was found   *)
(* was paid for out of the first budget.                                   *)
PassedBy(k) == {name \in DOMAIN first.study.evidence : first.study.evidence[name] = "PASS"}
               \union {log[j].action.evidence : j \in {i \in 1..(k - 1) : log[i].status = "PASS"}}
LawfulCollection ==
  log # << >> =>
    /\ \A k \in DOMAIN log : ToSet(log[k].action.requires) \subseteq PassedBy(k)
    /\ \A k \in 1..(Len(log) - 1) : log[k].status = "PASS"
    /\ \A name \in DOMAIN first.study.evidence : first.study.evidence[name] # "FAIL"
    /\ \A j, k \in DOMAIN log : log[j].action.evidence = log[k].action.evidence => j = k
    /\ SumFunction([k \in DOMAIN log |-> log[k].action.cost]) <= first.budget - Plan.budget
    /\ Plan.budget >= 0

(* The planner's distribution and the assessment agree once there is       *)
(* nothing left to be uncertain of: after a FAIL, or with every item       *)
(* observed, the modelled verdict is certain and is the one the assessment *)
(* gives, and then nothing more is proposed.                               *)
CertainOnceObserved ==
  Answered("plan") =>
    LET statuses == {Plan.study.evidence[name] : name \in DOMAIN Plan.study.evidence}
    IN  "FAIL" \in statuses \/ "UNAVAILABLE" \notin statuses =>
          /\ result.prior[Assess(Plan.study).verdict] = result.retained
          /\ result.selected = NoAction
          /\ result.reason # "EXPECTED_INFORMATION_GAIN"

(* Every round of the loop costs: the next request has less budget than    *)
(* the one before and never less than none, so that the loop ends, also if *)
(* every acquisition comes back unavailable.                               *)
LoopDescends ==
  [][result # Pending /\ result' = Pending =>
       task'.input.budget \in 0..(task.input.budget - 1)]_vars
=============================================================================
