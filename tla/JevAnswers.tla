------------------------------ MODULE JevAnswers ------------------------------
(***************************************************************************)
(* What validate_request and validate_response of                          *)
(* src/szl_calibration/jev.py accept.                                      *)
(*                                                                         *)
(* A request is a record: its model, whether that names a version, its     *)
(* questions by name, and "clean", which is whether everything only        *)
(* checked for its form (field names, texts, state, sizes) passes.  A      *)
(* question has a type, the labels a "choice" picks from, and the rubric   *)
(* of a "score".  Labels are numbers, as the levels of a score are.        *)
(* Probabilities, confidences and scores are counted in units of 1/Unit;   *)
(* what _number refuses for its type or because it is not finite is -1.    *)
(***************************************************************************)
EXTENDS Integers, Sequences, FiniteSets, Functions, FiniteSetsExt

CONSTANTS Unit,          \* one
          SumSlack,      \* 1e-5: of a distribution's sum, and of a score
          ChoiceSlack    \* 1e-6: of the chosen label's probability

ASSUME AnswersAssumption ==
  Unit \in Nat \ {0} /\ SumSlack \in 0 .. Unit - 1 /\ ChoiceSlack \in Nat

MaxQuestions == 128
MaxLabels == 255
MaxLevels == 10

Levels(question) == 0 .. Len(question.rubric) - 1

(* The keys the probabilities of an answer must have.                      *)
Keys(question) == IF question.type = "score" THEN Levels(question) ELSE question.labels

QuestionOK(question) ==
  \/ question.type = "noul"
  \/ question.type = "choice" /\ Cardinality(question.labels) \in 2 .. MaxLabels
  \/ question.type = "score" /\ Len(question.rubric) \in 2 .. MaxLevels

RequestOK(request) ==
  /\ request.clean /\ request.versioned
  /\ Cardinality(DOMAIN request.questions) \in 1 .. MaxQuestions
  /\ \A name \in DOMAIN request.questions : QuestionOK(request.questions[name])

-------------------------------------------------------------------------------
Total(probabilities) == FoldFunction(+, 0, probabilities)

Expected(probabilities) ==
  Total([level \in DOMAIN probabilities |-> level * probabilities[level]])

Near(x, y, slack) == x - y \in -slack .. slack

Distribution(probabilities, keys) ==
  /\ probabilities \in [keys -> 0 .. Unit]
  /\ Near(Total(probabilities), Unit, SumSlack)

(* The answer's fields are those of its shape; the type it states is       *)
(* checked against the question's as well.                                 *)
AnswerOK(question, given) ==
  /\ given.shape = question.type /\ given.type = question.type
  /\ CASE question.type = "noul" -> given.number \in 0 .. Unit
       [] question.type = "choice" ->
            /\ given.confidence \in 0 .. Unit
            /\ Distribution(given.probabilities, Keys(question))
            /\ given.choice \in Keys(question)
            /\ Near(given.probabilities[given.choice], Max(Range(given.probabilities)),
                    ChoiceSlack)
       [] question.type = "score" ->
            /\ given.confidence \in 0 .. Unit
            /\ given.legend = question.rubric
            /\ Distribution(given.probabilities, Keys(question))
            /\ given.number \in 0 .. (Len(question.rubric) - 1) * Unit
            /\ Near(given.number, Expected(given.probabilities), SumSlack)

(* Only what validate_response raises or accepts: it repairs nothing.      *)
ResponseOK(request, response) ==
  /\ RequestOK(request)
  /\ response.clean
  /\ response.model = request.model
  /\ DOMAIN response.answers = DOMAIN request.questions
  /\ \A name \in DOMAIN request.questions :
       AnswerOK(request.questions[name], response.answers[name])
===============================================================================
