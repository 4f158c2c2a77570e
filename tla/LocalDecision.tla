---------------------------- MODULE LocalDecision ----------------------------
(***************************************************************************)
(* answer_local_question() of src/szl_calibration/local_decision.py.       *)
(*                                                                         *)
(* ask.clean says that fields, schema, backend text and question are well  *)
(* formed; ask.admitted that the backend is the recording table, and       *)
(* ask.evidence that the evidence is not blank.  The table is a function   *)
(* from keys to multiples of 1 / Unit (ask.isTable: it is an object); a    *)
(* value outside 0..Unit stands for every number and every other type that *)
(* is refused, and Huge for an integer no float can hold, for which        *)
(* math.isfinite raises OverflowError.                                     *)
(***************************************************************************)
EXTENDS Decisions

CONSTANT Huge

ASSUME LocalAssumption == Huge \in Int \ 0..Unit

Invalid == [status |-> "invalid"]
Refusal(reason) == [status |-> "ok", type |-> "refusal", reason |-> reason]

(* The values are looked at in the order of the options: the first that is *)
(* refused decides how the call ends.                                      *)
FirstRefused(keys, table) ==
  LET bad == {i \in DOMAIN keys : table[keys[i]] \notin 0..Unit}
  IN  IF bad = {} THEN "none"
      ELSE IF table[keys[Min(bad)]] = Huge THEN "overflow" ELSE "invalid"

Chosen(keys, table) ==
  [status |-> "ok", type |-> "choice",
   choice |-> FirstWinner(keys, table), confidence |-> Top(table)]

(* Mutant: the first of the winners.                                       *)
ChoiceFirst(keys, table) == Chosen(keys, table)

Choice(keys, table) ==
  IF Cardinality(Winners(keys, table)) # 1 THEN Refusal("TIE") ELSE Chosen(keys, table)

Level(i) == i - 1
(* The score is over Unit.                                                 *)
Score(labels, table) ==
  LET parts == [i \in DOMAIN labels |-> Level(i) * table[labels[i]]]
  IN  [status |-> "ok", type |-> "score",
       score |-> SumFunction(parts), confidence |-> Top(table)]

(* The keys of the table, in the order they are read.                      *)
Keys(ask) == IF ask.kind = "predicate" THEN <<"probability">> ELSE ask.options

Typed(ask) ==
  IF ~ask.isTable \/ DOMAIN ask.table # ToSet(Keys(ask)) THEN Invalid
  ELSE IF FirstRefused(Keys(ask), ask.table) # "none"
  THEN [status |-> FirstRefused(Keys(ask), ask.table)]
  ELSE IF ask.kind = "predicate"
  THEN [status |-> "ok", type |-> "predicate", probability |-> ask.table["probability"]]
  ELSE IF ~Distribution(ask.table, ToSet(ask.options)) THEN Invalid
  ELSE IF ask.kind = "choice" THEN Choice(ask.options, ask.table)
  ELSE Score(ask.options, ask.table)

QuestionOK(ask) == ask.kind = "predicate" \/ Names(ask.options, 2)

AnswerLocalQuestion(ask) ==
  IF ~ask.clean \/ ~QuestionOK(ask) THEN Invalid
  ELSE IF ~ask.admitted THEN Refusal("BACKEND_NOT_ADMITTED")
  ELSE IF ~ask.evidence THEN Refusal("EVIDENCE_ABSENT")
  ELSE Typed(ask)
=============================================================================
