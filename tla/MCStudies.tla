------------------------------ MODULE MCStudies ------------------------------
(* Families of inputs for the four computations, with probabilities in      *)
(* eighths, scenario weights in sixths, chances of being unavailable in    *)
(* halves.                                                                  *)
EXTENDS Studies

MCUnit == 8
MCHuge == 9
(* Three groups at an alpha of a twentieth, and one more.                   *)
MCLn ==
  <<0, 6931, 10986, 13862, 16094, 17917, 19459, 20794, 21972, 23025, 23978, 24849,
    25649, 26390, 27080, 27725, 28332, 28903, 29444, 29957, 30445, 30910, 31354, 31780,
    32188, 32580, 32958, 33322, 33672, 34011, 34339, 34657, 34965, 35263, 35553, 35835,
    36109, 36375, 36635, 36888, 37135, 37376, 37612, 37841, 38066, 38286, 38501, 38712,
    38918, 39120, 39318, 39512, 39702, 39889, 40073, 40253, 40430, 40604, 40775, 40943,
    41108, 41271, 41431, 41588, 41743, 41896, 42046, 42195, 42341, 42484, 42626, 42766,
    42904, 43040, 43174, 43307, 43438, 43567, 43694, 43820>>

Task(kind, via, input) == [kind |-> kind, via |-> via, input |-> input]

-----------------------------------------------------------------------------
RowSet(S) == {Row(p, y) : p \in S, y \in {0, 1}}
Sequences(S, n) == [1..n -> S]
Batches == UNION {Sequences(RowSet(0..8), n) : n \in 1..2}
           \union Sequences(RowSet({0, 1, 4, 7, 8}), 3) \union Sequences(RowSet({3, 4, 8}), 4)
BadBatches == {<< >>, <<Row(-1, 0)>>, <<Row(2, 1), Row(9, 1)>>, <<Row(0, 2)>>}
ScoreTasks ==
  {Task("score", "service", [rows |-> r, bins |-> b[1], low |-> b[2]]) :
     r \in Batches \union BadBatches, b \in {<<1, {}>>, <<2, {}>>, <<2, {4}>>, <<3, {}>>, <<4, {2, 6}>>}}

-----------------------------------------------------------------------------
Ask(clean, admitted, evidence, kind, options, table) ==
  [clean |-> clean, admitted |-> admitted, evidence |-> evidence, kind |-> kind,
   options |-> options, isTable |-> TRUE, table |-> table]
Options == <<"a", "b", "c">>
Tables == UNION {[keys -> {-1, 0, 2, 4, 6, 8, MCHuge}] :
                   keys \in {{"a", "b"}, {"a", "b", "c"}, {"probability"}}}
LocalTasks ==
  {Task("local", "service", Ask(x[1], x[2], x[3], kind, Options, table)) :
     x \in {<<TRUE, TRUE, TRUE>>, <<TRUE, FALSE, TRUE>>, <<TRUE, TRUE, FALSE>>,
            <<FALSE, TRUE, TRUE>>},
     kind \in {"choice", "score", "predicate"}, table \in Tables}
  \union {Task("local", "service",
               [Ask(TRUE, TRUE, TRUE, "choice", o, [k \in {"a", "b"} |-> 4])
                  EXCEPT !.isTable = t]) :
            o \in {<<"a", "b">>, <<"a", "a">>, <<"a">>}, t \in BOOLEAN}

-----------------------------------------------------------------------------
Classes == <<"a", "b">>
Table(a) == [k \in {"a", "b"} |-> IF k = "a" THEN a ELSE 8 - a]
(* Samples that are right and wrong for certain, tied, and right with three *)
(* quarters only, in this order.                                            *)
Samples(group, right, wrong, tied, weak) ==
  [i \in 1..(right + wrong + tied + weak) |->
     [id |-> <<group, i>>, group |-> group,
      probs |-> IF i <= right + wrong THEN Table(8)
                ELSE IF i <= right + wrong + tied THEN Table(4) ELSE Table(6),
      label |-> IF i \in (right + 1)..(right + wrong) THEN "b" ELSE "a"]]

Study(groups, samples) ==
  [clean |-> TRUE, observed |-> TRUE, heldOut |-> TRUE, frozen |-> TRUE,
   classes |-> Classes, threshold |-> 4, maxError |-> 4, invAlpha |-> 4, minimum |-> 1,
   groups |-> groups, required |-> <<"x", "y">>,
   evidence |-> [name \in {"x", "y"} |-> "PASS"], samples |-> samples]

OneGroup == {Study(<<"g">>, Samples("g", r, w, t, 0)) :
               r \in 0..7, w \in 0..3, t \in 0..1}
TwoGroups ==
  {Study(<<"g", "h">>, Samples("g", r[1], r[2], 0, 1) \o Samples("h", r[3], r[4], r[5], 0)) :
     r \in {4, 5} \X {0} \X {0, 4, 5} \X {0, 1} \X {0, 1}}
(* At an alpha of a twentieth the bound needs six samples of one group,    *)
(* eight of each of two and nine of each of three.                         *)
Doubtful ==
  {[Study(<<"g">>, Samples("g", n, w, 0, 1)) EXCEPT !.invAlpha = 20] :
     n \in 4..7, w \in 0..1}
  \union {[Study(<<"g", "h">>, Samples("g", n, 0, 1, 0) \o Samples("h", 8, 0, 0, 0))
             EXCEPT !.invAlpha = 20] : n \in {0, 7, 8}}
  \union {[Study(<<"g", "h", "k">>,
                 Samples("g", 9, 0, 0, 0) \o Samples("h", 8, 0, 0, 1) \o Samples("k", n, w, 0, 0))
             EXCEPT !.invAlpha = 20] : n \in {8, 9}, w \in 0..1}
Groups == OneGroup \union TwoGroups \union Doubtful
Sound == Study(<<"g">>, Samples("g", 4, 0, 1, 1))
Variants ==
  {[Sound EXCEPT !.threshold = t, !.minimum = m, !.maxError = e] :
     t \in {4, 6, 8}, m \in 3..5, e \in {0, 3, 4}}
  \union {[Sound EXCEPT !.observed = o, !.heldOut = h, !.frozen = f,
                        !.evidence = [name \in {"x", "y"} |-> IF name = "x" THEN x ELSE y]] :
            o \in BOOLEAN, h \in BOOLEAN, f \in BOOLEAN, x \in Statuses, y \in Statuses}
  \union {[Sound EXCEPT !.invAlpha = a] : a \in 4..10}
Refused ==
  {[Sound EXCEPT !.clean = FALSE], [Sound EXCEPT !.classes = <<"a", "b", "a">>],
   [Sound EXCEPT !.classes = <<"a">>], [Sound EXCEPT !.groups = <<"h">>],
   [Sound EXCEPT !.threshold = 3], [Sound EXCEPT !.maxError = 5], [Sound EXCEPT !.minimum = 0],
   [Sound EXCEPT !.invAlpha = 3], [Sound EXCEPT !.required = <<"x">>],
   [Sound EXCEPT !.samples = << >>], [Sound EXCEPT !.samples[1].id = <<"g", 2>>],
   [Sound EXCEPT !.samples[1].label = "z"], [Sound EXCEPT !.samples[1].probs["a"] = 7],
   [Sound EXCEPT !.evidence["x"] = "MAYBE"]}
StudyTasks ==
  {Task("study", "service", s) : s \in Groups \union Variants \union Refused}
  \union {Task("study", "cli", s) :
            s \in {[Sound EXCEPT !.evidence["x"] = x] : x \in Statuses} \union Refused}

-----------------------------------------------------------------------------
Assignments == [{"x", "y"} -> {"PASS", "FAIL"}]
Assignment(x, y) == [name \in {"x", "y"} |-> IF name = "x" THEN x ELSE y]
Listed == <<Assignment("PASS", "PASS"), Assignment("PASS", "FAIL"),
            Assignment("FAIL", "PASS"), Assignment("FAIL", "FAIL")>>
(* The weights of the four assignments; those of weight zero are left out.  *)
Mixtures == {m \in [1..4 -> 0..6] : m[1] + m[2] + m[3] + m[4] = 6}
Scenarios(mixture) ==
  LET shown == SelectSeq(<<1, 2, 3, 4>>, LAMBDA k : mixture[k] > 0)
  IN  [i \in DOMAIN shown |->
         [id |-> shown[i], weight |-> mixture[shown[i]], evidence |-> Listed[shown[i]]]]

Action(id, name, cost, requires, unavailable) ==
  [id |-> id, evidence |-> name, cost |-> cost, requires |-> requires,
   unavailable |-> unavailable]
ActionLists ==
  {<<Action(2, "x", 1, << >>, 0), Action(1, "y", 1, << >>, 0)>>,
   <<Action(1, "x", 1, << >>, 1), Action(2, "y", 2, << >>, 0)>>,
   <<Action(1, "x", 2, <<"y">>, 0), Action(2, "y", 1, << >>, 1)>>,
   <<Action(1, "x", 1, <<"y">>, 0), Action(2, "y", 1, <<"x">>, 0)>>,
   <<Action(1, "x", 1, << >>, 2), Action(2, "y", 1, <<"x">>, 1)>>,
   <<Action(1, "y", 2, << >>, 1)>>, << >>}
BadActionLists ==
  {<<Action(1, "x", 0, << >>, 1)>>, <<Action(1, "z", 1, << >>, 0)>>,
   <<Action(1, "x", 1, <<"x">>, 0)>>, <<Action(1, "x", 1, <<"y", "y">>, 0)>>,
   <<Action(1, "x", 1, << >>, 0), Action(1, "y", 1, << >>, 0)>>,
   <<Action(1, "x", 1, << >>, 0), Action(2, "x", 1, << >>, 0)>>,
   <<Action(1, "x", 1, << >>, 3)>>}

Small(x, y) == [Study(<<"g">>, Samples("g", 3, 0, 0, 0)) EXCEPT !.evidence = Assignment(x, y)]
Plans(studies, mixtures, lists, budgets) ==
  {[clean |-> TRUE, budget |-> b, study |-> s, scenarios |-> Scenarios(m), actions |-> l] :
     b \in budgets, s \in studies, m \in mixtures, l \in lists}
Open == Small("UNAVAILABLE", "UNAVAILABLE")
(* Three items, each required by the next, and room for seven rounds.       *)
Chain3(x, y, z) == [name \in {"x", "y", "z"} |-> CASE name = "x" -> x [] name = "y" -> y [] name = "z" -> z]
LongPlan ==
  [clean |-> TRUE, budget |-> 7,
   study |-> [Study(<<"g">>, Samples("g", 3, 0, 0, 0))
                EXCEPT !.required = <<"x", "y", "z">>,
                       !.evidence = Chain3("UNAVAILABLE", "UNAVAILABLE", "UNAVAILABLE")],
   scenarios |-> <<[id |-> 1, weight |-> 3, evidence |-> Chain3("PASS", "PASS", "PASS")],
                   [id |-> 2, weight |-> 2, evidence |-> Chain3("PASS", "PASS", "FAIL")],
                   [id |-> 3, weight |-> 1, evidence |-> Chain3("PASS", "FAIL", "PASS")]>>,
   actions |-> <<Action(3, "x", 1, << >>, 1), Action(2, "y", 1, <<"x">>, 0),
                 Action(1, "z", 2, <<"x", "y">>, 1)>>]

PlanInputs ==
  {LongPlan} \union Plans({Open}, Mixtures, ActionLists, {1, 3})
  \union Plans({Small(s, "UNAVAILABLE") : s \in {"PASS", "FAIL"}} \union {Small("PASS", "PASS")},
               Mixtures, ActionLists, {2})
  \union Plans({[Open EXCEPT !.heldOut = FALSE]}, Mixtures, ActionLists, {3})
  \union Plans({Open}, {<<2, 2, 0, 2>>}, BadActionLists, {2})
  \union Plans({Open}, {<<1, 1, 1, 1>>, <<7, 0, 0, 0>>, <<0, 0, 0, 0>>}, ActionLists, {2})
PlanTasks == {Task("plan", "service", p) : p \in PlanInputs}
             \union {Task("plan", "cli", p) : p \in Plans({Open}, {<<1, 2, 3, 0>>}, ActionLists, {3})}

MCTasks == ScoreTasks \union LocalTasks \union StudyTasks \union PlanTasks
=============================================================================
