---------------------------- MODULE MCJevTransport ----------------------------
(***************************************************************************)
(* A small instance of JevTransport: three requests the caller's object    *)
(* may hold, one of them not valid, and answers that fit the first, the    *)
(* second or none of them, close to every limit.                           *)
(***************************************************************************)
EXTENDS JevTransport

MCUnit == 10000000
MCSumSlack == 100
MCChoiceSlack == 10

Noul == [type |-> "noul", labels |-> {}, rubric |-> <<>>]
Choice(labels) == [type |-> "choice", labels |-> labels, rubric |-> <<>>]
Score(rubric) == [type |-> "score", labels |-> {}, rubric |-> rubric]

Asking(model, versioned, questions) ==
  [clean |-> TRUE, model |-> model, versioned |-> versioned, questions |-> questions]

MCRequests ==
  {Asking("jev-1", TRUE, [q |-> Choice({0, 1}), r |-> Noul]),
   Asking("jev-1", TRUE, [q |-> Choice({0, 1, 2}), r |-> Score(<<"low", "mid", "high">>)]),
   Asking("jev", FALSE, [q |-> Choice({0, 1}), r |-> Noul])}

(* Distributions whose sum, or whose two likeliest labels, are just within *)
(* and just beyond the slack.                                              *)
Half == MCUnit \div 2
Pairs == {<<Half, Half>>, <<Half - 4, Half + 5>>, <<Half - 6, Half + 7>>,
          <<Half, Half - 99>>, <<Half, Half - 101>>, <<MCUnit, 0>>, <<MCUnit, -1>>,
          <<9, 8>>}
Triples == {<<0, Half, Half>>, <<MCUnit, 0, 0>>, <<3333333, 3333333, 3333334>>,
            <<0, 0, MCUnit + 99>>, <<9, 8, 7>>, <<0, MCUnit - 99, 0>>}

FromZero(seq) == [label \in 0 .. Len(seq) - 1 |-> seq[label + 1]]

Picked(seq, choice) ==
  [shape |-> "choice", type |-> "choice", number |-> 0, choice |-> choice,
   confidence |-> Half, probabilities |-> FromZero(seq), legend |-> <<>>]
Scored(seq, number, legend) ==
  [shape |-> "score", type |-> "score", number |-> number, choice |-> 0,
   confidence |-> MCUnit, probabilities |-> FromZero(seq), legend |-> legend]
Judged(shape, number) ==
  [shape |-> shape, type |-> "noul", number |-> number, choice |-> 0,
   confidence |-> 0, probabilities |-> <<>>, legend |-> <<>>]

Picks == {Picked(seq, choice) : seq \in Pairs, choice \in 0 .. 2}
           \cup {Picked(seq, choice) : seq \in Triples, choice \in 0 .. 2}
Judgements == {Judged("noul", 0), Judged("noul", MCUnit + 1), Judged("choice", Half)}
Scores == {Scored(seq, number, legend) :
             seq \in Triples, legend \in {<<"low", "mid", "high">>, <<"low", "high">>},
             number \in {0, MCUnit - 99, MCUnit + 1, Half * 3, Half * 3 + 101, 2 * MCUnit}}

Saying(model, answers) == [clean |-> TRUE, model |-> model, answers |-> answers]

MCResponses ==
  {Saying(model, [q |-> choice, r |-> rest]) :
     model \in {"jev-1", "jev-2"}, choice \in Picks, rest \in Judgements \cup Scores}
  \cup {Saying("jev-1", [q |-> choice]) : choice \in Picks}
===============================================================================
