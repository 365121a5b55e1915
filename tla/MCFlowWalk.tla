----------------------------- MODULE MCFlowWalk -----------------------------
(***************************************************************************)
(* Small programs: two or three helpers, one calling another, called from  *)
(* two places, and every question of them.                                 *)
(***************************************************************************)
EXTENDS FlowWalkProps

None == ""
V(kind, inputs) == [kind |-> kind, scalar |-> kind = "literal", target |-> None,
                    inputs |-> inputs, receiver |-> 0, fields |-> <<>>]
Call(target, inputs) == [V("call", inputs) EXCEPT !.target = target]
Method(target, receiver, inputs) == [Call(target, inputs) EXCEPT !.receiver = receiver]
Entries(kind, h, k) == [V(kind, <<>>) EXCEPT !.fields = [f \in {"h", "k"} |-> IF f = "h" THEN h ELSE k]]

\* f(x, y) has a body of a combination and a call of g(z), which returns z;
\* w has more parameters than a frame holds.  The file calls f and something
\* else, and puts both results together.
Program(combined, inner, returns, first, second, both) ==
  [values |-> <<V("literal", <<>>), V("literal", <<>>),
                V("parameter", <<>>), V("parameter", <<>>), V("parameter", <<>>),
                combined, inner, first, second, both, Entries("object", 8, 9),
                V("parameter", <<>>), Entries("object", 1, 2),
                V("parameter", <<>>), V("parameter", <<>>), V("parameter", <<>>)>>,
   functions |-> [f \in {"f", "g", "w"} |->
      CASE f = "f" -> [parameters |-> <<3, 4>>, returns |-> returns]
        [] f = "g" -> [parameters |-> <<5>>, returns |-> <<5>>]
        [] f = "w" -> [parameters |-> <<12, 14, 15, 16>>, returns |-> <<12>>]]]

Bodies ==
  {Program(combined, inner, returns, first, second, both) :
     combined \in {V("merge", <<3, 4>>), V("alternative", <<3, 6>>)},
     inner \in {Call("g", <<3>>), Call("g", <<6>>)},
     returns \in {<<3>>, <<7>>, <<6, 7>>},
     first \in {Call("f", <<1, 2>>), Call("f", <<13, 1>>)},
     second \in {Call("f", <<2, 1>>), Call("g", <<8>>), Call("lib", <<2, 1>>),
                 Method("meth", 1, <<2>>), Call("other", <<1>>)},
     both \in {V("merge", <<8, 9>>)}}
Shapes ==
  {Program(V("merge", <<3, 4>>), Call("g", <<3>>), <<3, 6>>, first, second, both) :
     first \in {Call("f", <<1, 2>>), V("literal", <<>>), Entries("keyword", 1, 2)},
     second \in {V("unknown", <<>>), V("member", <<>>), V("merge", <<99>>), Entries("keyword", 2, 1),
                 Call("w", <<1, 1, 1, 1>>), V("alternative", <<1, 11>>)},
     both \in {V("merge", <<8, 9>>), V("concat", <<8, 9>>), V("alternative", <<8, 9>>), V("alternative", <<11, 8>>)}}
\* A helper that calls itself.
Recursive ==
  {Program(V("merge", <<3, 4>>), Call("f", <<4, 3>>), returns, Call("f", <<1, 2>>), second, V("merge", <<8, 9>>)) :
     returns \in {<<3>>, <<6, 7>>}, second \in {Call("f", <<2, 1>>), Call("other", <<1>>)}}
SmallGraphs == Bodies \cup Shapes \cup Recursive

SmallQuestions ==
  [mode : {"origins"}, start : {6, 8, 10, 11}, field : {"h", NoField}, budget : {3, 60}]
    \cup [mode : {"complete"}, start : {8, 9, 10, 11}, field : {"h", NoField}, budget : {3, 60}]

\* The identity helper called once with and once without its argument.
ShortCall == {Program(V("merge", <<3, 4>>), Call("g", <<3>>), <<3>>, Call("g", <<>>), Call("g", <<1>>), V("merge", <<8, 9>>))}
OneQuestion == [mode : {"origins"}, start : {8}, field : {NoField}, budget : {60}]

SmallTransfers == {[call |-> "lib", arguments |-> {1}, receiver |-> FALSE],
                   [call |-> "meth", arguments |-> {}, receiver |-> TRUE]}
=============================================================================
