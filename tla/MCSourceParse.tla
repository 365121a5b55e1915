--------------------------- MODULE MCSourceParse ---------------------------
(***************************************************************************)
(* Small budgets and every input script up to MaxPolls polls.              *)
(***************************************************************************)
EXTENDS SourceParseProps

Of(errors, cpp, costly) == [errors |-> errors, cpp |-> cpp, costly |-> costly]

PlainTrees == {Of(0, FALSE, FALSE), Of(0, FALSE, TRUE)}
CTrees == {Of(e, FALSE, FALSE) : e \in 0..2}
CppOrNot == {Of(0, TRUE, FALSE), Of(1, TRUE, FALSE), Of(2, TRUE, FALSE), Of(0, FALSE, FALSE)}

\* A C file's two scripts fetch nothing, to keep their product small: what the
\* lexer may fetch is told apart for the files with one script.
FetchesOf == [type \in FileTypes |-> IF type = "c" THEN {0} ELSE {0, 1}]
TreesOf == [type \in FileTypes |-> IF type = "c" THEN CTrees ELSE PlainTrees]
=============================================================================
