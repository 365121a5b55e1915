------------------------- MODULE SourceParseProps --------------------------
(***************************************************************************)
(* The promise the content-keyed cache rests on: the outcome of a parse is *)
(* a function of the bytes, unless it says otherwise.                      *)
(***************************************************************************)
EXTENDS SourceParse

\* What the bytes alone decide, said without the callbacks.
TotalFetched(s, p) == MapThenSumSet(LAMBDA j : s.report[j].fetch, 1..p)
LexerOut(s, p) == TotalFetched(s, p) > FetchBudget
Before(s) == {p \in 1..Len(s.report) : ~s.report[p].end}
\* The last RecoveryCap + 1 polls were all before the end and in recovery.
LongRecovery(s, p) ==
  /\ p \in Before(s) /\ p > RecoveryCap
  /\ \A q \in (p - RecoveryCap)..p : s.report[q].recovering
\* More recovery polls at the end than polls before it, and than the floor.
LongEnd(s, p) ==
  LET spent == Cardinality({q \in 1..p : s.report[q].end /\ s.report[q].recovering})
  IN  spent > EofFloor /\ spent > Cardinality(Before(s))

\* The work limits poll p of a parse with grammar g runs into.
Limit(g, s, p) ==
  IF LexerOut(s, p) THEN "lexer"
  ELSE IF p > Budget THEN "budget"
  ELSE IF Capped(input.type, g) /\ LongRecovery(s, p) THEN "error_recovery"
  ELSE IF Capped(input.type, g) /\ LongEnd(s, p) THEN "eof_recovery"
  ELSE "none"

\* How a parse with grammar g ends when nobody cancels and no clock runs out.
Undisturbed(g) ==
  LET s == input[g]
      hits == {p \in 1..Len(s.report) : Limit(g, s, p) # "none"}
  IN  IF input.guard THEN Unavailable("guard")
      ELSE IF hits # {} THEN Unavailable(Limit(g, s, Min(hits)))
      ELSE IF TotalFetched(s, Len(s.report)) + s.tail > FetchBudget THEN Unavailable("lexer")
      ELSE IF s.tree.costly THEN Unavailable("runs") ELSE Parsed(s.tree)

\* What a call on these bytes gives when nothing disturbs it.
FromBytes ==
  IF input.type = "c" /\ Bad(Undisturbed("own"))
  THEN LET own == Undisturbed("own") cpp == Undisturbed("cpp")
       IN  IF /\ cpp.kind = "parsed" /\ cpp.tree.cpp
              /\ own.kind = "parsed" => cpp.tree.errors < own.tree.errors
           THEN cpp ELSE own
  ELSE Undisturbed("own")

\* A parse that reports no transient stop ended as the bytes decide, to the
\* poll: whatever the load, what is cached is what any other run would cache
\* (lib.rs:550, "Every other reason a source file has no AST ... follows from
\* the bytes").
OutcomeFromBytes == (pc = "done" /\ ~Transient(Returned)) => Returned = FromBytes

\* The same where it holds: of every file type parsed with one grammar.
OneGrammarFromBytes == input.type # "c" => OutcomeFromBytes

\* For a C file, whose parse as C++ may be stopped without saying so: when
\* neither parse was stopped by load or cancellation, and a cancellation kept
\* neither from running, the outcome is the bytes'.
UndisturbedFromBytes ==
  (pc = "done" /\ ~cancelled /\ \A g \in Grammar : ~Transient(ended[g]))
    => Returned = FromBytes
=============================================================================
