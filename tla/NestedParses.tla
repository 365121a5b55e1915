---------------------------- MODULE NestedParses ----------------------------
(***************************************************************************)
(* NestedParses of src/src/formats/source/parse.rs: the allowance one      *)
(* file's analyses have for parsing literal source found inside it.        *)
(***************************************************************************)
EXTENDS Naturals

CONSTANTS MaxNestedParses, MaxNestedBytes

FullAllowance == [parses |-> MaxNestedParses, bytes |-> MaxNestedBytes, limited |-> FALSE]

Covers(allowance, size) == allowance.parses > 0 /\ size <= allowance.bytes

\* parse: a body is parsed and paid for, or refused for good.
\* Mutant: the refusal is not remembered.
AskedQuietly(allowance, size) ==
  IF Covers(allowance, size)
  THEN [allowance EXCEPT !.parses = @ - 1, !.bytes = @ - size]
  ELSE allowance
Asked(allowance, size) ==
  IF Covers(allowance, size)
  THEN [allowance EXCEPT !.parses = @ - 1, !.bytes = @ - size]
  ELSE [allowance EXCEPT !.limited = TRUE]
=============================================================================
