-------------------------------- MODULE Reach --------------------------------
(***************************************************************************)
(* What can be reached along a function from nodes to sets of nodes.  The  *)
(* recursion is a function on sets of nodes, so that it can be reasoned    *)
(* about; its domain is never enumerated.                                  *)
(***************************************************************************)

\* The nodes s, and where one step leads from them.
Onward(next, s) == s \cup UNION {next[n] : n \in s}

\* Everything some steps lead to from s, where it is finite.
Reached(next, s) ==
  LET reach[t \in SUBSET DOMAIN next] == IF Onward(next, t) = t THEN t ELSE reach[Onward(next, t)]
  IN  reach[s]
=============================================================================
