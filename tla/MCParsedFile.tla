---------------------------- MODULE MCParsedFile ----------------------------
(***************************************************************************)
(* Two threads reading every view of one file.                             *)
(***************************************************************************)
EXTENDS ParsedFileProps, TLC

Threads == Permutations(Thread)

=============================================================================
