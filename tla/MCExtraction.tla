---------------------------- MODULE MCExtraction ----------------------------
(***************************************************************************)
(* Files opened by threads of one process, with any stages panicking.      *)
(***************************************************************************)
EXTENDS ExtractionProps, TLC

Threads == Permutations(Thread)
=============================================================================
