------------------------------- MODULE MCWalk -------------------------------
(***************************************************************************)
(* A directory with a directory in it, and an argument that is a file,     *)
(* with other programs changing what is walked.                            *)
(***************************************************************************)
EXTENDS WalkProps

TwoArgs == <<<<1>>, <<2>>>>
SmallTree == {<<1>>, <<1, 1>>, <<1, 1, 1>>, <<1, 2>>, <<2>>}
=============================================================================
