---------------------------- MODULE MCCacheRoot ----------------------------
(***************************************************************************)
(* Two processes over one root, which the user deletes at most once.       *)
(***************************************************************************)
EXTENDS CacheRootProps, TLC

Processes == Permutations(Proc)
=============================================================================
