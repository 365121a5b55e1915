---------------------------- MODULE UncachedOpen ----------------------------
(***************************************************************************)
(* What `open_with_cache` (src/src/cache.rs) promises its caller, with no  *)
(* cache in sight: a call for key k ends with the payload the extraction   *)
(* of k computes, or, when the call itself was cut short by a transient    *)
(* condition (a wall-clock backstop, a cancellation), with the degraded    *)
(* payload of that condition.  A cache that refines this module is         *)
(* invisible: it may save work, it may never change an answer.             *)
(*                                                                         *)
(* The payload of a full extraction of key k is written k: payloads of     *)
(* different keys differ, which is all the properties tell apart.          *)
(***************************************************************************)

CONSTANTS Key,        \* cache keys: content, build fingerprint and variant
          Opener,     \* threads that call open_with_cache
          NoKey,      \* no call in progress
          Degraded    \* the payload computed under a transient condition

VARIABLES call,       \* call[o]: the call thread o is in
          stress      \* threads whose current call met a transient condition

vars == <<call, stress>>

NoCall == [st |-> "idle", key |-> NoKey, val |-> NoKey]

TypeOK ==
  /\ call \in [Opener -> [st : {"idle", "busy", "done"},
                          key : Key \cup {NoKey},
                          val : Key \cup {NoKey, Degraded}]]
  /\ stress \subseteq Opener

Init == /\ call = [o \in Opener |-> NoCall]
        /\ stress = {}

Begin(o, k) ==
  /\ call[o] = NoCall
  /\ call' = [call EXCEPT ![o] = [st |-> "busy", key |-> k, val |-> NoKey]]
  /\ UNCHANGED stress

\* A deadline passes or the host cancels while the call is running.
Stress(o) ==
  /\ call[o].st = "busy"
  /\ stress' = stress \cup {o}
  /\ UNCHANGED call

\* The call has its answer: its key's own payload, or a degraded one it
\* computed itself under a transient condition.
Answer(o) ==
  /\ call[o].st = "busy"
  /\ \E v \in {call[o].key} \cup (IF o \in stress THEN {Degraded} ELSE {}) :
       call' = [call EXCEPT ![o].st = "done", ![o].val = v]
  /\ UNCHANGED stress

Return(o) ==
  /\ call[o].st = "done"
  /\ call' = [call EXCEPT ![o] = NoCall]
  /\ stress' = stress \ {o}

\* A process dies: the calls of its threads are gone.
Die(S) ==
  /\ call' = [o \in Opener |-> IF o \in S THEN NoCall ELSE call[o]]
  /\ stress' = stress \ S

Next == \/ \E o \in Opener : \/ \E k \in Key : Begin(o, k)
                             \/ Stress(o) \/ Answer(o) \/ Return(o)
        \/ \E S \in SUBSET Opener : Die(S)

\* Every call is answered unless its process dies: the caller never waits on
\* the cache.
Fairness == \A o \in Opener : WF_vars(Answer(o))

Spec == Init /\ [][Next]_vars /\ Fairness
=============================================================================
