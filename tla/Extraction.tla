----------------------------- MODULE Extraction -----------------------------
(***************************************************************************)
(* One extraction per thread, stage by stage, each stage under the panic   *)
(* guard: identification, ParsedFile::run_pipeline and run_extraction in   *)
(* src/src/lib.rs over catch_infallible in src/src/panic_guard.rs.  Any    *)
(* stage may panic.                                                        *)
(*                                                                         *)
(* The panic hook is the process's, the flag that silences it the          *)
(* thread's.  The host sets a hook of its own, before or after, and its    *)
(* own code panics outside the guards.                                     *)
(***************************************************************************)
EXTENDS Naturals, Sequences

CONSTANTS
  Thread,    \* threads opening files
  NoThread,  \* the hook is being installed by no thread
  Uncounted, \* there are no kind counts
  MaxInner   \* bound: errors recorded before an extractor's last inner guard

ASSUME NoThreadAssumption == NoThread \notin Thread
ASSUME MaxInnerAssumption == MaxInner \in Nat

VARIABLES
  \* the process
  hook,        \* the panic hook: "default", "host" or "ours"
  previous,    \* the hook ours passes panics on to
  once,        \* who is installing ours: "new", "busy" or "done"
  installer,   \* the thread that is
  hostHook,    \* history: the hook the host set last, and whether that was
               \* while ours was being installed
  printed,     \* history: a guarded panic reached another hook through ours
  unheard,     \* history: when panics of the host's did not reach its hook:
               \* while ours was being installed, or after the host's was set
               \* while it was
  \* a thread's file
  at,          \* the stage
  file,        \* the kind of file, and whether there is a tree
  suppress,    \* SUPPRESS_PANIC_OUTPUT
  saved,       \* what the guards the thread is in put back, innermost last
  symbols,     \* the stages whose symbols are in the view
  counted,     \* the stages whose symbols the kind counts cover
  metrics,     \* which of the metrics below are set
  errors,      \* how many errors the view holds
  errorCount   \* parse.error_count; 0 when absent

process == <<hook, previous, once, installer, hostHook, printed, unheard>>
guard == <<suppress, saved>>
facts == <<file, symbols, counted, metrics, errors, errorCount>>
vars == <<process, at, guard, facts>>

Guarded == {"identify", "parse", "extract", "walk", "derived", "identity",
            "references", "cfml"}
Stage == Guarded \cup {"host", "start", "count", "recount", "done"}
Producer == {"extract", "walk", "cfml"}
Unavailable == "source.ast_unavailable"
Metric == {Unavailable, "source.extract_panicked", "source.ast_walk_panicked"}
NoFile == [kind |-> "other", tree |-> "none"]

Init ==
  /\ hook = "default" /\ previous = "default" /\ once = "new" /\ installer = NoThread
  /\ hostHook = [name |-> "default", raced |-> FALSE]
  /\ printed = FALSE /\ unheard = {}
  /\ at = [t \in Thread |-> "host"]
  /\ file = [t \in Thread |-> NoFile]
  /\ suppress = [t \in Thread |-> FALSE]
  /\ saved = [t \in Thread |-> <<>>]
  /\ symbols = [t \in Thread |-> {}]
  /\ counted = [t \in Thread |-> Uncounted]
  /\ metrics = [t \in Thread |-> {}]
  /\ errors = [t \in Thread |-> 0]
  /\ errorCount = [t \in Thread |-> 0]

Depth(t) == Len(saved[t])
Record(t) == errors' = [errors EXCEPT ![t] = @ + 1]

-----------------------------------------------------------------------------
(* The panic guard.                                                        *)

\* The hook is installed once.
ToInstall == once = "new"

\* install_suppression_hook: call_once takes the hook, leaving the default ...
TakeHook(t) ==
  /\ at[t] \in Guarded /\ ToInstall
  /\ once' = "busy" /\ installer' = t
  /\ previous' = hook /\ hook' = "default"
  /\ UNCHANGED <<hostHook, printed, unheard, at, guard, facts>>

\* ... and sets its own.  Other guards wait for it.
SetHook(t) ==
  /\ installer = t
  /\ once' = "done" /\ installer' = NoThread
  /\ hook' = "ours"
  /\ UNCHANGED <<previous, hostHook, printed, unheard, at, guard, facts>>

\* catch_infallible: the flag is kept and set.  A stage's guard is the
\* outermost; an extractor has more of them around single calls.
Enter(t) ==
  /\ at[t] \in Guarded /\ once = "done"
  /\ Depth(t) = 0 \/ (at[t] = "extract" /\ Depth(t) = 1 /\ errors[t] < MaxInner)
  /\ saved' = [saved EXCEPT ![t] = Append(@, suppress[t])]
  /\ suppress' = [suppress EXCEPT ![t] = TRUE]
  /\ UNCHANGED <<process, at, facts>>

\* Mutant: a guard that ends switches suppression off.
Off(t) == FALSE
\* What Restore puts back.
Restored(t) == saved[t][Depth(t)]

\* Mutant: the flag is put back where the guarded call returns, not on unwind.
OnReturn(t, flag) == suppress[t]
\* Restore is dropped on every way out.
OnUnwind(t, flag) == flag

\* The guard ends: its call returned or a panic was caught.
Leave(t, flag) ==
  /\ saved' = [saved EXCEPT ![t] = SubSeq(@, 1, Len(@) - 1)]
  /\ suppress' = [suppress EXCEPT ![t] = flag]

\* The hooks that a panic of thread t is told to: ours stays silent for a
\* suppressed thread, and else passes it on.
Told(t) ==
  IF hook # "ours" THEN {hook} ELSE IF suppress[t] THEN {} ELSE {previous}

\* A panic inside the innermost guard.
GuardedPanic(t) ==
  /\ Depth(t) > 0
  /\ Leave(t, OnUnwind(t, Restored(t)))
  /\ printed' = (printed \/ (hook = "ours" /\ Told(t) # {}))
  /\ UNCHANGED <<hook, previous, once, installer, hostHook, unheard>>

\* The innermost guard's call returns.
Returns(t) ==
  /\ Depth(t) > 0
  /\ Leave(t, Restored(t))
  /\ UNCHANGED process

-----------------------------------------------------------------------------
(* The host.                                                               *)

\* The host sets a hook of its own, once.
HostSetsHook ==
  /\ hostHook.name = "default"
  /\ hook' = "host"
  /\ hostHook' = [name |-> "host", raced |-> once = "busy"]
  /\ UNCHANGED <<previous, once, installer, printed, unheard, at, guard, facts>>

\* The host's own code panics, between two opens.  From take_hook to set_hook the
\* hook is the default one, and not the host's.
HostPanics(t) ==
  /\ at[t] \in {"host", "done"}
  /\ unheard' = IF Told(t) = {hostHook.name} THEN unheard
                ELSE unheard \cup {[installing |-> once = "busy", raced |-> hostHook.raced]}
  /\ UNCHANGED <<hook, previous, once, installer, hostHook, printed, at, guard, facts>>

-----------------------------------------------------------------------------
(* The stages.                                                             *)

Goto(t, next) == at' = [at EXCEPT ![t] = next]

\* Mutant: the symbols are counted before the tree is walked.
CountedFirst == <<"extract", "derived", "walk", "identity", "references", "count">>
\* run_extraction, in order.
Order == <<"extract", "walk", "derived", "identity", "references", "count">>

\* On to the next stage; without a tree there is nothing to walk.
GoOn(t) ==
  \E i \in 1..(Len(Order) - 1) :
    /\ Order[i] = at[t]
    /\ Goto(t, IF Order[i + 1] = "walk" /\ file[t].tree # "parsed"
               THEN Order[i + 2] ELSE Order[i + 1])

\* OpenOptions::open: the type is known, or identified.
Open(t) ==
  /\ at[t] = "host"
  /\ \E kind \in {"tree", "cfml", "other"} :
       file' = [file EXCEPT ![t] = [kind |-> kind, tree |-> "none"]]
  /\ \/ Goto(t, "identify")
     \/ Goto(t, IF file'[t].kind = "tree" THEN "parse" ELSE "start")
  /\ UNCHANGED <<process, guard, symbols, counted, metrics, errors, errorCount>>

\* from_path_and_bytes: a panic leaves the type unknown.
Identify(t) ==
  /\ at[t] = "identify"
  /\ \/ /\ Returns(t)
        /\ Goto(t, IF file[t].kind = "tree" THEN "parse" ELSE "start")
        /\ UNCHANGED <<file, errors>>
     \/ /\ GuardedPanic(t)
        /\ file' = [file EXCEPT ![t].kind = "other"]
        /\ Record(t)
        /\ Goto(t, "start")
  /\ UNCHANGED <<symbols, counted, metrics, errorCount>>

\* tree_parse: no tree when the parse is refused or stopped, or panics.
Parse(t) ==
  /\ at[t] = "parse"
  /\ \/ Returns(t) /\ file' \in {[file EXCEPT ![t].tree = r] : r \in {"parsed", "failed"}}
     \/ GuardedPanic(t) /\ file' = [file EXCEPT ![t].tree = "failed"]
  /\ Goto(t, "start")
  /\ UNCHANGED <<symbols, counted, metrics, errors, errorCount>>

\* run_extraction says first why there is no tree.
Start(t) ==
  /\ at[t] = "start"
  /\ IF file[t].tree = "failed"
     THEN /\ metrics' = [metrics EXCEPT ![t] = @ \cup {Unavailable}]
          /\ Record(t)
     ELSE UNCHANGED <<metrics, errors>>
  /\ Goto(t, "extract")
  /\ UNCHANGED <<process, guard, file, symbols, counted, errorCount>>

\* A guarded call inside an extractor: its panic is the extractor's to record
\* (functions.rs only leaves the functions out).
Inner(t) ==
  /\ at[t] = "extract" /\ Depth(t) = 2
  /\ \/ Returns(t) /\ UNCHANGED errors
     \/ GuardedPanic(t) /\ (Record(t) \/ UNCHANGED errors)
  /\ UNCHANGED <<at, file, symbols, counted, metrics, errorCount>>

\* formats::extract: whole, malformed, or panicked; what it pushed before it
\* stopped is kept.
Extract(t) ==
  /\ at[t] = "extract" /\ Depth(t) = 1
  /\ \/ Returns(t) /\ UNCHANGED <<metrics, errors>>
     \/ Returns(t) /\ Record(t) /\ UNCHANGED metrics
     \/ /\ GuardedPanic(t)
        /\ Record(t)
        /\ metrics' = [metrics EXCEPT ![t] = @ \cup
             IF file[t].kind = "tree" THEN {"source.extract_panicked", Unavailable} ELSE {}]
  /\ symbols' \in {symbols, [symbols EXCEPT ![t] = @ \cup {"extract"}]}
  /\ GoOn(t)
  /\ UNCHANGED <<file, counted, errorCount>>

\* Mutant: a walk that panicked does not say so.
WalkFailedSilently == {"source.ast_walk_panicked"}
\* What a walk that panicked says.
WalkFailed == {"source.ast_walk_panicked", Unavailable}

\* build_symbols over the tree; what it pushed before it panicked is kept.
Walk(t) ==
  /\ at[t] = "walk"
  /\ \/ /\ Returns(t)
        /\ symbols' = [symbols EXCEPT ![t] = @ \cup {"walk"}]
        /\ UNCHANGED <<metrics, errors>>
     \/ /\ GuardedPanic(t)
        /\ metrics' = [metrics EXCEPT ![t] = @ \cup WalkFailed]
        /\ Record(t)
        /\ symbols' \in {symbols, [symbols EXCEPT ![t] = @ \cup {"walk"}]}
  /\ GoOn(t)
  /\ UNCHANGED <<file, counted, errorCount>>

\* The derived metrics: emit_symbol_kind_counts comes last.
Derived(t) ==
  /\ at[t] = "derived"
  /\ \/ /\ Returns(t)
        /\ counted' = [counted EXCEPT ![t] = symbols[t]]
        /\ UNCHANGED errors
     \/ GuardedPanic(t) /\ Record(t) /\ UNCHANGED counted
  /\ GoOn(t)
  /\ UNCHANGED <<file, symbols, metrics, errorCount>>

\* identity::derive, then references::derive.
Fold(t, stage) ==
  /\ at[t] = stage
  /\ \/ Returns(t) /\ UNCHANGED errors
     \/ GuardedPanic(t) /\ Record(t)
  /\ GoOn(t)
  /\ UNCHANGED <<file, symbols, counted, metrics, errorCount>>

CountErrors(t) == errorCount' = [errorCount EXCEPT ![t] = errors[t]]

\* run_extraction ends with parse.error_count.
Count(t) ==
  /\ at[t] = "count"
  /\ CountErrors(t)
  /\ Goto(t, IF file[t].kind = "cfml" THEN "cfml" ELSE "done")
  /\ UNCHANGED <<process, guard, file, symbols, counted, metrics, errors>>

\* Mutant: the count is not brought up to date.
CfmlDone == "done"
\* What follows a CFML parse that panicked.
AfterCfmlPanic == "recount"

\* run_pipeline adds the CFML symbols, or the panic of that parse.
Cfml(t) ==
  /\ at[t] = "cfml"
  /\ \/ /\ Returns(t)
        /\ symbols' = [symbols EXCEPT ![t] = @ \cup {"cfml"}]
        /\ Goto(t, "done")
        /\ UNCHANGED errors
     \/ /\ GuardedPanic(t)
        /\ Record(t)
        /\ Goto(t, AfterCfmlPanic)
        /\ UNCHANGED symbols
  /\ UNCHANGED <<file, counted, metrics, errorCount>>

Recount(t) ==
  /\ at[t] = "recount"
  /\ CountErrors(t)
  /\ Goto(t, "done")
  /\ UNCHANGED <<process, guard, file, symbols, counted, metrics, errors>>

Next ==
  \/ HostSetsHook
  \/ \E t \in Thread :
       \/ HostPanics(t) \/ TakeHook(t) \/ SetHook(t) \/ Enter(t)
       \/ Open(t) \/ Identify(t) \/ Parse(t) \/ Start(t)
       \/ Inner(t) \/ Extract(t) \/ Walk(t) \/ Derived(t)
       \/ Fold(t, "identity") \/ Fold(t, "references")
       \/ Count(t) \/ Cfml(t) \/ Recount(t)

Spec == Init /\ [][Next]_vars
=============================================================================
