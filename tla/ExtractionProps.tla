-------------------------- MODULE ExtractionProps --------------------------
(***************************************************************************)
(* What a host may rely on whichever stages panic.                         *)
(***************************************************************************)
EXTENDS Extraction

\* While ours is the hook, a panic inside a guard is never printed, however
\* guards nest and whatever panicked in them before (panic_guard.rs:73: "a
\* guard nested inside another leaves the outer one still suppressing").
GuardedPanicsAreSilent == ~printed

\* Catching panics costs the host none of its own, on threads that have parsed
\* and seen parsers panic too (panic_guard.rs:49, "Panics anywhere else reach
\* the previous hook untouched"): what does not reach the host's hook is lost to
\* the one installation, because another thread was between take_hook and
\* set_hook, or because the host had set its hook just then.
HostPanicsAreHeard == \A u \in unheard : u.installing \/ u.raced

\* parse.error_count, absent for 0, is the number of errors in the view the
\* host reads, also where one was recorded after the count was made.
ErrorCountAgrees == \A t \in Thread : at[t] = "done" => errorCount[t] = errors[t]

\* When the facts of a source file's tree are missing, for whatever reason, a
\* metric and an error say so: a rule never takes them for absent in the file.
AbsenceIsSaid ==
  \A t \in Thread :
    (at[t] = "done" /\ file[t].kind = "tree" /\ "walk" \notin symbols[t]) =>
      Unavailable \in metrics[t] /\ errors[t] > 0

\* The kind counts are derived from the unified symbols view (lib.rs:899):
\* when they are there they cover every symbol in it.  A CFML file is the
\* exception: its symbols are added after run_extraction counted (lib.rs:665),
\* so Bind symbols of its parse are in the view and not in binds.count.
CountsCoverSource == \A t \in Thread : file[t].kind # "cfml" =>
  ((at[t] = "done" /\ counted[t] # Uncounted) => counted[t] = symbols[t])
=============================================================================
