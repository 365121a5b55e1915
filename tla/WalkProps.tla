----------------------------- MODULE WalkProps ------------------------------
(***************************************************************************)
(* What the command line's user relies on: the exit status, the order and  *)
(* completeness of the output, the input cap, and an end.                  *)
(***************************************************************************)
EXTENDS Walk

Ended == pc = "exit"
Complete == Ended /\ result \in {"ok", "failed"}
Whole(s) == {s[i].path : i \in {j \in DOMAIN s : s[j].whole}}
Reported == {r.path : r \in reported}

\* The directories above a path, down from the argument it is below.
Above(p) == {d \in Tree : \E a \in ToSet(Args) : /\ IsPrefix(a, d) /\ IsStrictPrefix(d, p)}
Below(p) == \E a \in ToSet(Args) : IsPrefix(a, p)

\* usage(): 0, every file was analysed; 1, some file could not be read or
\* serialised, or output failed.  A reader that goes away also ends in 0
\* (exit_code in src/src/bin/filefacts/main.rs).
ExitStatusTrue ==
  Ended => /\ (status = 0) <=> (result = "broken" \/ (result # "unwritable" /\ reported = {}))
           /\ result = "failed" => reported # {}

\* A walk that ends with its output intact has shown every regular file that
\* was there, undisturbed, from start to end, or said on standard error that
\* it, or a directory above it, could not be read or serialised: one failure
\* never costs another file (run and analyze_one).
NothingSkipped ==
  Complete =>
    \A p \in Tree :
      ( /\ Below(p) /\ Kind(p) = Regular /\ p \notin touched
        /\ Above(p) \cap touched = {} )
      => p \in Whole(out) \cup Reported \/ Above(p) \cap Reported # {}

\* Within one argument the output is in path order, and so no file is shown
\* twice, whatever order the file system lists them in (run's sorted stack).
OutputInOrder ==
  \A i, j \in DOMAIN out :
    (i < j /\ \E a \in ToSet(Args) : IsPrefix(a, out[i].path) /\ IsPrefix(a, out[j].path))
    => Before(out[i].path, out[j].path)

\* read_input: memory holds one byte over the cap at most.  What is analysed
\* is within the cap and was read to its end, and a file is refused for its
\* size only when it was over the cap while open, however it grows or shrinks
\* between the stat and the last read.
ReadsWholeOrRefuses ==
  [][/\ got' <= MaxBytes + 1
     /\ (pc = "read" /\ pc' = "emit") => got <= MaxBytes /\ inode[handle].size <= got
     /\ [path |-> path, what |-> "large"] \in reported' \ reported
          => \E size \in span : size > MaxBytes]_vars

\* However the tree changes and whatever fails, the program ends.
Terminates == <>Ended
=============================================================================
