---------------------------- MODULE MCDiskCache ----------------------------
(***************************************************************************)
(* Small instances of the disk cache: keys k1, k2, threads o1, o2 of       *)
(* processes p1, p2.                                                       *)
(***************************************************************************)
EXTENDS DiskCacheProps, TLC

CONSTANTS k1, k2, o1, o2, p1, p2, n1, n2

\* One thread in each of two processes.
ApartProcOf == o1 :> p1 @@ o2 :> p2
\* One process with one thread.
AloneProcOf == o1 :> p1
\* One process with two threads.
TogetherProcOf == o1 :> p1 @@ o2 :> p1

OneShard == [k \in Key |-> 1]
UnitBytes == [k \in Key |-> 1]
\* One entry alone is within the bytes target, the other is not.
TwoSizes == k1 :> 1 @@ k2 :> 2

\* Keys, threads of one process and temp file names are interchangeable.
Interchangeable == Permutations(Key) \cup Permutations(Opener) \cup Permutations(Name)

\* Where the keys differ, the threads and names still do not.
Names == Permutations(Opener) \cup Permutations(Name)

\* The history variables steer nothing, and neither does the marker where both
\* intervals are 0 and a sweep is always due.
Steering == <<now, file, mtime, temp, open, stress, running, sweep>>
=============================================================================
