--------------------------- MODULE DiskCacheProps ---------------------------
(***************************************************************************)
(* What the disk cache must never do, and what it implements.              *)
(***************************************************************************)
EXTENDS DiskCache

-----------------------------------------------------------------------------
(* Content addressing.                                                     *)

\* Whatever interleaving of stores, sweeps, crashes and damage: the file at a
\* key's path holds that key's own whole payload or does not decode at all;
\* never a torn write, a degraded result or another key's payload
\* (store_at_path's temp file and rename, Computed::Transient).
EntriesSound == \A k \in Key : file[k] \in {k, Absent, Bad}

\* A call is answered with its own key's payload, and with a degraded payload
\* only when that very call met the transient condition: a degraded payload
\* never reaches a later call through the disk (open_with_cache_in).
AnswersSound ==
  \A o \in Opener :
    open[o].pc = "return" => \/ open[o].val = open[o].key
                             \/ open[o].val = Degraded /\ o \in stress

\* A temp file whose store is still going on is never taken for an orphan, as
\* long as stores finish within the age the sweep waits (ORPHANED_TEMP_AGE).
LiveTempsKept ==
  \A o \in Opener : Storing(o) => temp[open[o].name].val # Absent

\* Seen from the callers, the shared cache is not there at all: every call
\* behaves as in the module UncachedOpen, and is answered.
Uncached == INSTANCE UncachedOpen WITH
  call <- [o \in Opener |->
             [st  |-> CASE open[o].pc = "idle" -> "idle"
                        [] open[o].pc = "return" -> "done"
                        [] OTHER -> "busy",
              key |-> open[o].key,
              val |-> IF open[o].pc = "return" THEN open[o].val ELSE NoKey]]

\* open_with_cache refines an open that always computes.
RefinesUncached == Uncached!Spec

-----------------------------------------------------------------------------
(* Sweeping.                                                               *)

\* A claim is held exactly while the sweep thread it was taken for is alive:
\* no early return, failed spawn or death leaves a root marked as running
\* (Sweep::claim, Drop for Sweep).
ClaimsMatchSweeps == \A p \in Proc : p \in running <=> sweep[p].pc # "idle"

\* A routine sweep is put off only by a sweep that finished less than
\* SWEEP_INTERVAL ago or by one that started less than RETRY_INTERVAL ago: a
\* sweep that died with its process is never booked as a day's work (due).
DeadSweepNotBooked ==
  ~Due => \/ lastDone >= 0 /\ now - lastDone < SweepInterval
          \/ now - marker.at < RetryInterval

\* No entry a sweep's scan condemns to the age pass was in use shortly before,
\* whichever threads hit and stored it in what order: a hit moves an entry's
\* mtime at most TouchInterval late, so its age is exact to that, unless the
\* touch failed (touch_lru against collect and the age pass of run).  What is
\* used after the scan is dropped all the same.
AgeDropsOnlyUnused ==
  [][\A p \in Proc : Collect(p) =>
       \A k \in sweep'[p].todo \ missed : now - lastUse[k] > MaxAge - TouchInterval]_vars

\* Eviction is least recently used, to the granularity of the touch: an entry
\* whose touches did not fail is never evicted while the scan kept one unused
\* for TouchInterval longer, unless it was used after the scan.
EvictsLeastRecentlyUsed ==
  [][\A p \in Proc, k \in Key :
       (EvictOldest(p, k) /\ file'[k] # file[k]) =>
         \A j \in sweep[p].kept :
           \/ k \in missed \/ lastUse[k] >= sweep[p].at
           \/ lastUse[k] - lastUse[j] < TouchInterval]_vars

\* A sweep that ran to its end leaves the entries it saw, and nobody used
\* since, within both ceilings.
SweptWithinBudget ==
  \A p \in Proc :
    sweep[p].pc = "markd" =>
      LET left == sweep[p].left \cap Present IN
      Cardinality(left) <= MaxEntries /\ SumBytes(left) <= MaxBytes

\* The count pass stops at its target: it deletes nothing once the directory
\* is within it.
EvictionStopsAtTarget ==
  [][\A p \in Proc, k \in Key :
       (EvictOldest(p, k) /\ file'[k] # file[k]) =>
         \/ Cardinality(Present) > CountTarget
         \/ SumBytes(Present) > ByteTarget]_vars
=============================================================================
