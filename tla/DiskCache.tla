----------------------------- MODULE DiskCache -----------------------------
(***************************************************************************)
(* The on-disk analysis cache: src/src/cache.rs and src/src/cache/sweep.rs.*)
(* Several processes share one version directory.  In each, threads run    *)
(* `open_with_cache_in` (look up, compute, store through a temp file and   *)
(* an atomic rename, perhaps trigger a sweep) and at most one background   *)
(* thread sweeps: it gates on the `.last-sweep` marker, scans the          *)
(* directory, drops entries past the age budget and evicts the least       *)
(* recently used down to the budget's target.  Any process may die between *)
(* any two file system operations, losing its threads and its claim and    *)
(* leaving its temp files and marker behind.                               *)
(*                                                                         *)
(* The payload of a full extraction of key k is written k itself, so an    *)
(* entry holding another key's payload, a torn one or a degraded one is    *)
(* told apart from the right one.  Times are ticks of a global clock.      *)
(***************************************************************************)
EXTENDS Integers, FiniteSets, FiniteSetsExt

CONSTANTS
  Key,             \* cache keys: sha256 of content, build and variant
  Proc,            \* processes sharing the cache root
  Opener,          \* threads calling open_with_cache
  ProcOf,          \* ProcOf[o]: the process thread o belongs to
  Name,            \* names a temp file may get
  Shard,           \* Shard[k]: the two-character shard k is stored in
  Bytes,           \* Bytes[k]: size of k's entry on disk
  NoKey,           \* no call, no name
  Absent,          \* no file at this path
  Torn,            \* a file whose write was not completed
  Bad,             \* a file damaged from outside, or over the size cap
  Degraded,        \* a payload computed under a transient condition
  MaxAge,          \* BUDGET.max_age
  MaxBytes,        \* BUDGET.max_bytes
  MaxEntries,      \* BUDGET.max_entries
  ShareNum,        \* the eviction target is ShareNum / ShareDen of the
  ShareDen,        \* ceiling: 9 / 10 in the code
  ShardTrigger,    \* per_shard_trigger
  TouchInterval,   \* LRU_TOUCH_INTERVAL
  SweepInterval,   \* SWEEP_INTERVAL
  RetryInterval,   \* RETRY_INTERVAL
  OrphanAge,       \* ORPHANED_TEMP_AGE
  MaxTime,         \* bound: the clock stops here
  Fails,           \* the operations that may fail for no visible reason
  Prompt,          \* whether a store finishes within a tick of the clock
  Damage           \* whether entries are damaged from outside

Mark == {Absent, Torn, Bad, Degraded, NoKey}
\* "store": serializing, making, writing or renaming a temp file; "replace":
\* renaming over a file that is there, on Windows; "touch": setting an mtime;
\* "list": listing a shard or reading a file's metadata; "delete": remove_file;
\* "spawn": starting a thread; "root": finding the root trusted.
Operation == {"store", "replace", "touch", "list", "delete", "spawn", "root"}

ASSUME ConstantsDistinct ==
  /\ \A a \in Mark : a \notin Key /\ a \notin Name
  /\ Absent # Torn /\ Absent # Bad /\ Absent # Degraded /\ Absent # NoKey
  /\ Torn # Bad /\ Torn # Degraded /\ Torn # NoKey
  /\ Bad # Degraded /\ Bad # NoKey /\ Degraded # NoKey
ASSUME ConstantsTyped ==
  /\ ProcOf \in [Opener -> Proc]
  /\ Bytes \in [Key -> Nat]
  /\ IsFiniteSet(Key)
  /\ {MaxAge, MaxBytes, MaxEntries, ShareNum, ShardTrigger, TouchInterval,
      SweepInterval, RetryInterval, OrphanAge, MaxTime} \subseteq Nat
  /\ ShareDen \in Nat \ {0}
  /\ Fails \subseteq Operation /\ {Prompt, Damage} \subseteq BOOLEAN

VARIABLES
  now,        \* the clock every process reads
  file,       \* file[k]: what the entry path of k holds
  mtime,      \* mtime[k]: modification time of that file (0 when absent)
  temp,       \* temp[n]: the temp file named n
  marker,     \* the .last-sweep marker
  open,       \* open[o]: the open_with_cache call of thread o
  stress,     \* threads whose call met a transient condition
  running,    \* processes whose RUNNING list holds the version directory
  sweep,      \* sweep[p]: the sweep thread of process p
  lastUse,    \* history: when k was last stored or served from the cache
  missed,     \* history: keys whose last touch, due and tried, failed
  lastDone    \* history: when a sweep last ran to completion (-1: never)

openVars == <<open, stress>>
sweepVars == <<running, sweep>>
vars == <<now, file, mtime, temp, marker, open, stress, running, sweep,
          lastUse, missed, lastDone>>

Payload == Key \cup {Degraded}
Time == 0..MaxTime

NoOpen == [pc |-> "idle", key |-> NoKey, val |-> NoKey, at |-> 0,
           name |-> NoKey]
NoTemp == [val |-> Absent, at |-> 0, key |-> NoKey]
NoSweep == [pc |-> "idle", gate |-> "Interval", at |-> 0, todo |-> {},
            kept |-> {}, left |-> {}, stamp |-> [k \in Key |-> 0]]

OpenPC == {"idle", "load", "touch", "compute", "mktemp", "write", "persist",
           "trigger", "return"}
SweepPC == {"idle", "gate", "scan", "age", "evict", "markd"}

At(o, pc) == open[o].pc = pc

\* Thread o is between the creation of its temp file and the rename.
Storing(o) == At(o, "write") \/ At(o, "persist")

TempFile == [val : Payload \cup {Absent, Torn}, at : Time, key : Key \cup {NoKey}]
OpenCall == [pc : OpenPC, key : Key \cup {NoKey}, val : Payload \cup {NoKey},
             at : Time, name : Name \cup {NoKey}]
SweepSlot == [pc : SweepPC, gate : {"Interval", "Now"}, at : Time,
              todo : SUBSET Key, kept : SUBSET Key, left : SUBSET Key,
              stamp : [Key -> Time]]

StateTyped ==
  /\ now \in Time
  /\ file \in [Key -> Payload \cup {Absent, Torn, Bad}]
  /\ mtime \in [Key -> Time]
  /\ temp \in [Name -> TempFile]
  /\ marker \in [mark : {"none", "s", "d"}, at : Time]
  /\ open \in [Opener -> OpenCall]
  /\ stress \subseteq Opener
  /\ running \subseteq Proc
  /\ sweep \in [Proc -> SweepSlot]
  /\ lastUse \in [Key -> Time]
  /\ missed \subseteq Key
  /\ lastDone \in Time \cup {-1}

\* A call in progress has its key, a store its temp file.
CallsTyped ==
  \A o \in Opener : /\ ~At(o, "idle") => open[o].key \in Key
                    /\ Storing(o) => open[o].name \in Name
                    /\ At(o, "mktemp") \/ Storing(o) => open[o].val \in Payload

TypeOK == StateTyped /\ CallsTyped

-----------------------------------------------------------------------------
\* A cache as earlier runs may have left it: any set of whole entries; every
\* process is starting up.
Init ==
  /\ now = 0
  /\ \E S \in SUBSET Key : file = [k \in Key |-> IF k \in S THEN k ELSE Absent]
  /\ mtime = [k \in Key |-> 0]
  /\ temp = [n \in Name |-> NoTemp]
  /\ marker = [mark |-> "none", at |-> 0]
  /\ open = [o \in Opener |-> NoOpen]
  /\ stress = {}
  /\ running = {}
  /\ sweep = [p \in Proc |-> NoSweep]
  /\ lastUse = [k \in Key |-> 0]
  /\ missed = {}
  /\ lastDone = -1

-----------------------------------------------------------------------------
(* The file system.                                                        *)

Present == {k \in Key : file[k] # Absent}

\* Delete k's entry by path.
Unlink(k) == /\ file' = [file EXCEPT ![k] = Absent]
             /\ mtime' = [mtime EXCEPT ![k] = 0]

\* Whether fs::remove_file of k's entry reports success: never when the file
\* is gone already.
RemoveOutcome(k) ==
  IF file[k] = Absent THEN {FALSE}
  ELSE IF "delete" \in Fails THEN BOOLEAN ELSE {TRUE}

\* What of S is reached when one of the operations `ops` on a member may fail.
Some(S, ops) == IF ops \cap Fails = {} THEN {S} ELSE SUBSET S

\* Files a read_dir of k's shard lists: entries and temp files alike.
ShardCount(k) ==
  Cardinality({j \in Present : Shard[j] = Shard[k]})
  + Cardinality({n \in Name : /\ temp[n].val # Absent
                              /\ Shard[temp[n].key] = Shard[k]})

-----------------------------------------------------------------------------
(* Sweep::claim and spawn_sweep.                                           *)

\* A no-op when this process is sweeping already.  A thread that fails to
\* start drops the claim at once.
SpawnSweep(p, gate) ==
  \/ /\ p \notin running
     /\ running' = running \cup {p}
     /\ sweep' = [sweep EXCEPT ![p] = [NoSweep EXCEPT !.pc = "gate",
                                                      !.gate = gate]]
  \/ /\ p \in running \/ "spawn" \in Fails
     /\ UNCHANGED sweepVars

\* Drop for Sweep.
ReleaseSweep(p) ==
  /\ running' = running \ {p}
  /\ sweep' = [sweep EXCEPT ![p] = NoSweep]

-----------------------------------------------------------------------------
(* open_with_cache_in, one file system operation at a time.                *)

Goto(o, pc) == open' = [open EXCEPT ![o].pc = pc]

Begin(o, k) ==
  /\ At(o, "idle")
  /\ open' = [open EXCEPT ![o] = [NoOpen EXCEPT !.pc = "load", !.key = k]]
  /\ UNCHANGED <<now, file, mtime, temp, marker, stress, running, sweep,
                 lastUse, missed, lastDone>>

\* The parse this call computes with is cancelled or runs into its wall-clock
\* backstop.
Stress(o) ==
  /\ At(o, "compute")
  /\ o \notin stress
  /\ stress' = stress \cup {o}
  /\ UNCHANGED <<now, file, mtime, temp, marker, open, running, sweep,
                 lastUse, missed, lastDone>>

\* Mutant: a file that opens is taken for one that decodes.
ReadableIfPresent(k) == file[k] # Absent
\* Decompression and decoding succeed.
Readable(k) == file[k] \in Payload

\* load_capped: the open file descriptor gives one consistent payload and
\* mtime; anything that does not decode is a miss.
LoadCapped(o) ==
  LET k == open[o].key IN
  /\ At(o, "load")
  /\ open' = IF Readable(k)
             THEN [open EXCEPT ![o].pc = "touch", ![o].val = file[k],
                               ![o].at = mtime[k]]
             ELSE [open EXCEPT ![o].pc = "compute"]
  /\ UNCHANGED <<now, file, mtime, temp, marker, stress, running, sweep,
                 lastUse, missed, lastDone>>

\* Mutant: the comparison the wrong way round.
FreshEnough(t) == now - t < TouchInterval
\* An mtime due for a bump on a hit.
Stale(t) == now - t >= TouchInterval

\* touch_lru: reopens the entry by path, so it may find another file there
\* or none, which it does not resurrect.  A touch that fails is tolerated.
TouchLru(o) ==
  LET k == open[o].key
      touches == Stale(open[o].at) /\ file[k] # Absent
  IN
  /\ At(o, "touch")
  /\ \/ /\ touches
        /\ mtime' = [mtime EXCEPT ![k] = now]
        /\ missed' = missed \ {k}
     \/ /\ touches /\ "touch" \in Fails
        /\ missed' = missed \cup {k}
        /\ UNCHANGED mtime
     \/ ~touches /\ UNCHANGED <<mtime, missed>>
  /\ lastUse' = [lastUse EXCEPT ![k] = now]
  /\ Goto(o, "return")
  /\ UNCHANGED <<now, file, temp, marker, stress, running, sweep, lastDone>>

\* Mutant: a result computed under a transient condition is stored as well.
ComputedAllStored(o) ==
  {[val |-> v, stored |-> TRUE] :
     v \in {open[o].key} \cup (IF o \in stress THEN {Degraded} ELSE {})}
\* What compute() may return: Computed::Cacheable, stored, or, when the call
\* met a transient condition, Computed::Transient, which is not.
Computed(o) ==
  {[val |-> open[o].key, stored |-> TRUE]}
  \cup (IF o \in stress THEN {[val |-> Degraded, stored |-> FALSE]} ELSE {})

Compute(o) ==
  /\ At(o, "compute")
  /\ \E r \in Computed(o) :
       open' = [open EXCEPT ![o].pc = IF r.stored THEN "mktemp" ELSE "return",
                            ![o].val = r.val]
  /\ UNCHANGED <<now, file, mtime, temp, marker, stress, running, sweep,
                 lastUse, missed, lastDone>>

\* store_at_path fails before it has a temp file (serialize, oversize,
\* create_dir_all, temp_in): the value is returned all the same.
StoreRefused(o) ==
  /\ "store" \in Fails
  /\ At(o, "mktemp")
  /\ Goto(o, "return")
  /\ UNCHANGED <<now, file, mtime, temp, marker, stress, running, sweep,
                 lastUse, missed, lastDone>>

\* Names are random: a new one is neither that of a file nor one a store in
\* progress still holds, even if its file was unlinked meanwhile.
NameFree(n) == /\ temp[n].val = Absent
               /\ \A x \in Opener : open[x].name # n

\* temp_in.
MakeTemp(o) ==
  /\ At(o, "mktemp")
  /\ \E n \in Name :
       /\ NameFree(n)
       /\ temp' = [temp EXCEPT ![n] = [val |-> Torn, at |-> now,
                                       key |-> open[o].key]]
       /\ open' = [open EXCEPT ![o].pc = "write", ![o].name = n]
  /\ UNCHANGED <<now, file, mtime, marker, stress, running, sweep,
                 lastUse, missed, lastDone>>

\* tmp.write_all: through the descriptor, so a sweep that unlinked the name
\* meanwhile leaves nothing to write into the directory.
WriteTemp(o) ==
  LET n == open[o].name IN
  /\ At(o, "write")
  /\ temp' = IF temp[n].val = Absent THEN temp
             ELSE [temp EXCEPT ![n].val = open[o].val, ![n].at = now]
  /\ Goto(o, "persist")
  /\ UNCHANGED <<now, file, mtime, marker, stress, running, sweep,
                 lastUse, missed, lastDone>>

\* The write or the rename fails: dropping the NamedTempFile unlinks it.
StoreAborted(o) ==
  /\ "store" \in Fails
  /\ At(o, "write") \/ At(o, "persist")
  /\ temp' = [temp EXCEPT ![open[o].name] = NoTemp]
  /\ open' = [open EXCEPT ![o].pc = "return", ![o].name = NoKey]
  /\ UNCHANGED <<now, file, mtime, marker, stress, running, sweep,
                 lastUse, missed, lastDone>>

\* tmp.persist: an atomic rename over the entry, which brings the temp file's
\* mtime along.  It fails when a sweep took the temp file for an orphan.  On
\* Windows it may be denied because a file is there, which counts as stored.
Persist(o) ==
  LET k == open[o].key
      n == open[o].name
      To(pc) == open' = [open EXCEPT ![o].pc = pc, ![o].name = NoKey]
  IN
  /\ At(o, "persist")
  /\ \/ temp[n].val = Absent /\ To("return") /\ UNCHANGED <<file, mtime, temp, lastUse, missed>>
     \/ /\ temp[n].val # Absent
        /\ file' = [file EXCEPT ![k] = temp[n].val]
        /\ mtime' = [mtime EXCEPT ![k] = temp[n].at]
        /\ temp' = [temp EXCEPT ![n] = NoTemp]
        /\ lastUse' = [lastUse EXCEPT ![k] = now]
        /\ missed' = missed \ {k}
        /\ To("trigger")
     \/ /\ temp[n].val # Absent /\ file[k] # Absent /\ "replace" \in Fails
        /\ temp' = [temp EXCEPT ![n] = NoTemp]
        /\ To("trigger")
        /\ UNCHANGED <<file, mtime, lastUse, missed>>
  /\ UNCHANGED <<now, marker, stress, running, sweep, lastDone>>

\* maybe_trigger_sweep: count the entry's own shard.
MaybeTriggerSweep(o) ==
  /\ At(o, "trigger")
  /\ IF ShardCount(open[o].key) > ShardTrigger
     THEN SpawnSweep(ProcOf[o], "Now") ELSE UNCHANGED sweepVars
  /\ Goto(o, "return")
  /\ UNCHANGED <<now, file, mtime, temp, marker, stress, lastUse, missed,
                 lastDone>>

Return(o) ==
  /\ At(o, "return")
  /\ open' = [open EXCEPT ![o] = NoOpen]
  /\ stress' = stress \ {o}
  /\ UNCHANGED <<now, file, mtime, temp, marker, running, sweep, lastUse,
                 missed, lastDone>>

OpenStep(o) ==
  \/ LoadCapped(o) \/ TouchLru(o) \/ Compute(o) \/ StoreRefused(o)
  \/ MakeTemp(o) \/ WriteTemp(o) \/ StoreAborted(o) \/ Persist(o)
  \/ MaybeTriggerSweep(o)

-----------------------------------------------------------------------------
(* Sweep::run.                                                             *)

\* cleanup / cleanup_in: a routine sweep, started by the host.
Cleanup(p) ==
  /\ SpawnSweep(p, "Interval")
  /\ UNCHANGED <<now, file, mtime, temp, marker, open, stress, lastUse,
                 missed, lastDone>>

\* Mutant: every marker counts for a day.
DueDaily == \/ marker.mark = "none"
            \/ now - marker.at >= SweepInterval
\* due.
Due == \/ marker.mark = "none"
       \/ now - marker.at >= IF marker.mark = "d" THEN SweepInterval
                                                  ELSE RetryInterval

\* The root is missing or not trusted, or a routine sweep is not due.
SweepSkipped(p) ==
  /\ sweep[p].pc = "gate"
  /\ "root" \in Fails \/ (sweep[p].gate = "Interval" /\ ~Due)
  /\ ReleaseSweep(p)
  /\ UNCHANGED <<now, file, mtime, temp, marker, open, stress, lastUse,
                 missed, lastDone>>

\* write_marker(MARK_STARTED): truncation and byte in one step, since `due`
\* reads an empty marker and a started one alike.
SweepStarts(p) ==
  /\ sweep[p].pc = "gate"
  /\ sweep[p].gate = "Interval" => Due
  /\ marker' = [mark |-> "s", at |-> now]
  /\ sweep' = [sweep EXCEPT ![p].pc = "scan"]
  /\ UNCHANGED <<now, file, mtime, temp, open, stress, running, lastUse,
                 missed, lastDone>>

Since(t, s) == IF s > t THEN 0 ELSE t - s

\* Mutant: every temp file is an orphan.
AnyTemp(n) == temp[n].val # Absent
\* A temp file too old for its store to be alive.
Orphaned(n) == temp[n].val # Absent /\ Since(now, temp[n].at) > OrphanAge

\* collect: note the entries with their mtimes, unlink orphaned temp files; what
\* cannot be listed or unlinked is passed over.  The age pass then has its
\* victims.
Collect(p) ==
  /\ sweep[p].pc = "scan"
  /\ \E seen \in Some(Present, {"list"}) :
       sweep' = [sweep EXCEPT ![p] =
         [@ EXCEPT !.pc = "age", !.at = now, !.kept = seen, !.stamp = mtime,
                   !.todo = {k \in seen : Since(now, mtime[k]) > MaxAge}]]
  /\ \E gone \in Some({n \in Name : Orphaned(n)}, {"list", "delete"}) :
       temp' = [n \in Name |-> IF n \in gone THEN NoTemp ELSE temp[n]]
  /\ UNCHANGED <<now, file, mtime, marker, open, stress, running, lastUse,
                 missed, lastDone>>

\* The age pass deletes by path what the scan saw as too old.  An entry it
\* could not delete stays in the list and counts towards the budget.
AgeDrop(p, k) ==
  /\ sweep[p].pc = "age"
  /\ k \in sweep[p].todo
  /\ \E ok \in RemoveOutcome(k) :
       /\ IF ok THEN Unlink(k) ELSE UNCHANGED <<file, mtime>>
       /\ sweep' = [sweep EXCEPT ![p].todo = @ \ {k},
                                 ![p].kept = IF ok THEN @ \ {k} ELSE @]
  /\ UNCHANGED <<now, temp, marker, open, stress, running, lastUse, missed,
                 lastDone>>

SumBytes(S) == FoldSet(LAMBDA k, sum : Bytes[k] + sum, 0, S)

CountTarget == (MaxEntries \div ShareDen) * ShareNum
ByteTarget == (MaxBytes \div ShareDen) * ShareNum

\* Mutant: only a directory over both ceilings is evicted from.
OverBoth(S) == SumBytes(S) > MaxBytes /\ Cardinality(S) > MaxEntries
OverBudget(S) == SumBytes(S) > MaxBytes \/ Cardinality(S) > MaxEntries

\* From here on `left` is what the sweep still counts: the code's `count` is
\* its cardinality and `total` its bytes.
AgeDone(p) ==
  /\ sweep[p].pc = "age"
  /\ sweep[p].todo = {}
  /\ sweep' = [sweep EXCEPT ![p].left = sweep[p].kept,
                 ![p].pc = IF OverBudget(sweep[p].kept) THEN "evict" ELSE "markd"]
  /\ UNCHANGED <<now, file, mtime, temp, marker, open, stress, running,
                 lastUse, missed, lastDone>>

\* Mutant: eviction goes on at the target.
AtTarget(S) == SumBytes(S) >= ByteTarget \/ Cardinality(S) >= CountTarget
AboveTarget(S) == SumBytes(S) > ByteTarget \/ Cardinality(S) > CountTarget

\* Mutant: the most recently used first.
IsNewest(p, k) == \A j \in sweep[p].kept : sweep[p].stamp[k] >= sweep[p].stamp[j]
\* sort_unstable_by_key: ties fall any way.
IsOldest(p, k) == \A j \in sweep[p].kept : sweep[p].stamp[k] <= sweep[p].stamp[j]

\* Evict the oldest not tried yet.  The count and the total only go down for a
\* delete that succeeded.
EvictOldest(p, k) ==
  /\ sweep[p].pc = "evict"
  /\ AboveTarget(sweep[p].left)
  /\ k \in sweep[p].kept
  /\ IsOldest(p, k)
  /\ \E ok \in RemoveOutcome(k) :
       /\ IF ok THEN Unlink(k) ELSE UNCHANGED <<file, mtime>>
       /\ sweep' = [sweep EXCEPT ![p].kept = @ \ {k},
                                 ![p].left = IF ok THEN @ \ {k} ELSE @]
  /\ UNCHANGED <<now, temp, marker, open, stress, running, lastUse, missed,
                 lastDone>>

\* The eviction loop ends at the target or at the end of the list.
EvictEnds(p) == ~AboveTarget(sweep[p].left) \/ sweep[p].kept = {}

EvictDone(p) ==
  /\ sweep[p].pc = "evict"
  /\ EvictEnds(p)
  /\ sweep' = [sweep EXCEPT ![p].pc = "markd"]
  /\ UNCHANGED <<now, file, mtime, temp, marker, open, stress, running,
                 lastUse, missed, lastDone>>

\* write_marker(MARK_DONE): a death between its truncation and its byte reads
\* as a death before both, so they are one step.
MarkDone(p) ==
  /\ sweep[p].pc = "markd"
  /\ marker' = [mark |-> "d", at |-> now]
  /\ lastDone' = now
  /\ ReleaseSweep(p)
  /\ UNCHANGED <<now, file, mtime, temp, open, stress, lastUse, missed>>

SweepStep(p) ==
  \/ SweepSkipped(p) \/ SweepStarts(p) \/ Collect(p)
  \/ AgeDone(p) \/ EvictDone(p) \/ MarkDone(p)
  \/ \E k \in Key : AgeDrop(p, k) \/ EvictOldest(p, k)

-----------------------------------------------------------------------------
(* The world around the cache.                                             *)

\* A process dies and another starts in its place: its threads and its claim
\* are gone, its temp files and the marker are not.
Crash(p) ==
  /\ open' = [o \in Opener |-> IF ProcOf[o] = p THEN NoOpen ELSE open[o]]
  /\ stress' = {o \in stress : ProcOf[o] # p}
  /\ ReleaseSweep(p)
  /\ UNCHANGED <<now, file, mtime, temp, marker, lastUse, missed, lastDone>>

\* An entry is damaged or replaced by something that does not decode.
Damaged(k) ==
  /\ Damage
  /\ Readable(k)
  /\ file' = [file EXCEPT ![k] = Bad]
  /\ UNCHANGED <<now, mtime, temp, marker, open, stress, running, sweep,
                 lastUse, missed, lastDone>>

Tick ==
  /\ now < MaxTime
  /\ Prompt => \A o \in Opener : ~Storing(o)
  /\ now' = now + 1
  /\ UNCHANGED <<file, mtime, temp, marker, open, stress, running, sweep,
                 lastUse, missed, lastDone>>

Next ==
  \/ \E o \in Opener : \/ \E k \in Key : Begin(o, k)
                       \/ Stress(o) \/ OpenStep(o) \/ Return(o)
  \/ \E p \in Proc : Cleanup(p) \/ SweepStep(p) \/ Crash(p)
  \/ \E k \in Key : Damaged(k)
  \/ Tick

\* A running thread is scheduled; nothing makes a host call again, time pass
\* or a process die.
Fairness == /\ \A o \in Opener : WF_vars(OpenStep(o))
            /\ \A p \in Proc : WF_vars(SweepStep(p))

Spec == Init /\ [][Next]_vars /\ Fairness
=============================================================================
