# filefacts: a TLA+ development

filefacts is a Rust library, with a small command line, that reads an untrusted
file and returns facts about it: values, strings, metrics, symbols, sections,
archive members, an identity and references.  A host opens a byte slice
(`OpenOptions::open`), gets a `ParsedFile`, and reads views of it.  The views are
computed on first read, from an on-disk cache or by the extraction pipeline,
every stage of which may panic on hostile bytes and is contained.

Most of the code is pure: a parser of some format that takes bytes and pushes
facts.  What a test hardly reaches is what surrounds the parsers, and this
development is about that:

- several processes and threads sharing one cache directory with no lock, dying
  anywhere, with a sweep deleting under them;
- the promise the cache rests on, that a stored payload is a function of its key,
  against parses that are cut short by a clock or by the caller;
- views computed lazily by several threads, whose initialisers read each other;
- panics unwinding through nested guards with a process-wide hook;
- a walk over a file system that changes under it, in which anything may fail;
- analyses that interpret what they read (a pickle, a data-flow graph, a Python
  module, a shell script, a Cargo package) on a budget, whose answers must say
  when they are not whole.

Paths below are those of the source tree: `src/src/...` is the crate's `src/`.

## 1. The system

| Component | State it keeps | Operations | Talks to | What is hard |
|---|---|---|---|---|
| Disk cache (`cache.rs`, `cache/sweep.rs`) | entries `{shard}/{hash}.bin` and their mtimes, temp files, the `.last-sweep` marker; per process the `RUNNING` list | `open_with_cache`, `store_at_path`, `touch_lru`, `maybe_trigger_sweep`, `cleanup`, `Sweep::run` | every other process through the file system | no locks; deaths between any two operations; renames, deletes and touches by path; two budgets and a gate in wall-clock time |
| Cache root (`cache.rs`, `trusted_dir` in `sweep.rs`) | the root directory and its `CACHEDIR.TAG`; per process the default root's `OnceLock` | `default_root`, `resolve_root`, `root_under`, `write_tag`, `prune_old_versions` | other processes, the host's and the user's own files | made and tagged in several steps; a host's directory must not be taken over; the user may delete it at any time |
| `ParsedFile` (`lib.rs`) | four `OnceLock`s: `tree_parse`, `cfml_parse`, `extracted`, `flow`; `parse_count` | `values()` and the other views, `source_ast`, `flow`, `source_parse_incomplete` | the cache, the pipeline, the host's threads and its cancellation flag | initialisers that read other cells; what may be stored |
| Source parse (`formats/source/parse.rs`) | a parser per thread, counters of one parse, a `RecoveryWatch` | `TreeCache::parse` | tree-sitter's progress callback and reader, the clock, the cancellation flag | six limits tested in an order, some counted in work and two depending on load; a second parse as C++ |
| Extraction pipeline (`lib.rs`, `panic_guard.rs`, `output/errors.rs`) | the facts being built; the panic hook; a flag per thread | `run_pipeline`, `run_extraction`, `catch_infallible` | every extractor; the host's own panic hook | any stage may panic half way; guards nest; hook shared with the host |
| Nested parses (`NestedParses` in `parse.rs`) | an allowance of 32 parses and 256 KiB per analysis of a file | `parse` | `shell_fifo`, `python_module_calls` | running out part-way, and stops that are not reported |
| Shell FIFO relations (`shell_fifo.rs`) | loops, FIFOs, functions, a flag | `enter`, `emit` | the shared walk, `NestedParses` | what shadows or creates a loop's programs and FIFO may come later; two budgets |
| Python module calls (`python_module_calls.rs`) | name bindings, tracked files, calls, a statement budget | `enter`, `emit` | the shared walk, `NestedParses` | every statement that may rebind a name or use a file unseen must end what is known |
| Value flow (`output/flow.rs`) | the worklist of one walk, its `seen` set, four budgets | `origins`, `field_origins`, `argument_origins`, `complete_values` | the host, with its models of library calls | calling contexts; answers cut short |
| Pickle scan (`formats/pickle.rs`, `pickle/`) | an inert stack, memo and set of resolved operands | `extract` | the pipeline | must hold what CPython's unpickler would, without running anything |
| Cargo targets (`package_context.rs`) | a worklist per target, one budget of visits | `cargo_source_context` | the host, which supplies the members | ambiguous and shared modules, paths with `..`, the shared budget |
| Command line (`bin/filefacts/main.rs`), `read_input` | a walk's stack of listings, the result so far | argument parsing, walk, one analysis per file | the file system, stdout | partial failure, broken pipe, files that change while read |
| Identification (`fileid/`) | none | `FileId::from_path_and_bytes` | the pipeline | an ordered table of rules; may panic |
| Format extractors (`formats/`), CFML parser, source analyses | none beyond the facts they push | `formats::extract`, `build_symbols` | goblin, binform, tree-sitter | bounds on untrusted sizes |
| Go contexts, embedded sources, RC4 recovery | none; work budgets | pure functions of supplied bytes or members | | budgets that end an analysis early |
| Identity, references, derived metrics | none | pure folds over the values | | order: each must run after what it reads |
| Views, schema, rendering | none | serialisation | | wording and layout |

What makes each of the modelled components correct:

- **Disk cache**: what is at a key's path is that key's whole payload or does not
  decode; a caller cannot tell the cache from an open that always computes; what
  a sweep deletes is unused or least recently used, and a sweep that died is not
  taken for one that ran.
- **Cache root**: nothing is read, stored or deleted but in a directory that
  carries a cache tag and nobody else can write to.
- **ParsedFile**: one extraction, one tree; no cycle of threads waiting; what is
  stored is what these bytes always give; nothing computed that nobody reads.
- **Source parse**: an outcome not marked transient is decided by the bytes.
- **Pipeline**: a panic costs its stage's facts, says so, is not printed, and does
  not swallow the host's own panics.
- **Command line**: one failure costs one file and the exit status tells; the
  output is in order; no more than the cap is read; it ends.
- **Value flow, shell, Python, Cargo**: what is reported is so in the file (for
  value flow: through matching calls), and all of it is reported or the answer
  says it is cut short.  Cargo: files and modules are where rustc looks for them.
- **Pickle**: the globals named are those the unpickler would import.

## 2. The modules

| Module | Models | Uses |
|---|---|---|
| `UncachedOpen` | what a caller is promised: an open that always computes | |
| `DiskCache`, `DiskCacheProps`, `DiskCacheProofs` | entries, temp files, marker, calls and sweep threads | `UncachedOpen` by refinement |
| `CacheRoot`, `CacheRootProps`, `CacheRootProofs` | how a process comes to a root and what it does in it | |
| `ParsedFile`, `ParsedFileProps`, `ParsedFileProofs` | the four cells, and the cache lookup and store around the pipeline | |
| `SourceParse`, `SourceParseProps`, `SourceParseProofs` | one call of `TreeCache::parse` | |
| `Extraction`, `ExtractionProps`, `ExtractionProofs` | identification and the pipeline stage by stage, guards and hook | |
| `Walk`, `WalkProps`, `WalkProofs` | the command line's run and `read_input`, on a changing file system | |
| `FlowWalk`, `FlowWalkProps` | walks over a finished value-flow graph | `Reach` |
| `PickleScan`, `PickleProps` | the pickle machine, beside CPython's unpickler | |
| `CargoWalk`, `CargoWalkProps` | the Cargo targets of an artifact | `Reach` |
| `Reach` | what a function from nodes to sets of nodes reaches, for the references of these two | |
| `NestedParses` | the allowance for parsing literal source | |
| `ShellFifo`, `ShellFifoProps` | the collector of a shell script's FIFO loops | `NestedParses` |
| `ModuleCalls`, `ModuleCallsProps` | the collector of a Python module's calls and files, beside the running module | `NestedParses` |
| `AnalysisProofs` | the proofs about these analyses | `FlowWalk`, `PickleScan`, `CargoWalk`, `ShellFifo`, `ModuleCalls`, `Totals` |
| `Totals` | lemmas about sums, least elements, sequences and reachability | |
| `MCAnalyses` | the last five analyses, which share no state, in one instance | the modules above |
| `MC...` | instances of these for TLC | |

Each module's state is the code's state; the constants name what the code takes
as parameters (budgets, intervals, types) and what bounds an instance.  A
definition named like a function of the code models that function; an action is
one operation that another thread or process can observe, with everything the
code does up to the next one.  The definitions marked `Mutant` are plausible
slips of the definition that follows; they are used by no action, and exist to
show that the properties would notice.

### DiskCache

`open[o]` is the call of thread `o` in `open_with_cache_in`, and its `pc` the file
system operation it is about to do: load, touch, compute, make the temp file,
write it, rename it, count the shard.  `sweep[p]` is the sweep thread of process
`p`: gate on the marker, scan, drop for age, evict, mark done.  A payload is
written as its key, so that a wrong one, a torn one (`Torn`), one from outside
(`Bad`) and one computed under a cancellation (`Degraded`) are told apart.
`Crash(p)` may happen between any two steps and leaves the files as they are.
The clock (`now`) is the one every mtime is compared with.  `Fails` names the
operations that may fail for no visible reason, each as the code tolerates it: a store
at any step, a rename over a file that is there (on Windows, where it counts as stored),
a touch, the listing of a shard or the metadata of a file (the scan misses what it holds,
orphans among it), a delete, a thread's start, the check of the root.  `lastUse`,
`lastDone` and `missed` (the entries whose last touch failed) are history and steer
nothing.

Left out: what is in a payload, how a key is computed, the zstd and JSON layers
(an entry decodes or it does not), symlinks in the walk.  The deletion of empty
shard directories is invisible.  `MaxAge` and the rest are in ticks.

### CacheRoot

`root` is what stands at the one path all processes resolve: who made it, whether
`trusted_dir` accepts it, its tag (none, created and empty, signed) and which processes
have written to or deleted from it.  A directory that is not the cache's has any tag: some
other program may have marked it with the standard `CACHEDIR.TAG`, whose signature is all
that `is_tagged` looks for (`src/src/cache.rs:340`).  A process goes through `root_under` one file system
operation at a time (mkdir, check, create the tag, write it, verify), then loads,
stores and spawns a sweep that prunes and deletes.  `memo` is the `OnceLock` of
`default_root`; a host's directory is resolved anew on every open.  `Clear` is the
user deleting the directory, `HostMakes` the host putting one of its own there, tagged
or not.  `cleared[p]` remembers, for the open and for the sweep of `p` apart, whether the
root was deleted after it was resolved; an open that resolves it anew starts afresh.

### ParsedFile

`tree`, `cfml`, `extracted` and `flow` are the cells; `holder[c]` is the thread
running the initialiser of `c`; the others wait at it.  `fate` is what the bytes give when
nothing is cut short; a stopped parse (`"stopped"`), a query that timed out and a
stopped inner parse are choices of the steps that make them.  `disk` is the one
entry this file's key has; `Elsewhere` is every other process storing or deleting
it.  The pipeline is one step here; its stages are `Extraction`.

### SourceParse

`input` fixes, for each grammar, what each progress poll will report (recovery or
not, at the end or not), how much the lexer fetches before it, and the tree that
results.  `Read`, `PollLexer`, `PollCancelled`, `PollBudget`, `Poll` and `Finish`
follow the reader, the progress callback in the order of its tests, and the code
after the parse; `TimeUp` and `Cancel` may happen at any moment.  `Watch` is
`RecoveryWatch::poll`.  `FromBytes`, in the properties, says what the bytes decide
without any of those mechanisms; `OutcomeFromBytes` compares the two.  The
scanner-state estimates are one verdict (`guard`).  Byte counts are small numbers.

### Extraction

`at[t]` is the stage thread `t` is at, `suppress` and `saved` the flag and what
the guards it is in will put back, `hook` and `previous` the process's hooks,
`once` the `Once` that installs ours in two steps (`take_hook`, `set_hook`).
What a stage extracted is abstracted to whether its symbols are in the view, the
errors to how many there are, the metrics to the three that say that facts are
missing.  The host sets a hook of its own at any time, and its code panics at any time.
`unheard` keeps each panic of the host's that did not reach its hook, with what went on
then: an installation under way on another thread, or the host's hook set in the midst of it.

### Walk

The file system is a table of inodes and what each path names, so that a file
that is open survives being unlinked or replaced.  `World` is every other program: it
unlinks, replaces, grows and truncates at any moment, `MaxChanges` times.  `List`,
`Pop`, `Open`, `Stat`, `Read` and `Emit` follow `sorted_entries`, `run`,
`analyze_one` and `read_input`; each may fail.  `span` and `touched` are history:
the sizes the open file has had and the paths that were disturbed.  Arguments are
parsed already; the analysis between reading and output is one step that may fail
to serialise.  An argument that is a link to a directory is walked (`Directory`,
`root.is_dir()`).

### FlowWalk

One action is one turn of the worklist loop, with its budget of steps, the depth,
the width of a frame and the total of frame entries.  A graph's values are
records of a kind, inputs, fields and a call's target.  `FlowWalkProps` gives the
reference: reachability over values *and the stack of calls they are evaluated
under*; a helper that is active is not entered again, which keeps the stacks finite
(`From`).  Values are compared, parameters not, since a binding may skip them.
`Regular` says which graphs the walk's one frame per way is right for: every call
passes all arguments, a parameter has one place, no helper is entered while it is
active, and what is read is a parameter of the call entered last or, outside of every
call, one that nothing on the way has bound.  The builder
(`src/src/formats/source/value_flow.rs:545`) gives each parameter a value of its own and
drops helpers of one name, and a helper's body refers to its own parameters; missing
arguments, recursion and a graph at its node limit are what is excluded.

### PickleScan

One action is one opcode; opcodes with one effect on the stack are one class.
`PickleProps` runs CPython's unpickler next to it (a stack of stacks, a memo, a
protocol, and an error where the scanner goes on); `imported` is what it imports, and
`excused` is what of that the scan does not name by its own rules: operands past
their pickle's cap, a pair taken again, operands UNICODE (`V`) writes with escapes, which
Python decodes (`Decoded`) and the scan does not, and strings it does not read (`unread`:
the 8-bit strings of Python 2, a line that is not UTF-8).  A PERSID ends the
comparison: its line, which CPython reads, is the opcodes the scan goes on with.  The
metrics, the table of dangerous names and the recovery of Ren'Py scripts are left out.

### CargoWalk

`EntriesOf` is the list of entry points the manifests give, `NextEntry`,
`VisitFile`, `VisitAgain`, `VisitSpent` and `Close` the loop over one target.  The
reference in `CargoWalkProps` computes a crate without worklist or budget, and by rustc's
rule, not the code's: a file owns its directory because of *how it was loaded* (as the
root, by a `#[path]`, or as a `mod.rs`), so what is reached is a file with that flag
(`Loaded`), and one file may be in a crate both ways.  The code has only the file's name.
`NamesTell` says where the name tells: not where a `#[path]` file of another name than
`mod.rs`, `lib.rs` or `main.rs` has modules of its own, nor where a `lib.rs` or `main.rs` with
modules was loaded as an ordinary module, nor where a `#[path]` is inside an inline module
of an ordinary file.  Paths too are joined otherwise than in the code, which goes
segment by segment: the definition takes each ".." out of the whole path together
with the segment before it.

### ShellFifo and ModuleCalls

Each is handed one node, or one statement, after another, as the shared walk does.
A statement carries what the collector and the language tell apart: which name is
called, with which method, whether a file is interpolated in the command, how
long a written literal is, whether a name is assigned or a call made among the
arguments, and whether code runs where the collector does not look (`runs`: in an
expression that holds a call without being one, a default argument, the body of a class).
A shell body longer than `MAX_BODY_BYTES` is not read (`SkipBody`), and no limit is reported.
`ModuleCallsProps` executes the same statements on a namespace, where a branch, a wildcard
import or code out of sight may rebind any name, and what is out of sight use any file.  Whether a pipeline is a feedback
loop, the URLs of a literal and the keywords of a constructor are data.

## 3. What TLC checks

| Run | Instance | Shows |
|---|---|---|
| `cache_answers` | 1 process, 2 threads, 2 keys, 2 temp names; damage, deaths, orphans, sweeps always due | `EntriesSound`, `AnswersSound` |
| `cache_refines` | 2 processes of one thread, 1 key; any store or delete may fail | `RefinesUncached`: `DiskCache` implements `UncachedOpen`, its liveness included |
| `cache_sweep` | 1 process, 1 thread, 2 keys of 1 and 2 bytes, clock to 3; touches fail, scans miss files | `LiveTempsKept`, `DeadSweepNotBooked`, `SweptWithinBudget`, `AgeDropsOnlyUnused`, `EvictsLeastRecentlyUsed`, `EvictionStopsAtTarget` |
| `root` | 2 processes, both kinds of directory, with another program's tag or none, 1 deletion | `UsesOnlyTagged`, `HostsLeftAlone`, `TagLasts` |
| `views` | 2 threads, every kind of file, cache on and off | `PipelineRunsOnce`, `StoredIsReproducible`, `CompleteMeansWhole`, `OneTree`, `PaidOnlyIfRead`, `WaitsDownward`, `CallsReturn` |
| `views_inner` | 1 thread, a file with source inside it | `StoredDespiteStop` **fails** (5.1) |
| `parse_limits` | every input of up to 5 polls; C, Objective-C, another language | `OneGrammarFromBytes`, `UndisturbedFromBytes` |
| `parse_alternate` | C files | `OutcomeFromBytes` **fails** (5.2) |
| `pipeline` | 2 threads, every kind of file, any stage panicking | `GuardedPanicsAreSilent`, `HostPanicsAreHeard`, `ErrorCountAgrees`, `AbsenceIsSaid`, `CountsCoverSource` |
| `walk` | 2 arguments, directories two deep or behind a link, 1 change by others, anything failing | `ExitStatusTrue`, `NothingSkipped`, `OutputInOrder`, `ReadsWholeOrRefuses`, `Terminates` |
| `analyses` | the five analyses of `MCAnalyses`, each on its own inputs | `ContextsKeptApartIfRegular`, `CompleteMeansAll`, `CompleteValuesProven`; `GlobalsAsImported`; `CratesWholeOrTruncated`; `RelationsWholeOrLimited`; `CallsAsBoundIfPlain`, `FilesUntilUnseen` |
| `flow_short_call` | a helper called without its argument | `ContextsKeptApart` **fails** (5.3) |

Each property is stated, with the code it is about, above its definition in the
`...Props` module.  For each there is a mutant under which its run fails.

**Why the bounds are enough.**

- *Disk cache.*  What two calls can do to each other goes through one entry, one
  temp name or the marker.  `cache_answers` has two threads storing two keys with
  only two temp names, so names are reused after an orphan; a third call can only
  repeat what the second did.  Two processes differ from two threads only in what
  a death takes away and in having two sweeps, which `cache_refines` covers.
  `cache_sweep` lets the clock run past every interval (age 2, touch 1, sweep 2,
  retry 1) and overruns the byte ceiling; the ceiling of the count is overrun in
  `cache_answers` only, and the theorems on what a sweep leaves are for any count.
  `SweptWithinBudget` and `EvictionStopsAtTarget` are about one process: two sweeps
  at once delete from each other's lists and go below the target (section 5).
  The share kept by eviction is 1/2 instead of 9/10 because two or three
  entries cannot tell nine tenths; the rounding is the code's.
- *Root.*  Two processes are what a tag race takes; one deletion lets every step
  find its root gone, or the host's directory in its place.  What a process does after its
  own root was deleted is not judged (section 5), what others do then is.
- *Views.*  A cell has one initialiser and waiters: two threads make both, and
  every pair of views is read at once.
- *Source parse.*  Budgets of 4 polls, 2 fetches and 1 recovery poll are each
  overrun and each just met by inputs of up to 5 polls.  A C file's
  scripts fetch nothing, since two of them would multiply.
- *Pipeline.*  One thread that panics and one that waits for the hook; at most two
  guards nest in the code; `MaxInner` bounds inner guards of an extractor by the
  errors recorded so far.
- *Walk.*  A directory in a directory is entered part-way through a listing; a
  second argument follows one that failed.  One change at any moment is what a
  race takes: each step reads what an earlier one saw, and a second change is seen
  by a step as the first.  A file of 2 bytes is over the cap of 1.
- *Analyses.*  Graphs have helpers called from two places, from one another, from
  their own arguments and, where `Regular` fails, from their own body, and a budget of 3 steps next to one never reached;
  frames of 3 bindings and 9 in all are exceeded by a helper of four
  parameters and by nested calls.  Five opcodes take an operand to the stack, through
  a mark or the memo, and use it, with one pair of operands of four past the cap of 3
  bytes, in the first pickle or the next; one line has an escape and one string is unread.  The Cargo budgets 2, 5 and 8 cut the crates
  at different turns and 40 none; `#[path]` files with and without modules of their own
  occur, so that `NamesTell` holds of some crates and fails of others.  Four shell nodes overrun the two loops, paths
  and parses allowed, before and after a function, with one body too long to be read; five Python statements import
  two names, make a file, use it and end it, with budgets of two and five
  statements, two calls, two files and two events.  `MaxOpcodes`, `MaxStack` and
  `MaxModule` bound only how long the inputs are.

**Symmetry and views.**  Symmetry is over processes, threads, temp names and equal
keys, in runs of safety properties only.  `cache_answers` has a `VIEW` that leaves out
history that steers nothing and the marker, where both of its intervals are 0 and
a sweep is therefore always due.

**Fairness.**  `DiskCache`: a thread in a call and a sweep thread go on taking steps
(operating-system scheduling); nothing obliges a host to call, time to pass or a
process to die.  `UncachedOpen`'s own fairness, that a call is answered, is what
`cache_refines` derives from it.  `ParsedFile`: each thread that can go on does;
that it can is what `WaitsDownward` is about.  `Walk`: the program's own steps, one
thread that nothing but the operating system delays; other programs owe nothing.
The other modules have no liveness: their runs end, and deadlock is not an error
where the system is simply done.

## 4. What TLAPS proves

For every number of threads, processes, keys, paths, statements and nodes, every
file, and every budget:

| Module | Theorem | Property |
|---|---|---|
| `DiskCacheProofs` | `TypeCorrect` | `TypeOK` |
| | `EntriesAreSound`, `AnswersAreSound` | `EntriesSound`, `AnswersSound` |
| | `ClaimsMatch` | `ClaimsMatchSweeps` |
| | `DeadSweepsAreNotBooked` | `DeadSweepNotBooked` |
| | `StepsRefineUncached` | the safety part of `RefinesUncached` |
| | `LiveTempsAreKept`, `AgeDropsUnused`, `EvictsOldestUse` | `LiveTempsKept`, `AgeDropsOnlyUnused`, `EvictsLeastRecentlyUsed` |
| | `SweepsWithinBudget`, `EvictionStops` | `SweptWithinBudget`, `EvictionStopsAtTarget` |
| `CacheRootProofs` | `TypeCorrect`, `OnlyTaggedUsed`, `HostsAreLeftAlone`, `TagsLast` | `TypeOK`, `UsesOnlyTagged`, `HostsLeftAlone`, `TagLasts` |
| `ParsedFileProofs` | `TypeCorrect`, `CellsTakenInOrder`, `PipelineOnce`, `TreeIsShared` | `TypeOK`, `WaitsDownward`, `PipelineRunsOnce`, `OneTree` |
| | `StoresReproducible` | `StoredIsReproducible` (when nothing is parsed inside the file) |
| | `ToldWholeIsWhole`, `PaidForWhenRead`, `ViewsAreFixed` | `CompleteMeansWhole`, `PaidOnlyIfRead`, `ViewsNeverChange` |
| `SourceParseProofs` | `TypeCorrect`, `CountsFromBytes` | the types, the inductive invariant |
| | `SameForEveryRun`, `SameForUndisturbedRuns` | `OneGrammarFromBytes`, `UndisturbedFromBytes` |
| `ExtractionProofs` | `TypeCorrect`, `Inductive` | the types, the inductive invariant |
| | `SilentGuards`, `HeardOutside` | `GuardedPanicsAreSilent`, `HostPanicsAreHeard` |
| | `ErrorsCounted`, `MissingIsSaid`, `CountsWhole` | `ErrorCountAgrees`, `AbsenceIsSaid`, `CountsCoverSource` |
| `WalkProofs` | `TypeCorrect`, `StatusTrue`, `ReadWholeOrRefused` | the types, `ExitStatusTrue`, `ReadsWholeOrRefuses` |
| | `ShownInOrder`, `SkipsNothing` | `OutputInOrder`, `NothingSkipped` |
| `AnalysisProofs` | `ShellCollectorSound`, `CollectorSound` | the inductive invariants of the two collectors |
| | `RelationsAreWhole` | `RelationsWholeOrLimited` |
| | `CallsAreAsBound`, `FilesAreKnown` | `CallsAsBoundIfPlain`, `FilesUntilUnseen` |
| | `ValuesAreProven` | `CompleteValuesProven` |
| | `ContextsStayApart`, `CompleteAnswersAreWhole` | `ContextsKeptApartIfRegular`, `CompleteMeansAll` |
| | `PickleNamesImports` | `GlobalsAsImported` |
| | `ReducedJoins` | (the two ways to read a reference agree) |
| | `CratesAreWhole` | `CratesWholeOrTruncated` |
| `Totals` | `TotalRemove` | (a lemma of general use) |

**Assumptions.**  Those the modules state about their constants (marks are not
keys, a thread has a process, numbers are naturals, what is listed is a sequence),
which every run evaluates; among them `CargoAssumption`, that an artifact has
finitely many members and their paths are logical, as the module documentation
of `src/src/package_context.rs:4` asks: a name, and no ".." of its own.  And, of single
theorems:

- `Prompt` (a store is done before the clock's next tick) for `LiveTempsAreKept`,
  `AgeDropsUnused` and `EvictsOldestUse`.  The shortest of
  the code's intervals that a tick stands for is `ORPHANED_TEMP_AGE`, fifteen minutes.  A store suspended for
  longer between its write and its rename may lose its temp file to a sweep, or rename
  a file that is already that old; either costs an entry of the cache, no more.
- `TouchInterval > 0` for `EvictsOldestUse`, whose bound is the touch interval.
- `Alone` (one process uses the root) and `ShareNum <= ShareDen` (the code's share
  is 9/10) for `SweepsWithinBudget` and `EvictionStops`, and `"delete" \notin Fails` for
  the former: a second process sweeps what the first has counted, and a file that cannot be
  deleted stays.
- `Apart` (no argument is below another) for `ShownInOrder`.  The code walks every
  argument, so of `a` and `a/b` it shows what is below `a/b` twice.

**Why these invariants.**

- **DiskCache, what is answered.**  `EntriesSound` is not inductive: a rename makes
  an entry of what a temp file holds, and that is right only if no other store writes
  through the name.  `SoundInv` adds `Carried` (from the moment a call touches or
  stores, what it carries is its own key's payload, never a degraded one) and
  `OwnTemps` (two stores never hold one temp name, and what a store is about to
  rename is what it wrote, or is gone because a sweep unlinked it).
  `StepsRefineUncached` needs `SoundInv` and that an idle thread holds nothing of its last call
  (`Idle`): then a return or a hit is the abstract answer, a death is the abstract
  one, and every other step, all of the sweep among them, is a stutter.
- **DiskCache, what is deleted.**  `Touched` bounds how far an entry's mtime lags
  its last use; `Moments` says that a touch under way does not set it back;
  `Scanned` carries both to the sweep, which decides on mtimes it read earlier.  A
  touch that failed lets the lag grow, so each bound is said of entries outside `missed`.
- **DiskCache, what is left.**  `Sees`: with one process, what a sweep still counts
  is still on disk.  `Within`: a sweep that gets to its mark counts no more than
  the ceilings.  `Totals` shows that the sums of a fold over a set lose exactly
  what is taken out, in whatever order the fold went.
- **CacheRoot.**  Neither property is inductive, as each step trusts what an
  earlier one found.  `Known(p)` says what `p` has established so far (trusted,
  then tagged) unless the root was deleted since, `Entitled(p)` that the root it
  is about to tag is its own or the default one, and `Foreign` that somebody
  else's directory stands at the root only where the host named it.  `StepKeepsRoot` is the crux: no step
  of any process takes away what makes a root usable.
- **ParsedFile.**  `Locking` says that a filled cell has no holder and a thread at
  an initialiser's step holds the cell; `AllReady`, that a step's inputs are in
  their cells; `Sourced`, that the extraction was made from those very cells or
  came from a reproducible entry; `Counted`, that `parses` counts the pipeline
  exactly.  `WaitsDownward` then follows from which step reads which cell.
  `Called` adds that a thread at a cell was called for a view that needs it, hence
  `PaidOnlyIfRead`; `CompleteMeansWhole` follows from `Sourced` when the call returns.
- **SourceParse.**  `Counting` says what the counters are at every poll *of the bytes
  alone* (the bytes fetched so far are the script's sum, the watch is the fold of
  its reports, no poll so far met a limit); so the poll that gives up is the first
  the bytes make give up, and `Settled` follows: a parse ended as the bytes decide,
  or is marked transient.  `InOrder` says which parses have run.
- **Extraction.**  `Nested`: the stack of saved flags is none, `FALSE`, or `FALSE` and
  then `TRUE`, and the flag is set exactly inside a guard, so a guard that is left
  restores what its caller had.  `Hooked`: ours passes panics to the host's last
  hook, unless that was set between `take_hook` and `set_hook`.  `Described`: from
  the stage a tree failed at, a metric and an error say so.
- **Walk.**  `Nested`: each path on the stack comes before those under it, and parts
  from what is being visited.  `Failing` ties `ok` and `result` to what was
  reported; `Sized`, what was read to the sizes the open file has had; `Ordered`,
  what was printed to what is still to come; `Steady`, what was listed to what is
  on disk as long as nobody changed it.  `Covering` is the induction of
  `NothingSkipped`: every file still due is printed, reported, or below something on the
  stack.
- **Module calls.**  `Sound`: while budget is left, every binding the collector holds
  is what the running module's name denotes, and each tracked file is one the
  module made, no two of them the same, with all its events unless they ran into
  their limit.  `FactsKnown` and `FactsEnded` say of facts already told that
  they are the beginning of what happened, all of it unless ended by something.  Sound is conditional on
  `plain`, which section 5 explains.
- **Value flow.**  `WholeInv`: what waits on the worklist or was visited can be reached
  from the question, what was reported is a whole value among it and, unless the
  answer is marked incomplete, whatever a visited value can be was visited or waits
  (`Looked`).  With an empty worklist the visited values are closed under that step,
  hence all that can be reached, which is finite, since the bindings of a walk for
  complete values are never more than none.
  The walk for origins carries one frame where the reference has a stack of calls.
  `FlowInv` relates the two by `Fits`: a frame binds what the stack's calls bind
  (`Agree` with `Binding`) and nothing that no call on the way bound (`Carried`).  Every
  item on the worklist and everything walked matches some node that leads to the start
  (`WalkSound`), hence `ContextsKeptApartIfRegular`.  Unless the answer is marked
  incomplete, each node where the walk starts is covered, and each node that matches
  something walked is settled: it can be seen through, is reported, and what it leads back
  to is covered by what was walked or waits (`WalkWhole`).  A bound parameter is skipped for
  its value, so a node may also be covered by the value it is bound to (`StandsFor`);
  `LeadsToBound` follows it there call by call, by induction on the stack.  With an empty
  worklist all that leads to the start is covered (`AllCovered`), hence
  `CompleteMeansAll`.  `StacksFinite` gives the reference its finitely many nodes: no
  stack has one helper twice, and helpers and values are finite.
- **Cargo.**  `TargetInv`: the files held or on the stack are of the target's crate and
  hold its entry, and whatever a held file declares is held or on the stack; what was lost
  and the events are those of the files held.  With an empty stack the files held are
  the crate.  `CandidatesTaken` is the crux: where the code looks for a declared module
  is where `Takes`, the code's rule said of whole paths, says it is; `ReducedJoins` shows it
  of the paths, by induction on their length.  `MeansTaken` and `CratesTold` then compare that rule with rustc's:
  where names tell, the least set closed under the one has the files of the least set
  closed under the other.
- **Pickle.**  `PickleInv` adds to the property that both machines have seen the same
  protocol unless the scan is at the start of a further stream (`FindClass` reads it
  there), and that the unpickler's frames hold no mark.  The scanner's stack is the frames
  laid flat, with a mark between two (`Laid`, a fold; `LaidOn` says what one frame more
  adds): `PoppedOff`, `OnTopOf` and `ThroughLastMark` then show of each opcode that
  it finds on the flat stack what the unpickler finds in its innermost frame.
- **Shell.**  `LoopsKept`: the loops kept are loops met so far, all of them unless a
  budget is said to be spent.  `FifosKnown`: each path has the node that first
  creates it, if there is room for all paths.

Several of these need induction over data, which the prover offers in no direct
form.  `Totals` proves, from the finiteness of sets alone, that a
set of numbers has a least element and a collection of subsets a smallest member;
each induction is then written as the absence of a smallest counterexample (of a
sum, of a sorted listing, of a fold over the paths of a `mkfifo`, of a path's
segments).  `ReachedIsLeast` shows so that what is reached within a finite set is
the least set that no step leaves.

**Only model-checked.**

- Liveness: `CallsReturn`, `Terminates`, and the part of `RefinesUncached` that says
  every call is answered.

Every safety property the passing runs check is stated by a theorem, under the assumptions
above.  The type invariants that are proved are checked by no run, and neither are
`ClaimsMatchSweeps` and `ViewsNeverChange`: the proofs cover every
instance.

## 5. Where code and documentation disagree

1. *A stopped inner parse is stored* (`views_inner`,
   `src/src/formats/source/parse.rs:407`).  Whether the payload may be stored is decided
   from the file's own parse and its queries; a parse of source found inside it
   that was stopped by the clock or the caller goes unnoticed.
2. *A C file's second parse hides a transient stop* (`parse_alternate`,
   `parse.rs:541`).  One outcome of two is returned; the other's transient
   diagnostic is lost.
3. *A call with too few arguments takes another caller's* (`flow_short_call`,
   `src/src/output/flow.rs:591`).  A parameter its call leaves unbound is followed to
   the arguments of every caller, and the answer is not marked incomplete.

Seen while modelling, and not made into runs:

- *Cache.*  `write_tag` takes `AlreadyExists` for success, so a process that finds a
  tag created and not yet written fails the check of it and remembers that for its
  lifetime; if the writer died there the cache stays off (`src/src/cache.rs:333`).
  Two sweeps at once evict below the target, each not counting the victims
  the other deleted.  That "a still-used entry is never dropped for age
  alone" (`cache/sweep.rs:56`) has two things against it: the
  age pass deletes by path on the mtime its scan read, so an entry used or stored again
  meanwhile goes too (`AgeDropsOnlyUnused` is about what the scan condemns); and a
  touch that fails is tolerated, so an entry read daily on a file system that refuses
  touches ages all the same (`missed`).  After the user deletes the root, a store of an
  open already past its checks makes it again untagged, and a host's cache is then off; or,
  if the host made it again, stores into the host's own (`cleared` exempts that open and
  that sweep).  "It leaves alone a `filefacts` directory it did not tag" (`cache.rs:25`)
  is not so of one that carries another program's standard tag, which `is_tagged` takes
  for its own (the first exception of `HostsLeftAlone`).
- *Views and pipeline.*  `source_parse_incomplete` is documented as always false for
  views from the disk cache, and reads the tree cell, which `source_ast` may have
  filled with a stopped parse.  CFML symbols are added after the per-kind counts
  were derived (`src/src/lib.rs:665`).
- *Panic hook.*  "Panics anywhere else reach the previous hook untouched"
  (`panic_guard.rs:49`) has a window: between `take_hook` and `set_hook` a panic of the
  host on another thread meets the default hook, and a hook the host sets then is lost for
  good.  It opens once in the life of a process (`HostPanicsAreHeard` names it).
- *Command line.*  A file that failed before the reader of the output went away
  leaves exit status 0 (`ExitStatusTrue` says so).
- *Value flow.*  A helper that is active twice overwrites its own frame, and a call
  of a helper in its own body leaves its binding where the callers' arguments should
  be looked for: both lose values without `incomplete` (hence `Regular`).
  `field_origins` of a member value is empty and complete.
- *Pickle.*  "Statically resolved STACK_GLOBAL operands, as Python imports them"
  (`formats/pickle.rs:10`) is not so of three: 8-bit strings, which CPython takes, are not
  recognised; the escapes of a UNICODE line are not decoded (`:262`), so that an operand
  written with one is no name; and PERSID's line is not consumed (`pickle/ops.rs:52`), so
  that its text is walked as opcodes, after which scan and unpickler are out of step.
- *Cargo.*  The rule for a module's directory goes by file name (`package_context.rs:413`),
  rustc's by how the file was loaded.  They differ on a `#[path]` file with modules (its
  modules lie beside it for rustc, in a directory of its name for the code), on a `lib.rs` or
  `main.rs` below the root, and on a `#[path]` inside an inline module of an ordinary file; the
  code then misses a file, or takes another, without `truncated`.  A `#[path]` on an inline
  module is not recorded at all (`formats/source/rust_syntax.rs:205`).  A module outside of
  the manifest's directory counts as one that cannot be followed.
- *Shell.*  More distinct `mkfifo` paths than the limit leave creations out and do
  not set `fifo_limited` (`shell_fifo.rs:262`); functions of the outer script shadow
  the programs of a `sh -c` body, which cannot see them.  A `sh -c` argument longer than
  `MAX_BODY_BYTES` is left out and no limit is reported (`shell_fifo.rs:131`), although
  `fifo_limited` is there for "when a budget cut the analysis short" (`:331`).
- *Python.*  Against `python_module_calls.rs:7`, which says that any statement that could
  rebind a name ends what is known about it, the chained assignment `a = b = v`
  rebinds `b`, a walrus among arguments its name, and a wildcard import any name,
  without ending anything, and a call among the arguments of a tracked file's method may use the
  file.  So may what runs inside an expression that is no call (`f(h) or 0`, `x = f(h) + 1`),
  a default argument or the body of a class, where the collector does not look, against
  its "until something could have touched it unseen" (`:47`).  `CallsAsBound` and
  `FilesUntilUnseen` hold of `plain` modules only.  The limits on calls, events
  and files, and a literal too large to parse, do not set `truncated`.

## 6. Not modelled

- *Format extractors, identification rules, CFML, source queries, identity and
  references, RC4 and embedded sources.*  Most of the repository's lines: some hundred
  single-threaded byte parsers, tables of ordinals, names and magic numbers, and
  folds over what was extracted.  They share no state and no step of theirs is seen
  by another actor; a definition of one would repeat its byte offsets.  What the rest
  depends on, that they end, may fail, may panic and may have pushed part of their
  facts, is in `Extraction`.  This is why the mapped lines are a small part of the
  whole.
- *How the value-flow graph is built* from a syntax tree, per language; the Go
  contexts; the command line's arguments.
- *Rendering and serialisation*: layout and wording.
- `functions.rs` keeps counters for diagnostics only.
- The generated and vendored code (`build.rs` tables, tree-sitter grammars) and the
  fuzz targets.

## 7. Plan

In this order; each step adds its properties to the runs above or takes the place
of one.

1. Composition: `ParsedFile` over `DiskCache`, the refinement of `Elsewhere` and of
   the one-step `Keep`; `ParsedFile`'s one-step pipeline refined by `Extraction`.
2. The Go contexts, compared with a definition without work budgets; the budgets of
   the flow builder.
3. A frame per call in the reference of a recursive helper, to say which values are lost
   there.
