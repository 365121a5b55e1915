----------------------------- MODULE ParsedFile -----------------------------
(***************************************************************************)
(* The lazily computed views of one opened file: ParsedFile in             *)
(* src/src/lib.rs.  Four write-once cells (OnceLock) are shared by every   *)
(* thread that holds the ParsedFile:                                       *)
(*                                                                         *)
(*   tree       the tree-sitter parse (None for a file that is not source) *)
(*   cfml       the CFML parse (used for a CFML file only)                 *)
(*   extracted  every other view, from the disk cache or the pipeline      *)
(*   flow       the value-flow graph                                       *)
(*                                                                         *)
(* The first thread to read an empty cell runs its initialiser and every   *)
(* other reader blocks until it is done.  Initialisers read other cells:   *)
(* extraction reads tree and cfml, flow reads cfml, tree and extracted.  A *)
(* thread's call stack is not kept: what it returns to follows from the    *)
(* cells it is initialising.                                               *)
(*                                                                         *)
(* What a file's bytes give when nothing stops the work early (fate) is    *)
(* fixed for the behaviour; a parse stopped by the wall-clock backstop or  *)
(* the caller's cancellation flag, and a source query stopped at its time  *)
(* budget, are outcomes a step may choose.                                 *)
(***************************************************************************)
EXTENDS Naturals, FiniteSets

CONSTANTS
  Thread,     \* threads reading views of this ParsedFile
  NoThread,   \* no thread is initialising the cell
  Empty,      \* the content of a OnceLock that is not initialised
  Kinds,      \* the kinds of file considered: "tree" (a tree-sitter language),
              \* "cfml" or "other"
  InnerParses, \* whether extraction parses source found inside the file: `sh -c`
              \* bodies, code written to a file, PHP embedded in media
  CacheUses   \* whether the host turned the disk cache on: the cases considered

ASSUME ThreadAssumption == NoThread \notin Thread
ASSUME KindAssumption ==
  Kinds \subseteq {"tree", "cfml", "other"} /\ CacheUses \cup {InnerParses} \subseteq BOOLEAN

\* No grammar; parsed; refused for a reason in the bytes (a size cap, a scanner
\* guard, a work budget, a parser panic); or stopped by load or cancellation.
\* (A C file's second parse as C++ is SourceParse's subject, not this one's.)
TreeOutcome == {"none", "parsed", "refused", "stopped"}
CfmlOutcome == {"none", "parsed", "panicked"}
FlowOutcome == {"none", "graph"}
Origin == {"disk", "pipeline"}

\* What an extraction's facts were made from: the source parse, whether every
\* source query and every inner parse ran to its end, and the CFML parse.
Extraction == [tree : TreeOutcome, queries : {"whole", "timeout"},
               inner : {"whole", "stopped"}, cfml : CfmlOutcome]
Served == [value : Extraction, from : Origin]

ASSUME EmptyAssumption ==
  Empty \notin TreeOutcome \cup CfmlOutcome \cup FlowOutcome \cup Extraction \cup Served

VARIABLES
  fate,       \* the file's kind, what its bytes give when no parse is stopped
              \* early, and whether it was opened with the disk cache on
  tree,       \* tree_parse
  cfml,       \* cfml_parse
  extracted,  \* extracted, and where it came from
  flow,       \* flow
  holder,     \* holder[c]: the thread running the initialiser of cell c
  at,         \* at[t]: the cell t is getting, or the step it is about to take
  view,       \* view[t]: the view t's call reads
  draft,      \* the extraction being built by the holder of extracted
  parses,     \* parse_count
  disk,       \* the disk cache's entry for this file's key
  said,       \* history: the answers of source_parse_incomplete
  asked       \* history: the views calls have read

cells == <<tree, cfml, extracted, flow>>
vars == <<fate, cells, holder, at, view, draft, parses, disk, said, asked>>

Cell == {"tree", "cfml", "extracted", "flow"}
View == {"views", "ast", "flow", "incomplete"}
Step == {"idle", "lookup", "extract", "merge", "keep", "parse_tree",
         "parse_cfml", "build", "done"}

Content == [c \in Cell |-> CASE c = "tree" -> tree [] c = "cfml" -> cfml
                             [] c = "extracted" -> extracted [] OTHER -> flow]
Filled(c) == Content[c] # Empty

Kind == fate.kind
Caching == fate.caching

\* The extraction of these bytes when nothing stops it early.
Reproducible == [tree |-> fate.tree, queries |-> "whole",
                 inner |-> "whole", cfml |-> fate.cfml]

TypeOK ==
  /\ fate \in [kind : Kinds, tree : TreeOutcome \ {"stopped"}, cfml : CfmlOutcome,
              caching : CacheUses]
  /\ tree \in TreeOutcome \cup {Empty}
  /\ cfml \in CfmlOutcome \cup {Empty}
  /\ extracted \in Served \cup {Empty}
  /\ flow \in FlowOutcome \cup {Empty}
  /\ holder \in [Cell -> Thread \cup {NoThread}]
  /\ at \in [Thread -> Cell \cup Step]
  /\ view \in [Thread -> View]
  /\ draft \in Extraction \cup {Empty}
  /\ draft # Empty => holder["extracted"] # NoThread
  /\ parses \in Nat
  /\ disk \in Extraction \cup {Empty}
  /\ said \subseteq [answer : BOOLEAN, from : Origin]
  /\ asked \subseteq View

Init ==
  /\ fate \in [kind : Kinds, tree : {"parsed", "refused", "none"},
               cfml : {"parsed", "panicked", "none"}, caching : CacheUses]
  /\ fate.tree = "none" <=> Kind # "tree"
  /\ fate.cfml = "none" <=> Kind # "cfml"
  /\ tree = Empty /\ cfml = Empty /\ extracted = Empty /\ flow = Empty
  /\ holder = [c \in Cell |-> NoThread]
  /\ at = [t \in Thread |-> "idle"]
  /\ view \in [Thread -> {"views"}]
  /\ draft = Empty
  /\ parses = 0
  /\ disk \in {Empty, Reproducible}
  /\ said = {} /\ asked = {}

Goto(t, next) == at' = [at EXCEPT ![t] = next]
Holds(t, c) == holder[c] = t
Release(c) == holder' = [holder EXCEPT ![c] = NoThread]

-----------------------------------------------------------------------------
(* A call of a view, and what each OnceLock does.                          *)

\* Mutant: source_parse_incomplete does not wait for the extraction.
FirstReadOfTree(v) ==
  CASE v \in {"ast", "incomplete"} -> "tree"
    [] v = "flow" -> IF Kind = "cfml" THEN "cfml" ELSE "flow"
    [] OTHER -> "extracted"

\* The cell a call of view v reads first.
FirstRead(v) ==
  CASE v = "ast" -> "tree"
    [] v = "flow" -> IF Kind = "cfml" THEN "cfml" ELSE "flow"
    [] OTHER -> "extracted"

Call(t, v) ==
  /\ at[t] = "idle"
  /\ Goto(t, FirstRead(v))
  /\ view' = [view EXCEPT ![t] = v]
  /\ asked' = asked \cup {v}
  /\ UNCHANGED <<fate, cells, holder, draft, parses, disk, said>>

\* Mutant: the tree is parsed before the disk cache is asked.
ParseThenLookup(c) ==
  CASE c = "tree" -> "parse_tree"
    [] c = "cfml" -> "parse_cfml"
    [] OTHER -> "tree"

\* What the initialiser of c does first; flow's reads the tree.
Initialiser(c) ==
  CASE c = "tree" -> "parse_tree"
    [] c = "cfml" -> "parse_cfml"
    [] c = "extracted" -> "lookup"
    [] OTHER -> "tree"

\* Mutant: a cell that lets a second thread initialise it too.
Unlocked(c) == TRUE
Free(c) == holder[c] = NoThread

\* get_or_init finds the cell empty and nobody initialising it.
StartInit(t, c) ==
  /\ at[t] = c /\ ~Filled(c) /\ Free(c)
  /\ holder' = [holder EXCEPT ![c] = t]
  /\ Goto(t, Initialiser(c))
  /\ UNCHANGED <<fate, cells, view, draft, parses, disk, said, asked>>

\* Where t goes on once it has read c.
After(t, c) ==
  CASE c = "tree" /\ Holds(t, "extracted") -> "extract"
    [] c = "tree" /\ ~Holds(t, "extracted") /\ Holds(t, "flow") ->
         IF tree = "parsed" THEN "extracted" ELSE "build"
    [] c = "cfml" /\ Holds(t, "extracted") -> "merge"
    [] c = "cfml" /\ ~Holds(t, "extracted") ->
         IF cfml = "parsed" THEN "done" ELSE "flow"
    [] c = "extracted" /\ Holds(t, "flow") -> "build"
    [] OTHER -> "done"

\* get_or_init returns the content.
Read(t, c) ==
  /\ at[t] = c /\ Filled(c)
  /\ Goto(t, After(t, c))
  /\ UNCHANGED <<fate, cells, holder, view, draft, parses, disk, said, asked>>

\* The call returns; source_parse_incomplete then reads the tree cell as it is.
Return(t) ==
  /\ at[t] = "done"
  /\ Goto(t, "idle")
  /\ said' = IF view[t] = "incomplete"
             THEN said \cup {[answer |-> tree = "stopped",
                              from |-> IF extracted = Empty THEN "disk" ELSE extracted.from]}
             ELSE said
  /\ UNCHANGED <<fate, cells, holder, view, draft, parses, disk, asked>>

-----------------------------------------------------------------------------
(* The initialisers.                                                       *)

\* How a tree-sitter parse of these bytes may end this time.
ParseEnds == {fate.tree} \cup (IF Kind = "tree" THEN {"stopped"} ELSE {})

\* TreeCache::parse under `guarded`.
ParseTree(t) ==
  /\ at[t] = "parse_tree"
  /\ tree' \in ParseEnds
  /\ Release("tree")
  /\ Goto(t, "tree")
  /\ UNCHANGED <<fate, cfml, extracted, flow, view, draft, parses, disk, said, asked>>

ParseCfml(t) ==
  /\ at[t] = "parse_cfml"
  /\ cfml' = fate.cfml
  /\ Release("cfml")
  /\ Goto(t, "cfml")
  /\ UNCHANGED <<fate, tree, extracted, flow, view, draft, parses, disk, said, asked>>

\* open_with_cache answers from the entry: nothing is parsed.
Hit(t) ==
  /\ at[t] = "lookup" /\ Caching /\ disk # Empty
  /\ extracted' = [value |-> disk, from |-> "disk"]
  /\ Release("extracted")
  /\ Goto(t, "extracted")
  /\ UNCHANGED <<fate, tree, cfml, flow, view, draft, parses, disk, said, asked>>

\* Mutant: the pipeline folds the flow graph into the payload.
PipelineReadFlow == "flow"
\* The cell run_pipeline reads first.
PipelineRead == "tree"

\* run_pipeline: counted, then the tree is read.
RunPipeline(t) ==
  /\ at[t] = "lookup" /\ (Caching => disk = Empty)
  /\ parses' = parses + 1
  /\ Goto(t, PipelineRead)
  /\ UNCHANGED <<fate, cells, holder, view, draft, disk, said, asked>>

\* Mutant: the extractor parses again instead of sharing the tree.
ParseAgain == ParseEnds
\* The parse run_extraction is given.
ParseUsed == {tree}

\* Mutant: the CFML parse is merged through the public view.
AfterExtractReread == "extracted"
\* What run_pipeline does after run_extraction.
AfterExtract == IF Kind = "cfml" THEN "cfml" ELSE "keep"

\* run_extraction: a source query may run out of its time budget, and an inner
\* parse be stopped by load or cancellation like any other.
Extract(t) ==
  /\ at[t] = "extract"
  /\ \E used \in ParseUsed,
        queries \in {"whole"} \cup (IF tree = "parsed" THEN {"timeout"} ELSE {}),
        inner \in {"whole"} \cup (IF InnerParses THEN {"stopped"} ELSE {}) :
       draft' = [tree |-> used, queries |-> queries, inner |-> inner, cfml |-> "none"]
  /\ Goto(t, AfterExtract)
  /\ UNCHANGED <<fate, cells, holder, view, parses, disk, said, asked>>

\* run_pipeline adds the CFML symbols, or the CFML panic to the errors.
Merge(t) ==
  /\ at[t] = "merge"
  /\ draft' = [draft EXCEPT !.cfml = cfml]
  /\ Goto(t, "keep")
  /\ UNCHANGED <<fate, cells, holder, view, parses, disk, said, asked>>

\* Mutant: a query that ran out of time does not count.
TransientParse(e, parse) == parse = "stopped"
\* cache_outcome: the payload depends on more than the bytes.
Transient(e, parse) == parse = "stopped" \/ e.queries = "timeout"

\* The cell is set; the payload is stored unless it is transient or the store
\* fails.
Keep(t) ==
  /\ at[t] = "keep"
  /\ extracted' = [value |-> draft, from |-> "pipeline"]
  /\ disk' \in IF Caching /\ ~Transient(draft, tree) THEN {disk, draft} ELSE {disk}
  /\ draft' = Empty
  /\ Release("extracted")
  /\ Goto(t, "extracted")
  /\ UNCHANGED <<fate, tree, cfml, flow, view, parses, said, asked>>

\* No tree, a graph, or a build that panicked.
BuildFlow(t) ==
  /\ at[t] = "build"
  /\ flow' \in IF tree = "parsed" THEN FlowOutcome ELSE {"none"}
  /\ Release("flow")
  /\ Goto(t, "flow")
  /\ UNCHANGED <<fate, tree, cfml, extracted, view, draft, parses, disk, said, asked>>

-----------------------------------------------------------------------------

\* Other opens of the same bytes store their payload; sweeps delete it.
Elsewhere ==
  /\ Caching
  /\ disk' \in {Empty, Reproducible}
  /\ UNCHANGED <<fate, cells, holder, at, view, draft, parses, said, asked>>

Run(t) ==
  \/ \E c \in Cell : StartInit(t, c) \/ Read(t, c)
  \/ ParseTree(t) \/ ParseCfml(t) \/ Hit(t) \/ RunPipeline(t)
  \/ Extract(t) \/ Merge(t) \/ Keep(t) \/ BuildFlow(t)
  \/ Return(t)

Next == Elsewhere \/ \E t \in Thread : Run(t) \/ \E v \in View : Call(t, v)

Spec == Init /\ [][Next]_vars
\* A thread that can go on does: the scheduler is fair to every thread.
FairSpec == Spec /\ \A t \in Thread : WF_vars(Run(t))
=============================================================================
