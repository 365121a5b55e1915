-------------------------- MODULE ParsedFileProps --------------------------
(***************************************************************************)
(* What ParsedFile promises its caller, whatever the threads do.           *)
(***************************************************************************)
EXTENDS ParsedFile

\* The pipeline runs at most once, and not at all for views served from the
\* disk cache: parse_count as its documentation has it (lib.rs:593).
PipelineRunsOnce ==
  /\ parses <= 1
  /\ extracted # Empty => (parses = IF extracted.from = "disk" THEN 0 ELSE 1)

\* Whatever the load, a cancellation or an exhausted query budget did to this
\* run, the entry other opens will be answered from is the payload these bytes
\* always give (lib.rs:683, cache_outcome).
StoredIsReproducible == disk # Empty => disk = Reproducible

\* The same of a file whose extraction parses source found inside it
\* (parse.rs:464): "A caller that caches facts by content must not keep a
\* transient outcome."
StoredDespiteStop == disk # Empty => disk.inner = "whole"

\* A caller told that the source parse was not cut short may persist the views:
\* they were made from a whole parse (lib.rs:543, source_parse_incomplete).
CompleteMeansWhole ==
  \A s \in said : ~s.answer => extracted # Empty /\ extracted.value.tree # "stopped"

\* The tree handed out by source_ast is the one the views of this run were
\* extracted from, never a second parse that may have stopped elsewhere
\* (lib.rs:452, source_ast).
OneTree ==
  extracted # Empty /\ tree # Empty =>
    (extracted.from = "pipeline" => extracted.value.tree = tree)

\* Nobody pays for what nobody reads: no flow graph unless flow() was called,
\* and on a cache hit no parse unless source_ast() or flow() was.
PaidOnlyIfRead ==
  /\ (flow # Empty \/ holder["flow"] # NoThread) => "flow" \in asked
  /\ ((tree # Empty \/ holder["tree"] # NoThread) /\ parses = 0)
       => asked \cap {"ast", "flow"} # {}

\* The order in which cells are taken: an initialiser only reads cells below
\* the one it fills.
Rank == [c \in Cell |-> CASE c = "flow" -> 3 [] c = "extracted" -> 2 [] OTHER -> 1]

\* No thread waits for a cell it is filling itself or one above it, so no
\* cycle of threads waiting on each other can form.
WaitsDownward ==
  \A t \in Thread, c, d \in Cell : (at[t] = c /\ Holds(t, d) /\ ~Filled(c)) => Rank[c] < Rank[d]

\* A view, once read, never changes: the references handed out stay valid.
ViewsNeverChange ==
  [][\A c \in Cell : Filled(c) => Content'[c] = Content[c]]_cells

\* Every call of a view returns.
CallsReturn == \A t \in Thread : at[t] # "idle" ~> at[t] = "idle"
=============================================================================
