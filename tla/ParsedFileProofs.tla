-------------------------- MODULE ParsedFileProofs --------------------------
(***************************************************************************)
(* Proofs about ParsedFile, for any number of threads and every kind of    *)
(* file.  Locking says which thread is where while it fills a cell;        *)
(* Counting and Sourced say what the cells, the draft and the disk entry   *)
(* hold then.  Together they are inductive and imply the properties.       *)
(***************************************************************************)
EXTENDS ParsedFileProps, TLAPS

Filling == {"lookup", "tree", "parse_tree", "extract", "cfml", "parse_cfml",
            "merge", "keep"}

\* What thread t is doing follows from the cells it fills, and the other way.
Placed(t) ==
  /\ at[t] = "parse_tree" <=> holder["tree"] = t
  /\ at[t] = "parse_cfml" <=> holder["cfml"] = t
  /\ holder["extracted"] = t => at[t] \in Filling
  /\ at[t] \in {"lookup", "extract", "merge", "keep"} => holder["extracted"] = t
  /\ holder["flow"] = t =>
       at[t] \in {"tree", "parse_tree", "extracted", "build"} \/ holder["extracted"] = t
  /\ at[t] = "build" => holder["flow"] = t

\* A cell being filled is empty.
HeldEmpty ==
  /\ holder["tree"] # NoThread => tree = Empty
  /\ holder["cfml"] # NoThread => cfml = Empty
  /\ holder["extracted"] # NoThread => extracted = Empty
  /\ holder["flow"] # NoThread => flow = Empty

Locking == HeldEmpty /\ \A t \in Thread : Placed(t)

\* What each step needs to have been done before it, and nothing more.
Ready(t) ==
  /\ at[t] = "extract" => tree # Empty
  /\ at[t] = "merge" => cfml # Empty
  /\ (holder["extracted"] = t /\ at[t] \in {"lookup", "tree", "parse_tree", "extract"})
       => draft = Empty
  /\ (holder["extracted"] = t /\ at[t] \in {"cfml", "parse_cfml", "merge", "keep"})
       => /\ draft \in Extraction /\ draft.tree = tree /\ tree # Empty
          /\ ~InnerParses => draft.inner = "whole"
  /\ at[t] = "keep" => draft.cfml = fate.cfml

FateTyped == fate \in [kind : Kinds, tree : TreeOutcome \ {"stopped"}, cfml : CfmlOutcome,
                  caching : CacheUses]

\* The first state is typed.
LEMMA TypedInit == Init => TypeOK
<1> SUFFICES ASSUME Init PROVE TypeOK
  OBVIOUS
<1>1. fate \in [kind : Kinds, tree : TreeOutcome \ {"stopped"}, cfml : CfmlOutcome,
                  caching : CacheUses]
  BY DEF Init, TreeOutcome, CfmlOutcome
<1>2. Reproducible \in Extraction
  BY <1>1 DEF Reproducible, Extraction, TreeOutcome, CfmlOutcome
<1>3. disk \in Extraction \cup {Empty}
  BY <1>2 DEF Init
<1>4. view \in [Thread -> View] /\ at \in [Thread -> Cell \cup Step]
  BY DEF Init, View, Step
<1>5. holder \in [Cell -> Thread \cup {NoThread}]
  BY DEF Init
<1> QED
  BY <1>1, <1>3, <1>4, <1>5 DEF Init, TypeOK

\* A step of Next is one of these; the cases below follow this list.
LEMMA NextCases ==
  ASSUME [Next]_vars
  PROVE  \/ UNCHANGED vars \/ Elsewhere
         \/ \E t \in Thread :
              \/ \E v \in View : Call(t, v)
              \/ \E c \in Cell : StartInit(t, c) \/ Read(t, c)
              \/ ParseTree(t) \/ ParseCfml(t) \/ Hit(t) \/ RunPipeline(t)
              \/ Extract(t) \/ Merge(t) \/ Keep(t) \/ BuildFlow(t) \/ Return(t)
<1>1. CASE UNCHANGED vars
  BY <1>1
<1>2. CASE Elsewhere
  BY <1>2
<1>3. CASE \E t \in Thread : Run(t) \/ \E v \in View : Call(t, v)
  <2>1. PICK t \in Thread : Run(t) \/ \E v \in View : Call(t, v)
    BY <1>3
  <2> QED
    BY <2>1 DEF Run
<1> QED
  BY <1>1, <1>2, <1>3 DEF Next

\* Moving a thread on keeps the types.
LEMMA GotoTyped ==
  ASSUME at \in [Thread -> Cell \cup Step], NEW t \in Thread, NEW next \in Cell \cup Step,
         Goto(t, next)
  PROVE  at' \in [Thread -> Cell \cup Step]
  BY DEF Goto

\* Giving up a lock keeps the types.
LEMMA ReleaseTyped ==
  ASSUME holder \in [Cell -> Thread \cup {NoThread}], NEW c \in Cell, Release(c)
  PROVE  holder' \in [Cell -> Thread \cup {NoThread}]
  BY DEF Release

\* What an undisturbed extraction computes is an extraction.
LEMMA ReproducibleTyped == FateTyped => Reproducible \in Extraction
  BY DEF FateTyped, Reproducible, Extraction, TreeOutcome, CfmlOutcome

\* Every step keeps the types, given that it starts where it may.
LEMMA TypedStep == TypeOK /\ Locking /\ (\A t \in Thread : Ready(t)) /\ [Next]_vars => TypeOK'
<1> SUFFICES ASSUME TypeOK, Locking, \A t \in Thread : Ready(t), [Next]_vars PROVE TypeOK'
  OBVIOUS
<1> USE DEF Cell
<1>r. Reproducible \in Extraction
  BY ReproducibleTyped DEF TypeOK, FateTyped
<1>1. CASE UNCHANGED vars
  BY <1>1 DEF TypeOK, vars, cells
<1>2. CASE Elsewhere
  <2>1. disk' \in Extraction \cup {Empty}
    BY <1>2, <1>r DEF Elsewhere
  <2> QED
    BY <1>2, <2>1 DEF Elsewhere, TypeOK, cells
<1>3. ASSUME NEW t \in Thread, NEW v \in View, Call(t, v) PROVE TypeOK'
  <2>1. FirstRead(v) \in Cell
    BY DEF FirstRead
  <2>2. at' \in [Thread -> Cell \cup Step]
    BY <1>3, <2>1, GotoTyped DEF Call, TypeOK
  <2>3. view' \in [Thread -> View] /\ asked' \subseteq View
    BY <1>3 DEF Call, TypeOK
  <2> QED
    BY <1>3, <2>2, <2>3 DEF Call, TypeOK, cells
<1>4. ASSUME NEW t \in Thread, NEW c \in Cell, StartInit(t, c) PROVE TypeOK'
  <2>1. Initialiser(c) \in Cell \cup Step
    BY DEF Initialiser, Step
  <2>2. at' \in [Thread -> Cell \cup Step]
    BY <1>4, <2>1, GotoTyped DEF StartInit, TypeOK
  <2>3. holder' \in [Cell -> Thread \cup {NoThread}]
    BY <1>4 DEF StartInit, TypeOK
  <2>4. draft # Empty => holder'["extracted"] # NoThread
    BY <1>4, ThreadAssumption DEF StartInit, TypeOK
  <2> QED
    BY <1>4, <2>2, <2>3, <2>4 DEF StartInit, TypeOK, cells
<1>5. ASSUME NEW t \in Thread, NEW c \in Cell, Read(t, c) PROVE TypeOK'
  <2>1. After(t, c) \in Cell \cup Step
    BY DEF After, Step
  <2>2. at' \in [Thread -> Cell \cup Step]
    BY <1>5, <2>1, GotoTyped DEF Read, TypeOK
  <2> QED
    BY <1>5, <2>2 DEF Read, TypeOK, cells
<1>6. ASSUME NEW t \in Thread, ParseTree(t) PROVE TypeOK'
  <2>1. tree' \in TreeOutcome
    BY <1>6 DEF ParseTree, ParseEnds, TypeOK, TreeOutcome
  <2>2. at' \in [Thread -> Cell \cup Step]
    BY <1>6, GotoTyped DEF ParseTree, TypeOK
  <2>3. holder' \in [Cell -> Thread \cup {NoThread}]
    BY <1>6, ReleaseTyped DEF ParseTree, TypeOK
  <2>4. holder'["extracted"] = holder["extracted"]
    BY <1>6 DEF ParseTree, Release, TypeOK
  <2> QED
    BY <1>6, <2>1, <2>2, <2>3, <2>4 DEF ParseTree, TypeOK
<1>7. ASSUME NEW t \in Thread, ParseCfml(t) PROVE TypeOK'
  <2>1. cfml' \in CfmlOutcome
    BY <1>7 DEF ParseCfml, TypeOK
  <2>2. at' \in [Thread -> Cell \cup Step]
    BY <1>7, GotoTyped DEF ParseCfml, TypeOK
  <2>3. holder' \in [Cell -> Thread \cup {NoThread}]
    BY <1>7, ReleaseTyped DEF ParseCfml, TypeOK
  <2>4. holder'["extracted"] = holder["extracted"]
    BY <1>7 DEF ParseCfml, Release, TypeOK
  <2> QED
    BY <1>7, <2>1, <2>2, <2>3, <2>4 DEF ParseCfml, TypeOK
<1>8. ASSUME NEW t \in Thread, Hit(t) PROVE TypeOK'
  <2>1. extracted' \in Served
    BY <1>8 DEF Hit, TypeOK, Served, Origin
  <2>2. at' \in [Thread -> Cell \cup Step]
    BY <1>8, GotoTyped DEF Hit, TypeOK
  <2>3. holder' \in [Cell -> Thread \cup {NoThread}]
    BY <1>8, ReleaseTyped DEF Hit, TypeOK
  <2>4. draft = Empty
    BY <1>8 DEF Hit, Locking, Placed, Ready
  <2> QED
    BY <1>8, <2>1, <2>2, <2>3, <2>4 DEF Hit, TypeOK
<1>9. ASSUME NEW t \in Thread, RunPipeline(t) PROVE TypeOK'
  <2>1. at' \in [Thread -> Cell \cup Step]
    BY <1>9, GotoTyped DEF RunPipeline, PipelineRead, TypeOK
  <2> QED
    BY <1>9, <2>1 DEF RunPipeline, TypeOK, cells
<1>10. ASSUME NEW t \in Thread, Extract(t) PROVE TypeOK'
  <2>1. AfterExtract \in Cell \cup Step
    BY DEF AfterExtract, Step
  <2>2. at' \in [Thread -> Cell \cup Step]
    BY <1>10, <2>1, GotoTyped DEF Extract, TypeOK
  <2>3. tree \in TreeOutcome
    BY <1>10 DEF Extract, TypeOK, Ready
  <2>4. PICK queries \in {"whole", "timeout"}, inner \in {"whole", "stopped"} :
          draft' = [tree |-> tree, queries |-> queries, inner |-> inner, cfml |-> "none"]
    BY <1>10 DEF Extract, ParseUsed
  <2>5. draft' \in Extraction
    BY <2>3, <2>4 DEF Extraction, CfmlOutcome
  <2>6. holder["extracted"] # NoThread
    BY <1>10, ThreadAssumption DEF Extract, Locking, Placed
  <2> QED
    BY <1>10, <2>2, <2>5, <2>6 DEF Extract, TypeOK, cells
<1>11. ASSUME NEW t \in Thread, Merge(t) PROVE TypeOK'
  <2>1. at' \in [Thread -> Cell \cup Step]
    BY <1>11, GotoTyped DEF Merge, TypeOK, Step
  <2>2. draft \in Extraction /\ cfml \in CfmlOutcome /\ holder["extracted"] # NoThread
    BY <1>11, ThreadAssumption DEF Merge, TypeOK, Locking, Placed, Ready
  <2>3. draft' \in Extraction
    BY <1>11, <2>2 DEF Merge, Extraction
  <2> QED
    BY <1>11, <2>1, <2>2, <2>3 DEF Merge, TypeOK, cells
<1>12. ASSUME NEW t \in Thread, Keep(t) PROVE TypeOK'
  <2>1. at' \in [Thread -> Cell \cup Step]
    BY <1>12, GotoTyped DEF Keep, TypeOK
  <2>2. holder' \in [Cell -> Thread \cup {NoThread}]
    BY <1>12, ReleaseTyped DEF Keep, TypeOK
  <2>3. draft \in Extraction
    BY <1>12 DEF Keep, Locking, Placed, Ready
  <2>4. extracted' \in Served
    BY <1>12, <2>3 DEF Keep, Served, Origin
  <2>5. disk' \in Extraction \cup {Empty}
    BY <1>12, <2>3 DEF Keep, TypeOK
  <2> QED
    BY <1>12, <2>1, <2>2, <2>4, <2>5 DEF Keep, TypeOK
<1>13. ASSUME NEW t \in Thread, BuildFlow(t) PROVE TypeOK'
  <2>1. at' \in [Thread -> Cell \cup Step]
    BY <1>13, GotoTyped DEF BuildFlow, TypeOK
  <2>2. holder' \in [Cell -> Thread \cup {NoThread}]
    BY <1>13, ReleaseTyped DEF BuildFlow, TypeOK
  <2>3. flow' \in FlowOutcome
    BY <1>13 DEF BuildFlow, FlowOutcome
  <2>4. holder'["extracted"] = holder["extracted"]
    BY <1>13 DEF BuildFlow, Release, TypeOK
  <2> QED
    BY <1>13, <2>1, <2>2, <2>3, <2>4 DEF BuildFlow, TypeOK
<1>14. ASSUME NEW t \in Thread, Return(t) PROVE TypeOK'
  <2>1. at' \in [Thread -> Cell \cup Step]
    BY <1>14, GotoTyped DEF Return, TypeOK, Step
  <2>2. extracted # Empty => extracted.from \in Origin
    BY DEF TypeOK, Served
  <2> DEFINE answer == [answer |-> tree = "stopped",
                        from |-> IF extracted = Empty THEN "disk" ELSE extracted.from]
  <2>3. (tree = "stopped") \in BOOLEAN
    OBVIOUS
  <2>4. (IF extracted = Empty THEN "disk" ELSE extracted.from) \in Origin
    BY <2>2 DEF Origin
  <2>5. answer \in [answer : BOOLEAN, from : Origin]
    BY <2>3, <2>4
  <2>6. said' = said \/ said' = said \cup {answer}
    BY <1>14 DEF Return
  <2> HIDE DEF answer
  <2>7. said' \subseteq [answer : BOOLEAN, from : Origin]
    BY <2>5, <2>6 DEF TypeOK
  <2> QED
    BY <1>14, <2>1, <2>7 DEF Return, TypeOK, cells
<1> QED
  BY <1>1, <1>2, <1>3, <1>4, <1>5, <1>6, <1>7, <1>8, <1>9, <1>10, <1>11, <1>12,
     <1>13, <1>14, NextCases

\* The threads a step does not move stay where they are.
LEMMA LockingInit == Init => Locking
  BY ThreadAssumption DEF Init, Locking, HeldEmpty, Placed, Filling, Cell

\* Every step keeps locks and their holders together.
LEMMA LockingStep == TypeOK /\ Locking /\ [Next]_vars => Locking'
<1> SUFFICES ASSUME TypeOK, Locking, [Next]_vars PROVE Locking'
  OBVIOUS
<1> USE ThreadAssumption DEF Cell
<1>t. /\ holder \in [Cell -> Thread \cup {NoThread}]
      /\ at \in [Thread -> Cell \cup Step]
  BY DEF TypeOK
<1>1. CASE UNCHANGED vars
  BY <1>1 DEF vars, cells, Locking, HeldEmpty, Placed
<1>2. CASE Elsewhere
  BY <1>2 DEF Elsewhere, cells, Locking, HeldEmpty, Placed
<1>3. ASSUME NEW t \in Thread, NEW v \in View, Call(t, v) PROVE Locking'
  <2>1. FirstRead(v) \in {"tree", "cfml", "flow", "extracted"}
    BY DEF FirstRead
  <2>2. \A u \in Thread : Placed(u)'
    BY <1>3, <1>t, <2>1 DEF Call, Goto, Locking, Placed, Filling
  <2> QED
    BY <1>3, <2>2 DEF Call, cells, Locking, HeldEmpty
<1>4. ASSUME NEW t \in Thread, NEW c \in Cell, StartInit(t, c) PROVE Locking'
  <2>1. HeldEmpty'
    BY <1>4, <1>t DEF StartInit, Locking, HeldEmpty, Filled, Content, cells
  <2>2. CASE c = "tree"
    BY <1>4, <1>t, <2>1, <2>2 DEF StartInit, Initialiser, Free, Goto, Locking, Placed, Filling
  <2>3. CASE c = "cfml"
    BY <1>4, <1>t, <2>1, <2>3 DEF StartInit, Initialiser, Free, Goto, Locking, Placed, Filling
  <2>4. CASE c = "extracted"
    BY <1>4, <1>t, <2>1, <2>4 DEF StartInit, Initialiser, Free, Goto, Locking, Placed, Filling
  <2>5. CASE c = "flow"
    BY <1>4, <1>t, <2>1, <2>5 DEF StartInit, Initialiser, Free, Goto, Locking, Placed, Filling
  <2> QED
    BY <2>2, <2>3, <2>4, <2>5
<1>5. ASSUME NEW t \in Thread, NEW c \in Cell, Read(t, c) PROVE Locking'
  <2>1. HeldEmpty'
    BY <1>5 DEF Read, Locking, HeldEmpty, cells
  <2>2. at[t] = c /\ holder' = holder /\ at' = [at EXCEPT ![t] = After(t, c)]
    BY <1>5 DEF Read, Goto
  <2>3. \A u \in Thread \ {t} : Placed(u)'
    BY <1>t, <2>2 DEF Locking, Placed
  <2>4. Placed(t)'
    <3>1. CASE c = "tree"
      BY <1>t, <2>2, <3>1 DEF After, Holds, Locking, Placed, Filling
    <3>2. CASE c = "cfml"
      BY <1>t, <2>2, <3>2 DEF After, Holds, Locking, Placed, Filling
    <3>3. CASE c = "extracted"
      BY <1>t, <2>2, <3>3 DEF After, Holds, Locking, Placed, Filling
    <3>4. CASE c = "flow"
      BY <1>t, <2>2, <3>4 DEF After, Holds, Locking, Placed, Filling
    <3> QED
      BY <3>1, <3>2, <3>3, <3>4
  <2> QED
    BY <2>1, <2>3, <2>4 DEF Locking
<1>6. ASSUME NEW t \in Thread, ParseTree(t) PROVE Locking'
  <2>1. HeldEmpty'
    BY <1>6, <1>t DEF ParseTree, Release, Locking, HeldEmpty
  <2>2. \A u \in Thread : Placed(u)'
    BY <1>6, <1>t DEF ParseTree, Release, Goto, Locking, Placed, Filling
  <2> QED
    BY <2>1, <2>2 DEF Locking
<1>7. ASSUME NEW t \in Thread, ParseCfml(t) PROVE Locking'
  <2>1. HeldEmpty'
    BY <1>7, <1>t DEF ParseCfml, Release, Locking, HeldEmpty
  <2>2. \A u \in Thread : Placed(u)'
    BY <1>7, <1>t DEF ParseCfml, Release, Goto, Locking, Placed, Filling
  <2> QED
    BY <2>1, <2>2 DEF Locking
<1>8. ASSUME NEW t \in Thread, Hit(t) PROVE Locking'
  <2>1. HeldEmpty'
    BY <1>8, <1>t DEF Hit, Release, Locking, HeldEmpty
  <2>2. \A u \in Thread : Placed(u)'
    BY <1>8, <1>t DEF Hit, Release, Goto, Locking, Placed, Filling
  <2> QED
    BY <2>1, <2>2 DEF Locking
<1>9. ASSUME NEW t \in Thread, RunPipeline(t) PROVE Locking'
  <2>1. \A u \in Thread : Placed(u)'
    BY <1>9, <1>t DEF RunPipeline, PipelineRead, Goto, Locking, Placed, Filling
  <2> QED
    BY <1>9, <2>1 DEF RunPipeline, cells, Locking, HeldEmpty
<1>10. ASSUME NEW t \in Thread, Extract(t) PROVE Locking'
  <2>1. AfterExtract \in {"cfml", "keep"}
    BY DEF AfterExtract
  <2>2. \A u \in Thread : Placed(u)'
    BY <1>10, <1>t, <2>1 DEF Extract, Goto, Locking, Placed, Filling
  <2> QED
    BY <1>10, <2>2 DEF Extract, cells, Locking, HeldEmpty
<1>11. ASSUME NEW t \in Thread, Merge(t) PROVE Locking'
  <2>1. \A u \in Thread : Placed(u)'
    BY <1>11, <1>t DEF Merge, Goto, Locking, Placed, Filling
  <2> QED
    BY <1>11, <2>1 DEF Merge, cells, Locking, HeldEmpty
<1>12. ASSUME NEW t \in Thread, Keep(t) PROVE Locking'
  <2>1. HeldEmpty'
    BY <1>12, <1>t DEF Keep, Release, Locking, HeldEmpty
  <2>2. \A u \in Thread : Placed(u)'
    BY <1>12, <1>t DEF Keep, Release, Goto, Locking, Placed, Filling
  <2> QED
    BY <2>1, <2>2 DEF Locking
<1>13. ASSUME NEW t \in Thread, BuildFlow(t) PROVE Locking'
  <2>1. HeldEmpty'
    BY <1>13, <1>t DEF BuildFlow, Release, Locking, HeldEmpty
  <2>2. \A u \in Thread : Placed(u)'
    BY <1>13, <1>t DEF BuildFlow, Release, Goto, Locking, Placed, Filling
  <2> QED
    BY <2>1, <2>2 DEF Locking
<1>14. ASSUME NEW t \in Thread, Return(t) PROVE Locking'
  <2>1. \A u \in Thread : Placed(u)'
    BY <1>14, <1>t DEF Return, Goto, Locking, Placed, Filling
  <2> QED
    BY <1>14, <2>1 DEF Return, cells, Locking, HeldEmpty
<1> QED
  BY <1>1, <1>2, <1>3, <1>4, <1>5, <1>6, <1>7, <1>8, <1>9, <1>10, <1>11, <1>12,
     <1>13, <1>14, NextCases

-----------------------------------------------------------------------------

\* The CFML parse is that of a CFML file.
FateOfKind == Kind # "cfml" => fate.cfml = "none"

\* What the cells and the disk entry were made from.
Sourced ==
  /\ FateOfKind
  /\ tree # Empty => tree \in {fate.tree, "stopped"}
  /\ cfml # Empty => cfml = fate.cfml
  /\ disk # Empty => disk.tree # "stopped"
  /\ ~InnerParses => (disk # Empty => disk = Reproducible)
  /\ (extracted # Empty /\ extracted.from = "pipeline") =>
       tree # Empty /\ extracted.value.tree = tree
  /\ (extracted # Empty /\ extracted.from = "disk") => extracted.value.tree # "stopped"

\* How often the pipeline has run so far.
Counted ==
  /\ (holder["extracted"] = NoThread /\ extracted = Empty) => parses = 0
  /\ \A t \in Thread : holder["extracted"] = t =>
       parses = IF at[t] = "lookup" THEN 0 ELSE 1
  /\ extracted # Empty => (parses = IF extracted.from = "disk" THEN 0 ELSE 1)

AllReady == \A t \in Thread : Ready(t)

IInv == TypeOK /\ Locking /\ AllReady /\ Sourced /\ Counted

\* An extraction has an outcome, however it is disturbed.
LEMMA OutcomesNotEmpty ==
  /\ Empty \notin TreeOutcome /\ Empty \notin CfmlOutcome /\ Empty \notin FlowOutcome
  /\ Empty \notin Extraction /\ Empty \notin Served
  BY EmptyAssumption

\* The rest of the inductive invariant holds at first.
LEMMA RestInit == Init => AllReady /\ Sourced /\ Counted
<1> SUFFICES ASSUME Init PROVE AllReady /\ Sourced /\ Counted
  OBVIOUS
<1>1. AllReady
  BY ThreadAssumption DEF Init, AllReady, Ready, Cell
<1>2. Counted
  BY ThreadAssumption DEF Init, Counted, Cell
<1>3. FateOfKind /\ fate.tree # "stopped"
  BY DEF Init, FateOfKind
<1>4. Reproducible.tree = fate.tree
  BY DEF Reproducible
<1> QED
  BY <1>1, <1>2, <1>3, <1>4 DEF Init, Sourced

\* A step by a thread that leaves another's cells and the draft alone leaves
\* the other as ready as it was.
LEMMA ReadyStep == IInv /\ [Next]_vars => AllReady'
<1> SUFFICES ASSUME IInv, [Next]_vars PROVE AllReady'
  OBVIOUS
<1> USE ThreadAssumption, OutcomesNotEmpty DEF Cell
<1>t. /\ holder \in [Cell -> Thread \cup {NoThread}]
      /\ at \in [Thread -> Cell \cup Step]
      /\ AllReady /\ Locking /\ Sourced
  BY DEF IInv, TypeOK
<1>1. CASE UNCHANGED vars
  BY <1>1, <1>t DEF vars, cells, AllReady, Ready
<1>2. CASE Elsewhere
  BY <1>2, <1>t DEF Elsewhere, cells, AllReady, Ready
<1>3. ASSUME NEW t \in Thread, NEW v \in View, Call(t, v) PROVE AllReady'
  <2>1. FirstRead(v) \in {"tree", "cfml", "flow", "extracted"}
    BY DEF FirstRead
  <2> QED
    BY <1>3, <1>t, <2>1 DEF Call, Goto, cells, AllReady, Ready, Locking, Placed, Filling
<1>4. ASSUME NEW t \in Thread, NEW c \in Cell, StartInit(t, c) PROVE AllReady'
  <2>1. /\ holder' = [holder EXCEPT ![c] = t] /\ at' = [at EXCEPT ![t] = Initialiser(c)]
        /\ UNCHANGED <<tree, cfml, draft, fate>> /\ at[t] = c /\ Free(c)
    BY <1>4 DEF StartInit, Goto, cells
  <2>2. \A u \in Thread \ {t} : Ready(u)'
    BY <1>t, <2>1 DEF AllReady, Ready
  <2>3. CASE c \in {"tree", "cfml", "flow"}
    BY <1>t, <2>1, <2>2, <2>3 DEF Initialiser, AllReady, Ready, Locking, Placed, Filling
  <2>4. CASE c = "extracted"
    <3>1. draft = Empty
      BY <1>t, <2>1, <2>4 DEF Free, IInv, TypeOK
    <3> QED
      BY <1>t, <2>1, <2>2, <2>4, <3>1 DEF Initialiser, AllReady, Ready
  <2> QED
    BY <2>3, <2>4
<1>5. ASSUME NEW t \in Thread, NEW c \in Cell, Read(t, c) PROVE AllReady'
  <2>1. /\ at[t] = c /\ holder' = holder /\ at' = [at EXCEPT ![t] = After(t, c)]
        /\ UNCHANGED <<tree, cfml, draft, fate>> /\ Filled(c)
    BY <1>5 DEF Read, Goto, cells
  <2>2. \A u \in Thread \ {t} : Ready(u)'
    BY <1>t, <2>1 DEF AllReady, Ready
  <2>3. Ready(t)'
    <3>1. CASE c = "tree"
      <4>1. tree # Empty
        BY <2>1, <3>1 DEF Filled, Content
      <4> QED
        BY <1>t, <2>1, <3>1, <4>1 DEF After, Holds, AllReady, Ready, Locking, Placed, Filling
    <3>2. CASE c = "cfml"
      <4>1. cfml # Empty
        BY <2>1, <3>2 DEF Filled, Content
      <4> QED
        BY <1>t, <2>1, <3>2, <4>1 DEF After, Holds, AllReady, Ready, Locking, Placed, Filling
    <3>3. CASE c = "extracted"
      BY <1>t, <2>1, <3>3 DEF After, Holds, AllReady, Ready, Locking, Placed, Filling
    <3>4. CASE c = "flow"
      BY <1>t, <2>1, <3>4 DEF After, Holds, AllReady, Ready, Locking, Placed, Filling
    <3> QED
      BY <3>1, <3>2, <3>3, <3>4
  <2> QED
    BY <2>2, <2>3 DEF AllReady
<1>6. ASSUME NEW t \in Thread, ParseTree(t) PROVE AllReady'
  <2>1. /\ tree = Empty /\ holder["tree"] = t
        /\ holder' = [holder EXCEPT !["tree"] = NoThread]
        /\ at' = [at EXCEPT ![t] = "tree"] /\ at[t] = "parse_tree"
        /\ UNCHANGED <<cfml, draft, fate>>
    BY <1>6, <1>t DEF ParseTree, Release, Goto, Locking, HeldEmpty, Placed
  <2>2. tree' # Empty
    BY <1>6 DEF ParseTree, ParseEnds, IInv, TypeOK, TreeOutcome
  <2> QED
    BY <1>t, <2>1, <2>2 DEF AllReady, Ready
<1>7. ASSUME NEW t \in Thread, ParseCfml(t) PROVE AllReady'
  <2>1. /\ holder' = [holder EXCEPT !["cfml"] = NoThread]
        /\ at' = [at EXCEPT ![t] = "cfml"] /\ at[t] = "parse_cfml"
        /\ UNCHANGED <<tree, draft, fate>>
    BY <1>7 DEF ParseCfml, Release, Goto
  <2>2. cfml' # Empty
    BY <1>7 DEF ParseCfml, IInv, TypeOK
  <2> QED
    BY <1>t, <2>1, <2>2 DEF AllReady, Ready
<1>8. ASSUME NEW t \in Thread, Hit(t) PROVE AllReady'
  <2>1. /\ holder' = [holder EXCEPT !["extracted"] = NoThread]
        /\ at' = [at EXCEPT ![t] = "extracted"]
        /\ UNCHANGED <<tree, cfml, draft, fate>>
    BY <1>8 DEF Hit, Release, Goto
  <2> QED
    BY <1>t, <2>1 DEF AllReady, Ready
<1>9. ASSUME NEW t \in Thread, RunPipeline(t) PROVE AllReady'
  BY <1>9, <1>t DEF RunPipeline, PipelineRead, Goto, cells, AllReady, Ready, Locking, Placed
<1>10. ASSUME NEW t \in Thread, Extract(t) PROVE AllReady'
  <2>1. AfterExtract = IF Kind = "cfml" THEN "cfml" ELSE "keep"
    BY DEF AfterExtract
  <2>2. PICK queries \in {"whole", "timeout"}, inner \in {"whole", "stopped"} :
          /\ draft' = [tree |-> tree, queries |-> queries, inner |-> inner, cfml |-> "none"]
          /\ ~InnerParses => inner = "whole"
    BY <1>10 DEF Extract, ParseUsed
  <2>3. tree # Empty /\ tree \in TreeOutcome /\ holder["extracted"] = t
    BY <1>10, <1>t DEF Extract, IInv, TypeOK, AllReady, Ready, Locking, Placed
  <2>4. draft' \in Extraction
    BY <2>2, <2>3 DEF Extraction, CfmlOutcome
  <2>5. /\ draft'.tree = tree /\ draft'.cfml = "none"
        /\ ~InnerParses => draft'.inner = "whole"
    BY <2>2
  <2>6. /\ UNCHANGED <<tree, cfml, holder, fate>>
        /\ at' = [at EXCEPT ![t] = AfterExtract]
    BY <1>10 DEF Extract, Goto, cells
  <2>7. Ready(t)'
    BY <1>t, <2>1, <2>3, <2>4, <2>5, <2>6 DEF Ready, Sourced, FateOfKind
  <2>8. \A u \in Thread \ {t} : Ready(u)'
    BY <1>t, <2>3, <2>6 DEF AllReady, Ready, Locking, Placed
  <2> QED
    BY <2>7, <2>8 DEF AllReady
<1>11. ASSUME NEW t \in Thread, Merge(t) PROVE AllReady'
  <2>1. /\ draft \in Extraction /\ draft.tree = tree /\ tree # Empty
        /\ ~InnerParses => draft.inner = "whole"
        /\ cfml = fate.cfml /\ cfml \in CfmlOutcome /\ holder["extracted"] = t
    BY <1>11, <1>t DEF Merge, IInv, TypeOK, AllReady, Ready, Locking, Placed, Sourced
  <2>2. draft' = [draft EXCEPT !.cfml = cfml]
    BY <1>11 DEF Merge
  <2>3. /\ draft' \in Extraction /\ draft'.tree = draft.tree
        /\ draft'.inner = draft.inner /\ draft'.cfml = cfml
    BY <2>1, <2>2 DEF Extraction
  <2>4. /\ UNCHANGED <<tree, cfml, holder, fate>> /\ at' = [at EXCEPT ![t] = "keep"]
    BY <1>11 DEF Merge, Goto, cells
  <2>5. Ready(t)'
    BY <1>t, <2>1, <2>3, <2>4 DEF Ready
  <2>6. \A u \in Thread \ {t} : Ready(u)'
    BY <1>t, <2>1, <2>4 DEF AllReady, Ready, Locking, Placed
  <2> QED
    BY <2>5, <2>6 DEF AllReady
<1>12. ASSUME NEW t \in Thread, Keep(t) PROVE AllReady'
  <2>1. /\ holder["extracted"] = t
        /\ holder' = [holder EXCEPT !["extracted"] = NoThread]
        /\ at' = [at EXCEPT ![t] = "extracted"]
        /\ UNCHANGED <<tree, cfml, fate>>
    BY <1>12, <1>t DEF Keep, Release, Goto, Locking, Placed
  <2> QED
    BY <1>t, <2>1 DEF AllReady, Ready, Locking, Placed
<1>13. ASSUME NEW t \in Thread, BuildFlow(t) PROVE AllReady'
  <2>1. /\ holder' = [holder EXCEPT !["flow"] = NoThread]
        /\ at' = [at EXCEPT ![t] = "flow"] /\ at[t] = "build"
        /\ UNCHANGED <<tree, cfml, draft, fate>>
    BY <1>13 DEF BuildFlow, Release, Goto
  <2> QED
    BY <1>t, <2>1 DEF AllReady, Ready
<1>14. ASSUME NEW t \in Thread, Return(t) PROVE AllReady'
  BY <1>14, <1>t DEF Return, Goto, cells, AllReady, Ready
<1> QED
  BY <1>1, <1>2, <1>3, <1>4, <1>5, <1>6, <1>7, <1>8, <1>9, <1>10, <1>11, <1>12,
     <1>13, <1>14, NextCases

\* Every step keeps the counts of what was computed.
LEMMA CountedStep == IInv /\ [Next]_vars => Counted'
<1> SUFFICES ASSUME IInv, [Next]_vars PROVE Counted'
  OBVIOUS
<1> USE ThreadAssumption DEF Cell
<1>t. /\ holder \in [Cell -> Thread \cup {NoThread}]
      /\ at \in [Thread -> Cell \cup Step]
      /\ Counted /\ Locking
  BY DEF IInv, TypeOK
<1>1. CASE UNCHANGED vars
  BY <1>1, <1>t DEF vars, cells, Counted
<1>2. CASE Elsewhere
  BY <1>2, <1>t DEF Elsewhere, cells, Counted
<1>3. ASSUME NEW t \in Thread, NEW v \in View, Call(t, v) PROVE Counted'
  BY <1>3, <1>t DEF Call, Goto, cells, Counted, Locking, Placed, Filling
<1>4. ASSUME NEW t \in Thread, NEW c \in Cell, StartInit(t, c) PROVE Counted'
  <2>1. CASE c = "extracted"
    <3>1. extracted = Empty /\ holder["extracted"] = NoThread
      BY <1>4, <2>1 DEF StartInit, Filled, Content, Free
    <3> QED
      BY <1>4, <1>t, <2>1, <3>1 DEF StartInit, Initialiser, Goto, cells, Counted
  <2>2. CASE c # "extracted"
    <3>1. holder'["extracted"] = holder["extracted"]
      BY <1>4, <1>t, <2>2 DEF StartInit
    <3>2. at'[t] # "lookup" /\ at[t] # "lookup"
      BY <1>4, <1>t, <2>2 DEF StartInit, Goto, Initialiser
    <3> QED
      BY <1>4, <1>t, <3>1, <3>2 DEF StartInit, Goto, cells, Counted
  <2> QED
    BY <2>1, <2>2
<1>5. ASSUME NEW t \in Thread, NEW c \in Cell, Read(t, c) PROVE Counted'
  <2>1. After(t, c) # "lookup"
    BY DEF After
  <2> QED
    BY <1>5, <1>t, <2>1 DEF Read, Goto, cells, Counted
<1>6. ASSUME NEW t \in Thread, ParseTree(t) PROVE Counted'
  BY <1>6, <1>t DEF ParseTree, Release, Goto, Counted
<1>7. ASSUME NEW t \in Thread, ParseCfml(t) PROVE Counted'
  BY <1>7, <1>t DEF ParseCfml, Release, Goto, Counted
<1>8. ASSUME NEW t \in Thread, Hit(t) PROVE Counted'
  <2>1. holder["extracted"] = t /\ parses = 0 /\ extracted'.from = "disk"
    BY <1>8, <1>t DEF Hit, Counted, Locking, Placed
  <2>2. extracted' # Empty
    BY <1>8, EmptyAssumption DEF Hit, IInv, TypeOK, Served, Origin
  <2> QED
    BY <1>8, <1>t, <2>1, <2>2 DEF Hit, Release, Goto, Counted
<1>9. ASSUME NEW t \in Thread, RunPipeline(t) PROVE Counted'
  <2>1. holder["extracted"] = t /\ parses = 0 /\ extracted = Empty
    BY <1>9, <1>t DEF RunPipeline, Counted, Locking, Placed, HeldEmpty
  <2> QED
    BY <1>9, <1>t, <2>1 DEF RunPipeline, PipelineRead, Goto, cells, Counted
<1>10. ASSUME NEW t \in Thread, Extract(t) PROVE Counted'
  BY <1>10, <1>t DEF Extract, AfterExtract, Goto, cells, Counted
<1>11. ASSUME NEW t \in Thread, Merge(t) PROVE Counted'
  BY <1>11, <1>t DEF Merge, Goto, cells, Counted
<1>12. ASSUME NEW t \in Thread, Keep(t) PROVE Counted'
  <2>1. holder["extracted"] = t /\ parses = 1 /\ extracted'.from = "pipeline"
    BY <1>12, <1>t DEF Keep, Counted, Locking, Placed
  <2>2. extracted' # Empty
    BY <1>12, EmptyAssumption DEF Keep, IInv, AllReady, Ready, Locking, Placed, Served, Origin
  <2> QED
    BY <1>12, <1>t, <2>1, <2>2 DEF Keep, Release, Goto, Counted
<1>13. ASSUME NEW t \in Thread, BuildFlow(t) PROVE Counted'
  BY <1>13, <1>t DEF BuildFlow, Release, Goto, Counted
<1>14. ASSUME NEW t \in Thread, Return(t) PROVE Counted'
  BY <1>14, <1>t DEF Return, Goto, cells, Counted
<1> QED
  BY <1>1, <1>2, <1>3, <1>4, <1>5, <1>6, <1>7, <1>8, <1>9, <1>10, <1>11, <1>12,
     <1>13, <1>14, NextCases

\* Every step keeps each view with the extraction it came from.
LEMMA SourcedStep == IInv /\ [Next]_vars => Sourced'
<1> SUFFICES ASSUME IInv, [Next]_vars PROVE Sourced'
  OBVIOUS
<1> USE ThreadAssumption DEF Cell
<1>t. Sourced /\ Locking /\ AllReady /\ TypeOK
  BY DEF IInv
<1>f. fate' = fate
  BY NextCases DEF vars, cells, Elsewhere, Call, StartInit, Read, ParseTree, ParseCfml, Hit,
     RunPipeline, Extract, Merge, Keep, BuildFlow, Return
<1>r. Reproducible' = Reproducible /\ Reproducible.tree = fate.tree /\ fate.tree # "stopped"
  BY <1>f DEF Reproducible, TypeOK, IInv
\* Steps that change none of the cells, and leave the entry or make it whole.
<1>q. ASSUME UNCHANGED <<tree, cfml, extracted>>, disk' \in {disk, Empty, Reproducible}
      PROVE  Sourced'
  BY <1>q, <1>f, <1>r, <1>t DEF Sourced, FateOfKind, Kind
<1>1. CASE UNCHANGED vars
  BY <1>1, <1>q DEF vars, cells
<1>2. CASE Elsewhere
  BY <1>2, <1>q DEF Elsewhere, cells
<1>3. ASSUME NEW t \in Thread, NEW v \in View, Call(t, v) PROVE Sourced'
  BY <1>3, <1>q DEF Call, cells
<1>4. ASSUME NEW t \in Thread, NEW c \in Cell, StartInit(t, c) PROVE Sourced'
  BY <1>4, <1>q DEF StartInit, cells
<1>5. ASSUME NEW t \in Thread, NEW c \in Cell, Read(t, c) PROVE Sourced'
  BY <1>5, <1>q DEF Read, cells
<1>6. ASSUME NEW t \in Thread, ParseTree(t) PROVE Sourced'
  <2>1. tree = Empty
    BY <1>6, <1>t DEF ParseTree, Locking, HeldEmpty, Placed
  <2>2. tree' \in {fate.tree, "stopped"}
    BY <1>6 DEF ParseTree, ParseEnds
  <2> QED
    BY <1>6, <1>f, <1>r, <1>t, <2>1, <2>2 DEF ParseTree, Sourced, FateOfKind, Kind
<1>7. ASSUME NEW t \in Thread, ParseCfml(t) PROVE Sourced'
  BY <1>7, <1>f, <1>r, <1>t DEF ParseCfml, Sourced, FateOfKind, Kind
<1>8. ASSUME NEW t \in Thread, Hit(t) PROVE Sourced'
  <2>1. extracted'.from = "disk" /\ extracted'.value = disk /\ disk # Empty
    BY <1>8 DEF Hit
  <2>2. UNCHANGED <<tree, cfml, disk>>
    BY <1>8 DEF Hit
  <2> QED
    BY <1>f, <1>r, <1>t, <2>1, <2>2 DEF Sourced, FateOfKind, Kind
<1>9. ASSUME NEW t \in Thread, RunPipeline(t) PROVE Sourced'
  BY <1>9, <1>q DEF RunPipeline, cells
<1>10. ASSUME NEW t \in Thread, Extract(t) PROVE Sourced'
  BY <1>10, <1>q DEF Extract, cells
<1>11. ASSUME NEW t \in Thread, Merge(t) PROVE Sourced'
  BY <1>11, <1>q DEF Merge, cells
<1>12. ASSUME NEW t \in Thread, Keep(t) PROVE Sourced'
  <2>1. /\ draft \in Extraction /\ draft.tree = tree /\ tree # Empty /\ draft.cfml = fate.cfml
        /\ ~InnerParses => draft.inner = "whole"
    BY <1>12, <1>t DEF Keep, Locking, Placed, AllReady, Ready
  <2>2. /\ extracted'.from = "pipeline" /\ extracted'.value = draft
        /\ UNCHANGED <<tree, cfml>>
    BY <1>12 DEF Keep
  <2>3. CASE disk' = disk
    BY <1>f, <1>r, <1>t, <2>1, <2>2, <2>3 DEF Sourced, FateOfKind, Kind
  <2>4. CASE disk' # disk
    <3>1. disk' = draft /\ tree # "stopped" /\ draft.queries # "timeout"
      BY <1>12, <2>4 DEF Keep, Transient
    <3>2. draft.tree = fate.tree /\ draft.queries = "whole"
      BY <1>t, <2>1, <3>1 DEF Sourced, Extraction
    <3>3. ~InnerParses => draft = Reproducible
      BY <2>1, <3>2 DEF Extraction, Reproducible
    <3> QED
      BY <1>f, <1>r, <1>t, <2>1, <2>2, <3>1, <3>2, <3>3 DEF Sourced, FateOfKind, Kind
  <2> QED
    BY <2>3, <2>4
<1>13. ASSUME NEW t \in Thread, BuildFlow(t) PROVE Sourced'
  BY <1>13, <1>q DEF BuildFlow
<1>14. ASSUME NEW t \in Thread, Return(t) PROVE Sourced'
  BY <1>14, <1>q DEF Return, cells
<1> QED
  BY <1>1, <1>2, <1>3, <1>4, <1>5, <1>6, <1>7, <1>8, <1>9, <1>10, <1>11, <1>12,
     <1>13, <1>14, NextCases

\* The inductive invariant holds throughout.
LEMMA Inductive == Spec => []IInv
<1>1. Init => IInv
  BY TypedInit, LockingInit, RestInit DEF IInv
<1>2. IInv /\ [Next]_vars => IInv'
  <2> SUFFICES ASSUME IInv, [Next]_vars PROVE IInv'
    OBVIOUS
  <2>1. TypeOK'
    BY TypedStep DEF IInv, AllReady
  <2>2. Locking'
    BY LockingStep DEF IInv
  <2> QED
    BY <2>1, <2>2, ReadyStep, SourcedStep, CountedStep DEF IInv
<1> QED
  BY <1>1, <1>2, PTL DEF Spec

-----------------------------------------------------------------------------

\* Which call a thread is in, and what it was called for.
Called(t) ==
  /\ at[t] # "idle" => view[t] \in asked
  /\ (holder["flow"] = t \/ at[t] = "flow") => view[t] = "flow"
  /\ (at[t] \in {"tree", "parse_tree"} /\ holder["extracted"] # t /\ holder["flow"] # t)
       => view[t] = "ast"
  /\ (at[t] \in {"cfml", "parse_cfml"} /\ holder["extracted"] # t) => view[t] = "flow"
  /\ (at[t] = "done" /\ view[t] = "incomplete") => extracted # Empty

Asking == (\A t \in Thread : Called(t)) /\ PaidOnlyIfRead /\ CompleteMeansWhole

\* A thread that fills a cell is in a call.
LEMMA HolderCalled ==
  ASSUME IInv, Asking, NEW t \in Thread, NEW c \in Cell, holder[c] = t
  PROVE  view[t] \in asked /\ (c = "flow" => "flow" \in asked)
<1>1. at[t] # "idle"
  BY DEF IInv, Locking, Placed, Filling, Cell
<1> QED
  BY <1>1 DEF Asking, Called

\* Every step keeps threads in the calls they are in.
LEMMA CalledStep == IInv /\ Asking /\ [Next]_vars => \A t \in Thread : Called(t)'
<1> SUFFICES ASSUME IInv, Asking, [Next]_vars PROVE \A t \in Thread : Called(t)'
  OBVIOUS
<1> USE ThreadAssumption DEF Cell
<1>t. /\ holder \in [Cell -> Thread \cup {NoThread}]
      /\ at \in [Thread -> Cell \cup Step] /\ view \in [Thread -> View]
      /\ Locking /\ \A t \in Thread : Called(t)
  BY DEF IInv, TypeOK, Asking
<1>1. CASE UNCHANGED vars \/ Elsewhere
  BY <1>1, <1>t DEF vars, Elsewhere, cells, Called
<1>3. ASSUME NEW t \in Thread, NEW v \in View, Call(t, v) PROVE \A u \in Thread : Called(u)'
  <2>1. at[t] = "idle" /\ holder["flow"] # t
    BY <1>3, <1>t DEF Call, Locking, Placed, Filling
  <2>2. Called(t)'
    BY <1>3, <1>t, <2>1 DEF Call, FirstRead, Goto, cells, Called, View
  <2>3. \A u \in Thread \ {t} : Called(u)'
    BY <1>3, <1>t DEF Call, Goto, cells, Called
  <2> QED
    BY <2>2, <2>3
<1>4. ASSUME NEW t \in Thread, NEW c \in Cell, StartInit(t, c) PROVE \A u \in Thread : Called(u)'
  <2>1. Called(t)'
    BY <1>4, <1>t DEF StartInit, Initialiser, Goto, cells, Called
  <2>2. \A u \in Thread \ {t} : Called(u)'
    BY <1>4, <1>t DEF StartInit, Free, Goto, cells, Called
  <2> QED
    BY <2>1, <2>2
<1>5. ASSUME NEW t \in Thread, NEW c \in Cell, Read(t, c) PROVE \A u \in Thread : Called(u)'
  <2>1. c = "extracted" => extracted # Empty
    BY <1>5 DEF Read, Filled, Content
  <2>2. Called(t)'
    BY <1>5, <1>t, <2>1 DEF Read, After, Holds, Goto, cells, Called
  <2>3. \A u \in Thread \ {t} : Called(u)'
    BY <1>5, <1>t DEF Read, Goto, cells, Called
  <2> QED
    BY <2>2, <2>3
<1>6. ASSUME NEW t \in Thread, ParseTree(t) \/ ParseCfml(t) \/ Hit(t) \/ Keep(t) \/ BuildFlow(t)
      PROVE  \A u \in Thread : Called(u)'
  <2>1. PICK c \in Cell : /\ holder[c] = t
                          /\ holder' = [holder EXCEPT ![c] = NoThread]
                          /\ at' = [at EXCEPT ![t] = c]
                          /\ c = "tree" <=> at[t] = "parse_tree"
                          /\ c = "cfml" <=> at[t] = "parse_cfml"
    BY <1>6, <1>t DEF ParseTree, ParseCfml, Hit, Keep, BuildFlow, Goto, Release, Locking, Placed
  <2>2. extracted # Empty => extracted' # Empty
    BY <1>6, <1>t DEF ParseTree, ParseCfml, Hit, Keep, BuildFlow, Locking, HeldEmpty, Placed
  <2>3. UNCHANGED <<view, asked>>
    BY <1>6 DEF ParseTree, ParseCfml, Hit, Keep, BuildFlow
  <2>4. at[t] # "idle"
    BY <1>6 DEF ParseTree, ParseCfml, Hit, Keep, BuildFlow
  <2>5. Called(t)'
    BY <1>t, <2>1, <2>3, <2>4 DEF Called
  <2>6. \A u \in Thread \ {t} : Called(u)'
    BY <1>t, <2>1, <2>2, <2>3 DEF Called
  <2> QED
    BY <2>5, <2>6
<1>7. ASSUME NEW t \in Thread, RunPipeline(t) \/ Extract(t) \/ Merge(t)
      PROVE  \A u \in Thread : Called(u)'
  <2>1. holder["extracted"] = t
    BY <1>7, <1>t DEF RunPipeline, Extract, Merge, Locking, Placed
  <2>2. \E next \in {"tree", "cfml", "keep"} : at' = [at EXCEPT ![t] = next]
    BY <1>7 DEF RunPipeline, PipelineRead, Extract, AfterExtract, Merge, Goto
  <2>3. UNCHANGED <<view, asked, holder, extracted>> /\ at[t] # "idle"
    BY <1>7 DEF RunPipeline, Extract, Merge, cells
  <2> QED
    BY <1>t, <2>1, <2>2, <2>3 DEF Called
<1>8. ASSUME NEW t \in Thread, Return(t) PROVE \A u \in Thread : Called(u)'
  <2>1. holder["flow"] # t
    BY <1>8, <1>t DEF Return, Locking, Placed, Filling
  <2> QED
    BY <1>8, <1>t, <2>1 DEF Return, Goto, cells, Called
<1> QED
  BY <1>1, <1>3, <1>4, <1>5, <1>6, <1>7, <1>8, NextCases

\* What nobody asked for is neither parsed nor built.
LEMMA PaidStep == IInv /\ Asking /\ [Next]_vars => PaidOnlyIfRead'
<1> SUFFICES ASSUME IInv, Asking, [Next]_vars PROVE PaidOnlyIfRead'
  OBVIOUS
<1> USE ThreadAssumption DEF Cell
<1>t. /\ holder \in [Cell -> Thread \cup {NoThread}]
      /\ parses \in Nat /\ Locking /\ PaidOnlyIfRead /\ \A t \in Thread : Called(t)
  BY DEF IInv, TypeOK, Asking
<1> DEFINE FlowPaid == flow # Empty \/ holder["flow"] # NoThread
           TreePaid == tree # Empty \/ holder["tree"] # NoThread
\* Steps that start on neither cell.
<1>q. ASSUME FlowPaid' => FlowPaid, TreePaid' => TreePaid, parses' \in {parses, parses + 1},
             asked \subseteq asked'
      PROVE  PaidOnlyIfRead'
  BY <1>q, <1>t DEF PaidOnlyIfRead
<1>1. CASE UNCHANGED vars \/ Elsewhere
  BY <1>1, <1>q DEF vars, Elsewhere, cells
<1>3. ASSUME NEW t \in Thread, NEW v \in View, Call(t, v) PROVE PaidOnlyIfRead'
  BY <1>3, <1>q DEF Call, cells
<1>4. ASSUME NEW t \in Thread, NEW c \in Cell, StartInit(t, c) PROVE PaidOnlyIfRead'
  <2>1. UNCHANGED <<tree, flow, parses, asked>> /\ holder' = [holder EXCEPT ![c] = t]
    BY <1>4 DEF StartInit, cells
  <2>2. CASE c \in {"extracted", "cfml"}
    BY <1>q, <1>t, <2>1, <2>2
  <2>3. CASE c = "flow"
    <3>1. "flow" \in asked
      BY <1>4, <1>t, <2>3 DEF StartInit, Called
    <3> QED
      BY <1>t, <2>1, <2>3, <3>1 DEF PaidOnlyIfRead
  <2>4. CASE c = "tree"
    <3>1. view[t] \in asked /\ at[t] = "tree"
      BY <1>4, <1>t, <2>4 DEF StartInit, Called
    <3>2. holder["extracted"] = t => parses = 1
      BY <3>1 DEF IInv, Counted
    <3>3. parses = 0 => asked \cap {"ast", "flow"} # {}
      BY <1>t, <3>1, <3>2 DEF Called
    <3> QED
      BY <1>t, <2>1, <2>4, <3>3 DEF PaidOnlyIfRead
  <2> QED
    BY <2>2, <2>3, <2>4
<1>5. ASSUME NEW t \in Thread, NEW c \in Cell, Read(t, c) PROVE PaidOnlyIfRead'
  BY <1>5, <1>q DEF Read, cells
<1>6. ASSUME NEW t \in Thread, ParseTree(t) \/ ParseCfml(t) \/ Hit(t) \/ Keep(t) \/ BuildFlow(t)
      PROVE  PaidOnlyIfRead'
  <2>1. CASE ParseTree(t)
    BY <1>q, <1>t, <2>1 DEF ParseTree, Release, Locking, Placed
  <2>2. CASE BuildFlow(t)
    BY <1>q, <1>t, <2>2 DEF BuildFlow, Release, Locking, Placed
  <2>3. CASE ParseCfml(t) \/ Hit(t) \/ Keep(t)
    BY <1>q, <1>t, <2>3 DEF ParseCfml, Hit, Keep, Release
  <2> QED
    BY <1>6, <2>1, <2>2, <2>3
<1>7. ASSUME NEW t \in Thread, RunPipeline(t) \/ Extract(t) \/ Merge(t) \/ Return(t)
      PROVE  PaidOnlyIfRead'
  BY <1>7, <1>q DEF RunPipeline, Extract, Merge, Return, cells
<1> QED
  BY <1>1, <1>3, <1>4, <1>5, <1>6, <1>7, NextCases

\* A thread told that the parse was whole sees views of a whole parse.
LEMMA CompleteStep == IInv /\ Asking /\ [Next]_vars => CompleteMeansWhole'
<1> SUFFICES ASSUME IInv, Asking, [Next]_vars PROVE CompleteMeansWhole'
  OBVIOUS
<1>t. Locking /\ Sourced /\ CompleteMeansWhole /\ \A t \in Thread : Called(t)
  BY DEF IInv, Asking
\* Nobody has been told so before the cell is filled, and then it stays.
<1>q. ASSUME said' = said, extracted' = extracted \/ extracted = Empty
      PROVE  CompleteMeansWhole'
  BY <1>q, <1>t DEF CompleteMeansWhole
<1>1. ASSUME NEW t \in Thread, Hit(t) \/ Keep(t) PROVE CompleteMeansWhole'
  BY <1>1, <1>q, <1>t, ThreadAssumption DEF Hit, Keep, Locking, HeldEmpty, Placed
<1>2. ASSUME NEW t \in Thread, Return(t) PROVE CompleteMeansWhole'
  <2>1. CASE view[t] = "incomplete" /\ tree # "stopped"
    <3>1. extracted # Empty
      BY <1>2, <1>t, <2>1 DEF Return, Called
    <3>2. extracted.from \in {"disk", "pipeline"}
      BY <3>1 DEF IInv, TypeOK, Served, Origin
    <3>3. extracted.value.tree # "stopped"
      BY <1>t, <2>1, <3>1, <3>2 DEF Sourced
    <3>4. extracted' = extracted
      BY <1>2 DEF Return, cells
    <3> QED
      BY <3>1, <3>3, <3>4 DEF CompleteMeansWhole
  <2>2. CASE ~(view[t] = "incomplete" /\ tree # "stopped")
    <3>1. \A s \in said' : ~s.answer => s \in said
      <4>1. CASE view[t] # "incomplete"
        BY <1>2, <4>1 DEF Return
      <4>2. CASE view[t] = "incomplete" /\ tree = "stopped"
        <5>1. (tree = "stopped") = TRUE
          BY <4>2
        <5>2. PICK from : said' = said \cup {[answer |-> TRUE, from |-> from]}
          BY <1>2, <4>2, <5>1, Zenon DEF Return
        <5>3. [answer |-> TRUE, from |-> from].answer = TRUE
          OBVIOUS
        <5> QED
          BY <5>2, <5>3, Zenon
      <4> QED
        BY <2>2, <4>1, <4>2
    <3>2. extracted' = extracted
      BY <1>2 DEF Return, cells
    <3> QED
      BY <1>t, <3>1, <3>2 DEF CompleteMeansWhole
  <2> QED
    BY <2>1, <2>2
<1> QED
  BY <1>1, <1>2, <1>q, NextCases
     DEF vars, cells, Elsewhere, Call, StartInit, Read, ParseTree, ParseCfml, RunPipeline,
         Extract, Merge, BuildFlow

\* ... and so does the one of what is asked for.
LEMMA AskingAlways == Spec => []Asking
<1>1. Init => Asking
  BY ThreadAssumption DEF Init, Asking, Called, PaidOnlyIfRead, CompleteMeansWhole, Cell
<1>2. IInv /\ Asking /\ [Next]_vars => Asking'
  BY CalledStep, PaidStep, CompleteStep DEF Asking
<1> QED
  BY <1>1, <1>2, Inductive, PTL DEF Spec

-----------------------------------------------------------------------------

\* The cells, the labels and the histories always have their types.
THEOREM TypeCorrect == Spec => []TypeOK
<1>1. IInv => TypeOK
  BY DEF IInv
<1> QED
  BY <1>1, Inductive, PTL

\* No cycle of threads waiting for each other's cells can form, however many
\* threads read however many views: a thread only waits for a cell below every
\* cell it is filling (flow above extracted above the two parses).
THEOREM CellsTakenInOrder == Spec => []WaitsDownward
<1>1. IInv => WaitsDownward
  <2> SUFFICES ASSUME IInv, NEW t \in Thread, NEW c \in Cell, NEW d \in Cell,
                      at[t] = c, Holds(t, d), ~Filled(c)
               PROVE  Rank[c] < Rank[d]
    BY DEF WaitsDownward
  <2>1. /\ Rank["flow"] = 3 /\ Rank["extracted"] = 2
        /\ Rank["tree"] = 1 /\ Rank["cfml"] = 1
    BY DEF Rank, Cell
  <2>2. Placed(t) /\ holder[d] = t
    BY DEF IInv, Locking, Holds
  <2>3. d # "tree" /\ d # "cfml"
    BY <2>2 DEF Placed, Cell
  <2>4. CASE d = "extracted"
    <3>1. c \in {"tree", "cfml"}
      BY <2>2, <2>4 DEF Placed, Filling, Cell
    <3> QED
      BY <2>1, <2>4, <3>1
  <2>5. CASE d = "flow"
    <3>1. c \in {"tree", "cfml", "extracted"}
      BY <2>2, <2>5 DEF Placed, Filling, Cell
    <3> QED
      BY <2>1, <2>5, <3>1
  <2> QED
    BY <2>3, <2>4, <2>5 DEF Cell
<1> QED
  BY <1>1, Inductive, PTL

\* parse_count never exceeds 1, and is what its documentation says it is.
THEOREM PipelineOnce == Spec => []PipelineRunsOnce
<1>1. IInv => PipelineRunsOnce
  <2> SUFFICES ASSUME IInv PROVE PipelineRunsOnce
    OBVIOUS
  <2>1. CASE holder["extracted"] = NoThread
    BY <2>1 DEF IInv, Counted, PipelineRunsOnce
  <2>2. CASE holder["extracted"] # NoThread
    BY <2>2 DEF IInv, Counted, PipelineRunsOnce, TypeOK, Cell
  <2> QED
    BY <2>1, <2>2
<1> QED
  BY <1>1, Inductive, PTL

\* The tree of source_ast and the views come from one parse.
THEOREM TreeIsShared == Spec => []OneTree
<1>1. IInv => OneTree
  BY DEF IInv, Sourced, OneTree
<1> QED
  BY <1>1, Inductive, PTL

\* What is stored is a function of the key, for a file whose extraction parses
\* nothing found inside it.
THEOREM StoresReproducible ==
  ASSUME ~InnerParses
  PROVE  Spec => []StoredIsReproducible
<1>1. IInv => StoredIsReproducible
  BY DEF IInv, Sourced, StoredIsReproducible
<1> QED
  BY <1>1, Inductive, PTL

\* A caller told by source_parse_incomplete that nothing was cut short has
\* views of a whole parse before it.
THEOREM ToldWholeIsWhole == Spec => []CompleteMeansWhole
<1>1. Asking => CompleteMeansWhole
  BY DEF Asking
<1> QED
  BY <1>1, AskingAlways, PTL

\* No flow graph is built and, on a cache hit, no tree parsed unless a call
\* that needs it was made.
THEOREM PaidForWhenRead == Spec => []PaidOnlyIfRead
<1>1. Asking => PaidOnlyIfRead
  BY DEF Asking
<1> QED
  BY <1>1, AskingAlways, PTL

\* A view, once read, never changes.
THEOREM ViewsAreFixed == Spec => ViewsNeverChange
<1>1. IInv /\ [Next]_vars => [\A c \in Cell : Filled(c) => Content'[c] = Content[c]]_cells
  <2> SUFFICES ASSUME IInv, [Next]_vars, NEW c \in Cell, Filled(c)
               PROVE  Content'[c] = Content[c]
    OBVIOUS
  <2>0. HeldEmpty /\ \A t \in Thread : Placed(t)
    BY DEF IInv, Locking
  <2> DEFINE Same(x) == Content'[x] = Content[x]
  <2>1. CASE UNCHANGED cells
    BY <2>1 DEF cells, Content
  <2>2. ASSUME NEW t \in Thread, ParseTree(t) PROVE Same(c)
    BY <2>0, <2>2, ThreadAssumption DEF ParseTree, HeldEmpty, Placed, Filled, Content
  <2>3. ASSUME NEW t \in Thread, ParseCfml(t) PROVE Same(c)
    BY <2>0, <2>3, ThreadAssumption DEF ParseCfml, HeldEmpty, Placed, Filled, Content
  <2>4. ASSUME NEW t \in Thread, Hit(t) \/ Keep(t) PROVE Same(c)
    BY <2>0, <2>4, ThreadAssumption DEF Hit, Keep, HeldEmpty, Placed, Filled, Content
  <2>5. ASSUME NEW t \in Thread, BuildFlow(t) PROVE Same(c)
    BY <2>0, <2>5, ThreadAssumption DEF BuildFlow, HeldEmpty, Placed, Filled, Content
  <2> QED
    BY <2>1, <2>2, <2>3, <2>4, <2>5, NextCases
       DEF vars, Elsewhere, Call, StartInit, Read, RunPipeline, Extract, Merge, Return
<1> QED
  BY <1>1, Inductive, PTL DEF Spec, ViewsNeverChange
=============================================================================
