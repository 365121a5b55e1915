-------------------------- MODULE ExtractionProofs --------------------------
(***************************************************************************)
(* Proofs about Extraction, for any number of threads: what a guard puts   *)
(* back, which hook a panic reaches, and what a view says of the facts it  *)
(* lacks.  Nested, Hooked and Described are inductive together with the    *)
(* types, and imply the properties.                                        *)
(***************************************************************************)
EXTENDS ExtractionProps, SequenceTheorems, TLAPS

Hook == {"default", "host", "ours"}
\* What the guards a thread is in put back: none, a stage's, and one in it.
None == <<>>
One == <<FALSE>>
Two == <<FALSE, TRUE>>
Stack == {None, One, Two}
File == [kind : {"tree", "cfml", "other"}, tree : {"none", "parsed", "failed"}]

TypeOK ==
  /\ hook \in Hook /\ previous \in Hook
  /\ once \in {"new", "busy", "done"} /\ installer \in Thread \cup {NoThread}
  /\ hostHook \in [name : {"default", "host"}, raced : BOOLEAN]
  /\ printed \in BOOLEAN /\ unheard \subseteq [installing : BOOLEAN, raced : BOOLEAN]
  /\ at \in [Thread -> Stage]
  /\ file \in [Thread -> File]
  /\ suppress \in [Thread -> BOOLEAN]
  /\ saved \in [Thread -> Stack]
  /\ symbols \in [Thread -> SUBSET Producer]
  /\ counted \in [Thread -> (SUBSET Producer) \cup {Uncounted}]
  /\ metrics \in [Thread -> SUBSET Metric]
  /\ errors \in [Thread -> Nat]
  /\ errorCount \in [Thread -> Nat]

\* A thread is in no guard, in its stage's, or in one inside its extractor's;
\* it is silenced exactly inside a guard.
Nested(t) ==
  /\ suppress[t] = (saved[t] # None)
  /\ saved[t] # None => at[t] \in Guarded
  /\ saved[t] = Two => at[t] = "extract"

\* Ours passes panics on to the hook the host set last, or the host's is the
\* process's hook; unless it was set while ours was being installed.
Hooked ==
  /\ (installer # NoThread) <=> (once = "busy")
  /\ hostHook.name = "default" => ~hostHook.raced
  /\ once = "new" => hook = hostHook.name /\ ~hostHook.raced
  /\ (once = "busy" /\ ~hostHook.raced) => previous = hostHook.name
  /\ (once = "done" /\ ~hostHook.raced) =>
       (hook = "ours" /\ previous = hostHook.name) \/ hook = hostHook.name

Said(t) == Unavailable \in metrics[t] /\ errors[t] > 0
Opening == {"host", "identify", "parse"}
Counting == {"identity", "references", "count", "cfml", "recount", "done"}

\* What is known of a thread's file at each stage.
Described(t) ==
  /\ (file[t].kind = "tree" /\ at[t] \notin Opening) => file[t].tree \in {"parsed", "failed"}
  /\ (file[t].tree = "failed" /\ at[t] \notin Opening \cup {"start"}) => Said(t)
  /\ (file[t].tree = "parsed" /\ at[t] \in {"derived"} \cup Counting) =>
       "walk" \in symbols[t] \/ Said(t)
  /\ at[t] \in {"cfml", "recount"} => file[t].kind = "cfml"
  /\ at[t] \notin Counting => counted[t] = Uncounted
  /\ file[t].kind # "cfml" => counted[t] \in {Uncounted, symbols[t]}
  /\ at[t] \in {"cfml", "done"} => errorCount[t] = errors[t]

\* What a step of thread t leaves alone, and keeps of its own.
Kept(t) ==
  /\ TypeOK'
  /\ \A u \in Thread \ {t} :
       /\ at'[u] = at[u] /\ file'[u] = file[u]
       /\ suppress'[u] = suppress[u] /\ saved'[u] = saved[u]
       /\ symbols'[u] = symbols[u] /\ counted'[u] = counted[u]
       /\ metrics'[u] = metrics[u]
       /\ errors'[u] = errors[u] /\ errorCount'[u] = errorCount[u]
  /\ Nested(t)' /\ Described(t)'
  /\ UNCHANGED process

IInv ==
  /\ TypeOK
  /\ Hooked
  /\ \A t \in Thread : Nested(t) /\ Described(t)
  /\ ~printed
  /\ HostPanicsAreHeard

-----------------------------------------------------------------------------
(* What the operators do. *)

\* Pushing onto a stack of one.
LEMMA Pushed ==
  ASSUME NEW a, NEW b
  PROVE  Append(<<a>>, b) = <<a, b>>
<1> DEFINE s == Append(<<a>>, b)
           r == <<a, b>>
<1>1. <<a>> \in Seq({a, b}) /\ r \in Seq({a, b}) /\ Len(<<a>>) = 1 /\ Len(r) = 2
  OBVIOUS
<1>2. s \in Seq({a, b}) /\ Len(s) = 2 /\ s[2] = b /\ s[1] = <<a>>[1]
  BY <1>1, AppendProperties
<1>3. \A i \in 1..2 : s[i] = r[i]
  BY <1>2
<1> HIDE DEF s, r
<1>4. s = r
  BY <1>1, <1>2, <1>3, SeqEqual
<1> QED
  BY <1>4 DEF s, r

\* Popping one of two.
LEMMA Popped ==
  ASSUME NEW a, NEW b
  PROVE  SubSeq(<<a, b>>, 1, 1) = <<a>>
<1> DEFINE s == SubSeq(<<a, b>>, 1, 1)
           r == <<a>>
<1>1. r \in Seq({a, b}) /\ Len(r) = 1
  OBVIOUS
<1>2. s \in Seq({a, b}) /\ Len(s) = 1 /\ s[1] = a
  BY SubSeqProperties
<1>3. \A i \in 1..1 : s[i] = r[i]
  BY <1>2
<1> HIDE DEF s, r
<1>4. s = r
  BY <1>1, <1>2, <1>3, SeqEqual
<1> QED
  BY <1>4 DEF s, r

\* The stacks of flags that occur, and what a guard does to them.
LEMMA Flags ==
  /\ Len(None) = 0 /\ Len(One) = 1 /\ Len(Two) = 2
  /\ One[1] = FALSE /\ Two[2] = TRUE
  /\ None # One /\ None # Two /\ One # Two
  /\ Append(None, FALSE) = One /\ Append(One, TRUE) = Two
  /\ SubSeq(One, 1, 0) = None /\ SubSeq(Two, 1, 1) = One
<1>1. SubSeq(One, 1, 0) = None
  BY DEF One, None
<1>2. SubSeq(Two, 1, 1) = One
  BY Popped, Zenon DEF One, Two
<1>3. Append(None, FALSE) = One
  BY DEF One, None
<1>4. Append(One, TRUE) = Two
  BY Pushed, Zenon DEF One, Two
<1>5. Len(None) = 0 /\ Len(One) = 1 /\ Len(Two) = 2
  BY DEF None, One, Two
<1>6. One[1] = FALSE /\ Two[2] = TRUE
  BY DEF One, Two
<1>7. None # One /\ None # Two /\ One # Two
  BY <1>5
<1> QED
  BY <1>1, <1>2, <1>3, <1>4, <1>5, <1>6, <1>7

\* The guard a thread leaves puts back the flag as it found it.
LEMMA LeavesGuard ==
  ASSUME TypeOK, NEW t \in Thread, Nested(t), Depth(t) > 0, Leave(t, Restored(t))
  PROVE  /\ suppress[t] = TRUE
         /\ suppress' = [suppress EXCEPT ![t] = (saved[t] = Two)]
         /\ \/ saved[t] = One /\ saved' = [saved EXCEPT ![t] = None]
            \/ saved[t] = Two /\ saved' = [saved EXCEPT ![t] = One]
<1>1. saved[t] = One \/ saved[t] = Two
  BY Flags DEF TypeOK, Depth, Stack
<1>2. saved' = [saved EXCEPT ![t] = SubSeq(saved[t], 1, Len(saved[t]) - 1)]
      /\ suppress' = [suppress EXCEPT ![t] = saved[t][Len(saved[t])]]
  BY DEF Leave, Restored, Depth
<1>3. saved[t] # None
  BY <1>1, Flags, Zenon
<1>4. suppress[t] = TRUE
  BY <1>3, Zenon DEF Nested, TypeOK
<1>5. CASE saved[t] = One
  <2>1. saved' = [saved EXCEPT ![t] = None]
    <3>1. Len(One) - 1 = 0
      BY Flags
    <3>2. SubSeq(One, 1, Len(One) - 1) = None
      BY <3>1, Flags, Zenon
    <3> QED
      BY <1>2, <1>5, <3>2, Zenon
  <2>2. suppress' = [suppress EXCEPT ![t] = FALSE]
    BY <1>2, <1>5, Flags
  <2>3. (saved[t] = Two) = FALSE
    BY <1>5, Flags
  <2> QED
    BY <1>4, <1>5, <2>1, <2>2, <2>3, Zenon
<1>6. CASE saved[t] = Two
  <2>1. saved' = [saved EXCEPT ![t] = One]
    <3>1. Len(Two) - 1 = 1
      BY Flags
    <3>2. SubSeq(Two, 1, Len(Two) - 1) = One
      BY <3>1, Flags, Zenon
    <3> QED
      BY <1>2, <1>6, <3>2, Zenon
  <2>2. suppress' = [suppress EXCEPT ![t] = TRUE]
    BY <1>2, <1>6, Flags
  <2>3. (saved[t] = Two) = TRUE
    BY <1>6
  <2> QED
    BY <1>4, <1>6, <2>1, <2>2, <2>3, Zenon
<1> QED
  BY <1>1, <1>5, <1>6

\* Both ways out of a guard.  Only the process's hook hears a panic.
LEMMA EndsGuard ==
  ASSUME TypeOK, NEW t \in Thread, Nested(t), Returns(t) \/ GuardedPanic(t)
  PROVE  /\ suppress' = [suppress EXCEPT ![t] = (saved[t] = Two)]
         /\ \/ saved[t] = One /\ saved' = [saved EXCEPT ![t] = None]
            \/ saved[t] = Two /\ saved' = [saved EXCEPT ![t] = One]
         /\ UNCHANGED <<hook, previous, once, installer, hostHook, unheard>>
         /\ printed' = printed
<1>1. Depth(t) > 0 /\ Leave(t, Restored(t))
  BY DEF Returns, GuardedPanic, OnUnwind
<1>2. UNCHANGED <<hook, previous, once, installer, hostHook, unheard>>
  BY DEF Returns, GuardedPanic, process
<1>3. suppress[t] = TRUE
  BY <1>1, LeavesGuard
<1>4. printed' = printed
  <2>1. CASE Returns(t)
    BY <2>1 DEF Returns, process
  <2>2. CASE GuardedPanic(t)
    <3>1. (hook = "ours" /\ Told(t) # {}) = FALSE
      BY <1>3 DEF Told
    <3>2. printed' = (printed \/ FALSE)
      BY <2>2, <3>1, Zenon DEF GuardedPanic
    <3> QED
      BY <3>2, Zenon DEF TypeOK
  <2> QED
    BY <2>1, <2>2
<1> QED
  BY <1>1, <1>2, <1>4, LeavesGuard

\* Where a stage of run_extraction goes on.
LEMMA GoesOn ==
  ASSUME TypeOK, NEW t \in Thread, GoOn(t)
  PROVE  /\ at' = [at EXCEPT ![t] =
              CASE at[t] = "extract" -> IF file[t].tree = "parsed" THEN "walk" ELSE "derived"
                [] at[t] = "walk" -> "derived" [] at[t] = "derived" -> "identity"
                [] at[t] = "identity" -> "references" [] OTHER -> "count"]
         /\ at' \in [Thread -> Stage]
         /\ \A u \in Thread \ {t} : at'[u] = at[u]
<1>1. Len(Order) = 6
  BY DEF Order
<1>2. PICK i \in 1..5 :
        /\ Order[i] = at[t]
        /\ Goto(t, IF Order[i + 1] = "walk" /\ file[t].tree # "parsed"
                   THEN Order[i + 2] ELSE Order[i + 1])
  BY <1>1 DEF GoOn
<1>3. \/ i = 1 /\ Order[i] = "extract" /\ Order[i + 1] = "walk" /\ Order[i + 2] = "derived"
      \/ i = 2 /\ Order[i] = "walk" /\ Order[i + 1] = "derived"
      \/ i = 3 /\ Order[i] = "derived" /\ Order[i + 1] = "identity"
      \/ i = 4 /\ Order[i] = "identity" /\ Order[i + 1] = "references"
      \/ i = 5 /\ Order[i] = "references" /\ Order[i + 1] = "count"
  BY DEF Order
<1>4. at' = [at EXCEPT ![t] =
              CASE at[t] = "extract" -> IF file[t].tree = "parsed" THEN "walk" ELSE "derived"
                [] at[t] = "walk" -> "derived" [] at[t] = "derived" -> "identity"
                [] at[t] = "identity" -> "references" [] OTHER -> "count"]
  BY <1>2, <1>3 DEF Goto
<1> QED
  BY <1>4 DEF TypeOK, Stage, Guarded

\* A stage's guard is the outermost: it leaves the thread in none.
LEMMA EndsStage ==
  ASSUME TypeOK, NEW t \in Thread, Nested(t), Returns(t) \/ GuardedPanic(t),
         at[t] # "extract" \/ Depth(t) = 1
  PROVE  /\ suppress' = [suppress EXCEPT ![t] = FALSE]
         /\ saved' = [saved EXCEPT ![t] = None]
         /\ UNCHANGED process
<1>1. saved[t] # Two
  BY Flags DEF Nested, Depth
<1>2. (saved[t] = Two) = FALSE
  BY <1>1
<1> QED
  BY <1>1, <1>2, EndsGuard, Zenon DEF process

-----------------------------------------------------------------------------
(* The stages, one after another. *)

\* OpenOptions::open starts a file in no guard.
LEMMA StepOpen ==
  ASSUME TypeOK, NEW t \in Thread, Nested(t), Described(t), Open(t)
  PROVE  Kept(t)
<1> USE DEF Open
<1>1. TypeOK'
  BY DEF TypeOK, Goto, Stage, Guarded, File, process, guard
<1>2. Nested(t)'
  <2>1. saved[t] = None
    BY DEF Nested, Guarded
  <2> QED
    BY <2>1 DEF Nested, guard, TypeOK, Goto
<1>3. Described(t)'
  BY DEF Described, TypeOK, Goto, Opening, Counting, Said, File
<1> QED
  BY <1>1, <1>2, <1>3 DEF Kept, TypeOK, Goto, process, guard

\* A panic of the identification is an error, and the type is unknown.
LEMMA StepIdentify ==
  ASSUME TypeOK, NEW t \in Thread, Nested(t), Described(t), Identify(t)
  PROVE  Kept(t)
<1>1. /\ suppress' = [suppress EXCEPT ![t] = FALSE]
      /\ saved' = [saved EXCEPT ![t] = None]
      /\ UNCHANGED process
  BY EndsStage DEF Identify
<1>2. TypeOK'
  <2>1. file' \in [Thread -> File]
    BY DEF Identify, TypeOK, File
  <2>2. at' \in [Thread -> Stage] /\ errors' \in [Thread -> Nat]
    BY DEF Identify, TypeOK, Goto, Record, Stage, Guarded
  <2> QED
    BY <1>1, <2>1, <2>2 DEF Identify, TypeOK, process, Stack
<1>3. Nested(t)'
  BY <1>1, Flags DEF Nested, TypeOK
<1>4. Described(t)'
  BY DEF Identify, Described, TypeOK, Goto, Record, Opening, Counting, Said, File
<1> QED
  BY <1>1, <1>2, <1>3, <1>4 DEF Kept, Identify, TypeOK, Goto, Record

\* A tree is asked for, and there or not, before run_extraction starts.
LEMMA StepParse ==
  ASSUME TypeOK, NEW t \in Thread, Nested(t), Described(t), Parse(t)
  PROVE  Kept(t)
<1>1. /\ suppress' = [suppress EXCEPT ![t] = FALSE]
      /\ saved' = [saved EXCEPT ![t] = None]
      /\ UNCHANGED process
  BY EndsStage DEF Parse
<1>2. TypeOK'
  <2>1. file' \in [Thread -> File]
    <3>1. PICK r \in {"parsed", "failed"} :
            file' = [file EXCEPT ![t] = [file[t] EXCEPT !.tree = r]]
      BY DEF Parse
    <3>2. [file[t] EXCEPT !.tree = r] \in File
      BY DEF TypeOK, File
    <3> QED
      BY <3>1, <3>2 DEF TypeOK
  <2>2. at' \in [Thread -> Stage]
    BY DEF Parse, TypeOK, Goto, Stage, Guarded
  <2> QED
    BY <1>1, <2>1, <2>2 DEF Parse, TypeOK, process, Stack
<1>3. Nested(t)'
  BY <1>1, Flags DEF Nested, TypeOK
<1>4. Described(t)'
  BY DEF Parse, Described, TypeOK, Goto, Record, Opening, Counting, Said, File
<1> QED
  BY <1>1, <1>2, <1>3, <1>4 DEF Kept, Parse, TypeOK, Goto, Record

\* From here on a tree that is missing is said to be.
LEMMA StepStart ==
  ASSUME TypeOK, NEW t \in Thread, Nested(t), Described(t), Start(t)
  PROVE  Kept(t)
<1>1. TypeOK'
  <2>1. metrics' \in [Thread -> SUBSET Metric] /\ errors' \in [Thread -> Nat]
    BY DEF Start, TypeOK, Record, Metric
  <2> QED
    BY <2>1 DEF Start, TypeOK, Goto, Stage, Guarded, process, guard
<1>2. Nested(t)'
  BY DEF Start, Nested, Goto, guard, TypeOK, Guarded, Stage
<1>3. Described(t)'
  BY DEF Start, Described, TypeOK, Goto, Record, Opening, Counting, Said, File
<1> QED
  BY <1>1, <1>2, <1>3 DEF Kept, Start, TypeOK, Goto, Record, process, guard

\* A guard inside the extractor's leaves the extractor silenced.
LEMMA StepInner ==
  ASSUME TypeOK, NEW t \in Thread, Nested(t), Described(t), Inner(t)
  PROVE  Kept(t)
<1>1. saved[t] = Two
  BY Flags, EndsGuard DEF Inner, Depth
<1>2. /\ suppress' = [suppress EXCEPT ![t] = TRUE]
      /\ saved' = [saved EXCEPT ![t] = One]
      /\ UNCHANGED process
  BY <1>1, EndsGuard, Flags DEF Inner, process
<1>3. TypeOK'
  <2>1. errors' \in [Thread -> Nat]
    BY DEF Inner, TypeOK, Record
  <2> QED
    BY <1>2, <2>1 DEF Inner, TypeOK, process, Stack
<1>4. Nested(t)'
  BY <1>2, Flags DEF Inner, Nested, TypeOK, Guarded
<1>5. Described(t)'
  BY DEF Inner, Described, TypeOK, Record, Opening, Counting, Said
<1> QED
  BY <1>2, <1>3, <1>4, <1>5 DEF Kept, Inner, TypeOK, Record

\* The extractor goes on to the walk exactly when there is a tree.
LEMMA StepExtract ==
  ASSUME TypeOK, NEW t \in Thread, Nested(t), Described(t), Extract(t)
  PROVE  Kept(t)
<1>0. /\ at' = [at EXCEPT ![t] = IF file[t].tree = "parsed" THEN "walk" ELSE "derived"]
      /\ at' \in [Thread -> Stage]
  BY GoesOn DEF Extract
<1>1. /\ suppress' = [suppress EXCEPT ![t] = FALSE]
      /\ saved' = [saved EXCEPT ![t] = None]
      /\ UNCHANGED process
  BY EndsStage DEF Extract
<1>2. TypeOK'
  <2>1. symbols' \in [Thread -> SUBSET Producer]
    BY DEF Extract, TypeOK, Producer
  <2>2. metrics' \in [Thread -> SUBSET Metric] /\ errors' \in [Thread -> Nat]
    BY DEF Extract, TypeOK, Metric, Record
  <2> QED
    BY <1>0, <1>1, <2>1, <2>2 DEF Extract, TypeOK, process, Stack
<1>3. Nested(t)'
  BY <1>1, Flags DEF Nested, TypeOK
<1>4. Described(t)'
  BY <1>0 DEF Extract, Described, TypeOK, Goto, Record, Opening, Counting, Said, File
<1> QED
  BY <1>0, <1>1, <1>2, <1>3, <1>4 DEF Kept, Extract, TypeOK, Goto, Record

\* The walk's symbols are there, or it is said that they are not.
LEMMA StepWalk ==
  ASSUME TypeOK, NEW t \in Thread, Nested(t), Described(t), Walk(t)
  PROVE  Kept(t)
<1>0. at' = [at EXCEPT ![t] = "derived"] /\ at' \in [Thread -> Stage]
  BY GoesOn DEF Walk
<1>1. /\ suppress' = [suppress EXCEPT ![t] = FALSE]
      /\ saved' = [saved EXCEPT ![t] = None]
      /\ UNCHANGED process
  BY EndsStage DEF Walk
<1>2. TypeOK'
  <2>1. symbols' \in [Thread -> SUBSET Producer]
    BY DEF Walk, TypeOK, Producer
  <2>2. metrics' \in [Thread -> SUBSET Metric] /\ errors' \in [Thread -> Nat]
    BY DEF Walk, TypeOK, Metric, Record, WalkFailed
  <2> QED
    BY <1>0, <1>1, <2>1, <2>2 DEF Walk, TypeOK, process, Stack
<1>3. Nested(t)'
  BY <1>1, Flags DEF Nested, TypeOK
<1>4. Described(t)'
  BY <1>0 DEF Walk, WalkFailed, Described, TypeOK, Goto, Record, Opening, Counting, Said, File
<1> QED
  BY <1>0, <1>1, <1>2, <1>3, <1>4 DEF Kept, Walk, TypeOK, Goto, Record

\* The kinds are counted over the symbols as they are from here on.
LEMMA StepDerived ==
  ASSUME TypeOK, NEW t \in Thread, Nested(t), Described(t), Derived(t)
  PROVE  Kept(t)
<1>0. at' = [at EXCEPT ![t] = "identity"] /\ at' \in [Thread -> Stage]
  BY GoesOn DEF Derived
<1>1. /\ suppress' = [suppress EXCEPT ![t] = FALSE]
      /\ saved' = [saved EXCEPT ![t] = None]
      /\ UNCHANGED process
  BY EndsStage DEF Derived
<1>2. TypeOK'
  <2>1. counted' \in [Thread -> (SUBSET Producer) \cup {Uncounted}]
    BY DEF Derived, TypeOK
  <2>2. errors' \in [Thread -> Nat]
    BY DEF Derived, TypeOK, Record
  <2> QED
    BY <1>0, <1>1, <2>1, <2>2 DEF Derived, TypeOK, process, Stack
<1>3. Nested(t)'
  BY <1>1, Flags DEF Nested, TypeOK
<1>4. Described(t)'
  BY <1>0 DEF Derived, Described, TypeOK, Goto, Record, Opening, Counting, Said, File
<1> QED
  BY <1>0, <1>1, <1>2, <1>3, <1>4 DEF Kept, Derived, TypeOK, Goto, Record

\* The identity and the references touch neither symbols nor counts.
LEMMA StepFold ==
  ASSUME TypeOK, NEW t \in Thread, Nested(t), Described(t), 
         NEW stage \in {"identity", "references"}, Fold(t, stage)
  PROVE  Kept(t)
<1>0. /\ at' = [at EXCEPT ![t] = IF stage = "identity" THEN "references" ELSE "count"]
      /\ at' \in [Thread -> Stage]
  BY GoesOn DEF Fold
<1>1. /\ suppress' = [suppress EXCEPT ![t] = FALSE]
      /\ saved' = [saved EXCEPT ![t] = None]
      /\ UNCHANGED process
  BY EndsStage DEF Fold
<1>2. TypeOK'
  <2>1. errors' \in [Thread -> Nat]
    BY DEF Fold, TypeOK, Record
  <2> QED
    BY <1>0, <1>1, <2>1 DEF Fold, TypeOK, process, Stack
<1>3. Nested(t)'
  BY <1>1, Flags DEF Nested, TypeOK
<1>4. Described(t)'
  BY <1>0 DEF Fold, Described, TypeOK, Goto, Record, Opening, Counting, Said, File
<1> QED
  BY <1>0, <1>1, <1>2, <1>3, <1>4 DEF Kept, Fold, TypeOK, Goto, Record

\* The count is the number of errors at that moment.
LEMMA StepCount ==
  ASSUME TypeOK, NEW t \in Thread, Nested(t), Described(t), Count(t) \/ Recount(t)
  PROVE  Kept(t)
<1> USE DEF Count, Recount
<1>1. TypeOK'
  BY DEF TypeOK, Goto, CountErrors, Stage, Guarded, process, guard
<1>2. Nested(t)'
  <2>1. saved[t] = None
    BY DEF Nested, Guarded
  <2> QED
    BY <2>1 DEF Nested, guard, TypeOK, Goto
<1>3. Described(t)'
  BY DEF Described, TypeOK, Goto, CountErrors, Opening, Counting, Said, File
<1> QED
  BY <1>1, <1>2, <1>3 DEF Kept, TypeOK, Goto, CountErrors, process, guard

\* Only a CFML file gets symbols after the counts, and an error brings
\* another count.
LEMMA StepCfml ==
  ASSUME TypeOK, NEW t \in Thread, Nested(t), Described(t), Cfml(t)
  PROVE  Kept(t)
<1>1. /\ suppress' = [suppress EXCEPT ![t] = FALSE]
      /\ saved' = [saved EXCEPT ![t] = None]
      /\ UNCHANGED process
  BY EndsStage DEF Cfml
<1>2. TypeOK'
  <2>1. symbols' \in [Thread -> SUBSET Producer]
    BY DEF Cfml, TypeOK, Producer
  <2>2. at' \in [Thread -> Stage] /\ errors' \in [Thread -> Nat]
    BY DEF Cfml, TypeOK, Goto, Record, AfterCfmlPanic, Stage, Guarded
  <2> QED
    BY <1>1, <2>1, <2>2 DEF Cfml, TypeOK, process, Stack
<1>3. Nested(t)'
  BY <1>1, Flags DEF Nested, TypeOK
<1>4. Described(t)'
  BY DEF Cfml, AfterCfmlPanic, Described, TypeOK, Goto, Record, Opening, Counting, Said, File
<1> QED
  BY <1>1, <1>2, <1>3, <1>4 DEF Kept, Cfml, TypeOK, Goto, Record

\* The flag is kept as it was found: FALSE, and inside a guard TRUE.
LEMMA StepEnter ==
  ASSUME TypeOK, NEW t \in Thread, Nested(t), Described(t), Enter(t)
  PROVE  Kept(t)
<1>1. /\ suppress' = [suppress EXCEPT ![t] = TRUE]
      /\ \/ saved[t] = None /\ saved' = [saved EXCEPT ![t] = One]
         \/ saved[t] = One /\ at[t] = "extract" /\ saved' = [saved EXCEPT ![t] = Two]
  <2>1. CASE saved[t] = None
    <3>1. suppress[t] = FALSE
      BY <2>1, Zenon DEF Nested, TypeOK
    <3>2. Append(saved[t], suppress[t]) = One
      BY <2>1, <3>1, Flags, Zenon
    <3> QED
      BY <2>1, <3>2, Zenon DEF Enter
  <2>2. CASE saved[t] = One
    <3>1. suppress[t] = TRUE
      BY <2>2, Flags, Zenon DEF Nested, TypeOK
    <3>2. Append(saved[t], suppress[t]) = Two
      BY <2>2, <3>1, Flags, Zenon
    <3>3. at[t] = "extract"
      BY <2>2, Flags DEF Enter, Depth
    <3> QED
      BY <2>2, <3>2, <3>3, Zenon DEF Enter
  <2>3. CASE saved[t] = Two
    BY <2>3, Flags DEF Enter, Depth
  <2> QED
    BY <2>1, <2>2, <2>3 DEF TypeOK, Stack
<1>2. at[t] \in Guarded /\ UNCHANGED <<process, at, facts>>
  BY DEF Enter
<1>3. TypeOK'
  BY <1>1, <1>2 DEF TypeOK, Stack, process, facts
<1>4. Nested(t)'
  BY <1>1, <1>2, Flags DEF Nested, TypeOK
<1>5. Described(t)'
  BY <1>2 DEF Described, facts, Said
<1> QED
  BY <1>1, <1>2, <1>3, <1>4, <1>5 DEF Kept, TypeOK, facts

-----------------------------------------------------------------------------
(* The hook. *)

\* What the threads hold is untouched where only the hook is.
LEMMA StepHook ==
  ASSUME TypeOK, Hooked, \A t \in Thread : Nested(t), HostPanicsAreHeard,
         NEW t \in Thread,
         HostSetsHook \/ HostPanics(t) \/ TakeHook(t) \/ SetHook(t)
  PROVE  /\ TypeOK' /\ Hooked' /\ HostPanicsAreHeard'
         /\ printed' = printed
         /\ UNCHANGED <<at, guard, facts>>
<1>1. CASE HostSetsHook
  BY <1>1, NoThreadAssumption
  DEF HostSetsHook, TypeOK, Hooked, HostPanicsAreHeard, Hook, guard, facts
<1>2. CASE HostPanics(t)
  <2>1. saved[t] = None
    BY <1>2 DEF HostPanics, Nested, Guarded
  <2>2. suppress[t] = FALSE
    BY <2>1, Zenon DEF Nested
  <2>3. ~hostHook.raced /\ once # "busy" => Told(t) = {hostHook.name}
    BY <2>2 DEF Hooked, Told, TypeOK
  <2>0. hostHook.raced \in BOOLEAN /\ (once = "busy") \in BOOLEAN
    BY DEF TypeOK
  <2>4. unheard' \subseteq [installing : BOOLEAN, raced : BOOLEAN]
    <3>1. [installing |-> once = "busy", raced |-> hostHook.raced]
             \in [installing : BOOLEAN, raced : BOOLEAN]
      BY <2>0
    <3> QED
      BY <1>2, <3>1 DEF HostPanics, TypeOK
  <2>5. HostPanicsAreHeard'
    <3>1. CASE unheard' = unheard
      BY <3>1 DEF HostPanicsAreHeard
    <3>2. CASE /\ unheard' = unheard \cup {[installing |-> once = "busy", raced |-> hostHook.raced]}
               /\ Told(t) # {hostHook.name}
      <4>1. once = "busy" \/ hostHook.raced
        BY <2>0, <2>3, <3>2
      <4>2. \A u \in unheard' : u \in unheard \/ u = [installing |-> once = "busy", raced |-> hostHook.raced]
        BY <3>2
      <4>3. ASSUME NEW u, u = [installing |-> once = "busy", raced |-> hostHook.raced]
            PROVE  u.installing \/ u.raced
        BY <4>1, <4>3
      <4> QED
        BY <4>2, <4>3 DEF HostPanicsAreHeard
    <3> QED
      BY <1>2, <3>1, <3>2 DEF HostPanics
  <2> QED
    BY <1>2, <2>4, <2>5 DEF HostPanics, TypeOK, Hooked, guard, facts
<1>3. CASE TakeHook(t)
  BY <1>3, NoThreadAssumption
  DEF TakeHook, ToInstall, TypeOK, Hooked, HostPanicsAreHeard, Hook, guard, facts
<1>4. CASE SetHook(t)
  BY <1>4, NoThreadAssumption
  DEF SetHook, TypeOK, Hooked, HostPanicsAreHeard, Hook, guard, facts
<1> QED
  BY <1>1, <1>2, <1>3, <1>4

-----------------------------------------------------------------------------
(* The invariant. *)

\* The steps of a thread on its own file.
ThreadSteps(t) ==
  \/ Enter(t) \/ Open(t) \/ Identify(t) \/ Parse(t) \/ Start(t)
  \/ Inner(t) \/ Extract(t) \/ Walk(t) \/ Derived(t)
  \/ Fold(t, "identity") \/ Fold(t, "references")
  \/ Count(t) \/ Cfml(t) \/ Recount(t)

\* Each of them keeps the thread's invariants and leaves the rest alone.
LEMMA StepThread ==
  ASSUME TypeOK, NEW t \in Thread, Nested(t), Described(t), ThreadSteps(t)
  PROVE  Kept(t)
BY StepEnter, StepOpen, StepIdentify, StepParse, StepStart, StepInner, StepExtract,
   StepWalk, StepDerived, StepFold, StepCount, StepCfml
DEF ThreadSteps

\* Another thread's step leaves a thread's invariants alone.
LEMMA OthersKeep ==
  ASSUME NEW t \in Thread, Kept(t), NEW u \in Thread \ {t}, Nested(u), Described(u)
  PROVE  Nested(u)' /\ Described(u)'
<1>1. Nested(u)'
  BY Zenon DEF Kept, Nested
<1>2. Described(u)'
  BY DEF Kept, Described, Said
<1> QED
  BY <1>1, <1>2

\* The invariant holds at first ...
LEMMA InitInv == Init => IInv
<1> SUFFICES ASSUME Init PROVE IInv
  OBVIOUS
<1>1. TypeOK
  BY DEF Init, TypeOK, Hook, Stage, Guarded, File, NoFile, Stack, None
<1>2. Hooked
  BY DEF Init, Hooked
<1>3. \A t \in Thread : Nested(t)
  <2> TAKE t \in Thread
  <2>1. suppress[t] = FALSE /\ saved[t] = None
    BY DEF Init, None
  <2>2. None # Two
    BY Flags
  <2> QED
    BY <2>1, <2>2, Zenon DEF Nested
<1>4. \A t \in Thread : Described(t)
  BY DEF Init, Described, NoFile, Opening, Counting
<1> QED
  BY <1>1, <1>2, <1>3, <1>4 DEF IInv, Init, HostPanicsAreHeard

\* ... and every step keeps it.
LEMMA NextInv == IInv /\ [Next]_vars => IInv'
<1> SUFFICES ASSUME IInv, [Next]_vars PROVE IInv'
  OBVIOUS
<1> USE DEF IInv
<1>1. ASSUME NEW t \in Thread, ThreadSteps(t)
      PROVE  IInv'
  <2>1. Kept(t)
    BY <1>1, StepThread
  <2>2. \A u \in Thread : Nested(u)' /\ Described(u)'
    BY <2>1, OthersKeep DEF Kept
  <2>3. Hooked' /\ HostPanicsAreHeard' /\ ~printed'
    BY <2>1 DEF Kept, process, Hooked, HostPanicsAreHeard
  <2> QED
    BY <2>1, <2>2, <2>3 DEF Kept
<1>2. ASSUME HostSetsHook \/ \E t \in Thread : HostPanics(t) \/ TakeHook(t) \/ SetHook(t),
             Thread # {}
      PROVE  IInv'
  <2>1. PICK t \in Thread : HostSetsHook \/ HostPanics(t) \/ TakeHook(t) \/ SetHook(t)
    BY <1>2
  <2>2. /\ TypeOK' /\ Hooked' /\ HostPanicsAreHeard' /\ printed' = printed
        /\ UNCHANGED <<at, guard, facts>>
    BY <2>1, StepHook
  <2>3. \A u \in Thread : Nested(u)'
    BY <2>2, Zenon DEF Nested, guard
  <2>4. \A u \in Thread : Described(u)'
    BY <2>2 DEF Described, facts, Said
  <2> QED
    BY <2>2, <2>3, <2>4
<1>3. ASSUME HostSetsHook, Thread = {}
      PROVE  IInv'
  BY <1>3, NoThreadAssumption
  DEF HostSetsHook, TypeOK, Hooked, HostPanicsAreHeard, Hook, guard, facts
<1>4. CASE UNCHANGED vars
  <2>1. \A u \in Thread : Nested(u)'
    BY <1>4, Zenon DEF Nested, guard, vars
  <2>2. \A u \in Thread : Described(u)'
    BY <1>4 DEF Described, facts, Said, vars
  <2> QED
    BY <1>4, <2>1, <2>2 DEF vars, process, guard, facts, TypeOK, Hooked, HostPanicsAreHeard
<1> QED
  BY <1>1, <1>2, <1>3, <1>4 DEF Next, ThreadSteps

\* So it always holds.
THEOREM Inductive == Spec => []IInv
<1>1. Init => IInv
  BY InitInv
<1>2. IInv /\ [Next]_vars => IInv'
  BY NextInv
<1> QED
  BY <1>1, <1>2, PTL DEF Spec

-----------------------------------------------------------------------------
(* The properties. *)

\* The variables have their types: a thread is in a guard only at a stage that
\* has one, and in two only in its extractor.
THEOREM TypeCorrect == Spec => [](TypeOK /\ \A t \in Thread : Nested(t))
<1>1. IInv => TypeOK /\ \A t \in Thread : Nested(t)
  BY DEF IInv
<1> QED
  BY <1>1, Inductive, PTL

\* No panic inside a guard is printed once ours is the hook, on any number of
\* threads (panic_guard.rs:73).
THEOREM SilentGuards == Spec => []GuardedPanicsAreSilent
<1>1. IInv => GuardedPanicsAreSilent
  BY DEF IInv, GuardedPanicsAreSilent
<1> QED
  BY <1>1, Inductive, PTL

\* The host's own panics reach the host's hook, whatever was caught on the
\* thread before, but for the installation of the hook (panic_guard.rs:49).
THEOREM HeardOutside == Spec => []HostPanicsAreHeard
<1>1. IInv => HostPanicsAreHeard
  BY DEF IInv
<1> QED
  BY <1>1, Inductive, PTL

\* parse.error_count is the number of errors in the view (lib.rs, run_extraction
\* and run_pipeline).
THEOREM ErrorsCounted == Spec => []ErrorCountAgrees
<1>1. IInv => ErrorCountAgrees
  BY DEF IInv, Described, ErrorCountAgrees
<1> QED
  BY <1>1, Inductive, PTL

\* Facts that a source file's tree did not give are said to be missing.
THEOREM MissingIsSaid == Spec => []AbsenceIsSaid
<1>1. IInv => AbsenceIsSaid
  BY DEF IInv, TypeOK, File, Described, Said, Opening, Counting, AbsenceIsSaid
<1> QED
  BY <1>1, Inductive, PTL

\* Kind counts, where there are any, cover every symbol of the view, CFML
\* files excepted (lib.rs:899).
THEOREM CountsWhole == Spec => []CountsCoverSource
<1>1. IInv => CountsCoverSource
  BY DEF IInv, Described, CountsCoverSource
<1> QED
  BY <1>1, Inductive, PTL

=============================================================================
