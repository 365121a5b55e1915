-------------------------- MODULE CacheRootProofs --------------------------
(***************************************************************************)
(* The cache works in directories of its own only, for any number of       *)
(* processes and however often the user deletes the root.                  *)
(***************************************************************************)
EXTENDS CacheRootProps, TLAPS

\* A process's own step.
Step(p) ==
  \/ Resolve(p) \/ Mkdir(p) \/ MkdirFails(p) \/ Check(p)
  \/ CreateTag(p) \/ WriteTag(p) \/ Verify(p)
  \/ Load(p) \/ Store(p) \/ Cleanup(p)
  \/ Prune(p) \/ RemoveOld(p) \/ Scan(p) \/ Delete(p) \/ Crash(p)

\* A step is a process's own, the user's or the host's.
LEMMA NextCases ==
  Next <=> (\E p \in Proc : Step(p)) \/ Clear \/ HostMakes
  BY DEF Next, Step

-----------------------------------------------------------------------------

\* A directory newly made is a root.
LEMMA NewTyped ==
  \A m \in {"nobody", "mkdir", "store", "before", "other"}, t \in BOOLEAN :
    New(m, t) \in Root
  BY DEF New, Root

\* Writing in a root leaves a root of the same maker.
LEMMA TouchTyped ==
  ASSUME NEW r \in Root, NEW p \in Proc, NEW t, t = TouchedBy(r, p)
  PROVE  /\ t \in Root /\ t.touched = r.touched \cup {p}
         /\ t.made = r.made /\ t.tag = r.tag /\ t.trusted = r.trusted
  BY DEF Root, TouchedBy

\* So does tagging it.
LEMMA TagTyped ==
  ASSUME NEW r \in Root, NEW tag \in {"none", "partial", "signed"}, NEW t, t = [r EXCEPT !.tag = tag]
  PROVE  /\ t \in Root /\ t.touched = r.touched
         /\ t.made = r.made /\ t.tag = tag /\ t.trusted = r.trusted
  BY DEF Root

\* Somebody else's directory is a root nobody has touched.
LEMMA OthersTyped ==
  \A t \in BOOLEAN : \A r \in Others(t) : r \in Root /\ r.made = "other" /\ r.touched = {}
  BY DEF Others, New, Root

\* The first state is typed.
LEMMA InitTyped == Init => TypeOK
<1> SUFFICES ASSUME Init PROVE TypeOK
  OBVIOUS
<1>1. root \in Root
  <2>1. [New("mkdir", TRUE) EXCEPT !.tag = "signed"] \in Root
    BY NewTyped, TagTyped
  <2> QED
    BY <2>1, NewTyped, OthersTyped DEF Init, Missing
<1> QED
  BY <1>1, ModesAssumption DEF Init, TypeOK

\* What a process's step may do to the root: make it, tag it, or write or delete
\* in it.
Marks(p) ==
  /\ Exists /\ root'.made = root.made /\ root'.trusted = root.trusted
  /\ root'.touched = root.touched \cup {p}
Makes(p) == ~Exists /\ (root' = New("mkdir", TRUE) \/ (root'.made = "store" /\ Store(p)))
Signs == root'.made = root.made /\ root'.trusted = root.trusted /\ root'.tag = "signed"
         /\ root'.touched = root.touched

\* What a step of one process may do to the root.
LEMMA RootSteps ==
  ASSUME root \in Root, NEW p \in Proc, Step(p)
  PROVE  /\ root' \in Root
         /\ \/ UNCHANGED root
            \/ Makes(p)
            \/ WriteTag(p) /\ handle[p] /\ Signs
            \/ CreateTag(p) /\ Marks(p) /\ root.tag = "none"
            \/ (Store(p) \/ RemoveOld(p) \/ Delete(p)) /\ Marks(p) /\ root'.tag = root.tag
<1>1. CASE Resolve(p) \/ MkdirFails(p) \/ Check(p) \/ Verify(p)
  BY <1>1 DEF Resolve, MkdirFails, Check, Verify
<1>2. CASE Load(p) \/ Cleanup(p) \/ Prune(p) \/ Scan(p) \/ Crash(p)
  BY <1>2 DEF Load, Cleanup, Prune, Scan, Crash
<1>3. CASE Mkdir(p)
  BY <1>3, NewTyped DEF Mkdir, Makes
<1>4. CASE CreateTag(p)
  <2>1. CASE UNCHANGED root
    BY <2>1
  <2>2. CASE NoTagFile /\ root' = TouchedBy([root EXCEPT !.tag = "partial"], p)
    <3>0. PICK t : t = [root EXCEPT !.tag = "partial"]
      OBVIOUS
    <3>1. /\ t \in Root /\ t.touched = root.touched
          /\ t.made = root.made /\ t.trusted = root.trusted
      BY <3>0, TagTyped
    <3>2. root' = TouchedBy(t, p)
      BY <2>2, <3>0
    <3>3. /\ root' \in Root /\ root'.touched = t.touched \cup {p}
          /\ root'.made = t.made /\ root'.trusted = t.trusted
      BY <3>1, <3>2, TouchTyped
    <3> QED
      BY <1>4, <2>2, <3>1, <3>3 DEF NoTagFile, Marks
  <2> QED
    BY <1>4, <2>1, <2>2 DEF CreateTag
<1>5. CASE WriteTag(p)
  <2>1. CASE UNCHANGED root
    BY <2>1
  <2>2. CASE handle[p] /\ root' = [root EXCEPT !.tag = "signed"]
    BY <1>5, <2>2, TagTyped DEF Signs
  <2> QED
    BY <1>5, <2>1, <2>2 DEF WriteTag
<1>6. CASE RemoveOld(p) \/ Delete(p)
  BY <1>6, TouchTyped DEF RemoveOld, Delete, Marks
<1>7. CASE Store(p)
  <2>1. CASE UNCHANGED root
    BY <2>1
  <2>2. CASE Exists /\ root' = TouchedBy(root, p)
    BY <1>7, <2>2, TouchTyped DEF Marks
  <2>3. ASSUME NEW private \in BOOLEAN, ~Exists, root' = TouchedBy(New("store", private), p)
        PROVE  root' \in Root /\ Makes(p)
    <3>1. PICK t \in Root : t = New("store", private) /\ t.made = "store"
      BY NewTyped DEF New
    <3>2. root' \in Root /\ root'.made = t.made
      BY <2>3, <3>1, TouchTyped
    <3> QED
      BY <1>7, <2>3, <3>1, <3>2 DEF Makes
  <2> QED
    BY <1>7, <2>1, <2>2, <2>3 DEF Store
<1> QED
  BY <1>1, <1>2, <1>3, <1>4, <1>5, <1>6, <1>7 DEF Step

\* Starting a sweep keeps the types.
LEMMA SpawnTyped ==
  ASSUME TypeOK, NEW p \in Proc, Spawn(p)
  PROVE  /\ sweep' \in [Proc -> {"none", "prune", "remove", "scan", "delete"}]
         /\ cleared' \in [Proc -> [open : BOOLEAN, sweep : BOOLEAN]]
<1>1. [cleared[p] EXCEPT !.sweep = cleared[p].open] \in [open : BOOLEAN, sweep : BOOLEAN]
  BY DEF TypeOK
<1> QED
  BY <1>1 DEF TypeOK, Spawn

\* A process's own steps keep the types.
LEMMA StepTyped ==
  ASSUME TypeOK, NEW p \in Proc, Step(p)
  PROVE  TypeOK'
<1>r. root' \in Root
  BY RootSteps DEF TypeOK
<1> USE DEF TypeOK, Goto
<1>1. CASE Resolve(p)
  BY <1>1, <1>r DEF Resolve
<1>2. CASE Mkdir(p)
  BY <1>2, <1>r DEF Mkdir, Made, Exists
<1>3. CASE MkdirFails(p)
  BY <1>3 DEF MkdirFails, Off
<1>4. CASE Check(p)
  BY <1>4 DEF Check, Off
<1>5. CASE CreateTag(p)
  BY <1>5, <1>r DEF CreateTag
<1>6. CASE WriteTag(p)
  BY <1>6, <1>r DEF WriteTag
<1>7. CASE Verify(p)
  BY <1>7 DEF Verify, Off
<1>8. CASE Load(p)
  BY <1>8 DEF Load
<1>9. CASE Store(p)
  BY <1>9, <1>r, SpawnTyped DEF Store
<1>10. CASE Cleanup(p)
  BY <1>10, SpawnTyped DEF Cleanup
<1>11. CASE Prune(p) \/ RemoveOld(p) \/ Scan(p) \/ Delete(p)
  BY <1>11, <1>r DEF Prune, RemoveOld, Scan, Delete
<1>12. CASE Crash(p)
  BY <1>12 DEF Crash
<1> QED
  BY <1>1, <1>2, <1>3, <1>4, <1>5, <1>6, <1>7, <1>8, <1>9, <1>10, <1>11, <1>12 DEF Step

\* Every step keeps the types.
LEMMA NextTyped == TypeOK /\ [Next]_vars => TypeOK'
<1> SUFFICES ASSUME TypeOK, [Next]_vars PROVE TypeOK'
  OBVIOUS
<1>1. CASE UNCHANGED vars
  BY <1>1 DEF TypeOK, vars
<1>2. CASE \E p \in Proc : Step(p)
  BY <1>2, StepTyped
<1>3. CASE Clear
  <2>1. Missing \in Root
    BY NewTyped DEF Missing
  <2> QED
    BY <1>3, <2>1, ModesAssumption DEF Clear, TypeOK
<1>4. CASE HostMakes
  <2>1. root' \in Root
    BY <1>4, OthersTyped DEF HostMakes
  <2> QED
    BY <1>4, <2>1 DEF HostMakes, TypeOK
<1> QED
  BY <1>1, <1>2, <1>3, <1>4, NextCases

\* Whatever processes, the host and the user do, the state is well typed; a
\* host's root is never remembered (default_root's OnceLock is not its own).
THEOREM TypeCorrect == Spec => []TypeOK
  BY InitTyped, NextTyped, PTL DEF Spec

-----------------------------------------------------------------------------

Usable == IsTagged /\ Trusted
Resolved == {"tag", "write", "tagged", "untagged"}

\* What p has found out about the root, as long as nobody deleted it since.
Known(p) ==
  /\ ((pc[p] \in {"load", "store"} \/ memo[p] = "on") /\ ~cleared[p].open) => Usable
  /\ (pc[p] \in Resolved /\ ~cleared[p].open) => Trusted
  /\ (sweep[p] # "none" /\ ~cleared[p].sweep) => Usable

\* The root p is about to tag is its own, or the default one; the file it has
\* open is in the root.
Entitled(p) ==
  /\ (pc[p] = "check" /\ created[p] /\ ~cleared[p].open) => Exists /\ root.made # "other"
  /\ (pc[p] = "tag" /\ ~cleared[p].open) => root.made # "other"
  /\ handle[p] => Exists /\ p \in root.touched

\* Somebody else's directory is only there for a host.
Foreign == root.made = "other" => mode = "host"

IInv == TypeOK /\ Foreign /\ \A p \in Proc : Known(p) /\ Entitled(p)

\* No step of a process takes away what makes the root usable, or makes it
\* somebody else's.
LEMMA StepKeepsRoot ==
  ASSUME TypeOK, NEW p \in Proc, Step(p)
  PROVE  /\ Usable => Usable'
         /\ Trusted => Trusted'
         /\ root.made # "other" => root'.made # "other"
         /\ Exists => Exists'
         /\ Exists => root.touched \subseteq root'.touched
         /\ UNCHANGED mode
<1>1. /\ root \in Root /\ root' \in Root
      /\ \/ UNCHANGED root
         \/ Makes(p)
         \/ WriteTag(p) /\ handle[p] /\ Signs
         \/ CreateTag(p) /\ Marks(p) /\ root.tag = "none"
         \/ (Store(p) \/ RemoveOld(p) \/ Delete(p)) /\ Marks(p) /\ root'.tag = root.tag
  BY RootSteps DEF TypeOK
<1>2. UNCHANGED mode
  BY DEF Step, Resolve, Mkdir, MkdirFails, Check, CreateTag, WriteTag, Verify, Load, Store,
     Cleanup, Prune, RemoveOld, Scan, Delete, Crash
<1> QED
  BY <1>1, <1>2 DEF Usable, IsTagged, Trusted, Exists, New, Makes, Signs, Marks

\* A process's step leaves alone what the others know.
LEMMA OthersKnow ==
  ASSUME IInv, NEW p \in Proc, Step(p), NEW q \in Proc \ {p}
  PROVE  Known(q)' /\ Entitled(q)'
<1>1. /\ pc'[q] = pc[q] /\ memo'[q] = memo[q] /\ sweep'[q] = sweep[q]
      /\ created'[q] = created[q] /\ cleared'[q] = cleared[q]
      /\ handle'[q] = handle[q]
  BY DEF IInv, TypeOK, Step, Resolve, Mkdir, MkdirFails, Check, CreateTag, WriteTag, Verify,
     Load, Store, Cleanup, Prune, RemoveOld, Scan, Delete, Crash, Goto, Off, Spawn
<1> QED
  BY <1>1, StepKeepsRoot DEF IInv, Known, Entitled

\* A process's step keeps what it knows true, or makes it know no more.
LEMMA SelfKnows ==
  ASSUME IInv, NEW p \in Proc, Step(p)
  PROVE  Known(p)' /\ Entitled(p)'
<1>k. TypeOK /\ Foreign /\ Known(p) /\ Entitled(p)
  BY DEF IInv
<1>s. /\ Usable => Usable'
      /\ Trusted => Trusted'
      /\ root.made # "other" => root'.made # "other"
      /\ Exists => Exists'
      /\ Exists => root.touched \subseteq root'.touched
      /\ UNCHANGED mode
  BY <1>k, StepKeepsRoot
<1> USE DEF TypeOK, Goto, Known, Entitled
<1>1. CASE Resolve(p)
  BY <1>1, <1>k, <1>s DEF Resolve, Resolved
<1>2. CASE Mkdir(p)
  BY <1>2, <1>k, <1>s DEF Mkdir, Made, Resolved, New, Exists
<1>3. CASE MkdirFails(p)
  BY <1>3, <1>k, <1>s DEF MkdirFails, Off, Resolved
<1>4. CASE Check(p)
  BY <1>4, <1>k, <1>s DEF Check, Off, Resolved, Passes, Adopt, Foreign
<1>5. CASE CreateTag(p)
  <2>1. handle'[p] => handle[p] \/ Marks(p)
    <3>1. root' = TouchedBy([root EXCEPT !.tag = "partial"], p) => root'.touched = root.touched \cup {p}
      BY <1>k DEF TouchedBy, Root
    <3>2. root' = TouchedBy([root EXCEPT !.tag = "partial"], p) =>
            root'.made = root.made /\ root'.trusted = root.trusted
      BY <1>k DEF TouchedBy, Root
    <3> QED
      BY <1>5, <3>1, <3>2 DEF CreateTag, Marks, NoTagFile
  <2> QED
    BY <1>5, <1>k, <1>s, <2>1 DEF CreateTag, Resolved, Marks, Exists
<1>6. CASE WriteTag(p)
  BY <1>6, <1>k, <1>s DEF WriteTag, Resolved
<1>7. CASE Verify(p)
  BY <1>7, <1>k, <1>s DEF Verify, Off, Resolved, Usable
<1>8. CASE Load(p)
  BY <1>8, <1>k, <1>s DEF Load, Resolved
<1>9. CASE Store(p)
  BY <1>9, <1>k, <1>s DEF Store, Spawn, Resolved
<1>10. CASE Cleanup(p)
  BY <1>10, <1>k, <1>s DEF Cleanup, Spawn, Resolved
<1>11. CASE Prune(p) \/ RemoveOld(p) \/ Scan(p) \/ Delete(p)
  BY <1>11, <1>k, <1>s DEF Prune, RemoveOld, Scan, Delete, Resolved
<1>12. CASE Crash(p)
  BY <1>12, <1>k, <1>s DEF Crash, Resolved
<1> QED
  BY <1>1, <1>2, <1>3, <1>4, <1>5, <1>6, <1>7, <1>8, <1>9, <1>10, <1>11, <1>12 DEF Step

\* No process makes a directory somebody else's.
LEMMA ForeignStep ==
  ASSUME IInv, NEW p \in Proc, Step(p)
  PROVE  Foreign'
  BY StepKeepsRoot DEF IInv, Foreign

\* The inductive invariant holds at first.
LEMMA InitInv == Init => IInv
<1> SUFFICES ASSUME Init PROVE IInv
  OBVIOUS
<1>1. Foreign
  <2>1. CASE root = Missing \/ root = [New("mkdir", TRUE) EXCEPT !.tag = "signed"]
    BY <2>1 DEF Foreign, Missing, New
  <2>2. CASE \E t \in BOOLEAN : root \in IF mode = "default" THEN {New("before", t)} ELSE Others(t)
    BY <2>2, ModesAssumption DEF Init, Foreign, New
  <2> QED
    BY <2>1, <2>2 DEF Init
<1>2. \A p \in Proc : Known(p) /\ Entitled(p)
  BY DEF Init, Known, Entitled, Resolved
<1> QED
  BY <1>1, <1>2, InitTyped DEF IInv

\* ... and is inductive.
LEMMA NextInv == IInv /\ [Next]_vars => IInv'
<1> SUFFICES ASSUME IInv, [Next]_vars PROVE IInv'
  OBVIOUS
<1>t. TypeOK'
  BY NextTyped DEF IInv
<1>1. CASE UNCHANGED vars
  BY <1>1, <1>t DEF vars, IInv, Foreign, Known, Entitled, Usable, IsTagged, Trusted, Exists
<1>2. ASSUME NEW p \in Proc, Step(p) PROVE IInv'
  BY <1>2, <1>t, SelfKnows, OthersKnow, ForeignStep DEF IInv
<1>3. CASE Clear
  <2>1. Foreign'
    BY <1>3 DEF Clear, Foreign, Missing, New
  <2>2. \A p \in Proc : /\ cleared'[p].open /\ cleared'[p].sweep
                         /\ ~handle'[p]
    BY <1>3 DEF Clear
  <2> QED
    BY <1>t, <2>1, <2>2 DEF IInv, Known, Entitled
<1>4. CASE HostMakes
  <2>1. ~Exists /\ ~Usable /\ ~Trusted /\ mode = "host"
    BY <1>4 DEF HostMakes, Usable, IsTagged, Trusted
  <2>2. Foreign'
    BY <1>4 DEF HostMakes, Foreign
  <2>3. UNCHANGED <<pc, memo, created, handle, sweep, cleared>>
    BY <1>4 DEF HostMakes
  <2>4. \A p \in Proc : Known(p)'
    BY <2>1, <2>3 DEF IInv, Known
  <2>5. \A p \in Proc : Entitled(p)'
    BY <2>1, <2>3 DEF IInv, Known, Entitled, Resolved
  <2> QED
    BY <1>t, <2>2, <2>4, <2>5 DEF IInv
<1> QED
  BY <1>1, <1>2, <1>3, <1>4, NextCases

\* ... and so holds throughout.
LEMMA InvAlways == Spec => []IInv
  BY InitInv, NextInv, PTL DEF Spec

\* UsesOnlyTagged, for every number of processes and deletions: what is read,
\* stored into, pruned or swept is a tagged directory no other user can change,
\* unless the user deleted it after it was resolved.
THEOREM OnlyTaggedUsed == Spec => []UsesOnlyTagged
<1>1. IInv => UsesOnlyTagged
  BY DEF IInv, Known, Usable, UsesOnlyTagged
<1> QED
  BY <1>1, InvAlways, PTL

\* HostsLeftAlone, for every number of processes and deletions: an open or a
\* sweep that writes to or deletes from somebody else's untagged directory is one
\* whose own root was deleted after it was resolved.
THEOREM HostsAreLeftAlone == Spec => HostsLeftAlone
<1> DEFINE Alone ==
      \A p \in Proc : (root'.made = "other" /\ p \in root'.touched \ root.touched) =>
                        \/ root.tag = "signed"
                        \/ IF pc'[p] # pc[p] THEN cleared[p].open ELSE cleared[p].sweep
<1>1. ASSUME IInv, [Next]_vars PROVE [Alone]_vars
  <2> SUFFICES ASSUME NEW p \in Proc, root'.made = "other", p \in root'.touched \ root.touched,
                      root.tag # "signed",
                      ~(IF pc'[p] # pc[p] THEN cleared[p].open ELSE cleared[p].sweep)
               PROVE  FALSE
    BY DEF Alone
  <2> USE <1>1
  <2>1. PICK q \in Proc : Step(q)
    <3>1. CASE UNCHANGED vars
      BY <3>1 DEF vars
    <3>2. CASE Clear
      BY <3>2 DEF Clear, Missing, New
    <3>3. CASE HostMakes
      BY <3>3, OthersTyped DEF HostMakes
    <3> QED
      BY <3>1, <3>2, <3>3, NextCases
  <2>2. /\ TypeOK /\ Foreign /\ root.made = "other" /\ root \in Root /\ Exists
        /\ \A x \in Proc : Known(x) /\ Entitled(x)
    BY <2>1, StepKeepsRoot DEF IInv, TypeOK, Exists
  <2>3. ~Usable
    BY DEF Usable, IsTagged
  <2>4. p = q /\ (CreateTag(q) \/ Store(q) \/ RemoveOld(q) \/ Delete(q))
    <3>1. ~Makes(q) /\ ~(UNCHANGED root) /\ ~Signs
      BY <2>2 DEF Makes, New, Signs
    <3>2. Marks(q) /\ (CreateTag(q) \/ Store(q) \/ RemoveOld(q) \/ Delete(q))
      BY <2>1, <2>2, <3>1, RootSteps
    <3> QED
      BY <3>2 DEF Marks
  <2>5. pc \in [Proc -> {"idle", "mkdir", "check", "tag", "write", "tagged", "untagged", "load",
                         "store"}]
    BY <2>2 DEF TypeOK
  <2>6. CASE CreateTag(q) \/ Store(q)
    BY <2>2, <2>3, <2>4, <2>5, <2>6 DEF CreateTag, Store, Goto, Known, Entitled
  <2>7. CASE RemoveOld(q) \/ Delete(q)
    BY <2>2, <2>3, <2>4, <2>7 DEF RemoveOld, Delete, Known
  <2> QED
    BY <2>4, <2>6, <2>7
<1> QED
  BY <1>1, InvAlways, PTL DEF Spec, HostsLeftAlone

\* TagLasts, for every number of processes and deletions: a step that leaves
\* the root its maker leaves it its tag (write_tag's create_new).
THEOREM TagsLast == Spec => TagLasts
<1> DEFINE Lasts == (IsTagged /\ root'.made = root.made) => IsTagged'
<1>1. ASSUME TypeOK, [Next]_vars PROVE [Lasts]_vars
  <2> SUFFICES ASSUME IsTagged, root'.made = root.made PROVE IsTagged'
    OBVIOUS
  <2>1. Exists /\ root.tag = "signed" /\ root \in Root /\ root.made # "nobody"
    BY <1>1 DEF IsTagged, Exists, TypeOK
  <2>2. SUFFICES root'.tag = "signed"
    BY <2>1 DEF IsTagged, Exists
  <2>3. ASSUME NEW p \in Proc, Step(p) PROVE root'.tag = "signed"
    BY <2>1, <2>3, RootSteps DEF Makes, Signs, Exists
  <2>4. CASE Clear \/ HostMakes \/ UNCHANGED vars
    BY <2>1, <2>4 DEF Clear, HostMakes, Missing, New, vars
  <2> QED
    BY <1>1, <2>3, <2>4, NextCases
<1> QED
  BY <1>1, TypeCorrect, PTL DEF Spec, TagLasts
=============================================================================
