-------------------------- MODULE DiskCacheProofs --------------------------
(***************************************************************************)
(* Machine-checked safety of the disk cache, for any number of keys,       *)
(* threads and processes, any budget and any clock.                        *)
(*                                                                         *)
(* TypeOK is inductive by itself.  What callers are answered is not: it    *)
(* rests on what every thread carries at every point of its call and on    *)
(* whose temp file a name denotes, which Carried and OwnTemps state.       *)
(***************************************************************************)
EXTENDS DiskCacheProps, Totals, TLAPS

-----------------------------------------------------------------------------
(* Types.                                                                  *)

\* The times of a cache are times: the clock starts at 0 and stays within its
\* bound.
LEMMA ZeroTime == 0 \in Time
  BY ConstantsTyped DEF ConstantsTyped, Time

\* The records every thread starts from are typed.
LEMMA EmptyTyped == NoOpen \in OpenCall /\ NoTemp \in TempFile /\ NoSweep \in SweepSlot
  BY ZeroTime DEF NoOpen, NoTemp, NoSweep, OpenCall, TempFile, SweepSlot, OpenPC, SweepPC

\* The cache starts in a typed state.
LEMMA InitTyped == Init => TypeOK
  BY ZeroTime, EmptyTyped DEF Init, TypeOK, StateTyped, CallsTyped, Payload, At, Storing, NoOpen

\* A sweep slot emptied or newly claimed is typed: spawn_sweep and the drop
\* of a Sweep.
LEMMA SweepSlotTyped ==
  ASSUME TypeOK, NEW p \in Proc, NEW gate \in {"Interval", "Now"},
         SpawnSweep(p, gate) \/ ReleaseSweep(p)
  PROVE  running' \subseteq Proc /\ sweep' \in [Proc -> SweepSlot]
<1>1. [NoSweep EXCEPT !.pc = "gate", !.gate = gate] \in SweepSlot
  BY EmptyTyped DEF SweepSlot, SweepPC
<1> QED
  BY <1>1, EmptyTyped DEF TypeOK, StateTyped, SpawnSweep, ReleaseSweep, sweepVars

\* The steps of a call to open_with_cache keep the types.
LEMMA OpenTyped ==
  ASSUME TypeOK, NEW o \in Opener,
         (\E k \in Key : Begin(o, k)) \/ Stress(o) \/ OpenStep(o) \/ Return(o)
  PROVE  StateTyped'
<1> USE DEF TypeOK, StateTyped
<1>z. /\ ~At(o, "idle") => open[o].key \in Key
      /\ Storing(o) => open[o].name \in Name
  BY DEF CallsTyped
<1>v. At(o, "write") => open[o].val \in Payload
  BY DEF CallsTyped, Storing
<1>a. /\ open[o] \in OpenCall
      /\ \A pc \in OpenPC : [open EXCEPT ![o].pc = pc] \in [Opener -> OpenCall]
  BY DEF OpenCall
<1>b. \A pc \in OpenPC, n \in Name \cup {NoKey} :
         [open EXCEPT ![o].pc = pc, ![o].name = n] \in [Opener -> OpenCall]
  <2> TAKE pc \in OpenPC, n \in Name \cup {NoKey}
  <2>1. [open[o] EXCEPT !.pc = pc, !.name = n] \in OpenCall
    BY <1>a DEF OpenCall
  <2>2. [open EXCEPT ![o].pc = pc, ![o].name = n]
          = [open EXCEPT ![o] = [open[o] EXCEPT !.pc = pc, !.name = n]]
    BY <1>a DEF OpenCall
  <2> QED
    BY <2>1, <2>2
<1>c. \A pc \in OpenPC, v \in Payload :
         [open EXCEPT ![o].pc = pc, ![o].val = v] \in [Opener -> OpenCall]
  <2> TAKE pc \in OpenPC, v \in Payload
  <2>1. [open[o] EXCEPT !.pc = pc, !.val = v] \in OpenCall
    BY <1>a DEF OpenCall
  <2>2. [open EXCEPT ![o].pc = pc, ![o].val = v]
          = [open EXCEPT ![o] = [open[o] EXCEPT !.pc = pc, !.val = v]]
    BY <1>a DEF OpenCall
  <2> QED
    BY <2>1, <2>2
<1>e. \A pc \in OpenPC, v \in Payload, t \in Time :
         [open EXCEPT ![o].pc = pc, ![o].val = v, ![o].at = t]
           \in [Opener -> OpenCall]
  <2> TAKE pc \in OpenPC, v \in Payload, t \in Time
  <2>1. [open[o] EXCEPT !.pc = pc, !.val = v, !.at = t] \in OpenCall
    BY <1>a DEF OpenCall
  <2>2. [open EXCEPT ![o].pc = pc, ![o].val = v, ![o].at = t]
          = [open EXCEPT ![o] = [open[o] EXCEPT !.pc = pc, !.val = v, !.at = t]]
    BY <1>a DEF OpenCall
  <2> QED
    BY <2>1, <2>2
<1>d. {"load", "touch", "compute", "mktemp", "write", "persist", "trigger",
       "return"} \subseteq OpenPC
  BY DEF OpenPC
<1>1. ASSUME NEW k \in Key, Begin(o, k) PROVE StateTyped'
  <2>1. [NoOpen EXCEPT !.pc = "load", !.key = k] \in OpenCall
    BY EmptyTyped, <1>d DEF OpenCall
  <2> QED
    BY <1>1, <2>1 DEF Begin
<1>2. CASE Stress(o)
  BY <1>2 DEF Stress
<1>3. CASE LoadCapped(o)
  <2> DEFINE k == open[o].key
  <2>1. CASE Readable(k)
    <3>1. mtime[k] \in Time /\ file[k] \in Payload
      BY <1>3, <2>1, <1>z DEF LoadCapped, Readable, At
    <3>2. open' \in [Opener -> OpenCall]
      BY <1>3, <2>1, <3>1, <1>d, <1>e DEF LoadCapped
    <3> QED
      BY <1>3, <3>2 DEF LoadCapped
  <2>2. CASE ~Readable(k)
    BY <1>3, <2>2, <1>a, <1>d DEF LoadCapped
  <2> QED
    BY <2>1, <2>2
<1>4. CASE TouchLru(o)
  <2>1. open[o].key \in Key
    BY <1>4, <1>z DEF TouchLru, At
  <2>2. mtime' \in [Key -> Time] /\ lastUse' \in [Key -> Time] /\ missed' \subseteq Key
    BY <1>4, <2>1 DEF TouchLru
  <2>3. open' \in [Opener -> OpenCall]
    BY <1>4, <1>a, <1>d DEF TouchLru, Goto
  <2> QED
    BY <1>4, <2>2, <2>3 DEF TouchLru
<1>5. CASE Compute(o)
  <2>1. PICK r \in Computed(o) :
          open' = [open EXCEPT ![o].pc = IF r.stored THEN "mktemp" ELSE "return",
                               ![o].val = r.val]
    BY <1>5 DEF Compute
  <2>2. r.val \in Payload
    <3>1. open[o].key \in Key
      BY <1>5, <1>z DEF Compute, At
    <3> QED
      BY <3>1 DEF Computed, Payload
  <2>3. (IF r.stored THEN "mktemp" ELSE "return") \in OpenPC
    BY DEF OpenPC
  <2>4. open' \in [Opener -> OpenCall]
    BY <2>1, <2>2, <2>3, <1>c
  <2> QED
    BY <1>5, <2>4 DEF Compute
<1>6. CASE StoreRefused(o)
  BY <1>6, <1>a, <1>d DEF StoreRefused, Goto
<1>7. CASE MakeTemp(o)
  <2>1. PICK n \in Name :
          /\ temp' = [temp EXCEPT ![n] = [val |-> Torn, at |-> now,
                                          key |-> open[o].key]]
          /\ open' = [open EXCEPT ![o].pc = "write", ![o].name = n]
    BY <1>7 DEF MakeTemp
  <2>2. [val |-> Torn, at |-> now, key |-> open[o].key] \in TempFile
    BY <1>7, <1>z DEF MakeTemp, TempFile, At
  <2>3. open' \in [Opener -> OpenCall] /\ temp' \in [Name -> TempFile]
    BY <2>1, <2>2, <1>b, <1>d
  <2> QED
    BY <1>7, <2>3 DEF MakeTemp
<1>8. CASE WriteTemp(o)
  <2> DEFINE n == open[o].name
  <2>1. n \in Name
    BY <1>8, <1>z DEF WriteTemp, At, Storing
  <2>2. CASE temp[n].val = Absent
    BY <1>8, <2>2, <1>a, <1>d DEF WriteTemp, Goto
  <2>3. CASE temp[n].val # Absent
    <3>1. open[o].val \in Payload
      BY <1>8, <1>v DEF WriteTemp, At
    <3>2. [temp EXCEPT ![n].val = open[o].val, ![n].at = now] \in [Name -> TempFile]
      BY <2>1, <3>1 DEF TempFile
    <3> QED
      BY <1>8, <2>3, <3>2, <1>a, <1>d DEF WriteTemp, Goto
  <2> QED
    BY <2>2, <2>3
<1>9. CASE StoreAborted(o)
  BY <1>9, <1>b, <1>d, <1>z, EmptyTyped DEF StoreAborted
<1>10. CASE Persist(o)
  <2> DEFINE k == open[o].key
             n == open[o].name
  <2>1. n \in Name /\ k \in Key
    BY <1>10, <1>z DEF Persist, At, Storing
  <2>4. \A pc \in {"return", "trigger"} :
          [open EXCEPT ![o].pc = pc, ![o].name = NoKey] \in [Opener -> OpenCall]
    BY <1>b, <1>d
  <2>2. CASE temp[n].val = Absent
    BY <1>10, <2>2, <2>4 DEF Persist
  <2>3. CASE temp[n].val # Absent
    <3>1. temp[n].at \in Time /\ temp[n].val \in Payload \cup {Absent, Torn}
      BY <2>1 DEF TempFile
    <3>2. open' \in [Opener -> OpenCall] /\ temp' \in [Name -> TempFile]
      <4>1. open' \in [Opener -> OpenCall]
        BY <1>10, <2>4 DEF Persist
      <4>2. [temp EXCEPT ![n] = NoTemp] \in [Name -> TempFile]
        BY <2>1, EmptyTyped
      <4> QED
        BY <1>10, <2>3, <4>1, <4>2 DEF Persist
    <3>3. /\ file' \in [Key -> Payload \cup {Absent, Torn, Bad}]
          /\ mtime' \in [Key -> Time] /\ lastUse' \in [Key -> Time] /\ missed' \subseteq Key
      BY <1>10, <2>1, <2>3, <3>1 DEF Persist
    <3> QED
      BY <1>10, <3>2, <3>3 DEF Persist
  <2> QED
    BY <2>2, <2>3
<1>11. CASE MaybeTriggerSweep(o)
  BY <1>11, <1>a, <1>d, SweepSlotTyped, ConstantsTyped
  DEF MaybeTriggerSweep, Goto, sweepVars, ConstantsTyped
<1>12. CASE Return(o)
  BY <1>12, EmptyTyped DEF Return
<1> QED
  BY <1>1, <1>2, <1>3, <1>4, <1>5, <1>6, <1>7, <1>8, <1>9, <1>10, <1>11, <1>12
  DEF OpenStep

\* ... and leave every call in progress with its key and temp file.
LEMMA OpenKeyed ==
  ASSUME TypeOK, NEW o \in Opener,
         (\E k \in Key : Begin(o, k)) \/ Stress(o) \/ OpenStep(o) \/ Return(o)
  PROVE  CallsTyped'
<1>1. ASSUME NEW x \in Opener, x # o PROVE open'[x] = open[x]
  BY <1>1
  DEF TypeOK, StateTyped, Begin, Stress, OpenStep, LoadCapped, TouchLru, Goto,
      Compute, StoreRefused, MakeTemp, WriteTemp, StoreAborted, Persist,
      MaybeTriggerSweep, Return
<1>2. /\ open'[o].pc # "idle" => open'[o].key \in Key
      /\ open'[o].pc \in {"write", "persist"} => open'[o].name \in Name
      /\ open'[o].pc \in {"mktemp", "write", "persist"} => open'[o].val \in Payload
  <2> USE DEF TypeOK, StateTyped, CallsTyped, At, Storing, OpenCall
  <2>1. CASE \E k \in Key : Begin(o, k)
    <3>1. PICK k \in Key :
            open' = [open EXCEPT ![o] = [NoOpen EXCEPT !.pc = "load", !.key = k]]
      BY <2>1 DEF Begin
    <3>2. open'[o] = [NoOpen EXCEPT !.pc = "load", !.key = k]
      BY <3>1
    <3> QED
      BY <3>2 DEF NoOpen
  <2>2. CASE Stress(o) \/ LoadCapped(o) \/ TouchLru(o)
    BY <2>2 DEF Stress, LoadCapped, TouchLru, Goto
  <2>3. CASE Compute(o)
    <3>1. PICK r \in Computed(o) :
            open' = [open EXCEPT ![o].pc = IF r.stored THEN "mktemp" ELSE "return",
                                 ![o].val = r.val]
      BY <2>3 DEF Compute
    <3>2. open[o].key \in Key
      BY <2>3 DEF Compute
    <3>3. r.val \in Payload
      BY <3>2 DEF Computed, Payload
    <3>4. /\ open'[o].pc \in {"mktemp", "return"}
          /\ open'[o].key = open[o].key /\ open'[o].val = r.val
      BY <3>1
    <3> QED
      BY <3>2, <3>3, <3>4
  <2>7. CASE StoreRefused(o)
    BY <2>7 DEF StoreRefused, Goto
  <2>4. CASE MakeTemp(o) \/ WriteTemp(o)
    BY <2>4 DEF MakeTemp, WriteTemp, Goto
  <2>5. CASE StoreAborted(o) \/ Persist(o)
    BY <2>5 DEF StoreAborted, Persist
  <2>6. CASE MaybeTriggerSweep(o) \/ Return(o)
    BY <2>6 DEF MaybeTriggerSweep, Goto, Return, NoOpen
  <2> QED
    BY <2>1, <2>2, <2>3, <2>4, <2>5, <2>6, <2>7 DEF OpenStep
<1> QED
  BY <1>1, <1>2 DEF TypeOK, CallsTyped, At, Storing

\* The steps of a sweep, of the host and of the world keep the types.
LEMMA SweepTyped ==
  ASSUME TypeOK, NEW p \in Proc, Cleanup(p) \/ SweepStep(p) \/ Crash(p)
  PROVE  StateTyped'
<1> USE DEF TypeOK, StateTyped
<1>a. sweep[p] \in SweepSlot
  OBVIOUS
<1>1. CASE Cleanup(p)
  BY <1>1, SweepSlotTyped DEF Cleanup
<1>2. CASE SweepSkipped(p)
  BY <1>2, SweepSlotTyped DEF SweepSkipped
<1>3. CASE SweepStarts(p)
  BY <1>3, <1>a DEF SweepStarts, SweepPC, SweepSlot
<1>4. CASE Collect(p)
  <2>1. sweep' \in [Proc -> SweepSlot]
    <3>1. PICK seen \in Some(Present, {"list"}) :
            sweep' = [sweep EXCEPT ![p] =
              [@ EXCEPT !.pc = "age", !.at = now, !.kept = seen, !.stamp = mtime,
                        !.todo = {k \in seen : Since(now, mtime[k]) > MaxAge}]]
      BY <1>4 DEF Collect
    <3>2. seen \subseteq Key
      BY DEF Some, Present
    <3> QED
      BY <1>a, <3>1, <3>2 DEF SweepPC, SweepSlot
  <2>2. temp' \in [Name -> TempFile]
    <3>1. PICK gone : temp' = [n \in Name |-> IF n \in gone THEN NoTemp ELSE temp[n]]
      BY <1>4 DEF Collect
    <3> QED
      BY <3>1, EmptyTyped
  <2> QED
    BY <1>4, <2>1, <2>2 DEF Collect
<1>5. CASE AgeDone(p)
  BY <1>5, <1>a DEF AgeDone, SweepPC, SweepSlot
<1>6. CASE EvictDone(p)
  BY <1>6, <1>a DEF EvictDone, SweepPC, SweepSlot
<1>7. CASE MarkDone(p)
  BY <1>7, SweepSlotTyped DEF MarkDone
<1>8. ASSUME NEW k \in Key, AgeDrop(p, k) PROVE StateTyped'
  <2>1. sweep' \in [Proc -> SweepSlot]
    <3>1. PICK ok \in RemoveOutcome(k) :
            sweep' = [sweep EXCEPT ![p].todo = @ \ {k},
                                   ![p].kept = IF ok THEN @ \ {k} ELSE @]
      BY <1>8 DEF AgeDrop
    <3>2. \A t, u \in SUBSET Key :
            [sweep EXCEPT ![p].todo = t, ![p].kept = u] \in [Proc -> SweepSlot]
      BY <1>a DEF SweepSlot
    <3>3. /\ sweep[p].todo \ {k} \in SUBSET Key
          /\ (IF ok THEN sweep[p].kept \ {k} ELSE sweep[p].kept) \in SUBSET Key
      BY <1>a DEF SweepSlot
    <3> QED
      BY <3>1, <3>2, <3>3
  <2> QED
    BY <1>8, <2>1, ZeroTime DEF AgeDrop, Unlink
<1>9. ASSUME NEW k \in Key, EvictOldest(p, k) PROVE StateTyped'
  <2>1. sweep' \in [Proc -> SweepSlot]
    <3>1. PICK ok \in RemoveOutcome(k) :
            sweep' = [sweep EXCEPT ![p].kept = @ \ {k},
                                   ![p].left = IF ok THEN @ \ {k} ELSE @]
      BY <1>9 DEF EvictOldest
    <3>2. \A t, u \in SUBSET Key :
            [sweep EXCEPT ![p].kept = t, ![p].left = u] \in [Proc -> SweepSlot]
      BY <1>a DEF SweepSlot
    <3>3. /\ sweep[p].kept \ {k} \in SUBSET Key
          /\ (IF ok THEN sweep[p].left \ {k} ELSE sweep[p].left) \in SUBSET Key
      BY <1>a DEF SweepSlot
    <3> QED
      BY <3>1, <3>2, <3>3
  <2> QED
    BY <1>9, <2>1, ZeroTime DEF EvictOldest, Unlink
<1>10. CASE Crash(p)
  BY <1>10, SweepSlotTyped, EmptyTyped DEF Crash
<1> QED
  BY <1>1, <1>2, <1>3, <1>4, <1>5, <1>6, <1>7, <1>8, <1>9, <1>10 DEF SweepStep

\* ... and disturb no call except those they end.
LEMMA SweepKeyed ==
  ASSUME TypeOK, NEW p \in Proc, Cleanup(p) \/ SweepStep(p) \/ Crash(p)
  PROVE  CallsTyped'
<1>1. CASE UNCHANGED open
  BY <1>1 DEF TypeOK, CallsTyped, At, Storing
<1>2. CASE Crash(p)
  BY <1>2 DEF TypeOK, CallsTyped, At, Storing, Crash, NoOpen
<1> QED
  BY <1>1, <1>2
  DEF Cleanup, SweepStep, SweepSkipped, SweepStarts, Collect, AgeDone,
      EvictDone, MarkDone, AgeDrop, EvictOldest

\* Every step keeps the types.
LEMMA NextTyped == TypeOK /\ [Next]_vars => TypeOK'
<1> SUFFICES ASSUME TypeOK, [Next]_vars PROVE TypeOK'
  OBVIOUS
<1>1. CASE \E k \in Key : Damaged(k)
  BY <1>1 DEF TypeOK, StateTyped, CallsTyped, At, Storing, Damaged
<1>2. CASE Tick
  <2>1. StateTyped'
    BY <1>2, ConstantsTyped DEF TypeOK, StateTyped, ConstantsTyped, Tick, Time
  <2>2. CallsTyped'
    BY <1>2 DEF TypeOK, CallsTyped, At, Storing, Tick
  <2> QED
    BY <2>1, <2>2 DEF TypeOK
<1>3. CASE UNCHANGED vars
  BY <1>3 DEF TypeOK, StateTyped, CallsTyped, At, Storing, vars
<1>4. ASSUME NEW o \in Opener,
             (\E k \in Key : Begin(o, k)) \/ Stress(o) \/ OpenStep(o) \/ Return(o)
      PROVE  TypeOK'
  BY <1>4, OpenTyped, OpenKeyed DEF TypeOK
<1>5. ASSUME NEW p \in Proc, Cleanup(p) \/ SweepStep(p) \/ Crash(p)
      PROVE  TypeOK'
  BY <1>5, SweepTyped, SweepKeyed DEF TypeOK
<1> QED
  BY <1>1, <1>2, <1>3, <1>4, <1>5 DEF Next

\* Type correctness of cache.rs and sweep.rs as modelled: every file, temp
\* file, call and sweep holds a value of its kind in every reachable state.
THEOREM TypeCorrect == Spec => []TypeOK
  BY InitTyped, NextTyped, PTL DEF Spec

-----------------------------------------------------------------------------
(* Content addressing.                                                     *)

\* From the moment a call has a payload to touch or to store, it is its own
\* key's; and it holds a temp file's name exactly while it is storing.
Carried ==
  \A o \in Opener :
    /\ open[o].pc \in {"touch", "mktemp", "write", "persist", "trigger"}
         => open[o].val = open[o].key
    /\ Storing(o) <=> open[o].name # NoKey

\* No two calls hold one temp file, and what a call is about to rename into
\* place is what it wrote, unless a sweep unlinked it.
OwnTemps ==
  /\ \A x, y \in Opener :
       (x # y /\ open[x].name # NoKey) => open[x].name # open[y].name
  /\ \A o \in Opener :
       At(o, "persist") =>
         temp[open[o].name].val \in {Absent, open[o].val}

\* The inductive strengthening of EntriesSound and AnswersSound.
SoundInv == TypeOK /\ EntriesSound /\ AnswersSound /\ Carried /\ OwnTemps

\* The cache starts sound.
LEMMA InitSound == Init => SoundInv
  BY InitTyped
  DEF Init, SoundInv, EntriesSound, AnswersSound, Carried, OwnTemps, NoOpen,
      At, Storing

\* What a thread's own step needs to know of the others: they do not move.
LEMMA OthersStill ==
  ASSUME TypeOK, NEW o \in Opener,
         (\E k \in Key : Begin(o, k)) \/ Stress(o) \/ OpenStep(o) \/ Return(o)
  PROVE  \A x \in Opener \ {o} :
           open'[x] = open[x] /\ (x \in stress => x \in stress')
  BY DEF TypeOK, StateTyped, Begin, Stress, OpenStep, LoadCapped, TouchLru,
         Goto, Compute, StoreRefused, MakeTemp, WriteTemp, StoreAborted,
         Persist, MaybeTriggerSweep, Return

\* The steps of a call that leave files and temp files alone.
LEMMA QuietStepSound ==
  ASSUME SoundInv, NEW o \in Opener, UNCHANGED <<file, temp>>,
         TypeOK',
         \/ \E k \in Key : Begin(o, k)
         \/ Stress(o) \/ LoadCapped(o) \/ TouchLru(o) \/ Compute(o)
         \/ StoreRefused(o) \/ MaybeTriggerSweep(o) \/ Return(o)
  PROVE  SoundInv'
<1> USE DEF SoundInv
<1>1. \A x \in Opener \ {o} : open'[x] = open[x] /\ (x \in stress => x \in stress')
  BY OthersStill DEF OpenStep
<1>2. /\ open'[o].pc \in {"touch", "mktemp", "trigger"}
           => open'[o].val = open'[o].key
      /\ \/ open'[o].pc \notin {"write", "persist"} /\ open'[o].name = NoKey
         \/ open'[o] = open[o]
      /\ open'[o].pc = "return" => \/ open'[o].val = open'[o].key
                                   \/ open'[o].val = Degraded /\ o \in stress'
  <2> USE DEF TypeOK, StateTyped, AnswersSound, Carried, At, Storing, OpenCall
  <2>1. CASE \E k \in Key : Begin(o, k)
    <3>1. PICK k \in Key :
            open' = [open EXCEPT ![o] = [NoOpen EXCEPT !.pc = "load", !.key = k]]
      BY <2>1 DEF Begin
    <3>2. open'[o] = [NoOpen EXCEPT !.pc = "load", !.key = k]
      BY <3>1
    <3> QED
      BY <3>2 DEF NoOpen
  <2>2. CASE Stress(o)
    BY <2>2 DEF Stress
  <2>3. CASE LoadCapped(o)
    <3>1. open[o].key \in Key
      BY <2>3 DEF LoadCapped, CallsTyped
    <3>2. Readable(open[o].key) => file[open[o].key] = open[o].key
      BY <3>1, ConstantsDistinct
      DEF EntriesSound, Readable, Payload, ConstantsDistinct, Mark
    <3> QED
      BY <2>3, <3>2 DEF LoadCapped
  <2>4. CASE TouchLru(o)
    BY <2>4 DEF TouchLru, Goto
  <2>5. CASE Compute(o)
    <3>1. PICK r \in Computed(o) :
            open' = [open EXCEPT ![o].pc = IF r.stored THEN "mktemp" ELSE "return",
                                 ![o].val = r.val]
      BY <2>5 DEF Compute
    <3>2. \/ r.stored /\ r.val = open[o].key
          \/ ~r.stored /\ r.val = Degraded /\ o \in stress
      BY DEF Computed
    <3>3. /\ open'[o].pc = (IF r.stored THEN "mktemp" ELSE "return")
          /\ open'[o].val = r.val /\ open'[o].key = open[o].key
          /\ open'[o].name = open[o].name
      BY <3>1
    <3> QED
      BY <2>5, <3>2, <3>3 DEF Compute
  <2>6. CASE StoreRefused(o)
    BY <2>6 DEF StoreRefused, Goto
  <2>7. CASE MaybeTriggerSweep(o)
    BY <2>7 DEF MaybeTriggerSweep, Goto
  <2>8. CASE Return(o)
    BY <2>8 DEF Return, NoOpen
  <2> QED
    BY <2>1, <2>2, <2>3, <2>4, <2>5, <2>6, <2>7, <2>8
<1>3. EntriesSound'
  BY DEF EntriesSound
<1>4. AnswersSound'
  BY <1>1, <1>2 DEF AnswersSound
<1>5. Carried'
  BY <1>1, <1>2 DEF Carried, At, Storing
<1>6. OwnTemps'
  BY <1>1, <1>2 DEF OwnTemps, Carried, At, Storing
<1> QED
  BY <1>3, <1>4, <1>5, <1>6

\* The steps of a store: temp file, write, rename, or giving up.
LEMMA StoreStepSound ==
  ASSUME SoundInv, NEW o \in Opener, TypeOK',
         MakeTemp(o) \/ WriteTemp(o) \/ StoreAborted(o) \/ Persist(o)
  PROVE  SoundInv'
<1> USE DEF SoundInv
<1> DEFINE n == open[o].name
           k == open[o].key
<1>1. \A x \in Opener \ {o} : open'[x] = open[x] /\ (x \in stress => x \in stress')
  BY OthersStill DEF OpenStep
<1>2. /\ k \in Key /\ open[o].val = k
      /\ open'[o].val = open[o].val /\ open'[o].key = k
  BY DEF TypeOK, StateTyped, CallsTyped, Carried, OpenCall, At, Storing,
         MakeTemp, WriteTemp, StoreAborted, Persist, Goto
<1>3. NoKey \notin Name /\ Absent # Torn
  BY ConstantsDistinct DEF ConstantsDistinct, Mark
<1>4. AnswersSound'
  BY <1>1, <1>2 DEF AnswersSound
<1>5. CASE MakeTemp(o)
  <2>1. PICK m \in Name :
          /\ NameFree(m)
          /\ temp' = [temp EXCEPT ![m] = [val |-> Torn, at |-> now, key |-> k]]
          /\ open' = [open EXCEPT ![o].pc = "write", ![o].name = m]
    BY <1>5 DEF MakeTemp
  <2>2. open'[o].pc = "write" /\ open'[o].name = m
    BY <2>1 DEF TypeOK, StateTyped, OpenCall
  <2>3. EntriesSound' /\ Carried'
    BY <1>1, <1>2, <1>3, <1>5, <2>2
    DEF EntriesSound, MakeTemp, Carried, At, Storing
  <2>4. \A x \in Opener : open[x].name # m
    BY <2>1 DEF NameFree
  <2>5. \A x \in Opener \ {o} :
          At(x, "persist") => temp'[open[x].name] = temp[open[x].name]
    BY <2>1, <2>4 DEF TypeOK, StateTyped, CallsTyped, Storing
  <2>6. \A x, y \in Opener :
          (x # y /\ open'[x].name # NoKey) => open'[x].name # open'[y].name
    BY <1>1, <2>2, <2>4 DEF OwnTemps
  <2>7. \A x \in Opener :
          open'[x].pc = "persist" => temp'[open'[x].name].val \in {Absent, open'[x].val}
    BY <1>1, <2>2, <2>5 DEF OwnTemps, At
  <2>8. OwnTemps'
    BY <2>6, <2>7 DEF OwnTemps, At
  <2> QED
    BY <1>4, <2>3, <2>8
<1>6. CASE WriteTemp(o)
  <2>1. open'[o].pc = "persist" /\ open'[o].name = n
    BY <1>6 DEF WriteTemp, Goto, TypeOK, StateTyped, OpenCall
  <2>2. EntriesSound' /\ Carried'
    BY <1>1, <1>2, <1>6, <2>1 DEF EntriesSound, WriteTemp, Carried, At, Storing
  <2>3. n \in Name
    BY <1>6 DEF WriteTemp, At, Storing, TypeOK, CallsTyped
  <2>4. temp'[n].val \in {Absent, open[o].val}
    BY <1>6, <2>3 DEF WriteTemp, TypeOK, StateTyped, TempFile
  <2>5. \A m \in Name \ {n} : temp'[m] = temp[m]
    BY <1>6, <2>3 DEF WriteTemp, TypeOK, StateTyped
  <2>6. \A x \in Opener \ {o} :
          At(x, "persist") => open[x].name \in Name /\ open[x].name # n
    BY <1>3, <2>3 DEF OwnTemps, TypeOK, CallsTyped, Storing
  <2>7. OwnTemps'
    BY <1>1, <1>2, <2>1, <2>4, <2>5, <2>6 DEF OwnTemps, At
  <2> QED
    BY <1>4, <2>2, <2>7
<1>7. CASE StoreAborted(o) \/ Persist(o)
  <2>1. Storing(o)
    BY <1>7 DEF StoreAborted, Persist, Storing
  <2>2. n \in Name
    BY <2>1 DEF TypeOK, CallsTyped
  <2>3. open'[o].pc \in {"return", "trigger"} /\ open'[o].name = NoKey
    BY <1>7 DEF StoreAborted, Persist, TypeOK, StateTyped, OpenCall
  <2>4. Carried'
    BY <1>1, <1>2, <2>3 DEF Carried, At, Storing
  <2>5. \A m \in Name \ {n} : temp'[m] = temp[m]
    BY <1>7, <2>2 DEF StoreAborted, Persist, TypeOK, StateTyped
  <2>6. \A x \in Opener \ {o} :
          At(x, "persist") => open[x].name \in Name /\ open[x].name # n
    BY <1>3, <2>2 DEF OwnTemps, TypeOK, CallsTyped, Storing
  <2>7. OwnTemps'
    BY <1>1, <1>2, <2>3, <2>5, <2>6 DEF OwnTemps, At
  <2>8. EntriesSound'
    <3>1. CASE UNCHANGED file
      BY <3>1 DEF EntriesSound
    <3>2. CASE Persist(o) /\ temp[n].val # Absent /\ ~UNCHANGED file
      <4>1. temp[n].val = k
        BY <1>2, <3>2 DEF OwnTemps, Persist
      <4>2. file' = [file EXCEPT ![k] = k]
        BY <3>2, <4>1 DEF Persist
      <4> QED
        BY <1>2, <4>2 DEF EntriesSound, TypeOK, StateTyped
    <3> QED
      BY <1>7, <3>1, <3>2 DEF StoreAborted, Persist
  <2> QED
    BY <1>4, <2>4, <2>7, <2>8
<1> QED
  BY <1>5, <1>6, <1>7

\* Sweeps, the host and the world: entries and temp files only disappear or
\* stop decoding, and calls only end.
LEMMA WorldStepSound ==
  ASSUME SoundInv, TypeOK',
         \A x \in Opener :
           \/ open'[x] = NoOpen
           \/ open'[x] = open[x] /\ (x \in stress => x \in stress'),
         \A k \in Key : file'[k] \in {file[k], Absent, Bad},
         \A n \in Name : temp'[n] \in {temp[n], NoTemp}
  PROVE  SoundInv'
<1> USE DEF SoundInv
<1>1. EntriesSound'
  BY DEF EntriesSound
<1>2. AnswersSound'
  BY DEF AnswersSound, NoOpen
<1>3. Carried'
  BY DEF Carried, NoOpen, At, Storing
<1>4. OwnTemps'
  <2>1. \A x, y \in Opener :
          (x # y /\ open'[x].name # NoKey) => open'[x].name # open'[y].name
    BY DEF OwnTemps, NoOpen
  <2>2. ASSUME NEW x \in Opener, open'[x].pc = "persist"
        PROVE  temp'[open'[x].name].val \in {Absent, open'[x].val}
    <3>1. open'[x] = open[x]
      BY <2>2 DEF NoOpen
    <3>2. open[x].name \in Name /\ temp[open[x].name].val \in {Absent, open[x].val}
      BY <2>2, <3>1 DEF OwnTemps, At, Storing, TypeOK, CallsTyped
    <3> QED
      BY <3>1, <3>2 DEF NoTemp
  <2> QED
    BY <2>1, <2>2 DEF OwnTemps, At
<1> QED
  BY <1>1, <1>2, <1>3, <1>4

\* Every step keeps the cache sound.
LEMMA NextSound == SoundInv /\ [Next]_vars => SoundInv'
<1> SUFFICES ASSUME SoundInv, [Next]_vars PROVE SoundInv'
  OBVIOUS
<1>1. TypeOK'
  BY NextTyped DEF SoundInv
<1>2. ASSUME NEW o \in Opener,
             (\E k \in Key : Begin(o, k)) \/ Stress(o) \/ OpenStep(o) \/ Return(o)
      PROVE  SoundInv'
  <2>1. CASE MakeTemp(o) \/ WriteTemp(o) \/ StoreAborted(o) \/ Persist(o)
    BY <1>1, <2>1, StoreStepSound
  <2>2. CASE ~(MakeTemp(o) \/ WriteTemp(o) \/ StoreAborted(o) \/ Persist(o))
    <3>1. UNCHANGED <<file, temp>>
      BY <1>2, <2>2
      DEF Begin, Stress, OpenStep, LoadCapped, TouchLru, Compute, StoreRefused,
          MaybeTriggerSweep, Return
    <3> QED
      BY <1>1, <1>2, <2>2, <3>1, QuietStepSound DEF OpenStep
  <2> QED
    BY <2>1, <2>2
<1>3. CASE \/ \E p \in Proc : Cleanup(p) \/ SweepStep(p) \/ Crash(p)
           \/ (\E k \in Key : Damaged(k)) \/ Tick \/ UNCHANGED vars
  <2> USE DEF SoundInv, TypeOK, StateTyped
  <2>1. \A x \in Opener : \/ open'[x] = NoOpen
                          \/ open'[x] = open[x] /\ (x \in stress => x \in stress')
    <3>1. CASE UNCHANGED <<open, stress>>
      BY <3>1
    <3>2. CASE \E p \in Proc : Crash(p)
      <4>1. PICK p \in Proc : Crash(p)
        BY <3>2
      <4>2. ASSUME NEW x \in Opener
            PROVE  \/ open'[x] = NoOpen
                   \/ open'[x] = open[x] /\ (x \in stress => x \in stress')
        BY <4>1 DEF Crash
      <4> QED
        BY <4>2
    <3> QED
      BY <1>3, <3>1, <3>2
      DEF Cleanup, SweepStep, SweepSkipped, SweepStarts, Collect, AgeDone,
          EvictDone, MarkDone, AgeDrop, EvictOldest, Damaged, Tick, vars
  <2>2. \A k \in Key : file'[k] \in {file[k], Absent, Bad}
    <3>1. CASE UNCHANGED file
      BY <3>1
    <3>2. ASSUME NEW j \in Key, Unlink(j) \/ Damaged(j)
          PROVE  \A k \in Key : file'[k] \in {file[k], Absent, Bad}
      BY <3>2 DEF Unlink, Damaged
    <3> QED
      BY <1>3, <3>1, <3>2
      DEF Cleanup, SweepStep, SweepSkipped, SweepStarts, Collect, AgeDone,
          EvictDone, MarkDone, AgeDrop, EvictOldest, Crash, Tick, vars
  <2>3. \A n \in Name : temp'[n] \in {temp[n], NoTemp}
    BY <1>3
    DEF Cleanup, SweepStep, SweepSkipped, SweepStarts, Collect, AgeDone,
        EvictDone, MarkDone, AgeDrop, EvictOldest, Crash, Damaged, Tick, vars
  <2> QED
    BY <1>1, <2>1, <2>2, <2>3, WorldStepSound
<1> QED
  BY <1>2, <1>3 DEF Next

\* Content addressing holds whatever the interleaving of stores, sweeps,
\* deaths and damage (store_at_path, load_capped): what a key's path holds is
\* the key's own payload or does not decode.
THEOREM EntriesAreSound == Spec => []EntriesSound
<1>1. SoundInv => EntriesSound
  BY DEF SoundInv
<1> QED
  BY <1>1, InitSound, NextSound, PTL DEF Spec

\* What open_with_cache_in returns is its key's own payload, or a degraded one
\* this very call computed.
THEOREM AnswersAreSound == Spec => []AnswersSound
<1>1. SoundInv => AnswersSound
  BY DEF SoundInv
<1> QED
  BY <1>1, InitSound, NextSound, PTL DEF Spec

-----------------------------------------------------------------------------
(* The sweep's gate and its claim.                                         *)

\* A marker that says done names the last sweep that ran to completion: the
\* inductive strengthening of DeadSweepNotBooked.
DoneMarkerIsTrue == TypeOK /\ (marker.mark = "d" => lastDone = marker.at)

\* A sweep is put off for a day only by one that finished, and for an hour
\* only by one that started (due, write_marker), whatever dies in between.
THEOREM DeadSweepsAreNotBooked == Spec => []DeadSweepNotBooked
<1>1. Init => DoneMarkerIsTrue
  BY InitTyped DEF Init, DoneMarkerIsTrue
<1>2. DoneMarkerIsTrue /\ [Next]_vars => DoneMarkerIsTrue'
  <2> SUFFICES ASSUME DoneMarkerIsTrue, [Next]_vars PROVE DoneMarkerIsTrue'
    OBVIOUS
  <2>1. TypeOK'
    BY NextTyped DEF DoneMarkerIsTrue
  <2>2. CASE UNCHANGED <<marker, lastDone>>
    BY <2>1, <2>2 DEF DoneMarkerIsTrue
  <2>3. ASSUME NEW p \in Proc, SweepStarts(p) \/ MarkDone(p)
        PROVE  DoneMarkerIsTrue'
    BY <2>1, <2>3 DEF DoneMarkerIsTrue, SweepStarts, MarkDone
  <2> QED
    BY <2>2, <2>3
    DEF Next, vars, Begin, Stress, OpenStep, LoadCapped, TouchLru, Compute,
        StoreRefused, MakeTemp, WriteTemp, StoreAborted, Persist,
        MaybeTriggerSweep, Return, Cleanup, SweepStep, SweepSkipped, Collect,
        AgeDone, EvictDone, AgeDrop, EvictOldest, Crash, Damaged, Tick
<1>3. DoneMarkerIsTrue => DeadSweepNotBooked
  <2> SUFFICES ASSUME DoneMarkerIsTrue, ~Due PROVE DeadSweepNotBooked
    BY DEF DeadSweepNotBooked
  <2>1. /\ now \in Int /\ marker.at \in Nat /\ marker.mark \in {"none", "s", "d"}
        /\ SweepInterval \in Nat /\ RetryInterval \in Nat
    BY ConstantsTyped
    DEF ConstantsTyped, DoneMarkerIsTrue, TypeOK, StateTyped, Time
  <2>2. CASE marker.mark = "d"
    BY <2>1, <2>2 DEF Due, DoneMarkerIsTrue, DeadSweepNotBooked
  <2>3. CASE marker.mark = "s"
    BY <2>1, <2>3 DEF Due, DeadSweepNotBooked
  <2> QED
    BY <2>1, <2>2, <2>3 DEF Due
<1> QED
  BY <1>1, <1>2, <1>3, PTL DEF Spec

\* A root is in RUNNING exactly while its sweep thread lives: no early return,
\* failed spawn or death leaves it claimed (Sweep::claim, Drop for Sweep).
THEOREM ClaimsMatch == Spec => []ClaimsMatchSweeps
<1> DEFINE Inv == TypeOK /\ ClaimsMatchSweeps
<1>1. Init => Inv
  BY InitTyped DEF Init, ClaimsMatchSweeps, NoSweep
<1>2. Inv /\ [Next]_vars => Inv'
  <2> SUFFICES ASSUME Inv, [Next]_vars PROVE Inv'
    OBVIOUS
  <2>1. TypeOK'
    BY NextTyped
  <2>2. CASE UNCHANGED sweepVars
    BY <2>1, <2>2 DEF ClaimsMatchSweeps, sweepVars
  <2>3. ASSUME NEW p \in Proc, NEW gate \in {"Interval", "Now"},
               SpawnSweep(p, gate) \/ ReleaseSweep(p)
        PROVE  Inv'
    <3>1. CASE UNCHANGED sweepVars
      BY <2>2, <3>1
    <3>2. CASE /\ running' = running \cup {p}
               /\ sweep' = [sweep EXCEPT ![p] = [NoSweep EXCEPT !.pc = "gate",
                                                                !.gate = gate]]
      <4>1. [NoSweep EXCEPT !.pc = "gate", !.gate = gate].pc = "gate"
        BY DEF NoSweep
      <4> QED
        BY <2>1, <3>2, <4>1 DEF ClaimsMatchSweeps, TypeOK, StateTyped
    <3>3. CASE ReleaseSweep(p)
      <4>1. NoSweep.pc = "idle"
        BY DEF NoSweep
      <4> QED
        BY <2>1, <3>3, <4>1
        DEF ClaimsMatchSweeps, TypeOK, StateTyped, ReleaseSweep
    <3> QED
      BY <2>3, <3>1, <3>2, <3>3 DEF SpawnSweep
  <2>4. ASSUME NEW p \in Proc, UNCHANGED running, sweep[p].pc # "idle",
               \A q \in Proc \ {p} : sweep'[q] = sweep[q], sweep'[p].pc # "idle"
        PROVE  Inv'
    BY <2>1, <2>4 DEF ClaimsMatchSweeps
  <2>5. ASSUME NEW p \in Proc, SweepStep(p) PROVE Inv'
    <3>1. CASE SweepSkipped(p) \/ MarkDone(p)
      BY <2>3, <3>1 DEF SweepSkipped, MarkDone
    <3>2. CASE ~(SweepSkipped(p) \/ MarkDone(p))
      <4>1. /\ UNCHANGED running /\ sweep[p].pc # "idle"
            /\ \A q \in Proc \ {p} : sweep'[q] = sweep[q]
        BY <2>5, <3>2
        DEF SweepStep, SweepStarts, Collect, AgeDone, EvictDone, AgeDrop,
            EvictOldest, TypeOK, StateTyped
      <4>2. sweep'[p].pc # "idle"
        <5> USE DEF TypeOK, StateTyped, SweepSlot
        <5>1. CASE SweepStarts(p) \/ EvictDone(p)
          BY <5>1 DEF SweepStarts, EvictDone
        <5>2. CASE Collect(p)
          BY <5>2 DEF Collect
        <5>3. CASE AgeDone(p)
          BY <5>3 DEF AgeDone
        <5>4. CASE \E k \in Key : AgeDrop(p, k)
          BY <5>4 DEF AgeDrop
        <5>5. CASE \E k \in Key : EvictOldest(p, k)
          BY <5>5 DEF EvictOldest
        <5> QED
          BY <2>5, <3>2, <5>1, <5>2, <5>3, <5>4, <5>5 DEF SweepStep
      <4> QED
        BY <2>4, <4>1, <4>2
    <3> QED
      BY <3>1, <3>2
  <2>6. ASSUME NEW o \in Opener, MaybeTriggerSweep(o) PROVE Inv'
    BY <2>2, <2>3, <2>6, ConstantsTyped DEF MaybeTriggerSweep, ConstantsTyped
  <2>7. ASSUME NEW p \in Proc, Cleanup(p) \/ Crash(p) PROVE Inv'
    BY <2>3, <2>7 DEF Cleanup, Crash
  <2> QED
    BY <2>2, <2>5, <2>6, <2>7
    DEF Next, vars, sweepVars, Begin, Stress, OpenStep, LoadCapped, TouchLru,
        Compute, StoreRefused, MakeTemp, WriteTemp, StoreAborted, Persist,
        Return, Damaged, Tick
<1>3. Inv => ClaimsMatchSweeps
  OBVIOUS
<1> QED
  BY <1>1, <1>2, <1>3, PTL DEF Spec

-----------------------------------------------------------------------------
(* What a sweep deletes: the times of entries, and what a scan keeps of    *)
(* them.                                                                   *)

\* No time lies ahead, and an entry's mtime is behind its last use by less than
\* a touch interval, unless its last touch failed.
Touched ==
  \A k \in Key :
    /\ mtime[k] <= now /\ lastUse[k] <= now
    /\ file[k] # Absent =>
         /\ mtime[k] <= lastUse[k]
         /\ k \in missed \/ lastUse[k] = mtime[k] \/ lastUse[k] - mtime[k] < TouchInterval

\* The mtime a call has read is not later than that of the file it touches, and
\* the temp file of a store is as old as the moment.
Moments ==
  \A o \in Opener :
    /\ At(o, "touch") =>
         /\ open[o].at <= now
         /\ file[open[o].key] # Absent => open[o].at <= mtime[open[o].key]
    /\ Storing(o) => (temp[open[o].name].val # Absent => temp[open[o].name].at = now)

UseInv == TypeOK /\ Touched /\ Moments

\* Steps that date nothing: entries and temp files are left or deleted, and no
\* call gets to a touch or a store.
LEMMA UndatedStep ==
  ASSUME UseInv, TypeOK', UNCHANGED <<now, lastUse, missed>>,
         \A k \in Key : \/ file'[k] = Absent /\ mtime'[k] = 0
                        \/ file[k] # Absent /\ mtime'[k] = mtime[k]
                        \/ file'[k] = file[k] /\ mtime'[k] = mtime[k],
         \A n \in Name : temp'[n] = temp[n] \/ temp'[n].val = Absent,
         \A o \in Opener : \/ open'[o] = open[o]
                           \/ open'[o].pc \notin {"touch", "write", "persist"}
  PROVE  UseInv'
<1> USE DEF UseInv
<1>1. Touched'
  BY DEF Touched, TypeOK, StateTyped, Time
<1>2. Moments'
  <2> SUFFICES ASSUME NEW o \in Opener
               PROVE  /\ At(o, "touch")' =>
                           /\ open'[o].at <= now'
                           /\ file'[open'[o].key] # Absent =>
                                open'[o].at <= mtime'[open'[o].key]
                      /\ Storing(o)' => (temp'[open'[o].name].val # Absent =>
                                           temp'[open'[o].name].at = now')
    BY DEF Moments, At, Storing
  <2>1. /\ At(o, "touch")' => open[o].key \in Key /\ open'[o] = open[o] /\ At(o, "touch")
        /\ Storing(o)' => Storing(o) /\ open[o].name \in Name /\ open'[o].name = open[o].name
    BY DEF TypeOK, CallsTyped, At, Storing
  <2> QED
    BY <2>1 DEF Moments
<1> QED
  BY <1>1, <1>2

\* The steps of a call to open_with_cache keep the times in order.
LEMMA OpenUse ==
  ASSUME Prompt, UseInv, TypeOK', NEW o \in Opener,
         (\E k \in Key : Begin(o, k)) \/ Stress(o) \/ OpenStep(o) \/ Return(o)
  PROVE  UseInv'
<1> USE DEF UseInv
<1>a. /\ \A x \in Opener \ {o} : open'[x] = open[x]
      /\ now' = now /\ now \in Nat
      /\ ~At(o, "idle") => open[o].key \in Key
      /\ Storing(o) => open[o].name \in Name
  <2>1. \A x \in Opener \ {o} : open'[x] = open[x]
    BY OthersStill
  <2>2. now' = now
    BY DEF Begin, Stress, OpenStep, LoadCapped, TouchLru, Compute, StoreRefused, MakeTemp,
       WriteTemp, StoreAborted, Persist, MaybeTriggerSweep, Return
  <2> QED
    BY <2>1, <2>2 DEF TypeOK, StateTyped, CallsTyped, Time
<1>1. CASE \/ \E k \in Key : Begin(o, k)
           \/ Compute(o) \/ StoreRefused(o) \/ MaybeTriggerSweep(o) \/ Return(o) \/ Stress(o)
  <2>1. UNCHANGED <<file, mtime, temp, lastUse, missed>>
    BY <1>1 DEF Begin, Stress, Compute, StoreRefused, MaybeTriggerSweep, Return
  <2>2. open'[o] = open[o] \/ open'[o].pc \notin {"touch", "write", "persist"}
    <3>1. CASE Compute(o)
      <4>1. PICK r \in Computed(o) :
              open' = [open EXCEPT ![o].pc = IF r.stored THEN "mktemp" ELSE "return",
                                   ![o].val = r.val]
        BY <3>1 DEF Compute
      <4>2. open'[o].pc = IF r.stored THEN "mktemp" ELSE "return"
        BY <4>1 DEF TypeOK, StateTyped, OpenCall
      <4> QED
        BY <4>2
    <3>2. CASE \E k \in Key : Begin(o, k)
      <4>1. PICK k \in Key : Begin(o, k)
        BY <3>2
      <4>2. open'[o] = [NoOpen EXCEPT !.pc = "load", !.key = k]
        BY <4>1 DEF Begin, TypeOK, StateTyped
      <4> QED
        BY <4>2 DEF NoOpen
    <3>3. CASE Return(o)
      BY <3>3 DEF Return, NoOpen, TypeOK, StateTyped
    <3>4. CASE StoreRefused(o) \/ MaybeTriggerSweep(o) \/ Stress(o)
      BY <3>4 DEF StoreRefused, MaybeTriggerSweep, Stress, Goto, TypeOK, StateTyped, OpenCall
    <3> QED
      BY <1>1, <3>1, <3>2, <3>3, <3>4
  <2> QED
    BY <1>a, <2>1, <2>2, UndatedStep
<1>2. CASE LoadCapped(o)
  <2>1. UNCHANGED <<now, file, mtime, temp, lastUse, missed>>
    BY <1>2 DEF LoadCapped
  <2>2. \/ open'[o].pc = "compute"
        \/ /\ open'[o].pc = "touch" /\ open'[o].key = open[o].key
           /\ open'[o].at = mtime[open[o].key]
    BY <1>2 DEF LoadCapped, TypeOK, StateTyped, OpenCall
  <2>3. mtime[open[o].key] <= now
    BY <1>2, <1>a DEF LoadCapped, At, Touched
  <2>4. mtime[open[o].key] \in Int
    BY <1>2, <1>a DEF LoadCapped, At, TypeOK, StateTyped, Time
  <2>5. Touched'
    BY <2>1 DEF Touched
  <2>6. Moments'
    BY <1>a, <2>1, <2>2, <2>3, <2>4 DEF Moments, At, Storing
  <2> QED
    BY <2>5, <2>6
<1>3. CASE TouchLru(o)
  <2> DEFINE k == open[o].key
  <2>1. k \in Key /\ UNCHANGED <<now, file, temp>> /\ open'[o].pc = "return"
    BY <1>3, <1>a DEF TouchLru, At, Goto, TypeOK, StateTyped, OpenCall
  <2>2. open[o].at <= now /\ (file[k] # Absent => open[o].at <= mtime[k])
    BY <1>3 DEF TouchLru, Moments
  <2>3. /\ lastUse' = [lastUse EXCEPT ![k] = now]
        /\ \/ mtime' = [mtime EXCEPT ![k] = now] /\ missed' = missed \ {k}
           \/ mtime' = mtime /\ missed' = missed \cup {k}
           \/ mtime' = mtime /\ missed' = missed /\ file[k] = Absent
           \/ mtime' = mtime /\ missed' = missed /\ ~(now - open[o].at >= TouchInterval)
    BY <1>3 DEF TouchLru, Stale
  <2>4. /\ open[o].at \in Nat /\ mtime \in [Key -> Nat] /\ lastUse \in [Key -> Nat]
        /\ TouchInterval \in Nat
    BY ConstantsTyped DEF TypeOK, StateTyped, OpenCall, Time, ConstantsTyped
  <2>5. Touched'
    BY <1>a, <2>1, <2>2, <2>3, <2>4 DEF Touched
  <2>6. \A j \in Key : mtime[j] <= mtime'[j]
    BY <1>a, <2>3, <2>4 DEF Touched
  <2>7. Moments'
    <3> SUFFICES ASSUME NEW x \in Opener \ {o}
                 PROVE  /\ At(x, "touch") =>
                             /\ open[x].at <= now
                             /\ file[open[x].key] # Absent =>
                                  open[x].at <= mtime'[open[x].key]
                        /\ Storing(x) => (temp[open[x].name].val # Absent =>
                                             temp[open[x].name].at = now)
      BY <1>a, <2>1 DEF Moments, At, Storing
    <3>1. At(x, "touch") => open[x].key \in Key /\ open[x].at \in Nat
      BY DEF TypeOK, StateTyped, CallsTyped, At, OpenCall, Time
    <3>2. mtime' \in [Key -> Nat]
      BY DEF TypeOK, StateTyped, Time
    <3> QED
      BY <2>4, <2>6, <3>1, <3>2 DEF Moments
  <2> QED
    BY <2>5, <2>7
<1>4. CASE MakeTemp(o) \/ WriteTemp(o)
  <2>1. UNCHANGED <<now, file, mtime, lastUse, missed>>
    BY <1>4 DEF MakeTemp, WriteTemp
  <2>2. \A n \in Name : temp'[n] = temp[n] \/ temp'[n].at = now
    BY <1>4 DEF MakeTemp, WriteTemp, TypeOK, StateTyped, TempFile
  <2>3. open'[o].pc \in {"write", "persist"} /\ open'[o].name \in Name
    BY <1>4, <1>a DEF MakeTemp, WriteTemp, Goto, Storing, At, TypeOK, StateTyped, OpenCall
  <2>4. temp'[open'[o].name].val # Absent => temp'[open'[o].name].at = now
    <3>1. CASE MakeTemp(o)
      BY <3>1 DEF MakeTemp, TypeOK, StateTyped, OpenCall
    <3>2. CASE WriteTemp(o)
      <4>1. open'[o].name = open[o].name /\ open[o].name \in Name
        BY <3>2, <1>a DEF WriteTemp, Goto, Storing, TypeOK, StateTyped, OpenCall
      <4>2. CASE temp[open[o].name].val = Absent
        BY <3>2, <4>1, <4>2 DEF WriteTemp
      <4>3. CASE temp[open[o].name].val # Absent
        <5>1. temp' = [temp EXCEPT ![open[o].name] =
                         [temp[open[o].name] EXCEPT !.val = open[o].val, !.at = now]]
          BY <3>2, <4>1, <4>3 DEF WriteTemp, TypeOK, StateTyped, TempFile
        <5> QED
          BY <4>1, <5>1 DEF TypeOK, StateTyped, TempFile
      <4> QED
        BY <4>2, <4>3
    <3> QED
      BY <1>4, <3>1, <3>2
  <2>5. Moments'
    <3> SUFFICES ASSUME NEW x \in Opener \ {o}
                 PROVE  /\ At(x, "touch") =>
                             /\ open[x].at <= now
                             /\ file[open[x].key] # Absent =>
                                  open[x].at <= mtime[open[x].key]
                        /\ Storing(x) => (temp'[open[x].name].val # Absent =>
                                             temp'[open[x].name].at = now)
      BY <1>a, <2>1, <2>3, <2>4 DEF Moments, At, Storing
    <3>1. Storing(x) => open[x].name \in Name
      BY DEF TypeOK, CallsTyped
    <3> QED
      BY <2>2, <3>1 DEF Moments
  <2> QED
    BY <2>1, <2>5 DEF Touched
<1>5. CASE StoreAborted(o)
  <2>1. /\ UNCHANGED <<file, mtime, lastUse, missed>> /\ open'[o].pc = "return"
        /\ temp' = [temp EXCEPT ![open[o].name] = NoTemp]
    BY <1>5 DEF StoreAborted, TypeOK, StateTyped, OpenCall
  <2>2. \A n \in Name : temp'[n] = temp[n] \/ temp'[n].val = Absent
    BY <2>1 DEF NoTemp, TypeOK, StateTyped
  <2> QED
    BY <1>a, <2>1, <2>2, UndatedStep
<1>6. CASE Persist(o)
  <2> DEFINE k == open[o].key
             n == open[o].name
  <2>1. CASE temp[n].val = Absent
    <3>1. UNCHANGED <<file, mtime, temp, lastUse, missed>> /\ open'[o].pc = "return"
      BY <1>6, <2>1 DEF Persist, TypeOK, StateTyped, OpenCall
    <3> QED
      BY <1>a, <3>1, UndatedStep
  <2>2. CASE UNCHANGED <<file, mtime, lastUse, missed>> /\ temp' = [temp EXCEPT ![n] = NoTemp]
    <3>1. open'[o].pc = "trigger" \/ open'[o].pc = "return"
      BY <1>6 DEF Persist, TypeOK, StateTyped, OpenCall
    <3>2. \A m \in Name : temp'[m] = temp[m] \/ temp'[m].val = Absent
      BY <2>2 DEF NoTemp, TypeOK, StateTyped
    <3> QED
      BY <1>a, <2>2, <3>1, <3>2, UndatedStep
  <2>3. CASE /\ temp[n].val # Absent
             /\ file' = [file EXCEPT ![k] = temp[n].val]
             /\ mtime' = [mtime EXCEPT ![k] = temp[n].at]
             /\ temp' = [temp EXCEPT ![n] = NoTemp]
             /\ lastUse' = [lastUse EXCEPT ![k] = now]
             /\ missed' = missed \ {k}
    <3>1. k \in Key /\ n \in Name /\ temp[n].at = now
      BY <1>6, <1>a, <2>3 DEF Persist, Storing, At, Moments
    <3>2. /\ file' = [file EXCEPT ![k] = temp[n].val]
          /\ mtime' = [mtime EXCEPT ![k] = now]
          /\ lastUse' = [lastUse EXCEPT ![k] = now]
          /\ missed' = missed \ {k}
          /\ temp' = [temp EXCEPT ![n] = NoTemp]
          /\ open'[o].pc = "trigger"
      BY <1>6, <2>3, <3>1 DEF Persist, TypeOK, StateTyped, OpenCall
    <3>3. /\ mtime \in [Key -> Nat] /\ lastUse \in [Key -> Nat]
      BY DEF TypeOK, StateTyped, Time
    <3>4. Touched'
      BY <1>a, <3>1, <3>2, <3>3 DEF Touched, TypeOK, StateTyped
    <3>5. Moments'
      <4> SUFFICES ASSUME NEW x \in Opener \ {o}
                   PROVE  /\ At(x, "touch") =>
                               /\ open[x].at <= now
                               /\ file'[open[x].key] # Absent =>
                                    open[x].at <= mtime'[open[x].key]
                          /\ Storing(x) => (temp'[open[x].name].val # Absent =>
                                               temp'[open[x].name].at = now)
        BY <1>a, <3>2 DEF Moments, At, Storing
      <4>1. At(x, "touch") => open[x].key \in Key
        BY DEF TypeOK, CallsTyped, At
      <4>2. Storing(x) => open[x].name \in Name
        BY DEF TypeOK, CallsTyped
      <4>3. ASSUME At(x, "touch")
            PROVE  open[x].at <= now /\ (file'[open[x].key] # Absent =>
                                           open[x].at <= mtime'[open[x].key])
        BY <4>1, <4>3, <3>2, <3>3 DEF Moments, TypeOK, StateTyped
      <4>4. temp'[n].val = Absent /\ \A m \in Name \ {n} : temp'[m] = temp[m]
        BY <3>1, <3>2 DEF NoTemp, TypeOK, StateTyped
      <4> QED
        BY <4>2, <4>3, <4>4 DEF Moments
    <3> QED
      BY <3>4, <3>5
  <2> QED
    BY <1>6, <2>1, <2>2, <2>3 DEF Persist
<1> QED
  BY <1>1, <1>2, <1>3, <1>4, <1>5, <1>6 DEF OpenStep

\* Ages are exact to a touch interval: an entry whose touches did not fail is,
\* if too old for the age pass, unused for nearly that long.
LEMMA AgedUnused ==
  ASSUME UseInv, NEW k \in Key, file[k] # Absent, k \notin missed, Since(now, mtime[k]) > MaxAge
  PROVE  now - lastUse[k] > MaxAge - TouchInterval
<1>1. /\ now \in Nat /\ mtime[k] \in Nat /\ lastUse[k] \in Nat
      /\ MaxAge \in Nat /\ TouchInterval \in Nat
  BY ConstantsTyped DEF ConstantsTyped, UseInv, TypeOK, StateTyped, Time
<1>2. lastUse[k] = mtime[k] \/ lastUse[k] - mtime[k] < TouchInterval
  BY DEF UseInv, Touched
<1> QED
  BY <1>1, <1>2 DEF Since

\* What a scan has noted: of two entries it kept the older was not in use much
\* later, unless its touch failed or it was used since.
Scanned ==
  \A p \in Proc : sweep[p].pc \in {"age", "evict"} =>
    /\ sweep[p].at <= now
    /\ \A k, j \in sweep[p].kept :
         (sweep[p].stamp[k] <= sweep[p].stamp[j] /\ TouchInterval > 0) =>
           \/ k \in missed \/ lastUse[k] >= sweep[p].at
           \/ lastUse[k] - lastUse[j] < TouchInterval

\* What a scan leaves of the other sweeps and in its own lists.
LEMMA CollectNotes ==
  ASSUME TypeOK, NEW p \in Proc, Collect(p)
  PROVE  /\ \A q \in Proc \ {p} : sweep'[q] = sweep[q]
         /\ sweep'[p].pc = "age"
         /\ sweep'[p].at = now /\ sweep'[p].kept \subseteq Present /\ sweep'[p].stamp = mtime
         /\ sweep'[p].todo = {k \in sweep'[p].kept : Since(now, mtime[k]) > MaxAge}
         /\ UNCHANGED <<now, file, mtime, lastUse, missed, open>>
<1> USE DEF TypeOK, StateTyped
<1>1. PICK seen \in Some(Present, {"list"}) :
        sweep' = [sweep EXCEPT ![p] =
          [@ EXCEPT !.pc = "age", !.at = now, !.kept = seen, !.stamp = mtime,
                    !.todo = {k \in seen : Since(now, mtime[k]) > MaxAge}]]
  BY DEF Collect
<1>2. seen \subseteq Present
  BY DEF Some
<1>3. UNCHANGED <<now, file, mtime, lastUse, missed, open>>
  BY DEF Collect
<1>4. \A q \in Proc \ {p} : sweep'[q] = sweep[q]
  BY <1>1
<1>5. sweep[p] \in SweepSlot /\ sweep'[p] =
        [sweep[p] EXCEPT !.pc = "age", !.at = now, !.kept = seen, !.stamp = mtime,
                         !.todo = {k \in seen : Since(now, mtime[k]) > MaxAge}]
  BY <1>1
<1>6. /\ sweep'[p].at = now /\ sweep'[p].kept = seen /\ sweep'[p].stamp = mtime
      /\ sweep'[p].todo = {k \in seen : Since(now, mtime[k]) > MaxAge}
      /\ sweep'[p].pc = "age"
  BY <1>5 DEF SweepSlot
<1> QED
  BY <1>2, <1>3, <1>4, <1>6

\* The scan notes it as the entries are.
LEMMA CollectScans ==
  ASSUME UseInv, Scanned, NEW p \in Proc, Collect(p)
  PROVE  Scanned'
<1> USE DEF UseInv, TypeOK, StateTyped, Time
<1>1. /\ \A q \in Proc \ {p} : sweep'[q] = sweep[q]
      /\ sweep'[p].at = now /\ sweep'[p].kept \subseteq Present /\ sweep'[p].stamp = mtime
      /\ UNCHANGED <<now, lastUse, missed>>
  BY CollectNotes
<1>2. /\ now \in Nat /\ mtime \in [Key -> Nat] /\ lastUse \in [Key -> Nat]
      /\ MaxAge \in Nat /\ TouchInterval \in Nat
  BY ConstantsTyped DEF ConstantsTyped
<1>4. \A k, j \in sweep'[p].kept :
        (sweep'[p].stamp[k] <= sweep'[p].stamp[j] /\ TouchInterval > 0) =>
          k \in missed \/ lastUse[k] - lastUse[j] < TouchInterval
  BY <1>1, <1>2 DEF Present, Touched
<1> QED
  BY <1>1, <1>2, <1>4 DEF Scanned

\* Later uses are of the moment, and a scan's lists only get shorter.
LEMMA ScansLast ==
  ASSUME TypeOK, TypeOK', Scanned, now' >= now,
         \A k \in Key : lastUse'[k] = lastUse[k] \/ lastUse'[k] = now',
         \A k \in missed : k \in missed' \/ lastUse'[k] = now',
         \A p \in Proc :
           \/ sweep'[p].pc \notin {"age", "evict"}
           \/ /\ sweep[p].pc \in {"age", "evict"}
              /\ sweep'[p].at = sweep[p].at /\ sweep'[p].stamp = sweep[p].stamp
              /\ sweep'[p].todo \subseteq sweep[p].todo
              /\ sweep'[p].kept \subseteq sweep[p].kept
  PROVE  Scanned'
<1>1. /\ now \in Nat /\ now' \in Nat /\ lastUse \in [Key -> Nat] /\ lastUse' \in [Key -> Nat]
      /\ MaxAge \in Nat /\ TouchInterval \in Nat
      /\ \A k \in Key : lastUse[k] <= lastUse'[k] \/ lastUse'[k] = now'
  BY ConstantsTyped DEF ConstantsTyped, TypeOK, StateTyped, Time
<1>2. SUFFICES ASSUME NEW p \in Proc, sweep'[p].pc \in {"age", "evict"}
               PROVE  /\ sweep'[p].at <= now'
                      /\ \A k, j \in sweep'[p].kept :
                           (sweep'[p].stamp[k] <= sweep'[p].stamp[j] /\ TouchInterval > 0) =>
                             \/ k \in missed' \/ lastUse'[k] >= sweep'[p].at
                             \/ lastUse'[k] - lastUse'[j] < TouchInterval
  BY DEF Scanned
<1>3. /\ sweep[p].pc \in {"age", "evict"}
      /\ sweep'[p].at = sweep[p].at /\ sweep'[p].stamp = sweep[p].stamp
      /\ sweep'[p].todo \subseteq sweep[p].todo
      /\ sweep'[p].kept \subseteq sweep[p].kept
  BY <1>2
<1>4. /\ sweep[p].at \in Nat /\ sweep[p].kept \subseteq Key
      /\ sweep[p].at <= now
  BY <1>3 DEF TypeOK, StateTyped, SweepSlot, Time, Scanned
<1>6. ASSUME NEW k \in sweep'[p].kept, NEW j \in sweep'[p].kept,
             sweep'[p].stamp[k] <= sweep'[p].stamp[j], TouchInterval > 0
      PROVE  \/ k \in missed' \/ lastUse'[k] >= sweep'[p].at
             \/ lastUse'[k] - lastUse'[j] < TouchInterval
  <2>1. k \in Key /\ j \in Key /\ k \in sweep[p].kept /\ j \in sweep[p].kept
    BY <1>3, <1>4
  <2>2. /\ lastUse'[k] = lastUse[k] \/ lastUse'[k] = now'
        /\ lastUse'[j] = lastUse[j] \/ lastUse'[j] = now'
    BY <2>1
  <2>3. k \in missed \/ lastUse[k] >= sweep[p].at \/ lastUse[k] - lastUse[j] < TouchInterval
    BY <1>3, <1>6, <2>1 DEF Scanned
  <2>5. k \in missed => k \in missed' \/ lastUse'[k] = now'
    BY <2>1
  <2>4. lastUse'[k] >= now' \/ lastUse'[k] = lastUse[k]
    BY <1>1, <2>1, <2>2
  <2> QED
    BY <1>1, <1>3, <1>4, <2>1, <2>2, <2>3, <2>4, <2>5
<1> QED
  BY <1>1, <1>3, <1>4, <1>6

\* Claiming, releasing and dying leave a sweep idle or at its gate.
LEMMA ClaimSteps ==
  ASSUME TypeOK, NEW p \in Proc, Cleanup(p) \/ SweepSkipped(p) \/ MarkDone(p) \/ Crash(p)
  PROVE  \A q \in Proc : sweep'[q] = sweep[q] \/ sweep'[q].pc \in {"idle", "gate"}
<1> USE DEF TypeOK, StateTyped
<1>1. sweep' = sweep \/ \E gate \in {"Interval", "Now"} :
        sweep' = [sweep EXCEPT ![p] = [NoSweep EXCEPT !.pc = "gate", !.gate = gate]]
      \/ sweep' = [sweep EXCEPT ![p] = NoSweep]
  BY DEF Cleanup, SpawnSweep, SweepSkipped, MarkDone, Crash, ReleaseSweep, sweepVars
<1>2. NoSweep.pc = "idle" /\ \A gate \in {"Interval", "Now"} :
        [NoSweep EXCEPT !.pc = "gate", !.gate = gate].pc = "gate"
  BY DEF NoSweep
<1> QED
  BY <1>1, <1>2

\* A call starts a sweep at most: maybe_trigger_sweep.
LEMMA OpenKeepsSweeps ==
  ASSUME TypeOK, NEW o \in Opener,
         (\E k \in Key : Begin(o, k)) \/ Stress(o) \/ OpenStep(o) \/ Return(o)
  PROVE  \A p \in Proc : sweep'[p] = sweep[p] \/ sweep'[p].pc = "gate"
<1>1. CASE UNCHANGED sweep
  BY <1>1
<1>2. CASE MaybeTriggerSweep(o)
  <2>1. ProcOf[o] \in Proc
    BY ConstantsTyped DEF ConstantsTyped
  <2>2. [NoSweep EXCEPT !.pc = "gate", !.gate = "Now"].pc = "gate"
    BY DEF NoSweep
  <2>3. sweep' = sweep \/ sweep' = [sweep EXCEPT ![ProcOf[o]] =
                             [NoSweep EXCEPT !.pc = "gate", !.gate = "Now"]]
    BY <1>2 DEF MaybeTriggerSweep, SpawnSweep, sweepVars
  <2> QED
    BY <2>1, <2>2, <2>3 DEF TypeOK, StateTyped
<1> QED
  BY <1>1, <1>2
  DEF Begin, Stress, OpenStep, LoadCapped, TouchLru, Compute, StoreRefused, MakeTemp,
      WriteTemp, StoreAborted, Persist, Return

\* What a sweep's own steps do to its lists, and to the entries.
LEMMA SweepShrinks ==
  ASSUME TypeOK, NEW p \in Proc, Cleanup(p) \/ SweepStep(p) \/ Crash(p), ~Collect(p)
  PROVE  /\ UNCHANGED <<now, temp, lastUse, missed>>
         /\ \A k \in Key : \/ file'[k] = Absent /\ mtime'[k] = 0
                           \/ file'[k] = file[k] /\ mtime'[k] = mtime[k]
         /\ \A q \in Proc :
              \/ sweep'[q].pc \notin {"age", "evict"}
              \/ /\ sweep[q].pc \in {"age", "evict"}
                 /\ sweep'[q].at = sweep[q].at /\ sweep'[q].stamp = sweep[q].stamp
                 /\ sweep'[q].todo \subseteq sweep[q].todo
                 /\ sweep'[q].kept \subseteq sweep[q].kept
<1> USE DEF TypeOK, StateTyped
<1>1. CASE Cleanup(p) \/ SweepSkipped(p) \/ MarkDone(p) \/ Crash(p)
  <2>3. \A q \in Proc : sweep'[q] = sweep[q] \/ sweep'[q].pc \in {"idle", "gate"}
    BY <1>1, ClaimSteps
  <2>4. UNCHANGED <<now, temp, lastUse, missed, file, mtime>>
    BY <1>1 DEF Cleanup, SweepSkipped, MarkDone, Crash
  <2> QED
    BY <2>3, <2>4
<1>2. CASE SweepStarts(p) \/ AgeDone(p) \/ EvictDone(p)
  <2>1. \A q \in Proc \ {p} : sweep'[q] = sweep[q]
    BY <1>2 DEF SweepStarts, AgeDone, EvictDone
  <2>2. \/ sweep'[p].pc \notin {"age", "evict"}
        \/ /\ sweep[p].pc = "age"
           /\ sweep'[p].at = sweep[p].at /\ sweep'[p].stamp = sweep[p].stamp
           /\ sweep'[p].todo = sweep[p].todo /\ sweep'[p].kept = sweep[p].kept
    BY <1>2 DEF SweepStarts, AgeDone, EvictDone, SweepSlot
  <2>3. UNCHANGED <<now, temp, lastUse, missed, file, mtime>>
    BY <1>2 DEF SweepStarts, AgeDone, EvictDone
  <2> QED
    BY <2>1, <2>2, <2>3
<1>3. ASSUME NEW k \in Key, AgeDrop(p, k) \/ EvictOldest(p, k)
      PROVE  /\ UNCHANGED <<now, temp, lastUse, missed>>
             /\ \A j \in Key : \/ file'[j] = Absent /\ mtime'[j] = 0
                               \/ file'[j] = file[j] /\ mtime'[j] = mtime[j]
             /\ \A q \in Proc \ {p} : sweep'[q] = sweep[q]
             /\ sweep[p].pc \in {"age", "evict"}
             /\ sweep'[p].at = sweep[p].at /\ sweep'[p].stamp = sweep[p].stamp
             /\ sweep'[p].todo \subseteq sweep[p].todo
             /\ sweep'[p].kept \subseteq sweep[p].kept
  <2>1. CASE AgeDrop(p, k)
    <3>1. PICK ok \in RemoveOutcome(k) :
            /\ IF ok THEN Unlink(k) ELSE UNCHANGED <<file, mtime>>
            /\ sweep' = [sweep EXCEPT ![p].todo = @ \ {k},
                                      ![p].kept = IF ok THEN @ \ {k} ELSE @]
      BY <2>1 DEF AgeDrop
    <3>2. sweep[p].pc = "age" /\ UNCHANGED <<now, temp, lastUse, missed>>
      BY <2>1 DEF AgeDrop
    <3>3. \A j \in Key : \/ file'[j] = Absent /\ mtime'[j] = 0
                         \/ file'[j] = file[j] /\ mtime'[j] = mtime[j]
      BY <3>1 DEF Unlink
    <3>4. \A q \in Proc \ {p} : sweep'[q] = sweep[q]
      BY <3>1
    <3>5. /\ sweep'[p].at = sweep[p].at /\ sweep'[p].stamp = sweep[p].stamp
          /\ sweep'[p].todo \subseteq sweep[p].todo
          /\ sweep'[p].kept \subseteq sweep[p].kept
      BY <3>1 DEF SweepSlot
    <3> QED
      BY <3>2, <3>3, <3>4, <3>5
  <2>2. CASE EvictOldest(p, k)
    <3>1. PICK ok \in RemoveOutcome(k) :
            /\ IF ok THEN Unlink(k) ELSE UNCHANGED <<file, mtime>>
            /\ sweep' = [sweep EXCEPT ![p].kept = @ \ {k},
                                      ![p].left = IF ok THEN @ \ {k} ELSE @]
      BY <2>2 DEF EvictOldest
    <3>2. sweep[p].pc = "evict" /\ UNCHANGED <<now, temp, lastUse, missed>>
      BY <2>2 DEF EvictOldest
    <3>3. \A j \in Key : \/ file'[j] = Absent /\ mtime'[j] = 0
                         \/ file'[j] = file[j] /\ mtime'[j] = mtime[j]
      BY <3>1 DEF Unlink
    <3>4. \A q \in Proc \ {p} : sweep'[q] = sweep[q]
      BY <3>1
    <3>5. /\ sweep'[p].at = sweep[p].at /\ sweep'[p].stamp = sweep[p].stamp
          /\ sweep'[p].todo \subseteq sweep[p].todo
          /\ sweep'[p].kept \subseteq sweep[p].kept
      BY <3>1 DEF SweepSlot
    <3> QED
      BY <3>2, <3>3, <3>4, <3>5
  <2> QED
    BY <1>3, <2>1, <2>2
<1> QED
  BY <1>1, <1>2, <1>3 DEF SweepStep

\* What eviction and the age pass rest on is inductive.
LEMMA NextUse ==
  ASSUME Prompt
  PROVE  UseInv /\ Scanned /\ [Next]_vars => (UseInv /\ Scanned)'
<1> SUFFICES ASSUME UseInv, Scanned, [Next]_vars PROVE UseInv' /\ Scanned'
  OBVIOUS
<1>t. TypeOK /\ TypeOK' /\ now \in Nat /\ now' \in Nat
  BY NextTyped DEF UseInv, TypeOK, StateTyped, Time
<1>1. ASSUME NEW o \in Opener,
             (\E k \in Key : Begin(o, k)) \/ Stress(o) \/ OpenStep(o) \/ Return(o)
      PROVE  UseInv' /\ Scanned'
  <2>1. UseInv'
    BY <1>1, <1>t, OpenUse
  <2>2. now' = now /\ (\A k \in Key : lastUse'[k] = lastUse[k] \/ lastUse'[k] = now)
    BY <1>1, <1>t DEF TypeOK, StateTyped, Begin, Stress, OpenStep, LoadCapped, TouchLru, Compute,
       StoreRefused, MakeTemp, WriteTemp, StoreAborted, Persist, MaybeTriggerSweep, Return
  <2>3. \A p \in Proc : sweep'[p] = sweep[p] \/ sweep'[p].pc = "gate"
    BY <1>1, <1>t, OpenKeepsSweeps
  <2>4. \A k \in missed : k \in missed' \/ lastUse'[k] = now'
    BY <1>1, <1>t DEF TypeOK, StateTyped, Begin, Stress, OpenStep, LoadCapped, TouchLru, Compute,
       StoreRefused, MakeTemp, WriteTemp, StoreAborted, Persist, MaybeTriggerSweep, Return
  <2> QED
    BY <1>t, <2>1, <2>2, <2>3, <2>4, ScansLast
<1>2. ASSUME NEW p \in Proc, Cleanup(p) \/ SweepStep(p) \/ Crash(p)
      PROVE  UseInv' /\ Scanned'
  <2>1. \A o \in Opener : open'[o] = open[o] \/ open'[o].pc = "idle"
    <3>1. CASE UNCHANGED open
      BY <3>1
    <3>2. CASE Crash(p)
      BY <3>2 DEF Crash, NoOpen
    <3> QED
      BY <1>2, <3>1, <3>2
      DEF Cleanup, SweepStep, SweepSkipped, SweepStarts, Collect, AgeDone, EvictDone, MarkDone,
          AgeDrop, EvictOldest
  <2>2. CASE Collect(p)
    <3>1. Scanned'
      BY <2>2, CollectScans
    <3>2. /\ UNCHANGED <<now, lastUse, missed, file, mtime>>
          /\ \A n \in Name : temp'[n] = temp[n] \/ temp'[n].val = Absent
      BY <2>2 DEF Collect, NoTemp
    <3>3. UseInv'
      BY <1>t, <2>1, <3>2, UndatedStep
    <3> QED
      BY <3>1, <3>3
  <2>3. CASE ~Collect(p)
    <3>1. UNCHANGED <<now, temp, lastUse, missed>>
      BY <1>2, <1>t, <2>3, SweepShrinks
    <3>2. UseInv'
      BY <1>2, <1>t, <2>1, <2>3, <3>1, SweepShrinks, UndatedStep
    <3>3. Scanned'
      BY <1>2, <1>t, <2>3, <3>1, SweepShrinks, ScansLast
    <3> QED
      BY <3>2, <3>3
  <2> QED
    BY <2>2, <2>3
<1>3. ASSUME NEW k \in Key, Damaged(k) PROVE UseInv' /\ Scanned'
  <2>1. /\ UNCHANGED <<now, lastUse, missed, mtime, temp, open, sweep>>
        /\ file[k] # Absent /\ file' = [file EXCEPT ![k] = Bad]
    BY <1>3, ConstantsDistinct DEF Damaged, Readable, Payload, ConstantsDistinct, Mark
  <2>2. \A j \in Key : file[j] # Absent \/ file'[j] = file[j]
    BY <2>1, <1>t DEF TypeOK, StateTyped
  <2>3. UseInv'
    BY <1>t, <2>1, <2>2, UndatedStep
  <2> QED
    BY <1>t, <2>1, <2>3, ScansLast
<1>4. CASE Tick
  <2>1. /\ now' = now + 1 /\ UNCHANGED <<file, mtime, temp, open, sweep, lastUse, missed>>
        /\ \A o \in Opener : ~Storing(o)
    BY <1>4 DEF Tick
  <2>2. Touched'
    BY <1>t, <2>1 DEF UseInv, Touched, TypeOK, StateTyped, Time
  <2>3. Moments'
    BY <1>t, <2>1 DEF UseInv, Moments, At, Storing, TypeOK, StateTyped, OpenCall, Time
  <2> QED
    BY <1>t, <2>1, <2>2, <2>3, ScansLast DEF UseInv
<1>5. CASE UNCHANGED vars
  <2>1. UNCHANGED <<now, lastUse, missed, file, mtime, temp, open, sweep>>
    BY <1>5 DEF vars
  <2>2. UseInv'
    BY <1>t, <2>1, UndatedStep
  <2> QED
    BY <1>t, <2>1, <2>2, ScansLast
<1> QED
  BY <1>1, <1>2, <1>3, <1>4, <1>5 DEF Next

\* ... and holds at first.
LEMMA InitUse == Init => UseInv /\ Scanned
<1> SUFFICES ASSUME Init PROVE UseInv /\ Scanned
  OBVIOUS
<1>1. TypeOK
  BY InitTyped
<1>2. Touched /\ Moments
  BY DEF Init, Touched, Moments, At, Storing, NoOpen
<1>3. Scanned
  BY DEF Init, Scanned, NoSweep
<1> QED
  BY <1>1, <1>2, <1>3 DEF UseInv

\* The scan condemns no entry to the age pass that was in use shortly before, as
\* long as a store finishes within a tick and its touches did not fail (touch_lru
\* against collect and the age pass of run).
THEOREM AgeDropsUnused ==
  ASSUME Prompt
  PROVE  Spec => AgeDropsOnlyUnused
<1> DEFINE Condemned ==
      \A p \in Proc : Collect(p) =>
        \A k \in sweep'[p].todo \ missed : now - lastUse[k] > MaxAge - TouchInterval
<1>1. ASSUME UseInv PROVE [Condemned]_vars
  <2> SUFFICES ASSUME NEW p \in Proc, Collect(p), NEW k \in sweep'[p].todo \ missed
               PROVE  now - lastUse[k] > MaxAge - TouchInterval
    OBVIOUS
  <2>1. k \in Present /\ Since(now, mtime[k]) > MaxAge
    BY <1>1, CollectNotes DEF UseInv
  <2> QED
    BY <1>1, <2>1, AgedUnused DEF Present
<1> QED
  BY <1>1, InitUse, NextUse, PTL DEF Spec, AgeDropsOnlyUnused

\* Eviction takes the least recently used first, to a touch interval, which
\* is a tick at least, under the same assumption (sort_unstable_by_key over what the scan noted).
THEOREM EvictsOldestUse ==
  ASSUME Prompt, TouchInterval > 0
  PROVE  Spec => EvictsLeastRecentlyUsed
<1>1. UseInv /\ Scanned /\ [Next]_vars =>
        [\A p \in Proc, k \in Key :
           (EvictOldest(p, k) /\ file'[k] # file[k]) =>
             \A j \in sweep[p].kept :
               \/ k \in missed \/ lastUse[k] >= sweep[p].at
               \/ lastUse[k] - lastUse[j] < TouchInterval]_vars
  BY DEF Scanned, EvictOldest, IsOldest
<1> QED
  BY <1>1, InitUse, NextUse, PTL DEF Spec, EvictsLeastRecentlyUsed

\* A live store keeps its temp file: no scan takes it for an orphan, and no
\* other store has its name.
LEMMA LiveTempsStep ==
  ASSUME Prompt, UseInv, SoundInv, LiveTempsKept, [Next]_vars
  PROVE  LiveTempsKept'
<1> USE DEF LiveTempsKept
<1>t. TypeOK /\ Moments /\ Carried /\ OwnTemps
  BY DEF UseInv, SoundInv
<1>n. /\ \A x \in Opener : Storing(x) => open[x].name \in Name /\ open[x].name # NoKey
      /\ \A x, y \in Opener :
           (x # y /\ Storing(x)) => open[x].name # open[y].name
  BY <1>t DEF TypeOK, CallsTyped, Carried, OwnTemps
\* Temp files stay, and no store begins.
<1>q. ASSUME \A n \in Name : temp'[n] = temp[n] \/ temp'[n].val # Absent
                             \/ \A x \in Opener : Storing(x)' => open[x].name # n,
             \A x \in Opener : Storing(x)' => Storing(x) /\ open'[x].name = open[x].name
      PROVE  LiveTempsKept'
  BY <1>q, <1>n DEF Storing, At
<1>1. ASSUME NEW o \in Opener,
             (\E k \in Key : Begin(o, k)) \/ Stress(o) \/ OpenStep(o) \/ Return(o)
      PROVE  LiveTempsKept'
  <2>0. \A x \in Opener \ {o} : open'[x] = open[x]
    BY <1>1, <1>t, OthersStill
  <2>1. CASE ~(MakeTemp(o) \/ WriteTemp(o) \/ StoreAborted(o) \/ Persist(o))
    <3>1. UNCHANGED temp
      BY <1>1, <2>1 DEF Begin, Stress, OpenStep, LoadCapped, TouchLru, Compute, StoreRefused,
         MaybeTriggerSweep, Return
    <3>2. open'[o] = open[o] \/ open'[o].pc \notin {"write", "persist"}
      <4>1. CASE Compute(o)
        <5>1. PICK r \in Computed(o) :
                open' = [open EXCEPT ![o].pc = IF r.stored THEN "mktemp" ELSE "return",
                                     ![o].val = r.val]
          BY <4>1 DEF Compute
        <5>2. open'[o].pc = IF r.stored THEN "mktemp" ELSE "return"
          BY <1>t, <5>1 DEF TypeOK, StateTyped, OpenCall
        <5> QED
          BY <5>2
      <4>2. CASE \E k \in Key : Begin(o, k)
        <5>1. PICK k \in Key : Begin(o, k)
          BY <4>2
        <5>2. open'[o] = [NoOpen EXCEPT !.pc = "load", !.key = k]
          BY <1>t, <5>1 DEF Begin, TypeOK, StateTyped
        <5> QED
          BY <5>2 DEF NoOpen
      <4>3. CASE Return(o)
        BY <1>t, <4>3 DEF Return, NoOpen, TypeOK, StateTyped
      <4>4. CASE StoreRefused(o) \/ MaybeTriggerSweep(o) \/ Stress(o) \/ LoadCapped(o) \/ TouchLru(o)
        BY <1>t, <4>4 DEF StoreRefused, MaybeTriggerSweep, Stress, LoadCapped, TouchLru, Goto,
           TypeOK, StateTyped, OpenCall
      <4> QED
        BY <1>1, <2>1, <4>1, <4>2, <4>3, <4>4 DEF OpenStep
    <3> QED
      BY <1>q, <2>0, <3>1, <3>2 DEF Storing, At
  <2>2. CASE MakeTemp(o)
    <3>1. PICK n \in Name :
            /\ temp' = [temp EXCEPT ![n] = [val |-> Torn, at |-> now, key |-> open[o].key]]
            /\ open' = [open EXCEPT ![o].pc = "write", ![o].name = n]
      BY <2>2 DEF MakeTemp
    <3>2. open'[o].name = n /\ temp'[n].val # Absent /\ \A m \in Name \ {n} : temp'[m] = temp[m]
      BY <1>t, <3>1, ConstantsDistinct DEF TypeOK, StateTyped, OpenCall, ConstantsDistinct
    <3> QED
      BY <1>n, <2>0, <3>2 DEF Storing, At
  <2>3. CASE WriteTemp(o)
    <3>1. /\ open[o].name \in Name /\ temp[open[o].name].val # Absent /\ open[o].val # Absent
      BY <1>n, <1>t, <2>3, ConstantsDistinct
      DEF WriteTemp, Storing, Payload, TypeOK, CallsTyped, ConstantsDistinct, Mark
    <3>2. temp' = [temp EXCEPT ![open[o].name] =
                     [temp[open[o].name] EXCEPT !.val = open[o].val, !.at = now]]
      BY <1>t, <2>3, <3>1 DEF WriteTemp, TypeOK, StateTyped, TempFile
    <3>3. temp'[open[o].name].val # Absent
      BY <1>t, <3>1, <3>2 DEF TypeOK, StateTyped, TempFile
    <3>4. open'[o].name = open[o].name /\ Storing(o)
      BY <1>t, <2>3 DEF WriteTemp, Goto, Storing, TypeOK, StateTyped, OpenCall
    <3> QED
      BY <1>q, <2>0, <3>2, <3>3, <3>4 DEF Storing, At
  <2>4. CASE StoreAborted(o) \/ Persist(o)
    <3>1. Storing(o) /\ ~Storing(o)'
      BY <1>t, <2>4 DEF StoreAborted, Persist, Storing, At, TypeOK, StateTyped, OpenCall
    <3>2. \A m \in Name \ {open[o].name} : temp'[m] = temp[m]
      BY <1>t, <2>4 DEF StoreAborted, Persist, TypeOK, StateTyped
    <3> QED
      BY <1>n, <1>q, <2>0, <3>1, <3>2 DEF Storing, At
  <2> QED
    BY <2>1, <2>2, <2>3, <2>4
<1>2. ASSUME NEW p \in Proc, Collect(p) PROVE LiveTempsKept'
  <2>1. \A x \in Opener : Storing(x) => ~Orphaned(open[x].name)
    <3> SUFFICES ASSUME NEW x \in Opener, Storing(x) PROVE ~Orphaned(open[x].name)
      OBVIOUS
    <3>1. temp[open[x].name].at = now /\ now \in Nat /\ OrphanAge \in Nat
      BY <1>t, ConstantsTyped DEF Moments, TypeOK, StateTyped, Time, ConstantsTyped
    <3> QED
      BY <3>1 DEF Orphaned, Since
  <2>2. \A x \in Opener : Storing(x) => temp'[open[x].name] = temp[open[x].name]
    <3>1. PICK gone \in Some({n \in Name : Orphaned(n)}, {"list", "delete"}) :
            temp' = [n \in Name |-> IF n \in gone THEN NoTemp ELSE temp[n]]
      BY <1>2 DEF Collect
    <3>2. \A n \in gone : Orphaned(n)
      BY DEF Some
    <3> QED
      BY <1>n, <2>1, <3>1, <3>2
  <2> QED
    BY <1>2, <2>2 DEF Collect, Storing, At
<1>3. CASE UNCHANGED temp /\ \A x \in Opener : open'[x] = open[x] \/ open'[x].pc = "idle"
  BY <1>3, <1>q DEF Storing, At
<1>4. ASSUME NEW p \in Proc, Crash(p) PROVE LiveTempsKept'
  BY <1>3, <1>4 DEF Crash, NoOpen
<1> QED
  BY <1>1, <1>2, <1>3, <1>4
  DEF Next, vars, Cleanup, SweepStep, SweepSkipped, SweepStarts, AgeDone, EvictDone, MarkDone,
      AgeDrop, EvictOldest, Damaged, Tick

\* No sweep unlinks the temp file of a store that is still going on, as long as
\* a store finishes within a tick (ORPHANED_TEMP_AGE).
THEOREM LiveTempsAreKept ==
  ASSUME Prompt
  PROVE  Spec => []LiveTempsKept
<1>1. Init => UseInv /\ Scanned /\ SoundInv /\ LiveTempsKept
  BY InitUse, InitSound DEF Init, LiveTempsKept, Storing, At, NoOpen
<1>2. UseInv /\ Scanned /\ SoundInv /\ LiveTempsKept /\ [Next]_vars =>
        (UseInv /\ Scanned /\ SoundInv /\ LiveTempsKept)'
  BY NextUse, NextSound, LiveTempsStep
<1> QED
  BY <1>1, <1>2, PTL DEF Spec

-----------------------------------------------------------------------------
(* Refinement: the steps of a cached open are those of an open that always *)
(* computes.                                                               *)

\* What the caller sees of a call in progress: the refinement mapping.
Seen(c) ==
  [st  |-> CASE c.pc = "idle" -> "idle"
             [] c.pc = "return" -> "done"
             [] OTHER -> "busy",
   key |-> c.key,
   val |-> IF c.pc = "return" THEN c.val ELSE NoKey]
Call == [o \in Opener |-> Seen(open[o])]

\* A thread between calls holds nothing of the last one.
Idle == \A o \in Opener : At(o, "idle") => open[o] = NoOpen
RefineInv == SoundInv /\ Idle

\* Only a return or a death makes a thread idle.
LEMMA IdleStep ==
  ASSUME RefineInv, [Next]_vars
  PROVE  Idle'
<1>t. TypeOK
  BY DEF RefineInv, SoundInv
<1> USE DEF Idle, RefineInv
<1>1. ASSUME NEW o \in Opener,
             (\E k \in Key : Begin(o, k)) \/ Stress(o) \/ OpenStep(o) \/ Return(o)
      PROVE  Idle'
  <2>0. \A x \in Opener \ {o} : open'[x] = open[x]
    BY <1>1, <1>t, OthersStill
  <2>1. open'[o].pc = "idle" => open'[o] = NoOpen
    <3>1. CASE Compute(o)
      <4>1. PICK r \in Computed(o) :
              open' = [open EXCEPT ![o].pc = IF r.stored THEN "mktemp" ELSE "return",
                                   ![o].val = r.val]
        BY <3>1 DEF Compute
      <4>2. open'[o].pc = IF r.stored THEN "mktemp" ELSE "return"
        BY <1>t, <4>1 DEF TypeOK, StateTyped, OpenCall
      <4> QED
        BY <4>2
    <3>2. CASE \E k \in Key : Begin(o, k)
      <4>1. PICK k \in Key : Begin(o, k)
        BY <3>2
      <4>2. open'[o] = [NoOpen EXCEPT !.pc = "load", !.key = k]
        BY <1>t, <4>1 DEF Begin, TypeOK, StateTyped
      <4> QED
        BY <4>2 DEF NoOpen
    <3>3. CASE MakeTemp(o)
      BY <1>t, <3>3 DEF MakeTemp, TypeOK, StateTyped, OpenCall
    <3>4. CASE StoreAborted(o) \/ Persist(o)
      BY <1>t, <3>4 DEF StoreAborted, Persist, TypeOK, StateTyped, OpenCall
    <3>5. CASE Return(o)
      BY <1>t, <3>5 DEF Return, TypeOK, StateTyped
    <3>6. CASE \/ Stress(o) \/ LoadCapped(o) \/ TouchLru(o)
               \/ StoreRefused(o) \/ WriteTemp(o) \/ MaybeTriggerSweep(o)
      BY <1>t, <3>6 DEF Stress, LoadCapped, TouchLru, StoreRefused, WriteTemp,
         MaybeTriggerSweep, Goto, At, TypeOK, StateTyped, OpenCall
    <3> QED
      BY <1>1, <3>1, <3>2, <3>3, <3>4, <3>5, <3>6 DEF OpenStep
  <2> QED
    BY <2>0, <2>1 DEF At
<1>2. CASE UNCHANGED open
  BY <1>2 DEF At
<1>3. ASSUME NEW p \in Proc, Crash(p) PROVE Idle'
  BY <1>3 DEF Crash, At
<1> QED
  BY <1>1, <1>2, <1>3
  DEF Next, vars, Cleanup, SweepStep, SweepSkipped, SweepStarts, Collect, AgeDone, EvictDone,
      MarkDone, AgeDrop, EvictOldest, Damaged, Tick

\* A step of one thread changes what its own caller sees and nothing else.
LEMMA CallStep ==
  ASSUME TypeOK, TypeOK', NEW o \in Opener, \A x \in Opener \ {o} : open'[x] = open[x]
  PROVE  Call' = [Call EXCEPT ![o] = Seen(open'[o])]
  BY DEF Call, Seen

\* Every step of a call is a step of the uncached open or none.
LEMMA OpenRefines ==
  ASSUME RefineInv, TypeOK', NEW o \in Opener,
         (\E k \in Key : Begin(o, k)) \/ Stress(o) \/ OpenStep(o) \/ Return(o)
  PROVE  Uncached!Next \/ UNCHANGED Uncached!vars
<1>t. TypeOK /\ Carried /\ AnswersSound
  BY DEF RefineInv, SoundInv
<1>0. \A x \in Opener \ {o} : open'[x] = open[x]
  BY <1>t, OthersStill
<1>c. Call' = [Call EXCEPT ![o] = Seen(open'[o])]
  BY <1>t, <1>0, CallStep
<1>d. Call[o] = Seen(open[o])
  BY DEF Call
\* An answer, whatever work it ends.
<1>a. ASSUME open[o].pc \notin {"idle", "return"}, open'[o].pc = "return",
             open'[o].key = open[o].key, stress' = stress,
             open'[o].val \in {open[o].key} \cup (IF o \in stress THEN {Degraded} ELSE {})
      PROVE  Uncached!Next
  <2>0. PICK k, v : k = open[o].key /\ v = open'[o].val
    OBVIOUS
  <2>1. Seen(open'[o]) = [st |-> "done", key |-> k, val |-> v]
    BY <1>a, <2>0 DEF Seen
  <2>2. Seen(open[o]) = [st |-> "busy", key |-> k, val |-> NoKey]
    BY <1>a, <2>0 DEF Seen
  <2>3. [Call EXCEPT ![o].st = "done", ![o].val = v]
          = [Call EXCEPT ![o] = [st |-> "done", key |-> k, val |-> v]]
    <3> DEFINE f == Call
               g == [f EXCEPT ![o].st = "done"]
    <3>1. f = [x \in Opener |-> f[x]] /\ f[o] = [st |-> "busy", key |-> k, val |-> NoKey]
      BY <1>d, <2>2 DEF Call
    <3> HIDE DEF f
    <3>2. g[o] = [st |-> "done", key |-> k, val |-> NoKey]
      BY <3>1
    <3>3. [g[o] EXCEPT !.val = v] = [st |-> "done", key |-> k, val |-> v]
      BY <3>2
    <3>4. [g EXCEPT ![o].val = v]
            = [x \in Opener |-> IF x = o THEN [g[o] EXCEPT !.val = v] ELSE f[x]]
      BY <3>1
    <3>5. [f EXCEPT ![o].st = "done", ![o].val = v] = [g EXCEPT ![o].val = v]
      OBVIOUS
    <3>6. [f EXCEPT ![o].st = "done", ![o].val = v]
            = [f EXCEPT ![o] = [st |-> "done", key |-> k, val |-> v]]
      BY <3>1, <3>3, <3>4, <3>5
    <3> QED
      BY <3>6 DEF f
  <2>4. Call' = [Call EXCEPT ![o].st = "done", ![o].val = v]
    BY <1>c, <2>1, <2>3
  <2>5. Call[o].st = "busy" /\ Call[o].key = open[o].key
    BY <1>d, <2>0, <2>2
  <2>6. Uncached!Answer(o)
    BY <1>a, <2>0, <2>4, <2>5 DEF Uncached!Answer, Call, Seen
  <2> QED
    BY <2>6 DEF Uncached!Next
\* Work in between, which the caller does not see.
<1>b. ASSUME open[o].pc \notin {"idle", "return"}, open'[o].pc \notin {"idle", "return"},
             open'[o].key = open[o].key, stress' = stress
      PROVE  UNCHANGED Uncached!vars
  <2>1. Seen(open'[o]) = Seen(open[o])
    BY <1>b DEF Seen
  <2>2. Call' = Call
    BY <1>c, <1>d, <2>1 DEF Call
  <2> QED
    BY <1>b, <2>2 DEF Uncached!vars, Call, Seen
<1>1. ASSUME NEW k \in Key, Begin(o, k) PROVE Uncached!Next
  <2>1. open[o] = NoOpen /\ open'[o] = [NoOpen EXCEPT !.pc = "load", !.key = k]
    BY <1>1, <1>t DEF Begin, RefineInv, Idle, TypeOK, StateTyped
  <2>2. Call[o] = Uncached!NoCall
    BY <1>d, <2>1 DEF Seen, NoOpen, Uncached!NoCall
  <2>3. Seen(open'[o]) = [st |-> "busy", key |-> k, val |-> NoKey]
    BY <2>1 DEF Seen, NoOpen
  <2>4. Call' = [Call EXCEPT ![o] = [st |-> "busy", key |-> k, val |-> NoKey]]
    BY <1>c, <2>3
  <2>5. Uncached!Begin(o, k)
    BY <1>1, <2>2, <2>4 DEF Begin, Uncached!Begin, Call, Seen
  <2> QED
    BY <2>5 DEF Uncached!Next
<1>2. CASE Stress(o)
  <2>1. Call[o].st = "busy"
    BY <1>2, <1>d DEF Stress, At, Seen
  <2>2. Call' = Call
    BY <1>2 DEF Stress, Call, Seen
  <2>3. Uncached!Stress(o)
    BY <1>2, <2>1, <2>2 DEF Stress, Uncached!Stress, Call, Seen
  <2> QED
    BY <2>3 DEF Uncached!Next
<1>3. CASE Return(o)
  <2>1. Call[o].st = "done"
    BY <1>3, <1>d DEF Return, At, Seen
  <2>2. Seen(open'[o]) = Uncached!NoCall
    BY <1>3, <1>t DEF Return, TypeOK, StateTyped, Seen, NoOpen, Uncached!NoCall
  <2>3. Call' = [Call EXCEPT ![o] = Uncached!NoCall]
    BY <1>c, <2>2
  <2>4. Uncached!Return(o)
    BY <1>3, <2>1, <2>3 DEF Return, Uncached!Return, Call, Seen
  <2> QED
    BY <2>4 DEF Uncached!Next
<1>4. CASE Compute(o)
  <2>1. PICK r \in Computed(o) :
          open' = [open EXCEPT ![o].pc = IF r.stored THEN "mktemp" ELSE "return",
                               ![o].val = r.val]
    BY <1>4 DEF Compute
  <2>2. /\ open'[o].pc = IF r.stored THEN "mktemp" ELSE "return"
        /\ open'[o].val = r.val /\ open'[o].key = open[o].key
    BY <1>t, <2>1 DEF TypeOK, StateTyped, OpenCall
  <2>3. open[o].pc = "compute" /\ stress' = stress
    BY <1>4 DEF Compute, At
  <2>4. r.val \in {open[o].key} \cup (IF o \in stress THEN {Degraded} ELSE {})
    BY DEF Computed
  <2>5. CASE r.stored
    BY <1>b, <2>2, <2>3, <2>5
  <2>6. CASE ~r.stored
    BY <1>a, <2>2, <2>3, <2>4, <2>6
  <2> QED
    BY <2>5, <2>6
<1>5. CASE TouchLru(o) \/ StoreRefused(o) \/ StoreAborted(o) \/ MaybeTriggerSweep(o)
  <2>1. /\ open[o].pc \in {"touch", "mktemp", "write", "persist", "trigger"}
        /\ open'[o].pc = "return" /\ open'[o].key = open[o].key
        /\ open'[o].val = open[o].val /\ stress' = stress
    BY <1>5, <1>t DEF TouchLru, StoreRefused, StoreAborted, MaybeTriggerSweep, Goto, At, TypeOK,
       StateTyped, OpenCall
  <2>2. open[o].val = open[o].key
    BY <1>t, <2>1 DEF Carried
  <2> QED
    BY <1>a, <2>1, <2>2
<1>6. CASE Persist(o)
  <2>1. /\ open[o].pc = "persist" /\ open'[o].pc \in {"return", "trigger"}
        /\ open'[o].key = open[o].key
        /\ open'[o].val = open[o].val /\ stress' = stress
    BY <1>6, <1>t DEF Persist, At, TypeOK, StateTyped, OpenCall
  <2>2. open[o].val = open[o].key
    BY <1>t, <2>1 DEF Carried
  <2> QED
    BY <1>a, <1>b, <2>1, <2>2
<1>7. CASE LoadCapped(o) \/ MakeTemp(o) \/ WriteTemp(o)
  <2>1. /\ open[o].pc \in {"load", "mktemp", "write"}
        /\ open'[o].pc \in {"touch", "compute", "write", "persist"}
        /\ open'[o].key = open[o].key /\ stress' = stress
    BY <1>7, <1>t DEF LoadCapped, MakeTemp, WriteTemp, Goto, At, TypeOK, StateTyped, OpenCall
  <2> QED
    BY <1>b, <2>1
<1> QED
  BY <1>1, <1>2, <1>3, <1>4, <1>5, <1>6, <1>7 DEF OpenStep

\* Sweeps, hosts, damage and time are not seen; a crash is the death of its
\* process's threads.
LEMMA WorldRefines ==
  ASSUME RefineInv, TypeOK',
         \/ \E p \in Proc : Cleanup(p) \/ SweepStep(p) \/ Crash(p)
         \/ \E k \in Key : Damaged(k)
         \/ Tick \/ UNCHANGED vars
  PROVE  Uncached!Next \/ UNCHANGED Uncached!vars
<1>1. CASE UNCHANGED <<open, stress>>
  BY <1>1 DEF Uncached!vars
<1>2. ASSUME NEW p \in Proc, Crash(p) PROVE Uncached!Next
  <2> DEFINE S == {o \in Opener : ProcOf[o] = p}
  <2>1. Call' = [o \in Opener |-> IF o \in S THEN Uncached!NoCall ELSE Call[o]]
    BY <1>2 DEF Crash, Call, Seen, NoOpen, Uncached!NoCall
  <2>2. stress' = stress \ S
    BY <1>2 DEF Crash, RefineInv, SoundInv, TypeOK, StateTyped
  <2>3. Uncached!Die(S)
    BY <2>1, <2>2 DEF Uncached!Die, Call, Seen
  <2>4. S \in SUBSET Opener
    OBVIOUS
  <2> QED
    BY <2>3, <2>4 DEF Uncached!Next
<1> QED
  BY <1>1, <1>2
  DEF vars, Cleanup, SweepStep, SweepSkipped, SweepStarts, Collect, AgeDone, EvictDone, MarkDone,
      AgeDrop, EvictOldest, Damaged, Tick

\* The cache is invisible, as far as safety goes: every call seen from its
\* caller behaves as one that computes its answer, whatever stores, sweeps,
\* damage and crashes do meanwhile (open_with_cache_in).  That it is answered
\* at all needs the fairness of Uncached!Spec, and the run checks it.
THEOREM StepsRefineUncached ==
  Spec => Uncached!Init /\ [][Uncached!Next]_(Uncached!vars)
<1>1. Init => RefineInv /\ Uncached!Init
  <2> SUFFICES ASSUME Init PROVE RefineInv /\ Uncached!Init
    OBVIOUS
  <2>1. RefineInv
    BY InitSound DEF Init, RefineInv, Idle
  <2>2. Uncached!Init
    BY DEF Init, NoOpen, Uncached!Init, Uncached!NoCall
  <2> QED
    BY <2>1, <2>2
<1>2. RefineInv /\ [Next]_vars => RefineInv' /\ [Uncached!Next]_(Uncached!vars)
  <2> SUFFICES ASSUME RefineInv, [Next]_vars
               PROVE  RefineInv' /\ [Uncached!Next]_(Uncached!vars)
    OBVIOUS
  <2>1. RefineInv'
    BY NextSound, IdleStep DEF RefineInv
  <2>2. TypeOK'
    BY <2>1 DEF RefineInv, SoundInv
  <2> QED
    BY <2>1, <2>2, OpenRefines, WorldRefines DEF Next
<1> QED
  BY <1>1, <1>2, PTL DEF Spec

-----------------------------------------------------------------------------
(* Budgets.  With one process on the root, what a sweep counts is there    *)
(* until it deletes it itself: what it counts down to is what is left.     *)

Alone == \E q : Proc = {q}

\* What the age pass keeps and what eviction still counts are on disk.
Sees ==
  \A p \in Proc :
    /\ sweep[p].pc = "age" => sweep[p].kept \subseteq Present
    /\ sweep[p].pc = "evict" => /\ sweep[p].kept \subseteq sweep[p].left
                                /\ sweep[p].left \subseteq Present
                                /\ "delete" \notin Fails => sweep[p].left = sweep[p].kept

\* A sweep that may mark itself done counts no more than its budget.
Affordable == {S \in SUBSET Key : ~OverBudget(S)}
Within ==
  \A p \in Proc :
    ("delete" \notin Fails /\ sweep[p].pc = "markd") => sweep[p].left \in Affordable

BudgetInv == TypeOK /\ Sees /\ Within

\* The bytes of a set of entries, as a total of the library's fold.
LEMMA BytesTotal == \A S : SumBytes(S) = Total(Bytes, S)
  BY DEF SumBytes, FoldSet, MapThenFoldSet, Total, Table, Unfolded, Pick

\* Part of the entries take no more bytes, and are no more, than all of them.
LEMMA PartWithin ==
  ASSUME NEW S \in SUBSET Key, NEW T \in SUBSET S
  PROVE  /\ SumBytes(T) \in Nat /\ SumBytes(S) \in Nat /\ SumBytes(T) <= SumBytes(S)
         /\ Cardinality(T) \in Nat /\ Cardinality(S) \in Nat
         /\ Cardinality(T) <= Cardinality(S)
<1>1. IsFiniteSet(Key) /\ Bytes \in [Key -> Nat]
  BY ConstantsTyped DEF ConstantsTyped
<1>2. IsFiniteSet(S) /\ IsFiniteSet(T)
  BY <1>1, FS_Subset
<1>3. /\ Total(Bytes, T) \in Nat /\ Total(Bytes, S) \in Nat
      /\ Total(Bytes, T) <= Total(Bytes, S)
  BY <1>1, <1>2, TotalNat, TotalMonotone
<1>4. /\ Cardinality(T) \in Nat /\ Cardinality(S) \in Nat
      /\ Cardinality(T) <= Cardinality(S)
  BY <1>2, FS_CardinalityType, FS_Subset
<1> QED
  BY <1>3, <1>4, BytesTotal

\* The share of a ceiling a sweep evicts down to is within it.
LEMMA ShareWithin ==
  ASSUME ShareNum <= ShareDen, NEW m \in Nat
  PROVE  (m \div ShareDen) * ShareNum \in Nat /\ (m \div ShareDen) * ShareNum <= m
<1>1. ShareNum \in Nat /\ ShareDen \in Nat \ {0}
  BY ConstantsTyped DEF ConstantsTyped
<1> DEFINE q == m \div ShareDen
<1>2. q \in Nat /\ q * ShareDen <= m
  BY <1>1
<1>3. PICK e \in Nat : ShareDen = ShareNum + e
  <2>1. ShareDen - ShareNum \in Nat /\ ShareDen = ShareNum + (ShareDen - ShareNum)
    BY <1>1
  <2> QED
    BY <2>1
<1> HIDE DEF q
<1>4. q * ShareDen = q * ShareNum + q * e /\ q * e \in Nat /\ q * ShareNum \in Nat
  BY <1>1, <1>2, <1>3
<1>5. q * ShareNum \in Nat /\ q * ShareNum <= m
  BY <1>1, <1>2, <1>4
<1> QED
  BY <1>5 DEF q

\* A directory at the target is within budget, and so is an empty one.
LEMMA TargetWithin ==
  ASSUME ShareNum <= ShareDen, NEW S \in SUBSET Key, ~AboveTarget(S) \/ S = {}
  PROVE  S \in Affordable
<1>1. MaxBytes \in Nat /\ MaxEntries \in Nat
  BY ConstantsTyped DEF ConstantsTyped
<1>2. /\ SumBytes(S) \in Nat /\ Cardinality(S) \in Nat
      /\ ByteTarget \in Nat /\ ByteTarget <= MaxBytes
      /\ CountTarget \in Nat /\ CountTarget <= MaxEntries
  BY <1>1, PartWithin, ShareWithin DEF ByteTarget, CountTarget
<1>3. CASE ~AboveTarget(S)
  BY <1>1, <1>2, <1>3 DEF AboveTarget, OverBudget, Affordable
<1>4. CASE S = {}
  <2>1. SumBytes(S) = 0 /\ Cardinality(S) = 0
    BY <1>4, BytesTotal, TotalEmpty, FS_EmptySet
  <2> QED
    BY <1>1, <2>1 DEF OverBudget, Affordable
<1> QED
  BY <1>3, <1>4

\* Steps that delete nothing and leave sweeps alone, or start or end one.
LEMMA BudgetLasts ==
  ASSUME BudgetInv, TypeOK', \A k \in Key : file[k] # Absent => file'[k] # Absent,
         \A p \in Proc : sweep'[p] = sweep[p] \/ sweep'[p].pc \in {"idle", "gate", "scan"}
  PROVE  BudgetInv'
<1>1. Present \subseteq Present'
  BY DEF Present
<1>2. Sees'
  BY <1>1 DEF BudgetInv, Sees
<1>3. Within'
  BY DEF BudgetInv, Within
<1> QED
  BY <1>2, <1>3 DEF BudgetInv

\* Every step of a root's only process keeps its books.
LEMMA BudgetStep ==
  ASSUME Alone, ShareNum <= ShareDen, BudgetInv, [Next]_vars
  PROVE  BudgetInv'
<1>t. TypeOK /\ Sees /\ Within
  BY DEF BudgetInv
<1>u. TypeOK'
  BY <1>t, NextTyped
<1>q. PICK q : Proc = {q}
  BY DEF Alone
<1>1. ASSUME NEW o \in Opener,
             (\E k \in Key : Begin(o, k)) \/ Stress(o) \/ OpenStep(o) \/ Return(o)
      PROVE  BudgetInv'
  <2>1. \A k \in Key : file[k] # Absent => file'[k] # Absent
    <3>1. CASE UNCHANGED file
      BY <3>1
    <3>2. CASE Persist(o)
      BY <1>t, <3>2 DEF Persist, TypeOK, StateTyped
    <3> QED
      BY <1>1, <3>1, <3>2 DEF Begin, Stress, OpenStep, LoadCapped, TouchLru, Compute,
         StoreRefused, MakeTemp, WriteTemp, StoreAborted, MaybeTriggerSweep, Return
  <2>2. \A p \in Proc : sweep'[p] = sweep[p] \/ sweep'[p].pc = "gate"
    BY <1>1, <1>t, OpenKeepsSweeps
  <2> QED
    BY <1>u, <2>1, <2>2, BudgetLasts
<1>2. ASSUME NEW p \in Proc, Cleanup(p) \/ SweepSkipped(p) \/ SweepStarts(p) \/ MarkDone(p) \/ Crash(p)
      PROVE  BudgetInv'
  <2>1. \A x \in Proc : sweep'[x] = sweep[x] \/ sweep'[x].pc \in {"idle", "gate", "scan"}
    <3>1. CASE SweepStarts(p)
      BY <1>t, <3>1 DEF SweepStarts, TypeOK, StateTyped, SweepSlot
    <3> QED
      BY <1>t, <1>2, <3>1, ClaimSteps
  <2> QED
    BY <1>2, <1>u, <2>1, BudgetLasts DEF Cleanup, SweepSkipped, SweepStarts, MarkDone, Crash
<1>3. CASE (\E k \in Key : Damaged(k)) \/ Tick \/ UNCHANGED vars
  <2>1. \A k \in Key : file[k] # Absent => file'[k] # Absent
    BY <1>t, <1>3, ConstantsDistinct DEF Damaged, Tick, vars, TypeOK, StateTyped, ConstantsDistinct, Mark
  <2> QED
    BY <1>3, <1>u, <2>1, BudgetLasts DEF Damaged, Tick, vars
\* The passes of the one sweep.
<1>4. ASSUME NEW p \in Proc, Collect(p) PROVE BudgetInv'
  <2>1. sweep'[p].pc = "age" /\ sweep'[p].kept \subseteq Present /\ UNCHANGED file
    BY <1>t, <1>4, CollectNotes
  <2>2. Present' = Present
    BY <2>1 DEF Present
  <2> QED
    BY <1>q, <1>u, <2>1, <2>2 DEF BudgetInv, Sees, Within
<1>5. ASSUME NEW p \in Proc, NEW k \in Key, AgeDrop(p, k) PROVE BudgetInv'
  <2>1. PICK ok \in RemoveOutcome(k) :
          /\ IF ok THEN Unlink(k) ELSE UNCHANGED <<file, mtime>>
          /\ sweep' = [sweep EXCEPT ![p].todo = @ \ {k},
                                    ![p].kept = IF ok THEN @ \ {k} ELSE @]
    BY <1>5 DEF AgeDrop
  <2>2. /\ sweep'[p].pc = "age"
        /\ sweep'[p].kept = IF ok THEN sweep[p].kept \ {k} ELSE sweep[p].kept
    <3>1. sweep[p].pc = "age" /\ sweep[p] \in SweepSlot /\ sweep \in [Proc -> SweepSlot]
      BY <1>t, <1>5 DEF AgeDrop, TypeOK, StateTyped
    <3> QED
      BY <2>1, <3>1 DEF SweepSlot
  <2>3. Present' = IF ok THEN Present \ {k} ELSE Present
    BY <1>t, <2>1 DEF Unlink, Present, TypeOK, StateTyped
  <2>4. sweep[p].kept \subseteq Present
    BY <1>t, <1>5 DEF AgeDrop, Sees
  <2>5. sweep'[p].kept \subseteq Present'
    BY <2>2, <2>3, <2>4
  <2> QED
    BY <1>q, <1>u, <2>2, <2>5 DEF BudgetInv, Sees, Within
<1>6. ASSUME NEW p \in Proc, AgeDone(p) PROVE BudgetInv'
  <2>1. /\ sweep'[p].left = sweep[p].kept /\ sweep'[p].kept = sweep[p].kept
        /\ sweep'[p].pc = IF OverBudget(sweep[p].kept) THEN "evict" ELSE "markd"
        /\ Present' = Present /\ sweep[p].kept \in SUBSET Key
    BY <1>t, <1>6 DEF AgeDone, Present, TypeOK, StateTyped, SweepSlot
  <2>2. sweep[p].kept \subseteq Present
    BY <1>t, <1>6 DEF AgeDone, Sees
  <2>3. Sees'
    BY <1>q, <2>1, <2>2 DEF Sees
  <2>4. Within'
    BY <1>q, <2>1 DEF Within, Affordable
  <2> QED
    BY <1>u, <2>3, <2>4 DEF BudgetInv
<1>7. ASSUME NEW p \in Proc, NEW k \in Key, EvictOldest(p, k) PROVE BudgetInv'
  <2>1. PICK ok \in RemoveOutcome(k) :
          /\ IF ok THEN Unlink(k) ELSE UNCHANGED <<file, mtime>>
          /\ sweep' = [sweep EXCEPT ![p].kept = @ \ {k},
                                    ![p].left = IF ok THEN @ \ {k} ELSE @]
    BY <1>7 DEF EvictOldest
  <2>2. /\ sweep'[p].pc = "evict" /\ sweep'[p].kept = sweep[p].kept \ {k}
        /\ sweep'[p].left = IF ok THEN sweep[p].left \ {k} ELSE sweep[p].left
    <3>1. sweep[p].pc = "evict" /\ sweep[p] \in SweepSlot /\ sweep \in [Proc -> SweepSlot]
      BY <1>t, <1>7 DEF EvictOldest, TypeOK, StateTyped
    <3> QED
      BY <2>1, <3>1 DEF SweepSlot
  <2>3. Present' = IF ok THEN Present \ {k} ELSE Present
    BY <1>t, <2>1 DEF Unlink, Present, TypeOK, StateTyped
  <2>4. /\ sweep[p].kept \subseteq sweep[p].left /\ sweep[p].left \subseteq Present
        /\ "delete" \notin Fails => sweep[p].left = sweep[p].kept
        /\ k \in sweep[p].kept
    BY <1>t, <1>7 DEF EvictOldest, Sees
  <2>5. "delete" \notin Fails => ok = TRUE
    BY <2>1, <2>4 DEF RemoveOutcome, Present
  <2>6. Sees'
    BY <1>q, <2>2, <2>3, <2>4, <2>5 DEF Sees
  <2> QED
    BY <1>q, <1>u, <2>2, <2>6 DEF BudgetInv, Within
<1>8. ASSUME NEW p \in Proc, EvictDone(p) PROVE BudgetInv'
  <2>1. sweep'[p].pc = "markd" /\ sweep'[p].left = sweep[p].left
    BY <1>t, <1>8 DEF EvictDone, TypeOK, StateTyped, SweepSlot
  <2>2. "delete" \notin Fails => sweep[p].left \in Affordable
    <3>1. "delete" \notin Fails => ~AboveTarget(sweep[p].left) \/ sweep[p].left = {}
      BY <1>t, <1>8 DEF EvictDone, EvictEnds, Sees
    <3>2. sweep[p].left \in SUBSET Key
      BY <1>t DEF TypeOK, StateTyped, SweepSlot
    <3> QED
      BY <3>1, <3>2, TargetWithin
  <2>3. Within'
    BY <1>q, <2>1, <2>2 DEF Within
  <2> QED
    BY <1>q, <1>u, <2>1, <2>3 DEF BudgetInv, Sees
<1> QED
  BY <1>1, <1>2, <1>3, <1>4, <1>5, <1>6, <1>7, <1>8 DEF Next, SweepStep

\* ... which are in order at the start.
LEMMA InitBudget == Init => BudgetInv
  BY InitTyped DEF Init, BudgetInv, Sees, Within, NoSweep

\* A sweep that ran to its end leaves what it saw within both ceilings, where
\* one process sweeps and deletes do not fail (Sweep::run).
THEOREM SweepsWithinBudget ==
  ASSUME Alone, "delete" \notin Fails, ShareNum <= ShareDen
  PROVE  Spec => []SweptWithinBudget
<1>1. BudgetInv => SweptWithinBudget
  <2> SUFFICES ASSUME BudgetInv, NEW p \in Proc, sweep[p].pc = "markd"
               PROVE  LET left == sweep[p].left \cap Present IN
                        Cardinality(left) <= MaxEntries /\ SumBytes(left) <= MaxBytes
    BY DEF SweptWithinBudget
  <2>1. ~OverBudget(sweep[p].left) /\ sweep[p].left \in SUBSET Key
    BY DEF BudgetInv, Within, Affordable
  <2>2. MaxBytes \in Nat /\ MaxEntries \in Nat
    BY ConstantsTyped DEF ConstantsTyped
  <2> DEFINE all == sweep[p].left
             part == all \cap Present
  <2>3. part \in SUBSET all
    OBVIOUS
  <2> HIDE DEF all, part
  <2>4. /\ SumBytes(part) \in Nat /\ SumBytes(all) \in Nat /\ SumBytes(part) <= SumBytes(all)
        /\ Cardinality(part) \in Nat /\ Cardinality(all) \in Nat
        /\ Cardinality(part) <= Cardinality(all)
    BY <2>1, <2>3, PartWithin DEF all
  <2>5. SumBytes(all) <= MaxBytes /\ Cardinality(all) <= MaxEntries
    BY <2>1, <2>2, <2>4 DEF all, OverBudget
  <2>6. Cardinality(part) <= MaxEntries /\ SumBytes(part) <= MaxBytes
    BY <2>2, <2>4, <2>5
  <2> QED
    BY <2>6 DEF part, all
<1> QED
  BY <1>1, InitBudget, BudgetStep, PTL DEF Spec

\* The count pass of a root's only process deletes nothing once the directory
\* is within the target.
THEOREM EvictionStops ==
  ASSUME Alone, ShareNum <= ShareDen
  PROVE  Spec => EvictionStopsAtTarget
<1>1. BudgetInv /\ [Next]_vars =>
        [\A p \in Proc, k \in Key :
           (EvictOldest(p, k) /\ file'[k] # file[k]) =>
             \/ Cardinality(Present) > CountTarget
             \/ SumBytes(Present) > ByteTarget]_vars
  <2> SUFFICES ASSUME BudgetInv, NEW p \in Proc, NEW k \in Key, EvictOldest(p, k)
               PROVE  Cardinality(Present) > CountTarget \/ SumBytes(Present) > ByteTarget
    OBVIOUS
  <2> DEFINE all == Present
             part == sweep[p].left
  <2>1. AboveTarget(part) /\ part \in SUBSET all /\ all \in SUBSET Key
    BY DEF EvictOldest, BudgetInv, Sees, Present
  <2>2. MaxBytes \in Nat /\ MaxEntries \in Nat
    BY ConstantsTyped DEF ConstantsTyped
  <2>3. ByteTarget \in Nat /\ CountTarget \in Nat
    BY <2>2, ShareWithin DEF ByteTarget, CountTarget
  <2> HIDE DEF all, part
  <2>4. /\ SumBytes(part) \in Nat /\ SumBytes(all) \in Nat /\ SumBytes(part) <= SumBytes(all)
        /\ Cardinality(part) \in Nat /\ Cardinality(all) \in Nat
        /\ Cardinality(part) <= Cardinality(all)
    BY <2>1, PartWithin
  <2>5. Cardinality(all) > CountTarget \/ SumBytes(all) > ByteTarget
    BY <2>1, <2>3, <2>4 DEF AboveTarget
  <2> QED
    BY <2>5 DEF all
<1> QED
  BY <1>1, InitBudget, BudgetStep, PTL DEF Spec, EvictionStopsAtTarget
=============================================================================
