--------------------------- MODULE AnalysisProofs ---------------------------
(***************************************************************************)
(* The calls and the temporary files of a Python module, the FIFO          *)
(* relations of a shell script, the values of a data-flow graph, the       *)
(* crates of a package's targets and the globals of a pickle are as the    *)
(* program that is read has them, for every module, script, graph, package *)
(* and pickle and every limit.                                             *)
(***************************************************************************)
EXTENDS ModuleCallsProps, ShellFifoProps, FlowWalkProps, CargoWalkProps, PickleProps, Totals,
        SequenceTheorems

-----------------------------------------------------------------------------
(* A Python module: what the collector keeps.                              *)

Reasons == {"rebound", "opaque-call", "control-flow", "try"}
EventName == {"launch", "unseen"} \cup {CallOf(s).method : s \in Statements}
Event == [event : EventName, pos : Nat]
Fact == [pos : Nat, trigger : {"module", "module_try"}, events : Seq(Event), ended : Reasons \cup {Absent}]
CallFact == [resolved : Target, pos : Nat, trigger : {"module", "module_try"}]

CallsTypeOK ==
  /\ pos \in Nat /\ 1 <= pos /\ budget \in Nat /\ trying \in BOOLEAN /\ plain \in BOOLEAN
  /\ \A n \in DOMAIN bindings : n \in Name /\ bindings[n] \in Target
  /\ \A n \in DOMAIN temporaries : n \in Name /\ temporaries[n] \in Fact
  /\ calls \in Seq(CallFact) /\ files \in Seq(Fact)
  /\ \A at \in Made : at \in 1..(pos - 1) /\ history[at] \in Seq(Event)
  /\ DOMAIN denoted \subseteq 1..(pos - 1)

\* A fact, against a history: what happened first, and all that happened.
KnownIn(h, t) == t.pos \in DOMAIN h /\ IsPrefix(t.events, h[t.pos])
WholeIn(h, t) == Len(t.events) < MaxEvents => t.events = h[t.pos]

\* The calls reported are what they were bound to.
SaidBound ==
  plain => \A i \in DOMAIN calls : /\ calls[i].pos \in DOMAIN denoted
                                   /\ denoted[calls[i].pos] = calls[i].resolved

\* While statements are looked at, the bindings are the namespace's, and each
\* tracked file is another one, the one its name denotes.
Sound ==
  (plain /\ budget > 0) =>
    /\ \A n \in DOMAIN bindings : namespace[n].to = bindings[n]
    /\ \A n \in DOMAIN temporaries : /\ namespace[n] = File(temporaries[n].pos)
                                     /\ WholeIn(history, temporaries[n])
    /\ \A n, m \in DOMAIN temporaries : temporaries[n].pos = temporaries[m].pos => n = m

\* Facts say what happened first.
FactsKnown ==
  plain => /\ \A n \in DOMAIN temporaries : KnownIn(history, temporaries[n])
           /\ \A i \in DOMAIN files : KnownIn(history, files[i])

\* A fact of a module still being read was ended by something; one that was
\* not, of a module read whole, is all that happened.
FactsEnded ==
  /\ analysis = <<>> => \A i \in DOMAIN files : files[i].ended # Absent
  /\ analysis # <<>> => /\ temporaries = <<>>
                        /\ (plain /\ ~analysis.truncated) =>
                             \A i \in DOMAIN files : files[i].ended = Absent => WholeIn(history, files[i])

CallsInv == CallsTypeOK /\ SaidBound /\ Sound /\ FactsKnown /\ FactsEnded

\* Nothing is known at the start.
LEMMA CallsInitInv == CallsAndInterpreter => CallsInv
<1> SUFFICES ASSUME CallsAndInterpreter PROVE CallsInv
  OBVIOUS
<1>1. /\ pos = 1 /\ trying = FALSE /\ bindings = <<>> /\ temporaries = <<>> /\ calls = <<>>
      /\ files = <<>> /\ budget \in StatementLimits /\ analysis = <<>>
      /\ namespace = [n \in Name |-> Anything] /\ denoted = <<>> /\ history = <<>> /\ plain = TRUE
  BY DEF CallsAndInterpreter, CallsInit, InterpreterInit
<1>2. StatementLimits \subseteq Nat
  BY CallsAssumption DEF CallsAssumption
<1>3. CallsTypeOK
  <2>1. DOMAIN <<>> = {} /\ <<>> \in Seq(CallFact) /\ <<>> \in Seq(Fact)
    OBVIOUS
  <2>2. Made = {} /\ DOMAIN denoted = {}
    BY <1>1, <2>1 DEF Made
  <2>3. DOMAIN bindings = {} /\ DOMAIN temporaries = {} /\ calls \in Seq(CallFact) /\ files \in Seq(Fact)
    BY <1>1, <2>1
  <2>4. pos \in Nat /\ 1 <= pos /\ budget \in Nat /\ trying \in BOOLEAN /\ plain \in BOOLEAN
    <3>1. pos \in Nat /\ 1 <= pos /\ budget \in Nat
      BY <1>1, <1>2
    <3>2. trying \in BOOLEAN /\ plain \in BOOLEAN
      BY <1>1, Zenon
    <3> QED
      BY <3>1, <3>2
  <2> QED
    BY <2>2, <2>3, <2>4 DEF CallsTypeOK
<1> QED
  BY <1>1, <1>3 DEF CallsInv, SaidBound, Sound, FactsKnown, FactsEnded

-----------------------------------------------------------------------------
(* What a call leaves.                                                     *)

\* Facts and tracked files, of the collector, that say what the history does.
Tracks(h, tracked) ==
  /\ \A n \in DOMAIN tracked : /\ n \in DOMAIN temporaries /\ tracked[n] \in Fact
                               /\ tracked[n].pos = temporaries[n].pos
                               /\ KnownIn(h, tracked[n]) /\ WholeIn(h, tracked[n])

\* finish: the facts there were, and those of the tracked files.
LEMMA FinishedFacts ==
  ASSUME NEW facts \in Seq(Fact), NEW tracked, NEW names, NEW reason \in Reasons \cup {Absent},
         \A n \in DOMAIN tracked : n \in Name /\ tracked[n] \in Fact
  PROVE  /\ Finished(facts, tracked, names, reason) \in Seq(Fact)
         /\ \A i \in DOMAIN Finished(facts, tracked, names, reason) :
              LET f == Finished(facts, tracked, names, reason)[i]
              IN  \/ \E j \in DOMAIN facts : f = facts[j]
                  \/ \E n \in DOMAIN tracked : /\ f.pos = tracked[n].pos /\ f.ended = reason
                                               /\ f.events = tracked[n].events
<1> DEFINE S == names \cap DOMAIN tracked
           Ended(n) == [tracked[n] EXCEPT !.ended = reason]
<1>1. PICK list : list = SetToSeq(S)
  OBVIOUS
<1>2. list \in Seq(S) /\ \A i \in DOMAIN list : list[i] \in S
  <2>1. S \subseteq Name /\ IsFiniteSet(Name)
    BY CallsAssumption DEF CallsAssumption
  <2>2. IsFiniteSet(S)
    BY <2>1, FS_Subset
  <2> QED
    BY <1>1, <2>2, AsSequence
<1>3. \A n \in S : /\ Ended(n) \in Fact /\ Ended(n).pos = tracked[n].pos
                   /\ Ended(n).ended = reason /\ Ended(n).events = tracked[n].events
  <2> SUFFICES ASSUME NEW n \in S
               PROVE  /\ Ended(n) \in Fact /\ Ended(n).pos = tracked[n].pos
                      /\ Ended(n).ended = reason /\ Ended(n).events = tracked[n].events
    OBVIOUS
  <2>1. tracked[n] \in Fact
    OBVIOUS
  <2> QED
    BY <2>1 DEF Fact
<1>4. PICK more : more = [i \in DOMAIN list |-> Ended(list[i])]
  OBVIOUS
<1>5. more \in Seq(Fact) /\ DOMAIN more = DOMAIN list
  <2>1. Len(list) \in Nat /\ DOMAIN list = 1..Len(list)
    BY <1>2
  <2>2. \A i \in 1..Len(list) : Ended(list[i]) \in Fact
    BY <1>2, <1>3, <2>1
  <2> HIDE DEF Ended
  <2>3. more \in [1..Len(list) -> Fact]
    BY <1>4, <2>1, <2>2
  <2> QED
    BY <1>4, <2>1, <2>3
<1>6. PICK both : both = facts \o more
  OBVIOUS
<1>7. /\ both \in Seq(Fact) /\ Len(both) = Len(facts) + Len(more)
      /\ \A i \in 1..Len(both) : \/ i \in DOMAIN facts /\ both[i] = facts[i]
                                 \/ \E k \in DOMAIN more : both[i] = more[k]
  <2>1. /\ both \in Seq(Fact) /\ Len(both) = Len(facts) + Len(more)
        /\ Len(facts) \in Nat /\ Len(more) \in Nat
    BY <1>5, <1>6
  <2>2. ASSUME NEW i \in 1..Len(both)
        PROVE  \/ i \in DOMAIN facts /\ both[i] = facts[i]
               \/ \E k \in DOMAIN more : both[i] = more[k]
    <3>1. CASE i <= Len(facts)
      BY <1>5, <1>6, <2>1, <3>1
    <3>2. CASE i > Len(facts)
      <4>1. PICK k : k = i - Len(facts)
        OBVIOUS
      <4>2. k \in 1..Len(more) /\ i = Len(facts) + k /\ DOMAIN more = 1..Len(more)
        BY <1>5, <2>1, <3>2, <4>1
      <4>3. k \in DOMAIN more /\ both[i] = more[k]
        BY <1>5, <1>6, <2>1, <3>2, <4>1, <4>2
      <4> QED
        BY <4>3
    <3> QED
      BY <2>1, <3>1, <3>2
  <2> QED
    BY <2>1, <2>2
<1>8. PICK f : f = Limited(both, MaxTemporaries)
  OBVIOUS
<1>9. f = Finished(facts, tracked, names, reason)
  BY <1>1, <1>4, <1>6, <1>8 DEF Finished
<1>10. /\ f \in Seq(Fact)
       /\ \A i \in DOMAIN f : i \in 1..Len(both) /\ f[i] = both[i]
  <2>1. PICK n \in Nat : n = IF Len(both) > MaxTemporaries THEN MaxTemporaries ELSE Len(both)
    <3>1. Len(both) \in Nat /\ MaxTemporaries \in Nat
      BY <1>7, CallsAssumption DEF CallsAssumption
    <3> QED
      BY <3>1
  <2>2. f = SubSeq(both, 1, n) /\ n <= Len(both)
    BY <1>7, <1>8, <2>1, CallsAssumption DEF CallsAssumption, Limited
  <2> QED
    BY <1>7, <2>2
<1>11. ASSUME NEW i \in DOMAIN f
       PROVE  \/ \E j \in DOMAIN facts : f[i] = facts[j]
              \/ \E n \in DOMAIN tracked : /\ f[i].pos = tracked[n].pos /\ f[i].ended = reason
                                           /\ f[i].events = tracked[n].events
  <2>1. CASE i \in DOMAIN facts /\ both[i] = facts[i]
    BY <1>10, <2>1
  <2>2. CASE \E k \in DOMAIN more : both[i] = more[k]
    <3>1. PICK k \in DOMAIN more : both[i] = more[k]
      BY <2>2
    <3>2. list[k] \in S /\ f[i] = Ended(list[k])
      BY <1>2, <1>4, <1>5, <1>10, <3>1
    <3> QED
      BY <1>3, <3>2
  <2> QED
    BY <1>7, <1>10, <2>1, <2>2
<1> QED
  BY <1>9, <1>10, <1>11

\* What happens to some files is appended to their histories.
LEMMA Touched ==
  ASSUME NEW h, NEW ats, NEW e \in Event, \A at \in DOMAIN h : h[at] \in Seq(Event)
  PROVE  /\ DOMAIN Touch(h, ats, e) = DOMAIN h
         /\ \A at \in DOMAIN h : /\ Touch(h, ats, e)[at] \in Seq(Event)
                                 /\ IsPrefix(h[at], Touch(h, ats, e)[at])
                                 /\ at \in ats => Touch(h, ats, e)[at] = Append(h[at], e)
                                 /\ at \notin ats => Touch(h, ats, e)[at] = h[at]
  BY PrefixGrows DEF Touch

\* The same facts are known of a history that has grown.
Grown(h, g) == /\ DOMAIN h \subseteq DOMAIN g
               /\ \A at \in DOMAIN h : g[at] \in Seq(Event) /\ IsPrefix(h[at], g[at])
\* What was known of the shorter history is known of the longer.
LEMMA StillKnown ==
  ASSUME NEW h, NEW g, \A at \in DOMAIN h : h[at] \in Seq(Event), Grown(h, g),
         NEW t, t.events \in Seq(Event), KnownIn(h, t)
  PROVE  KnownIn(g, t)
<1>1. /\ t.pos \in DOMAIN h /\ t.pos \in DOMAIN g /\ IsPrefix(t.events, h[t.pos])
      /\ h[t.pos] \in Seq(Event) /\ g[t.pos] \in Seq(Event) /\ IsPrefix(h[t.pos], g[t.pos])
  BY DEF KnownIn, Grown
<1>2. IsPrefix(t.events, g[t.pos])
  BY <1>1, PrefixAfter
<1> QED
  BY <1>1, <1>2 DEF KnownIn

\* What grows twice has grown.
LEMMA GrownOn ==
  ASSUME NEW h, NEW g, NEW k, \A at \in DOMAIN h : h[at] \in Seq(Event), Grown(h, g), Grown(g, k)
  PROVE  Grown(h, k)
<1> SUFFICES ASSUME NEW at \in DOMAIN h
             PROVE  at \in DOMAIN k /\ k[at] \in Seq(Event) /\ IsPrefix(h[at], k[at])
  BY DEF Grown
<1>1. /\ at \in DOMAIN g /\ g[at] \in Seq(Event) /\ IsPrefix(h[at], g[at])
  BY DEF Grown
<1>2. at \in DOMAIN k /\ k[at] \in Seq(Event) /\ IsPrefix(g[at], k[at])
  BY <1>1 DEF Grown
<1> QED
  BY <1>1, <1>2, PrefixAfter

-----------------------------------------------------------------------------
(* What runs.                                                              *)

\* The calls statements make, and the events they leave.
LEMMA CallShape ==
  ASSUME NEW s \in Statements, CallOf(s) # Absent
  PROVE  /\ CallOf(s).head \in Name /\ CallOf(s).file \in Name \cup {Absent}
         /\ CallOf(s).inner \in BOOLEAN
  BY CallsAssumption DEF CallsAssumption, CallOf
\* The events a statement may leave are among those of its calls.
LEMMA EventShape ==
  ASSUME NEW s \in Statements, pos \in Nat
  PROVE  /\ [event |-> CallOf(s).method, pos |-> pos] \in Event
         /\ [event |-> "launch", pos |-> pos] \in Event
         /\ Unseen \in Event
  BY DEF Event, EventName, Unseen

\* A call appends to histories.
LEMMA Affects ==
  ASSUME NEW s \in Statements, CallsTypeOK
  PROVE  /\ DOMAIN Effect(CallOf(s)) = Made /\ Grown(history, Effect(CallOf(s)))
         /\ DOMAIN AfterArguments(CallOf(s)) = Made /\ Grown(history, AfterArguments(CallOf(s)))
         /\ \A at \in Made : /\ Effect(CallOf(s))[at] \in Seq(Event)
                             /\ AfterArguments(CallOf(s))[at] \in Seq(Event)
<1> DEFINE c == CallOf(s)
           past == AfterArguments(c)
<1>1. pos \in Nat /\ \A at \in Made : history[at] \in Seq(Event)
  BY DEF CallsTypeOK
<1>2. DOMAIN past = Made /\ Grown(history, past) /\ \A at \in Made : past[at] \in Seq(Event)
  <2>1. CASE c.inner
    BY <1>1, <2>1, Touched, EventShape DEF AfterArguments, Grown, Made
  <2>2. CASE ~c.inner
    BY <1>1, <2>2, PrefixGrows, EventShape DEF AfterArguments, Grown, Made
  <2> QED
    BY <2>1, <2>2
<1>3. PICK ats, e : e \in Event /\ Effect(c) = Touch(past, ats, e)
  <2>1. \/ Effect(c) = Touch(past, {namespace[c.head].file}, [event |-> c.method, pos |-> pos])
        \/ Effect(c) = Touch(past, {namespace[c.file].file}, [event |-> "launch", pos |-> pos])
        \/ Effect(c) = Touch(past, Made, Unseen)
    BY DEF Effect
  <2>2. /\ [event |-> c.method, pos |-> pos] \in Event /\ [event |-> "launch", pos |-> pos] \in Event
        /\ Unseen \in Event
    BY <1>1, EventShape
  <2> QED
    BY <2>1, <2>2
<1> HIDE DEF past
<1>4. /\ DOMAIN Effect(c) = Made /\ \A at \in Made : Effect(c)[at] \in Seq(Event)
      /\ Grown(past, Effect(c))
  BY <1>2, <1>3, Touched DEF Grown
<1>5. Grown(history, Effect(c))
  BY <1>1, <1>2, <1>4, GrownOn DEF Made
<1> QED
  BY <1>2, <1>4, <1>5 DEF past

\* The interpreter's step: histories grow, and a new call is noted.
LEMMA Ran ==
  ASSUME NEW s \in Statements, CallsTypeOK, Execute(s)
  PROVE  /\ plain' \in BOOLEAN /\ (plain' => plain /\ ~Hidden(s))
         /\ Grown(history, history')
         /\ \A at \in DOMAIN history' : at \in Made \cup {pos} /\ history'[at] \in Seq(Event)
         /\ \A at \in DOMAIN denoted : at \in DOMAIN denoted' /\ (at # pos => denoted'[at] = denoted[at])
         /\ DOMAIN denoted' \subseteq DOMAIN denoted \cup {pos}
         /\ CallOf(s) # Absent => pos \in DOMAIN denoted' /\ denoted'[pos] = Denotes(CallOf(s))
<1> DEFINE c == CallOf(s)
           makes == c # Absent /\ c.method = Absent /\ Denotes(c) = "tempfile" /\ s.kind = "assign" /\ s.left # <<>>
           past == IF c = Absent THEN history ELSE IF makes THEN AfterArguments(c) ELSE Effect(c)
<1>1. pos \in Nat /\ \A at \in Made : at \in 1..(pos - 1) /\ history[at] \in Seq(Event)
  BY DEF CallsTypeOK
<1>2. DOMAIN past = Made /\ Grown(history, past) /\ \A at \in Made : past[at] \in Seq(Event)
  <2>1. CASE c = Absent
    BY <1>1, <2>1, PrefixGrows, EventShape DEF Grown, Made
  <2>2. CASE c # Absent
    BY <2>2, Affects
  <2> QED
    BY <2>1, <2>2
<1>3. /\ denoted' = IF c = Absent THEN denoted
                    ELSE [at \in DOMAIN denoted \cup {pos} |-> IF at = pos THEN Denotes(c) ELSE denoted[at]]
      /\ history' = IF makes THEN [at \in Made \cup {pos} |-> IF at = pos THEN <<>> ELSE past[at]]
                    ELSE IF MayUse(s) THEN Touch(past, Made, Unseen) ELSE past
      /\ plain' = (plain /\ ~Hidden(s))
  BY DEF Execute
<1>4. plain' \in BOOLEAN /\ (plain' => plain /\ ~Hidden(s))
  BY <1>3, Zenon
<1>5. Grown(past, history') /\ \A at \in DOMAIN history' : at \in Made \cup {pos} /\ history'[at] \in Seq(Event)
  <2> HIDE DEF past
  <2>1. CASE makes
    <3>1. history' = [at \in Made \cup {pos} |-> IF at = pos THEN <<>> ELSE past[at]]
      BY <1>3, <2>1
    <3>2. pos \notin Made /\ <<>> \in Seq(Event)
      BY <1>1
    <3>3. \A at \in Made : IsPrefix(past[at], past[at])
      BY <1>2, PrefixGrows, EventShape, <1>1
    <3> QED
      BY <1>2, <3>1, <3>2, <3>3 DEF Grown
  <2>2. CASE ~makes /\ MayUse(s)
    BY <1>1, <1>2, <1>3, <2>2, Touched, EventShape DEF Grown
  <2>3. CASE ~makes /\ ~MayUse(s)
    BY <1>1, <1>2, <1>3, <2>3, PrefixGrows, EventShape DEF Grown
  <2> QED
    BY <2>1, <2>2, <2>3
<1>6. Grown(history, history')
  <2> HIDE DEF past
  <2> QED
    BY <1>1, <1>2, <1>5, GrownOn DEF Made
<1>7. /\ \A at \in DOMAIN denoted : at \in DOMAIN denoted' /\ (at # pos => denoted'[at] = denoted[at])
      /\ DOMAIN denoted' \subseteq DOMAIN denoted \cup {pos}
      /\ c # Absent => pos \in DOMAIN denoted' /\ denoted'[pos] = Denotes(c)
  BY <1>3
<1> QED
  BY <1>4, <1>5, <1>6, <1>7

-----------------------------------------------------------------------------
(* What the collector keeps of it.                                         *)

\* What an invariant says of a collector that is looking.
Watching == plain /\ budget > 0
Typed(tracked) == \A n \in DOMAIN tracked : n \in DOMAIN temporaries /\ tracked[n] \in Fact
AllKnown(h, facts) == \A i \in DOMAIN facts : KnownIn(h, facts[i])
AllEnded(facts) == \A i \in DOMAIN facts : facts[i].ended # Absent

\* An event recorded in a tracked file has happened to that file only.
LEMMA RecordKeeps ==
  ASSUME CallsInv, NEW name \in DOMAIN temporaries, NEW e \in Event
  PROVE  /\ Typed(Recorded(temporaries, name, e))
         /\ Watching => Tracks(Touch(history, {temporaries[name].pos}, e), Recorded(temporaries, name, e))
<1> DEFINE p == temporaries[name].pos
           h == Touch(history, {p}, e)
           tracked == Recorded(temporaries, name, e)
<1>1. \A n \in DOMAIN temporaries : temporaries[n] \in Fact
  BY DEF CallsInv, CallsTypeOK
<1>2. \A at \in DOMAIN history : history[at] \in Seq(Event)
  BY DEF CallsInv, CallsTypeOK, Made
<1>3. /\ DOMAIN h = DOMAIN history
      /\ \A at \in DOMAIN history : /\ h[at] \in Seq(Event) /\ IsPrefix(history[at], h[at])
                                    /\ at = p => h[at] = Append(history[at], e)
                                    /\ at # p => h[at] = history[at]
  BY <1>2, Touched
<1>4. Grown(history, h)
  BY <1>3 DEF Grown
<1> HIDE DEF h
<1>5. PICK more : more = [temporaries[name] EXCEPT !.events = Append(@, e)]
  OBVIOUS
<1>6. /\ more \in Fact /\ more.pos = p /\ more.events = Append(temporaries[name].events, e)
  <2>1. temporaries[name] \in Fact
    BY <1>1
  <2>2. temporaries[name].events \in Seq(Event)
    BY <2>1 DEF Fact
  <2>3. Append(temporaries[name].events, e) \in Seq(Event)
    BY <2>2, PrefixGrows
  <2> QED
    BY <1>5, <2>1, <2>3 DEF Fact
<1>7. /\ DOMAIN tracked = DOMAIN temporaries
      /\ \A n \in DOMAIN temporaries : n # name => tracked[n] = temporaries[n]
      /\ Len(temporaries[name].events) < MaxEvents => tracked[name] = more
      /\ ~(Len(temporaries[name].events) < MaxEvents) => tracked[name] = temporaries[name]
  BY <1>5 DEF Recorded
<1> HIDE DEF tracked
<1>8. Typed(tracked)
  BY <1>1, <1>6, <1>7 DEF Typed
<1>9. ASSUME Watching
      PROVE  Tracks(h, tracked)
  <2>1. /\ \A n \in DOMAIN temporaries : KnownIn(history, temporaries[n]) /\ WholeIn(history, temporaries[n])
        /\ \A n \in DOMAIN temporaries : n # name => temporaries[n].pos # p
    BY <1>9 DEF Watching, CallsInv, Sound, FactsKnown
  <2>2. ASSUME NEW n \in DOMAIN temporaries
        PROVE  tracked[n].pos = temporaries[n].pos /\ KnownIn(h, tracked[n]) /\ WholeIn(h, tracked[n])
    <3>1. KnownIn(h, temporaries[n])
      <4>1. temporaries[n].events \in Seq(Event)
        BY <1>1 DEF Fact
      <4> QED
        BY <1>2, <1>4, <2>1, <4>1, StillKnown
    <3>2. CASE n # name
      <4>1. tracked[n] = temporaries[n] /\ temporaries[n].pos \in DOMAIN history /\ temporaries[n].pos # p
        BY <1>7, <2>1, <3>2 DEF KnownIn
      <4>2. h[temporaries[n].pos] = history[temporaries[n].pos]
        BY <1>3, <4>1
      <4> QED
        BY <2>1, <3>1, <4>1, <4>2 DEF WholeIn
    <3>3. CASE n = name /\ Len(temporaries[name].events) < MaxEvents
      <4>1. temporaries[name].events = history[p] /\ p \in DOMAIN history
        BY <2>1, <3>3 DEF WholeIn, KnownIn
      <4>2. tracked[n] = more /\ more.events = h[p] /\ more.pos = p /\ h[p] \in Seq(Event) /\ p \in DOMAIN h
        BY <1>3, <1>6, <1>7, <3>3, <4>1
      <4>3. IsPrefix(h[p], h[p])
        BY <4>2, PrefixGrows
      <4> QED
        BY <3>3, <4>2, <4>3 DEF WholeIn, KnownIn
    <3>4. CASE n = name /\ ~(Len(temporaries[name].events) < MaxEvents)
      BY <1>7, <3>1, <3>4 DEF WholeIn
    <3> QED
      BY <3>2, <3>3, <3>4
  <2> QED
    BY <1>7, <1>8, <2>2 DEF Tracks, Typed
<1> QED
  BY <1>8, <1>9 DEF h, tracked

\* What the collector keeps of a call is what the call does.
LEMMA CallKeeps ==
  ASSUME CallsInv, NEW s \in Statements, CallOf(s) # Absent
  PROVE  /\ Typed(AfterCall(CallOf(s)))
         /\ (Watching /\ ~Hidden(s)) => Tracks(Effect(CallOf(s)), AfterCall(CallOf(s)))
<1> DEFINE c == CallOf(s)
<1>1. /\ c.head \in Name /\ c.file \in Name \cup {Absent} /\ Absent \notin Name /\ Absent \notin Target
      /\ "launcher" \in Target /\ pos \in Nat
      /\ [event |-> c.method, pos |-> pos] \in Event /\ [event |-> "launch", pos |-> pos] \in Event
      /\ \A n \in DOMAIN temporaries : n \in Name
  BY CallShape, EventShape, CallsAssumption DEF CallsAssumption, CallsInv, CallsTypeOK
<1>2. (Watching /\ ~Hidden(s)) =>
        /\ AfterArguments(c) = history
        /\ \A n \in DOMAIN temporaries : IsFile(n) /\ namespace[n].file = temporaries[n].pos
        /\ \A n \in DOMAIN bindings : namespace[n].to = bindings[n]
  <2> SUFFICES ASSUME Watching, ~Hidden(s)
               PROVE  /\ AfterArguments(c) = history
                      /\ \A n \in DOMAIN temporaries : IsFile(n) /\ namespace[n].file = temporaries[n].pos
                      /\ \A n \in DOMAIN bindings : namespace[n].to = bindings[n]
    OBVIOUS
  <2>1. ~c.inner
    BY DEF Hidden
  <2>2. AfterArguments(c) = history
    BY <2>1 DEF AfterArguments
  <2>3. /\ \A n \in DOMAIN temporaries : namespace[n] = File(temporaries[n].pos)
        /\ \A n \in DOMAIN bindings : namespace[n].to = bindings[n]
    BY DEF Watching, CallsInv, Sound
  <2>4. ASSUME NEW n \in DOMAIN temporaries
        PROVE  IsFile(n) /\ namespace[n].file = temporaries[n].pos
    <3>1. namespace[n] = [to |-> "file", file |-> temporaries[n].pos]
      BY <2>3 DEF File
    <3>2. n # Absent
      BY <1>1
    <3> QED
      BY <3>1, <3>2 DEF IsFile
  <2> QED
    BY <2>2, <2>3, <2>4
<1>3. CASE UsesAny(c)
  <2>1. DOMAIN AfterCall(c) = {}
    BY <1>3 DEF AfterCall
  <2> QED
    BY <2>1 DEF Typed, Tracks
<1>4. CASE IsMethod(c)
  <2>1. c.head \in DOMAIN temporaries /\ c.method # Absent /\ ~UsesAny(c)
    BY <1>4 DEF IsMethod, UsesAny
  <2>2. AfterCall(c) = Recorded(temporaries, c.head, [event |-> c.method, pos |-> pos])
    BY <1>4, <2>1 DEF AfterCall
  <2>3. (Watching /\ ~Hidden(s)) =>
          Effect(c) = Touch(history, {temporaries[c.head].pos}, [event |-> c.method, pos |-> pos])
    BY <1>2, <2>1 DEF Effect
  <2> QED
    BY <1>1, <2>1, <2>2, <2>3, RecordKeeps
<1>5. CASE IsLaunch(c)
  <2>1. /\ c.file \in DOMAIN temporaries /\ c.method = Absent /\ ~UsesAny(c) /\ ~IsMethod(c)
        /\ c.head \in DOMAIN bindings /\ bindings[c.head] = "launcher"
    BY <1>1, <1>5 DEF IsLaunch, UsesAny, Resolved
  <2>2. AfterCall(c) = Recorded(temporaries, c.file, [event |-> "launch", pos |-> pos])
    BY <1>5, <2>1 DEF AfterCall
  <2>3. (Watching /\ ~Hidden(s)) =>
          Effect(c) = Touch(history, {temporaries[c.file].pos}, [event |-> "launch", pos |-> pos])
    BY <1>2, <2>1 DEF Effect, Denotes
  <2> QED
    BY <1>1, <2>1, <2>2, <2>3, RecordKeeps
<1> QED
  BY <1>3, <1>4, <1>5 DEF UsesAny

\* finish: facts known and ended stay so, and what it adds is.
LEMMA FinishKeeps ==
  ASSUME NEW facts \in Seq(Fact), NEW tracked, NEW names, NEW reason \in Reasons,
         \A n \in DOMAIN tracked : n \in Name /\ tracked[n] \in Fact, AllEnded(facts)
  PROVE  /\ Finished(facts, tracked, names, reason) \in Seq(Fact)
         /\ AllEnded(Finished(facts, tracked, names, reason))
         /\ \A h : (AllKnown(h, facts) /\ \A n \in DOMAIN tracked : KnownIn(h, tracked[n])) =>
                     AllKnown(h, Finished(facts, tracked, names, reason))
<1>1. PICK more : more = Finished(facts, tracked, names, reason)
  OBVIOUS
<1>2. reason # Absent
  BY CallsAssumption DEF CallsAssumption, Reasons
<1>3. /\ more \in Seq(Fact)
      /\ \A i \in DOMAIN more :
           \/ \E j \in DOMAIN facts : more[i] = facts[j]
           \/ \E n \in DOMAIN tracked : /\ more[i].pos = tracked[n].pos /\ more[i].ended = reason
                                        /\ more[i].events = tracked[n].events
  BY <1>1, FinishedFacts
<1>4. AllEnded(more)
  BY <1>2, <1>3 DEF AllEnded
<1>5. ASSUME NEW h, AllKnown(h, facts), \A n \in DOMAIN tracked : KnownIn(h, tracked[n])
      PROVE  AllKnown(h, more)
  BY <1>3, <1>5 DEF AllKnown, KnownIn
<1> QED
  BY <1>1, <1>3, <1>4, <1>5

\* What histories that have grown say of the facts there were.
LEMMA KnownAfter ==
  ASSUME CallsInv, plain, NEW g, Grown(history, g)
  PROVE  AllKnown(g, files) /\ \A n \in DOMAIN temporaries : KnownIn(g, temporaries[n])
<1>1. /\ files \in Seq(Fact) /\ \A n \in DOMAIN temporaries : temporaries[n] \in Fact
      /\ \A at \in DOMAIN history : history[at] \in Seq(Event)
      /\ \A n \in DOMAIN temporaries : KnownIn(history, temporaries[n])
      /\ \A i \in DOMAIN files : KnownIn(history, files[i])
  BY DEF CallsInv, CallsTypeOK, FactsKnown, Made
<1>2. \A i \in DOMAIN files : files[i].events \in Seq(Event)
  <2>1. \A f \in Fact : f.events \in Seq(Event)
    BY DEF Fact
  <2> QED
    BY <1>1, <2>1
<1>3. \A n \in DOMAIN temporaries : temporaries[n].events \in Seq(Event)
  BY <1>1 DEF Fact
<1>4. \A i \in DOMAIN files : KnownIn(g, files[i])
  BY <1>1, <1>2, StillKnown
<1>5. \A n \in DOMAIN temporaries : KnownIn(g, temporaries[n])
  BY <1>1, <1>3, StillKnown
<1> QED
  BY <1>4, <1>5 DEF AllKnown

\* The facts after a call.
LEMMA CallFiles ==
  ASSUME CallsInv, analysis = <<>>, NEW c
  PROVE  /\ FilesAfterCall(c) \in Seq(Fact) /\ AllEnded(FilesAfterCall(c))
         /\ \A g : (plain /\ Grown(history, g)) => AllKnown(g, FilesAfterCall(c))
<1>1. /\ files \in Seq(Fact) /\ AllEnded(files)
      /\ \A n \in DOMAIN temporaries : n \in Name /\ temporaries[n] \in Fact
      /\ "opaque-call" \in Reasons
  BY DEF CallsInv, CallsTypeOK, FactsEnded, AllEnded, Reasons
<1>2. ASSUME NEW g, plain, Grown(history, g)
      PROVE  AllKnown(g, files) /\ \A n \in DOMAIN temporaries : KnownIn(g, temporaries[n])
  BY <1>2, KnownAfter
<1>3. CASE UsesAny(c)
  BY <1>1, <1>2, <1>3, FinishKeeps DEF FilesAfterCall
<1>4. CASE ~UsesAny(c)
  BY <1>1, <1>2, <1>4 DEF FilesAfterCall
<1> QED
  BY <1>3, <1>4

\* A call reported is what it was bound to when it ran.
LEMMA Observed ==
  ASSUME CallsInv, NEW s \in Statements, Execute(s), CallOf(s) # Absent, budget > 0, Observe(CallOf(s))
  PROVE  calls' \in Seq(CallFact) /\ SaidBound'
<1> DEFINE c == CallOf(s)
           new == [resolved |-> Resolved(c), pos |-> pos, trigger |-> Trigger]
<1>1. /\ calls \in Seq(CallFact) /\ pos \in Nat /\ DOMAIN denoted \subseteq 1..(pos - 1)
      /\ \A n \in DOMAIN bindings : bindings[n] \in Target
  BY DEF CallsInv, CallsTypeOK
<1>2. /\ plain' => plain
      /\ \A at \in DOMAIN denoted : at \in DOMAIN denoted' /\ (at # pos => denoted'[at] = denoted[at])
      /\ pos \in DOMAIN denoted' /\ denoted'[pos] = Denotes(c)
  BY Ran DEF CallsInv
<1>3. CASE calls' = calls
  BY <1>1, <1>2, <1>3 DEF CallsInv, SaidBound
<1>4. CASE calls' # calls
  <2>1. calls' = Append(calls, new) /\ Resolved(c) # Absent
    BY <1>4 DEF Observe
  <2>2. Resolved(c) \in Target /\ c.head \in DOMAIN bindings /\ Resolved(c) = bindings[c.head]
    BY <1>1, <2>1 DEF Resolved
  <2>3. new \in CallFact
    BY <1>1, <2>2 DEF CallFact, Trigger
  <2>4. /\ calls' \in Seq(CallFact) /\ Len(calls') = Len(calls) + 1 /\ calls'[Len(calls')] = new
        /\ \A i \in DOMAIN calls : calls'[i] = calls[i]
    BY <1>1, <2>1, <2>3
  <2>5. ASSUME plain', NEW i \in DOMAIN calls'
        PROVE  calls'[i].pos \in DOMAIN denoted' /\ denoted'[calls'[i].pos] = calls'[i].resolved
    <3>1. CASE i \in DOMAIN calls
      BY <1>1, <1>2, <2>4, <2>5, <3>1 DEF CallsInv, SaidBound
    <3>2. CASE i = Len(calls')
      <4>1. namespace[c.head].to = bindings[c.head]
        BY <1>2, <2>2, <2>5 DEF CallsInv, Sound
      <4> QED
        BY <1>2, <2>2, <2>4, <3>2, <4>1 DEF Denotes
    <3>3. i \in 1..Len(calls') /\ DOMAIN calls = 1..Len(calls) /\ Len(calls) \in Nat
      BY <1>1, <2>4
    <3> QED
      BY <2>4, <3>1, <3>2, <3>3
  <2> QED
    BY <2>4, <2>5 DEF SaidBound
<1> QED
  BY <1>3, <1>4
\* A statement that reports nothing leaves the reports as they were bound.
LEMMA SaidStill ==
  ASSUME CallsInv, NEW s \in Statements, Execute(s), calls' = calls
  PROVE  calls' \in Seq(CallFact) /\ SaidBound'
<1>1. /\ calls \in Seq(CallFact) /\ pos \in Nat /\ DOMAIN denoted \subseteq 1..(pos - 1)
  BY DEF CallsInv, CallsTypeOK
<1>2. /\ plain' => plain
      /\ \A at \in DOMAIN denoted : at \in DOMAIN denoted' /\ (at # pos => denoted'[at] = denoted[at])
  BY Ran DEF CallsInv
<1> QED
  BY <1>1, <1>2 DEF CallsInv, SaidBound

\* What names are bound to after a statement with nothing out of sight.
LEMMA Names ==
  ASSUME NEW s \in Statements, Execute(s), ~Hidden(s)
  PROVE  /\ (s.kind = "import" /\ s.alias # Absent) =>
              namespace' = Rebind(namespace, {s.alias}, Imported(s.target))
         /\ s.kind = "definition" => namespace' = Rebind(namespace, {s.name}, Anything)
         /\ (s.kind = "assign" /\ s.left # <<>>) =>
              namespace' = Rebind(namespace, ToSet(s.left),
                IF s.right # Absent /\ s.right.method = Absent /\ Denotes(s.right) = "tempfile"
                THEN File(pos) ELSE Anything)
         /\ s.kind \in {"call", "other", "try"} => namespace' = namespace
<1> DEFINE c == CallOf(s)
           assigned == IF c # Absent /\ c.walrus # Absent THEN Rebind(namespace, {c.walrus}, Anything) ELSE namespace
           makes == c # Absent /\ c.method = Absent /\ Denotes(c) = "tempfile" /\ s.kind = "assign" /\ s.left # <<>>
           bound == CASE s.kind = "import" /\ s.alias # Absent -> Rebind(namespace, {s.alias}, Imported(s.target))
                      [] s.kind = "definition" -> Rebind(namespace, {s.name}, Anything)
                      [] s.kind = "assign" /\ s.left # <<>> ->
                           Rebind(assigned, ToSet(s.left), IF makes THEN File(pos) ELSE Anything)
                      [] OTHER -> assigned
<1>1. assigned = namespace /\ ~Runs(s)
  BY DEF Hidden
<1>2. ~MayRebind(s) => namespace' = bound
  BY DEF Execute
<1>3. CASE s.kind = "import" /\ s.alias # Absent
  BY <1>1, <1>2, <1>3 DEF MayRebind, MayUse
<1>4. CASE s.kind = "definition"
  BY <1>1, <1>2, <1>4 DEF MayRebind, MayUse
<1>5. CASE s.kind = "assign" /\ s.left # <<>>
  <2>1. namespace' = Rebind(assigned, ToSet(s.left), IF makes THEN File(pos) ELSE Anything)
    BY <1>1, <1>2, <1>5 DEF MayRebind, MayUse
  <2>2. c = s.right
    BY <1>5 DEF CallOf
  <2> QED
    BY <1>1, <1>5, <2>1, <2>2
<1>6. CASE s.kind \in {"call", "other", "try"}
  <2>1. namespace' = assigned
    BY <1>1, <1>2, <1>6 DEF MayRebind, MayUse
  <2> QED
    BY <1>1, <1>6, <2>1
<1> QED
  BY <1>3, <1>4, <1>5, <1>6

\* What happens to files in a statement.
LEMMA Histories ==
  ASSUME NEW s \in Statements, Execute(s), ~MayUse(s)
  PROVE  /\ CallOf(s) = Absent => history' = history
         /\ CallOf(s) # Absent =>
              \/ history' = Effect(CallOf(s))
              \/ /\ s.kind = "assign" /\ s.left # <<>> /\ CallOf(s) = s.right
                 /\ s.right.method = Absent /\ Denotes(s.right) = "tempfile"
                 /\ history' = [at \in Made \cup {pos} |-> IF at = pos THEN <<>> ELSE AfterArguments(s.right)[at]]
<1> DEFINE c == CallOf(s)
           makes == c # Absent /\ c.method = Absent /\ Denotes(c) = "tempfile" /\ s.kind = "assign" /\ s.left # <<>>
           past == IF c = Absent THEN history ELSE IF makes THEN AfterArguments(c) ELSE Effect(c)
<1>1. history' = IF makes THEN [at \in Made \cup {pos} |-> IF at = pos THEN <<>> ELSE past[at]] ELSE past
  BY DEF Execute
<1>2. CASE ~makes
  BY <1>1, <1>2
<1>3. CASE makes
  <2>1. c = s.right /\ past = AfterArguments(c)
    BY <1>3 DEF CallOf
  <2> QED
    BY <1>1, <1>3, <2>1
<1> QED
  BY <1>2, <1>3

\* A statement with nothing out of sight, that is no branch, uses no file unseen.
LEMMA InSight ==
  ASSUME NEW s, ~Hidden(s), s.kind \notin {"control", "augmented"}
  PROVE  ~MayUse(s)
BY DEF Hidden, MayUse

-----------------------------------------------------------------------------
(* Statements.                                                             *)

\* The tracked files are those their names denote.
TempsSound ==
  /\ \A n \in DOMAIN temporaries : /\ namespace[n] = File(temporaries[n].pos)
                                   /\ WholeIn(history, temporaries[n])
                                   /\ KnownIn(history, temporaries[n])
  /\ \A n, m \in DOMAIN temporaries : temporaries[n].pos = temporaries[m].pos => n = m

\* Those left of a set that is tracked, when their names are not rebound.
LEMMA Kept ==
  ASSUME CallsInv, Watching, NEW tracked, Tracks(history', tracked),
         \A n \in DOMAIN temporaries' : /\ n \in DOMAIN tracked /\ n \in Name
                                        /\ temporaries'[n] = tracked[n] /\ namespace'[n] = namespace[n]
  PROVE  TempsSound'
<1>1. /\ \A n \in DOMAIN temporaries : namespace[n] = File(temporaries[n].pos)
      /\ \A n, m \in DOMAIN temporaries : temporaries[n].pos = temporaries[m].pos => n = m
  BY DEF Watching, CallsInv, Sound
<1>2. \A n \in DOMAIN temporaries' :
        /\ n \in DOMAIN temporaries /\ temporaries'[n].pos = temporaries[n].pos
        /\ KnownIn(history', temporaries'[n]) /\ WholeIn(history', temporaries'[n])
  BY DEF Tracks
<1> QED
  BY <1>1, <1>2 DEF TempsSound, File

\* A statement's step, from what it does to each part of the state.
LEMMA Stepped ==
  ASSUME CallsInv, NEW s \in Statements, Execute(s), pos' = pos + 1,
         budget' \in Nat, trying' \in BOOLEAN, analysis = <<>>, analysis' = <<>>,
         calls' \in Seq(CallFact) /\ SaidBound',
         \A n \in DOMAIN bindings' : n \in Name /\ bindings'[n] \in Target,
         \A n \in DOMAIN temporaries' : n \in Name /\ temporaries'[n] \in Fact,
         files' \in Seq(Fact), AllEnded(files'), plain' => AllKnown(history', files'),
         plain' => \A n \in DOMAIN temporaries' : KnownIn(history', temporaries'[n]),
         (plain' /\ budget' > 0) => /\ \A n \in DOMAIN bindings' : namespace'[n].to = bindings'[n]
                                    /\ TempsSound'
  PROVE  CallsInv'
<1>1. CallsTypeOK'
  <2>1. CallsTypeOK
    BY DEF CallsInv
  <2>2. pos \in Nat /\ 1 <= pos /\ DOMAIN denoted \subseteq 1..(pos - 1) /\ Made \subseteq 1..(pos - 1)
    BY <2>1 DEF CallsTypeOK
  <2>3. \A at \in Made' : at \in 1..(pos' - 1) /\ history'[at] \in Seq(Event)
    <3>1. \A at \in DOMAIN history' : at \in Made \cup {pos} /\ history'[at] \in Seq(Event)
      BY <2>1, Ran
    <3> QED
      BY <2>2, <3>1 DEF Made
  <2>4. DOMAIN denoted' \subseteq 1..(pos' - 1)
    <3>1. DOMAIN denoted' \subseteq DOMAIN denoted \cup {pos}
      BY <2>1, Ran
    <3> QED
      BY <2>2, <3>1
  <2>5. plain' \in BOOLEAN
    BY <2>1, Ran
  <2>6. pos' \in Nat /\ 1 <= pos'
    BY <2>2
  <2> QED
    BY <2>3, <2>4, <2>5, <2>6 DEF CallsTypeOK
<1>2. Sound'
  BY DEF Sound, TempsSound
<1>3. FactsKnown' /\ FactsEnded'
  BY DEF FactsKnown, FactsEnded, AllKnown, AllEnded
<1> QED
  BY <1>1, <1>2, <1>3 DEF CallsInv

\* What holds where a statement is looked at.
LEMMA Begun ==
  ASSUME CallsInv, NEW s, NEW kind, Statement(s, kind)
  PROVE  /\ analysis = <<>> /\ analysis' = <<>> /\ s.kind = kind
         /\ budget > 0 /\ budget' \in Nat /\ pos \in Nat /\ pos' = pos + 1 /\ trying \in BOOLEAN
         /\ files \in Seq(Fact) /\ AllEnded(files)
         /\ \A n \in DOMAIN bindings : n \in Name /\ bindings[n] \in Target
         /\ \A n \in DOMAIN temporaries : n \in Name /\ temporaries[n] \in Fact
<1>1. /\ analysis = <<>> /\ analysis' = analysis /\ s.kind = kind /\ budget > 0 /\ budget' = budget - 1
      /\ pos' = pos + 1
  BY DEF Statement, Running
<1>2. CallsTypeOK /\ FactsEnded
  BY DEF CallsInv
<1>3. budget \in Nat /\ pos \in Nat
  BY <1>2 DEF CallsTypeOK
<1>4. trying \in BOOLEAN
  BY <1>2 DEF CallsTypeOK
<1>5. /\ files \in Seq(Fact)
      /\ \A n \in DOMAIN bindings : n \in Name /\ bindings[n] \in Target
      /\ \A n \in DOMAIN temporaries : n \in Name /\ temporaries[n] \in Fact
  BY <1>2 DEF CallsTypeOK
<1>6. AllEnded(files)
  BY <1>1, <1>2 DEF FactsEnded, AllEnded
<1> QED
  BY <1>1, <1>3, <1>4, <1>5, <1>6

\* end: what is left is as it was, what is not is a fact.
LEMMA EndsKeeps ==
  ASSUME CallsInv, NEW s \in Statements, Execute(s), analysis = <<>>,
         NEW names, NEW reason \in Reasons, Ends(names, reason)
  PROVE  /\ files' \in Seq(Fact) /\ AllEnded(files') /\ (plain' => AllKnown(history', files'))
         /\ \A n \in DOMAIN temporaries' : /\ n \in DOMAIN temporaries /\ n \notin names
                                           /\ n \in Name /\ temporaries'[n] \in Fact
                                           /\ temporaries'[n] = temporaries[n]
         /\ plain' => \A n \in DOMAIN temporaries' : KnownIn(history', temporaries'[n])
<1>1. /\ files \in Seq(Fact) /\ AllEnded(files)
      /\ \A n \in DOMAIN temporaries : n \in Name /\ temporaries[n] \in Fact
  BY DEF CallsInv, CallsTypeOK, FactsEnded, AllEnded
<1>2. temporaries' = Without(temporaries, names) /\ files' = Finished(files, temporaries, names, reason)
  BY DEF Ends
<1>3. plain' => AllKnown(history', files) /\ \A n \in DOMAIN temporaries : KnownIn(history', temporaries[n])
  BY Ran, KnownAfter DEF CallsInv
<1>4. files' \in Seq(Fact) /\ AllEnded(files') /\ (plain' => AllKnown(history', files'))
  BY <1>1, <1>2, <1>3, FinishKeeps
<1>5. \A n \in DOMAIN temporaries' : /\ n \in DOMAIN temporaries /\ n \notin names
                                     /\ temporaries'[n] = temporaries[n]
  BY <1>2 DEF Without
<1> QED
  BY <1>1, <1>3, <1>4, <1>5

\* Tracked files of which nothing happens.
LEMMA Undisturbed ==
  ASSUME CallsInv
  PROVE  Typed(temporaries) /\ (Watching => Tracks(history, temporaries))
<1>1. Typed(temporaries)
  BY DEF Typed, CallsInv, CallsTypeOK
<1>2. Watching => \A n \in DOMAIN temporaries : KnownIn(history, temporaries[n]) /\ WholeIn(history, temporaries[n])
  BY DEF CallsInv, Watching, Sound, FactsKnown
<1> QED
  BY <1>1, <1>2 DEF Typed, Tracks

\* A call statement.
LEMMA CallStatementKeeps ==
  ASSUME CallsInv, NEW s \in Statements, CallStatement(s), Execute(s)
  PROVE  CallsInv'
<1>1. /\ Statement(s, "call") /\ Observe(s.call)
      /\ temporaries' = AfterCall(s.call) /\ files' = FilesAfterCall(s.call)
      /\ trying' = trying /\ bindings' = bindings
  BY DEF CallStatement
<1>2. /\ analysis = <<>> /\ analysis' = <<>> /\ s.kind = "call" /\ budget > 0 /\ budget' \in Nat
      /\ pos' = pos + 1 /\ trying \in BOOLEAN
      /\ \A n \in DOMAIN bindings : n \in Name /\ bindings[n] \in Target
      /\ \A n \in DOMAIN temporaries : n \in Name
  BY <1>1, Begun
<1>3. CallOf(s) = s.call /\ s.call # Absent
  BY <1>2, CallsAssumption DEF CallOf, CallsAssumption
<1>4. calls' \in Seq(CallFact) /\ SaidBound'
  BY <1>1, <1>2, <1>3, Observed
<1>5. /\ Grown(history, history') /\ (plain' => plain /\ ~Hidden(s))
  BY Ran DEF CallsInv
<1>6. files' \in Seq(Fact) /\ AllEnded(files') /\ (plain' => AllKnown(history', files'))
  BY <1>1, <1>2, <1>5, CallFiles
<1>7. Typed(temporaries') /\ (plain' => Tracks(history', temporaries'))
  <2>1. history' = Effect(CallOf(s))
    BY <1>2, <1>3, Histories DEF MayUse, Runs
  <2> QED
    BY <1>1, <1>2, <1>3, <1>5, <2>1, CallKeeps DEF Watching
<1>8. \A n \in DOMAIN temporaries' : n \in Name /\ temporaries'[n] \in Fact
  BY <1>2, <1>7 DEF Typed
<1>9. plain' => \A n \in DOMAIN temporaries' : KnownIn(history', temporaries'[n])
  BY <1>7 DEF Tracks
<1>10. ASSUME plain'
       PROVE  /\ \A n \in DOMAIN bindings' : namespace'[n].to = bindings'[n]
              /\ TempsSound'
  <2>1. Watching /\ namespace' = namespace
    BY <1>2, <1>5, <1>10, Names DEF Watching
  <2>2. \A n \in DOMAIN bindings' : namespace'[n].to = bindings'[n]
    BY <1>1, <2>1 DEF CallsInv, Sound, Watching
  <2> QED
    BY <1>7, <1>8, <1>10, <2>1, <2>2, Kept
<1> QED
  BY <1>1, <1>2, <1>4, <1>6, <1>8, <1>9, <1>10, Stepped

\* The statements without a call, that are no branch: a name's files are ended.
LEMMA NamedKeeps ==
  ASSUME CallsInv, NEW s \in Statements, Execute(s), NEW names, NEW kind,
         Statement(s, kind), kind \in {"import", "definition"}, Ends(names, "rebound"),
         trying' = trying, calls' = calls,
         \A n \in DOMAIN bindings' : n \in Name /\ bindings'[n] \in Target,
         (Watching /\ ~Hidden(s)) =>
            /\ \A n \in DOMAIN bindings' : namespace'[n].to = bindings'[n]
            /\ \A n \in Name \ names : namespace'[n] = namespace[n]
  PROVE  CallsInv'
<1>1. /\ analysis = <<>> /\ analysis' = <<>> /\ s.kind = kind /\ budget > 0 /\ budget' \in Nat
      /\ pos' = pos + 1 /\ trying \in BOOLEAN
  BY Begun
<1>2. ~Hidden(s) => history' = history
  BY <1>1, InSight, Histories DEF CallOf
<1>3. calls' \in Seq(CallFact) /\ SaidBound'
  BY SaidStill
<1>4. "rebound" \in Reasons
  BY DEF Reasons
<1>5. /\ files' \in Seq(Fact) /\ AllEnded(files') /\ (plain' => AllKnown(history', files'))
      /\ \A n \in DOMAIN temporaries' : /\ n \in DOMAIN temporaries /\ n \notin names
                                        /\ n \in Name /\ temporaries'[n] \in Fact
                                        /\ temporaries'[n] = temporaries[n]
      /\ plain' => \A n \in DOMAIN temporaries' : KnownIn(history', temporaries'[n])
  BY <1>1, <1>4, EndsKeeps
<1>6. ASSUME plain'
      PROVE  /\ \A n \in DOMAIN bindings' : namespace'[n].to = bindings'[n]
             /\ TempsSound'
  <2>1. Watching /\ ~Hidden(s)
    BY <1>1, <1>6, Ran DEF Watching, CallsInv
  <2>2. Tracks(history', temporaries)
    BY <1>2, <2>1, Undisturbed
  <2>3. \A n \in DOMAIN temporaries' : /\ n \in DOMAIN temporaries /\ n \in Name
                                       /\ temporaries'[n] = temporaries[n] /\ namespace'[n] = namespace[n]
    BY <1>5, <2>1
  <2>4. TempsSound'
    BY <2>1, <2>2, <2>3, Kept
  <2> QED
    BY <2>1, <2>4
<1> QED
  BY <1>1, <1>3, <1>5, <1>6, Stepped

\* Imports and definitions.
LEMMA ImportKeeps ==
  ASSUME CallsInv, NEW s \in Statements, Import(s), Execute(s)
  PROVE  CallsInv'
<1>1. /\ Statement(s, "import") /\ trying' = trying /\ calls' = calls
      /\ bindings' = IF s.alias = Absent THEN bindings ELSE With(bindings, s.alias, s.target)
      /\ Ends(DOMAIN bindings', "rebound")
  BY DEF Import
<1>2. s.kind = "import" /\ budget > 0 /\ \A n \in DOMAIN bindings : n \in Name /\ bindings[n] \in Target
  BY <1>1, Begun
<1>3. s.alias \in Name \cup {Absent} /\ s.target \in Target
  BY <1>2, CallsAssumption DEF CallsAssumption
<1>4. \A n \in DOMAIN bindings' : n \in Name /\ bindings'[n] \in Target
  BY <1>1, <1>2, <1>3 DEF With
<1>5. ASSUME Watching, ~Hidden(s)
      PROVE  /\ \A n \in DOMAIN bindings' : namespace'[n].to = bindings'[n]
             /\ \A n \in Name \ DOMAIN bindings' : namespace'[n] = namespace[n]
  <2>1. s.alias # Absent /\ namespace' = Rebind(namespace, {s.alias}, Imported(s.target))
    BY <1>2, <1>5, Names DEF Hidden
  <2>2. \A n \in Name : /\ n = s.alias => namespace'[n] = Imported(s.target)
                        /\ n # s.alias => namespace'[n] = namespace[n]
    BY <2>1 DEF Rebind
  <2>3. \A n \in DOMAIN bindings : namespace[n].to = bindings[n]
    BY <1>5 DEF CallsInv, Sound, Watching
  <2>4. Imported(s.target).to = s.target
    BY DEF Imported
  <2>5. /\ DOMAIN bindings' = DOMAIN bindings \cup {s.alias} /\ bindings'[s.alias] = s.target
        /\ \A n \in DOMAIN bindings : n # s.alias => bindings'[n] = bindings[n]
    BY <1>1, <2>1 DEF With
  <2> QED
    BY <1>4, <2>2, <2>3, <2>4, <2>5
<1> QED
  BY <1>1, <1>4, <1>5, NamedKeeps

\* A definition unbinds its name.
LEMMA DefinitionKeeps ==
  ASSUME CallsInv, NEW s \in Statements, Definition(s), Execute(s)
  PROVE  CallsInv'
<1>1. /\ Statement(s, "definition") /\ trying' = trying /\ calls' = calls
      /\ bindings' = Rebound(s.name) /\ Ends({s.name}, "rebound")
  BY DEF Definition
<1>2. s.kind = "definition" /\ budget > 0 /\ \A n \in DOMAIN bindings : n \in Name /\ bindings[n] \in Target
  BY <1>1, Begun
<1>3. \A n \in DOMAIN bindings' : n \in DOMAIN bindings /\ n # s.name /\ bindings'[n] = bindings[n]
  BY <1>1 DEF Rebound, Without
<1>4. ASSUME Watching, ~Hidden(s)
      PROVE  /\ \A n \in DOMAIN bindings' : namespace'[n].to = bindings'[n]
             /\ \A n \in Name \ {s.name} : namespace'[n] = namespace[n]
  <2>1. namespace' = Rebind(namespace, {s.name}, Anything)
    BY <1>2, <1>4, Names
  <2>2. \A n \in Name : n # s.name => namespace'[n] = namespace[n]
    BY <2>1 DEF Rebind
  <2>3. \A n \in DOMAIN bindings : namespace[n].to = bindings[n]
    BY <1>4 DEF CallsInv, Sound, Watching
  <2> QED
    BY <1>2, <1>3, <2>2, <2>3
<1> QED
  BY <1>1, <1>2, <1>3, <1>4, NamedKeeps

\* The names a chain of assignments gives.
LEMMA Chain ==
  ASSUME NEW names \in Seq(Name)
  PROVE  /\ names # <<>> <=> Len(names) # 0
         /\ Len(names) = 1 => names # <<>>
         /\ (names # <<>> /\ ~(Len(names) > 1)) => Len(names) = 1
         /\ ~(Len(names) <= 1) => Len(names) > 1
<1>1. Len(names) \in Nat
  OBVIOUS
<1>2. names # <<>> => Len(names) \in Nat \ {0}
  BY EmptySeq
<1>3. names = <<>> => Len(names) = 0
  BY EmptySeq
<1>4. PICK n : n = Len(names)
  OBVIOUS
<1>5. /\ names # <<>> <=> n # 0
      /\ n = 1 => names # <<>>
      /\ n # 0 /\ ~(n > 1) => n = 1
      /\ ~(n <= 1) => n > 1
  BY <1>1, <1>2, <1>3, <1>4
<1> QED
  BY <1>4, <1>5

\* The right side of an assignment: what it reports, and what is left after it.
LEMMA RightKeeps ==
  ASSUME CallsInv, NEW s \in Statements, Execute(s), Statement(s, "assign"), Right(s)
  PROVE  /\ calls' \in Seq(CallFact) /\ SaidBound'
         /\ Typed(AfterRight(s)) /\ FilesAfterRight(s) \in Seq(Fact) /\ AllEnded(FilesAfterRight(s))
         /\ plain' => AllKnown(history', FilesAfterRight(s)) /\ Tracks(history', AfterRight(s))
<1>1. /\ analysis = <<>> /\ s.kind = "assign" /\ budget > 0 /\ pos \in Nat
      /\ files \in Seq(Fact) /\ AllEnded(files)
  BY Begun
<1>2. CallOf(s) = s.right /\ s.left \in Seq(Name)
  BY <1>1, CallsAssumption DEF CallOf, CallsAssumption
<1>9. /\ s.left # <<>> <=> Len(s.left) # 0
      /\ Len(s.left) = 1 => s.left # <<>>
      /\ (s.left # <<>> /\ ~(Len(s.left) > 1)) => Len(s.left) = 1
      /\ ~(Len(s.left) <= 1) => Len(s.left) > 1
  BY <1>2, Chain
<1>3. Grown(history, history') /\ (plain' => Watching /\ ~Hidden(s))
  BY <1>1, Ran DEF CallsInv, Watching
<1>4. CASE Calling(s)
  <2>1. /\ s.right # Absent /\ Observe(s.right) /\ ~Makes(s) /\ Len(s.left) <= 1
        /\ AfterRight(s) = AfterCall(s.right) /\ FilesAfterRight(s) = FilesAfterCall(s.right)
    BY <1>4 DEF Calling, Right, AfterRight, FilesAfterRight
  <2>2. calls' \in Seq(CallFact) /\ SaidBound'
    BY <1>1, <1>2, <2>1, Observed
  <2>3. /\ FilesAfterRight(s) \in Seq(Fact) /\ AllEnded(FilesAfterRight(s))
        /\ plain' => AllKnown(history', FilesAfterRight(s))
    BY <1>1, <1>3, <2>1, CallFiles DEF Watching
  <2>4. Typed(AfterRight(s)) /\ (plain' => Tracks(Effect(s.right), AfterRight(s)))
    BY <1>2, <1>3, <2>1, CallKeeps
  <2>5. ASSUME plain'
        PROVE  Tracks(history', AfterRight(s))
    <3>1. CASE history' = Effect(s.right)
      BY <2>4, <2>5, <3>1
    <3>2. CASE history' # Effect(s.right)
      <4>1. s.left # <<>> /\ s.right.method = Absent /\ Denotes(s.right) = "tempfile"
        BY <1>1, <1>2, <1>3, <2>1, <2>5, <3>2, InSight, Histories
      <4>2. Len(s.left) = 1
        <5>1. ~(Len(s.left) > 1)
          BY <1>2, <1>3, <1>1, <2>5 DEF Hidden
        <5> QED
          BY <1>9, <4>1, <5>1
      <4>3. Resolved(s.right) # "tempfile"
        BY <2>1, <4>1, <4>2 DEF Makes
      <4>4. s.right.head \notin DOMAIN bindings
        BY <1>3, <2>5, <4>1, <4>3 DEF CallsInv, Sound, Watching, Denotes, Resolved
      <4>5. Resolved(s.right) = Absent /\ Absent # "launcher"
        BY <4>4, CallsAssumption DEF Resolved, CallsAssumption
      <4>6. ~IsMethod(s.right) /\ ~IsLaunch(s.right)
        BY <4>1, <4>5 DEF IsMethod, IsLaunch
      <4>7. DOMAIN AfterRight(s) = {}
        BY <2>1, <4>6 DEF AfterCall, UsesAny
      <4> QED
        BY <4>7 DEF Tracks
    <3> QED
      BY <3>1, <3>2
  <2> QED
    BY <2>2, <2>3, <2>4, <2>5
<1>5. CASE ~Calling(s)
  <2>1. calls' = calls /\ AfterRight(s) = temporaries /\ FilesAfterRight(s) = files
    BY <1>5 DEF Right, AfterRight, FilesAfterRight
  <2>2. calls' \in Seq(CallFact) /\ SaidBound'
    BY <2>1, SaidStill
  <2>3. Typed(temporaries) /\ (plain' => Tracks(history, temporaries))
    BY <1>3, Undisturbed
  <2>4. plain' => AllKnown(history', files) /\ \A n \in DOMAIN temporaries : KnownIn(history', temporaries[n])
    BY <1>3, KnownAfter DEF Watching
  <2>5. ASSUME plain'
        PROVE  \A at \in Made : history'[at] = history[at]
    <3>1. CASE s.right = Absent
      BY <1>1, <1>2, <1>3, <2>5, <3>1, InSight, Histories
    <3>2. CASE s.right # Absent
      <4>1. Len(s.left) <= 1
        BY <1>1, <1>2, <1>3, <2>5 DEF Hidden
      <4>2. Makes(s)
        BY <1>5, <3>2, <4>1 DEF Calling
      <4>3. /\ s.right.method = Absent /\ Resolved(s.right) = "tempfile" /\ s.left # <<>>
        BY <1>9, <4>2, Zenon DEF Makes
      <4>4. Denotes(s.right) = "tempfile"
        <5>1. s.right.head \in DOMAIN bindings /\ bindings[s.right.head] = "tempfile"
          BY <4>3, CallsAssumption DEF Resolved, CallsAssumption
        <5> QED
          BY <1>3, <2>5, <5>1 DEF CallsInv, Sound, Watching, Denotes
      <4>5. history' = [at \in Made \cup {pos} |-> IF at = pos THEN <<>> ELSE AfterArguments(s.right)[at]]
        BY <1>1, <1>2, <3>2, <4>3, <4>4 DEF Execute
      <4>6. AfterArguments(s.right) = history
        BY <1>2, <1>3, <2>5, <3>2 DEF AfterArguments, Hidden
      <4>7. pos \notin Made
        BY <1>1 DEF CallsInv, CallsTypeOK
      <4> QED
        BY <4>5, <4>6, <4>7
    <3> QED
      BY <3>1, <3>2
  <2>6. plain' => Tracks(history', temporaries)
    BY <2>3, <2>4, <2>5 DEF Tracks, WholeIn, KnownIn, Made
  <2> QED
    BY <1>1, <2>1, <2>2, <2>3, <2>4, <2>6
<1> QED
  BY <1>4, <1>5

\* An assignment to a name: what it makes is tracked as that name.
LEMMA AssignNameKeeps ==
  ASSUME CallsInv, NEW s \in Statements, AssignName(s), Execute(s)
  PROVE  CallsInv'
<1> DEFINE name == Head(s.left)
           new == [pos |-> pos, trigger |-> Trigger, events |-> <<>>, ended |-> Absent]
           T == AfterRight(s)
<1>1. /\ Statement(s, "assign") /\ s.left # <<>> /\ Right(s)
      /\ temporaries' = IF Makes(s) THEN With(T, name, new) ELSE Without(T, {name})
      /\ files' = Finished(FilesAfterRight(s), T, {name}, "rebound")
      /\ bindings' = Rebound(name) /\ trying' = trying
  BY DEF AssignName
<1>2. /\ analysis = <<>> /\ analysis' = <<>> /\ s.kind = "assign" /\ budget > 0 /\ budget' \in Nat
      /\ pos \in Nat /\ pos' = pos + 1 /\ trying \in BOOLEAN
      /\ \A n \in DOMAIN bindings : n \in Name /\ bindings[n] \in Target
      /\ \A n \in DOMAIN temporaries : n \in Name
  BY <1>1, Begun
<1>3. /\ calls' \in Seq(CallFact) /\ SaidBound'
      /\ Typed(T) /\ FilesAfterRight(s) \in Seq(Fact) /\ AllEnded(FilesAfterRight(s))
      /\ plain' => AllKnown(history', FilesAfterRight(s)) /\ Tracks(history', T)
  BY <1>1, RightKeeps
<1>4. s.left \in Seq(Name) /\ name \in Name /\ name = s.left[1]
  BY <1>1, <1>2, CallsAssumption DEF CallsAssumption
<1> HIDE DEF T, name
<1>5. files' \in Seq(Fact) /\ AllEnded(files') /\ (plain' => AllKnown(history', files'))
  <2>1. "rebound" \in Reasons /\ \A n \in DOMAIN T : n \in Name /\ T[n] \in Fact
    BY <1>2, <1>3 DEF Typed, Reasons
  <2>2. plain' => \A n \in DOMAIN T : KnownIn(history', T[n])
    BY <1>3 DEF Tracks
  <2> QED
    BY <1>1, <1>3, <2>1, <2>2, FinishKeeps
<1>6. new \in Fact /\ new.pos = pos /\ new.events = <<>>
  <2>1. <<>> \in Seq(Event) /\ Trigger \in {"module", "module_try"}
    BY DEF Trigger
  <2> QED
    BY <1>2, <2>1 DEF Fact
<1> HIDE DEF new
<1>7. /\ \A n \in DOMAIN temporaries' : n \in DOMAIN T \/ (n = name /\ Makes(s))
      /\ \A n \in DOMAIN temporaries' : n # name => temporaries'[n] = T[n]
      /\ name \in DOMAIN temporaries' => Makes(s) /\ temporaries'[name] = new
  BY <1>1 DEF With, Without
<1>8. \A n \in DOMAIN temporaries' : n \in Name /\ temporaries'[n] \in Fact
  BY <1>2, <1>3, <1>4, <1>6, <1>7 DEF Typed
<1>9. \A n \in DOMAIN bindings' : n \in DOMAIN bindings /\ n # name /\ bindings'[n] = bindings[n]
  BY <1>1 DEF Rebound, Without
<1>10. ASSUME plain'
       PROVE  /\ \A n \in DOMAIN bindings' : namespace'[n].to = bindings'[n]
              /\ TempsSound'
  <2>1. Watching /\ ~Hidden(s)
    BY <1>2, <1>10, Ran DEF Watching, CallsInv
  <2>2. Len(s.left) = 1
    <3>1. /\ s.left # <<>> <=> Len(s.left) # 0
          /\ Len(s.left) = 1 => s.left # <<>>
          /\ (s.left # <<>> /\ ~(Len(s.left) > 1)) => Len(s.left) = 1
          /\ ~(Len(s.left) <= 1) => Len(s.left) > 1
      BY <1>4, Chain
    <3> QED
      BY <1>1, <1>2, <2>1, <3>1 DEF Hidden
  <2>3. namespace' = Rebind(namespace, ToSet(s.left),
                IF s.right # Absent /\ s.right.method = Absent /\ Denotes(s.right) = "tempfile"
                THEN File(pos) ELSE Anything)
    BY <1>1, <1>2, <2>1, Names
  <2>4. ToSet(s.left) = {name}
    BY <1>4, <2>2 DEF ToSet
  <2>5. \A n \in Name : n # name => namespace'[n] = namespace[n]
    BY <2>3, <2>4 DEF Rebind
  <2>6. \A n \in DOMAIN bindings' : namespace'[n].to = bindings'[n]
    BY <1>2, <1>9, <2>1, <2>5 DEF CallsInv, Sound, Watching
  <2>7. \A n \in DOMAIN temporaries' : n # name =>
          /\ namespace'[n] = File(temporaries'[n].pos)
          /\ WholeIn(history', temporaries'[n]) /\ KnownIn(history', temporaries'[n])
          /\ n \in DOMAIN temporaries /\ temporaries'[n].pos = temporaries[n].pos
    <3> SUFFICES ASSUME NEW n \in DOMAIN temporaries', n # name
                 PROVE  /\ namespace'[n] = File(temporaries'[n].pos)
                        /\ WholeIn(history', temporaries'[n]) /\ KnownIn(history', temporaries'[n])
                        /\ n \in DOMAIN temporaries /\ temporaries'[n].pos = temporaries[n].pos
      OBVIOUS
    <3>1. n \in DOMAIN T /\ temporaries'[n] = T[n] /\ n \in Name
      BY <1>7, <1>8
    <3>2. /\ n \in DOMAIN temporaries /\ T[n].pos = temporaries[n].pos
          /\ WholeIn(history', T[n]) /\ KnownIn(history', T[n])
      BY <1>3, <1>10, <3>1 DEF Tracks
    <3>3. namespace[n] = File(temporaries[n].pos)
      BY <2>1, <3>2 DEF CallsInv, Sound, Watching
    <3> QED
      BY <2>5, <3>1, <3>2, <3>3
  <2>8. ASSUME name \in DOMAIN temporaries'
        PROVE  /\ namespace'[name] = File(temporaries'[name].pos) /\ temporaries'[name].pos = pos
               /\ WholeIn(history', temporaries'[name]) /\ KnownIn(history', temporaries'[name])
    <3>1. Makes(s) /\ temporaries'[name] = new
      BY <1>7, <2>8
    <3>2. s.right # Absent /\ s.right.method = Absent /\ Resolved(s.right) = "tempfile"
      BY <3>1 DEF Makes
    <3>3. Denotes(s.right) = "tempfile"
      <4>1. s.right.head \in DOMAIN bindings /\ bindings[s.right.head] = "tempfile"
        BY <3>2, CallsAssumption DEF Resolved, CallsAssumption
      <4> QED
        BY <2>1, <4>1 DEF CallsInv, Sound, Watching, Denotes
    <3>4. namespace'[name] = File(pos)
      BY <1>4, <2>3, <2>4, <3>2, <3>3 DEF Rebind
    <3>5. CallOf(s) = s.right
      BY <1>2 DEF CallOf
    <3>6. pos \in DOMAIN history' /\ history'[pos] = <<>>
      <4>1. history' = [at \in Made \cup {pos} |-> IF at = pos THEN <<>> ELSE AfterArguments(s.right)[at]]
        BY <1>1, <1>2, <3>2, <3>3, <3>5 DEF Execute
      <4> QED
        BY <4>1
    <3>7. IsPrefix(<<>>, <<>>)
      <4>1. <<>> \in Seq(Event)
        OBVIOUS
      <4> QED
        BY <4>1, PrefixGrows, <1>2, EventShape
    <3> QED
      BY <1>6, <3>1, <3>4, <3>6, <3>7 DEF WholeIn, KnownIn
  <2>9. \A n, m \in DOMAIN temporaries' : temporaries'[n].pos = temporaries'[m].pos => n = m
    <3>1. \A n, m \in DOMAIN temporaries : temporaries[n].pos = temporaries[m].pos => n = m
      BY <2>1 DEF CallsInv, Sound, Watching
    <3>2. \A n \in DOMAIN temporaries : temporaries[n].pos # pos
      BY <1>2, <2>1 DEF CallsInv, CallsTypeOK, FactsKnown, KnownIn, Watching, Made
    <3> QED
      BY <2>7, <2>8, <3>1, <3>2
  <2>10. TempsSound'
    BY <2>7, <2>8, <2>9 DEF TempsSound
  <2> QED
    BY <2>6, <2>10
<1>11. plain' => \A n \in DOMAIN temporaries' : KnownIn(history', temporaries'[n])
  BY <1>10 DEF TempsSound
<1> QED
  BY <1>1, <1>2, <1>3, <1>5, <1>8, <1>9, <1>10, <1>11, Stepped

\* The statements after which nothing is known.
LEMMA NothingKnown ==
  ASSUME CallsInv, NEW s \in Statements, Execute(s), pos' = pos + 1,
         budget' \in Nat, trying' \in BOOLEAN, analysis = <<>>, analysis' = <<>>,
         calls' \in Seq(CallFact) /\ SaidBound',
         bindings' = <<>>, DOMAIN temporaries' = {},
         files' \in Seq(Fact), AllEnded(files'), plain' => AllKnown(history', files')
  PROVE  CallsInv'
<1>1. DOMAIN bindings' = {}
  OBVIOUS
<1>2. TempsSound'
  BY DEF TempsSound
<1> QED
  BY <1>1, <1>2, Stepped

\* An assignment to anything but a name.
LEMMA AssignOtherKeeps ==
  ASSUME CallsInv, NEW s \in Statements, AssignOther(s), Execute(s)
  PROVE  CallsInv'
<1> DEFINE T == AfterRight(s)
<1>1. /\ Statement(s, "assign") /\ Right(s)
      /\ bindings' = <<>> /\ temporaries' = <<>>
      /\ files' = Finished(FilesAfterRight(s), T, DOMAIN T, "rebound") /\ trying' = trying
  BY DEF AssignOther
<1>2. /\ analysis = <<>> /\ analysis' = <<>> /\ budget' \in Nat
      /\ pos' = pos + 1 /\ trying \in BOOLEAN
      /\ \A n \in DOMAIN temporaries : n \in Name
  BY <1>1, Begun
<1>3. /\ calls' \in Seq(CallFact) /\ SaidBound'
      /\ Typed(T) /\ FilesAfterRight(s) \in Seq(Fact) /\ AllEnded(FilesAfterRight(s))
      /\ plain' => AllKnown(history', FilesAfterRight(s)) /\ Tracks(history', T)
  BY <1>1, RightKeeps
<1> HIDE DEF T
<1>4. files' \in Seq(Fact) /\ AllEnded(files') /\ (plain' => AllKnown(history', files'))
  <2>1. "rebound" \in Reasons /\ \A n \in DOMAIN T : n \in Name /\ T[n] \in Fact
    BY <1>2, <1>3 DEF Typed, Reasons
  <2>2. plain' => \A n \in DOMAIN T : KnownIn(history', T[n])
    BY <1>3 DEF Tracks
  <2> QED
    BY <1>1, <1>3, <2>1, <2>2, FinishKeeps
<1>5. DOMAIN temporaries' = {}
  BY <1>1
<1> QED
  BY <1>1, <1>2, <1>3, <1>4, <1>5, NothingKnown

\* Augmented assignments and branches.
LEMMA BranchKeeps ==
  ASSUME CallsInv, NEW s \in Statements, Augmented(s) \/ ControlFlow(s), Execute(s)
  PROVE  CallsInv'
<1>1. PICK kind, reason :
        /\ Statement(s, kind) /\ reason \in Reasons /\ Ends(DOMAIN temporaries, reason)
        /\ bindings' = <<>> /\ trying' = trying /\ calls' = calls
  <2>1. "rebound" \in Reasons /\ "control-flow" \in Reasons
    BY DEF Reasons
  <2>2. CASE Augmented(s)
    BY <2>1, <2>2 DEF Augmented
  <2>3. CASE ControlFlow(s)
    BY <2>1, <2>3 DEF ControlFlow
  <2> QED
    BY <2>2, <2>3
<1>2. /\ analysis = <<>> /\ analysis' = <<>> /\ budget' \in Nat
      /\ pos' = pos + 1 /\ trying \in BOOLEAN
  BY <1>1, Begun
<1>3. calls' \in Seq(CallFact) /\ SaidBound'
  BY <1>1, SaidStill
<1>4. /\ files' \in Seq(Fact) /\ AllEnded(files') /\ (plain' => AllKnown(history', files'))
      /\ \A n \in DOMAIN temporaries' : n \in DOMAIN temporaries /\ n \notin DOMAIN temporaries
  BY <1>1, <1>2, EndsKeeps
<1>5. DOMAIN temporaries' = {}
  BY <1>4
<1> QED
  BY <1>1, <1>2, <1>3, <1>4, <1>5, NothingKnown

\* Other statements, and a try: what is known stays so.
LEMMA QuietKeeps ==
  ASSUME CallsInv, NEW s \in Statements, Inert(s) \/ EnterTry(s), Execute(s)
  PROVE  CallsInv'
<1>1. PICK kind :
        /\ Statement(s, kind) /\ kind \in {"other", "try"} /\ trying' \in BOOLEAN
        /\ bindings' = bindings /\ temporaries' = temporaries /\ files' = files /\ calls' = calls
  <2>1. CASE Inert(s)
    <3>1. Statement(s, "other")
      BY <2>1 DEF Inert
    <3>2. trying' \in BOOLEAN
      BY <2>1, <3>1, Begun DEF Inert
    <3> QED
      BY <2>1, <3>1, <3>2 DEF Inert, records
  <2>2. CASE EnterTry(s)
    BY <2>2 DEF EnterTry, records
  <2> QED
    BY <2>1, <2>2
<1>2. /\ analysis = <<>> /\ analysis' = <<>> /\ s.kind = kind /\ budget > 0 /\ budget' \in Nat
      /\ pos' = pos + 1 /\ files \in Seq(Fact) /\ AllEnded(files)
      /\ \A n \in DOMAIN bindings : n \in Name /\ bindings[n] \in Target
      /\ \A n \in DOMAIN temporaries : n \in Name /\ temporaries[n] \in Fact
  BY <1>1, Begun
<1>3. calls' \in Seq(CallFact) /\ SaidBound'
  BY <1>1, SaidStill
<1>4. ~Hidden(s) => history' = history
  BY <1>1, <1>2, InSight, Histories DEF CallOf
<1>5. plain' => Watching /\ ~Hidden(s)
  BY <1>2, Ran DEF Watching, CallsInv
<1>6. plain' => AllKnown(history', files') /\ \A n \in DOMAIN temporaries' : KnownIn(history', temporaries'[n])
  <2>1. Grown(history, history')
    BY Ran DEF CallsInv
  <2> QED
    BY <1>1, <1>5, <2>1, KnownAfter DEF Watching
<1>7. ASSUME plain'
      PROVE  /\ \A n \in DOMAIN bindings' : namespace'[n].to = bindings'[n]
             /\ TempsSound'
  <2>1. namespace' = namespace
    BY <1>1, <1>2, <1>5, <1>7, Names
  <2>2. Tracks(history', temporaries)
    BY <1>4, <1>5, <1>7, Undisturbed
  <2>3. \A n \in DOMAIN bindings' : namespace'[n].to = bindings'[n]
    BY <1>1, <1>5, <1>7, <2>1 DEF CallsInv, Sound, Watching
  <2>4. TempsSound'
    BY <1>1, <1>2, <1>5, <1>7, <2>1, <2>2, Kept
  <2> QED
    BY <2>3, <2>4
<1> QED
  BY <1>1, <1>2, <1>3, <1>6, <1>7, Stepped

\* Past the budget nothing is looked at: facts are still what happened first.
LEMMA PastBudgetKeeps ==
  ASSUME CallsInv, NEW s \in Statements, PastBudget(s), Execute(s)
  PROVE  CallsInv'
<1>1. /\ analysis = <<>> /\ analysis' = <<>> /\ budget = 0 /\ budget' = 0 /\ pos' = pos + 1
      /\ trying' = trying /\ bindings' = bindings /\ temporaries' = temporaries /\ files' = files
      /\ calls' = calls
  BY DEF PastBudget, Running, records
<1>2. /\ files \in Seq(Fact) /\ trying \in BOOLEAN
      /\ \A n \in DOMAIN bindings : n \in Name /\ bindings[n] \in Target
      /\ \A n \in DOMAIN temporaries : n \in Name /\ temporaries[n] \in Fact
  BY DEF CallsInv, CallsTypeOK
<1>3. AllEnded(files)
  BY <1>1 DEF CallsInv, FactsEnded, AllEnded
<1>4. calls' \in Seq(CallFact) /\ SaidBound'
  BY <1>1, SaidStill
<1>5. plain' => AllKnown(history', files') /\ \A n \in DOMAIN temporaries' : KnownIn(history', temporaries'[n])
  BY <1>1, Ran, KnownAfter DEF CallsInv
<1>6. budget' \in Nat /\ ~(budget' > 0)
  BY <1>1
<1> QED
  BY <1>1, <1>2, <1>3, <1>4, <1>5, <1>6, Stepped

\* The end of a try leaves nothing known.
LEMMA LeaveTryKeeps ==
  ASSUME CallsInv, LeaveTry, UNCHANGED interpreter
  PROVE  CallsInv'
<1>1. /\ analysis = <<>> /\ analysis' = analysis /\ trying' = FALSE /\ bindings' = <<>>
      /\ Ends(DOMAIN temporaries, "try") /\ pos' = pos /\ calls' = calls /\ budget' = budget
      /\ namespace' = namespace /\ denoted' = denoted /\ history' = history /\ plain' = plain
  BY DEF LeaveTry, interpreter
<1>2. /\ CallsTypeOK /\ files \in Seq(Fact) /\ AllEnded(files) /\ "try" \in Reasons
      /\ \A n \in DOMAIN temporaries : n \in Name /\ temporaries[n] \in Fact
      /\ plain => AllKnown(history, files) /\ \A n \in DOMAIN temporaries : KnownIn(history, temporaries[n])
  BY <1>1 DEF CallsInv, CallsTypeOK, FactsEnded, FactsKnown, AllEnded, AllKnown, Reasons
<1>3. files' = Finished(files, temporaries, DOMAIN temporaries, "try") /\ DOMAIN temporaries' = {}
  BY <1>1 DEF Ends, Without
<1>4. files' \in Seq(Fact) /\ AllEnded(files') /\ (plain => AllKnown(history, files'))
  BY <1>2, <1>3, FinishKeeps
<1>5. DOMAIN bindings' = {}
  BY <1>1
<1>6. CallsTypeOK'
  <2>1. trying' \in BOOLEAN
    BY <1>1
  <2> QED
    BY <1>1, <1>2, <1>3, <1>4, <1>5, <2>1 DEF CallsTypeOK, Made
<1>7. SaidBound'
  BY <1>1 DEF CallsInv, SaidBound
<1>8. Sound' /\ FactsKnown' /\ FactsEnded'
  BY <1>1, <1>3, <1>4, <1>5 DEF Sound, FactsKnown, FactsEnded, AllKnown, AllEnded
<1> QED
  BY <1>6, <1>7, <1>8 DEF CallsInv

\* emit: what is still tracked is all that happened, if the module was read whole.
LEMMA EmitKeeps ==
  ASSUME CallsInv, EmitCalls, UNCHANGED interpreter
  PROVE  CallsInv'
<1>1. /\ analysis = <<>> /\ trying' = trying /\ bindings' = bindings /\ temporaries' = <<>>
      /\ files' = Finished(files, temporaries, DOMAIN temporaries, Absent)
      /\ analysis' = [parseError |-> reading = "parse_error",
                      truncated |-> reading = "skipped" \/ budget = 0 \/ nested.limited]
      /\ pos' = pos /\ calls' = calls /\ budget' = budget
      /\ namespace' = namespace /\ denoted' = denoted /\ history' = history /\ plain' = plain
  BY DEF EmitCalls, interpreter
<1>2. /\ CallsTypeOK /\ files \in Seq(Fact) /\ AllEnded(files) /\ budget \in Nat
      /\ \A n \in DOMAIN temporaries : n \in Name /\ temporaries[n] \in Fact
      /\ plain => AllKnown(history, files) /\ \A n \in DOMAIN temporaries : KnownIn(history, temporaries[n])
  BY <1>1 DEF CallsInv, CallsTypeOK, FactsEnded, FactsKnown, AllEnded, AllKnown
<1>3. /\ files' \in Seq(Fact)
      /\ \A i \in DOMAIN files' :
           \/ \E j \in DOMAIN files : files'[i] = files[j]
           \/ \E n \in DOMAIN temporaries : /\ files'[i].pos = temporaries[n].pos
                                            /\ files'[i].events = temporaries[n].events
  BY <1>1, <1>2, FinishedFacts
<1>4. DOMAIN temporaries' = {}
  BY <1>1
<1>5. CallsTypeOK'
  BY <1>1, <1>2, <1>3, <1>4 DEF CallsTypeOK, Made
<1>6. SaidBound' /\ Sound'
  BY <1>1, <1>4 DEF CallsInv, SaidBound, Sound
<1>7. FactsKnown'
  BY <1>1, <1>2, <1>3, <1>4 DEF FactsKnown, AllKnown, KnownIn
<1>8. FactsEnded'
  <2>1. DOMAIN analysis' = {"parseError", "truncated"} /\ DOMAIN <<>> = {}
    BY <1>1
  <2>2. analysis' # <<>>
    <3>1. "truncated" \in DOMAIN analysis'
      BY <2>1
    <3> QED
      BY <2>1, <3>1
  <2>3. ASSUME plain, ~analysis'.truncated, NEW i \in DOMAIN files', files'[i].ended = Absent
        PROVE  WholeIn(history, files'[i])
    <3>1. analysis'.truncated = (reading = "skipped" \/ budget = 0 \/ nested.limited)
      BY <1>1
    <3>2. budget # 0
      BY <2>3, <3>1, Zenon
    <3>3. budget > 0
      BY <1>2, <3>2
    <3>4. \A n \in DOMAIN temporaries : WholeIn(history, temporaries[n])
      BY <2>3, <3>3 DEF CallsInv, Sound
    <3>5. ~ \E j \in DOMAIN files : files'[i] = files[j]
      BY <1>2, <2>3 DEF AllEnded
    <3> QED
      BY <1>3, <2>3, <3>4, <3>5 DEF WholeIn
  <2> QED
    BY <1>1, <2>2, <2>3 DEF FactsEnded
<1> QED
  BY <1>5, <1>6, <1>7, <1>8 DEF CallsInv

\* Every step keeps what is said of the collector.
LEMMA CallsKeep == CallsInv /\ [CallsNext]_<<collector, interpreter>> => CallsInv'
<1> SUFFICES ASSUME CallsInv, [CallsNext]_<<collector, interpreter>> PROVE CallsInv'
  OBVIOUS
<1>1. ASSUME NEW s \in Statements, CallsStep(s)
      PROVE  CallsInv'
  <2>1. Execute(s) /\ Interpret(s)
    BY <1>1 DEF CallsStep
  <2> QED
    BY <2>1, CallStatementKeeps, ImportKeeps, DefinitionKeeps, AssignNameKeeps, AssignOtherKeeps,
       BranchKeeps, QuietKeeps, PastBudgetKeeps DEF Interpret
<1>2. CASE CallsEnd
  BY <1>2, LeaveTryKeeps, EmitKeeps DEF CallsEnd
<1>3. CASE UNCHANGED <<collector, interpreter>>
  <2>1. /\ pos' = pos /\ trying' = trying /\ bindings' = bindings /\ temporaries' = temporaries
        /\ calls' = calls /\ files' = files /\ budget' = budget /\ analysis' = analysis
        /\ namespace' = namespace /\ denoted' = denoted /\ history' = history /\ plain' = plain
    BY <1>3 DEF collector, interpreter
  <2>2. CallsTypeOK'
    BY <2>1 DEF CallsInv, CallsTypeOK, Made
  <2>3. SaidBound' /\ Sound'
    BY <2>1 DEF CallsInv, SaidBound, Sound
  <2>4. FactsKnown' /\ FactsEnded'
    BY <2>1 DEF CallsInv, FactsKnown, FactsEnded
  <2> QED
    BY <2>2, <2>3, <2>4 DEF CallsInv
<1> QED
  BY <1>1, <1>2, <1>3 DEF CallsNext

\* The collector's state keeps its types and what is known of it: the bindings
\* are the namespace's and each tracked file is another one, which its name
\* denotes, while statements are looked at
\* (src/src/formats/source/python_module_calls.rs, Collector).
THEOREM CollectorSound == CallsSpec => []CallsInv
<1>1. CallsAndInterpreter => CallsInv
  BY CallsInitInv
<1>2. CallsInv /\ [CallsNext]_<<collector, interpreter>> => CallsInv'
  BY CallsKeep
<1> QED
  BY <1>1, <1>2, PTL DEF CallsSpec

\* Every call reported of a plain module goes to what its name was bound to
\* when it ran (observe, src/src/formats/source/python_module_calls.rs).
THEOREM CallsAreAsBound == CallsSpec => []CallsAsBoundIfPlain
<1>1. CallsInv => CallsAsBoundIfPlain
  BY DEF CallsInv, SaidBound, CallsAsBoundIfPlain, CallsAsBound
<1> QED
  BY <1>1, CollectorSound, PTL

\* A file's events are what happened to it first, and all that happened if it
\* lasted to the end of a module read whole (finish and emit,
\* src/src/formats/source/python_module_calls.rs).
THEOREM FilesAreKnown == CallsSpec => []FilesUntilUnseen
<1>1. CallsInv => FilesUntilUnseen
  <2> SUFFICES ASSUME CallsInv, plain, NEW f \in Facts
               PROVE  /\ f.pos \in Made /\ IsPrefix(f.events, history[f.pos])
                      /\ (/\ analysis # <<>> /\ ~analysis.truncated /\ f.ended = Absent
                          /\ Len(f.events) < MaxEvents) => f.events = history[f.pos]
    BY DEF FilesUntilUnseen
  <2>1. \/ \E i \in DOMAIN files : f = files[i]
        \/ \E n \in DOMAIN temporaries : f = temporaries[n]
    BY DEF Facts, ToSet
  <2>2. KnownIn(history, f)
    BY <2>1 DEF CallsInv, FactsKnown
  <2>3. ASSUME analysis # <<>>, ~analysis.truncated, f.ended = Absent
        PROVE  WholeIn(history, f)
    <3>1. DOMAIN temporaries = {}
      BY <2>3 DEF CallsInv, FactsEnded
    <3> QED
      BY <2>1, <2>3, <3>1 DEF CallsInv, FactsEnded
  <2> QED
    BY <2>2, <2>3 DEF KnownIn, WholeIn, Made
<1> QED
  BY <1>1, CollectorSound, PTL

-----------------------------------------------------------------------------
(* A shell script: folds over the paths of one mkfifo.                     *)

\* The table FoldLeft builds: for each set of places, what creating their paths
\* leaves, the last one last.
Rows(base, paths, S, g) ==
  [s \in SUBSET S |-> IF s = {} THEN base ELSE Created(g[s \ {Max(s)}], paths[Max(s)])]
Rowed(base, paths, S) == CHOOSE g : g = Rows(base, paths, S, g)

\* A table for the first places extends to the next one.
LEMMA RowsExist ==
  ASSUME NEW n \in Nat, NEW base, NEW paths
  PROVE  \E g : g = Rows(base, paths, 1..n, g)
<1> DEFINE Has(k) == \E g : g = Rows(base, paths, 1..k, g)
           U == {k \in Nat : ~Has(k)}
<1>1. SUFFICES ASSUME U # {} PROVE FALSE
  OBVIOUS
<1>2. PICK k \in U : \A m \in U : k <= m
  <2> HIDE DEF Has
  <2>1. U \in SUBSET Nat
    OBVIOUS
  <2> HIDE DEF U
  <2> QED
    BY <1>1, <2>1, LeastNumber
<1>3. k \in Nat /\ ~Has(k)
  BY <1>2
<1>4. k # 0
  <2>1. Has(0)
    <3> DEFINE g == [s \in SUBSET {} |-> base]
    <3>1. 1..0 = {}
      OBVIOUS
    <3>2. g = Rows(base, paths, {}, g)
      BY DEF Rows
    <3> HIDE DEF g
    <3> QED
      BY <3>1, <3>2
  <2> QED
    BY <1>3, <2>1
<1>5. Has(k - 1) /\ k - 1 \in Nat
  <2> HIDE DEF Has
  <2>1. k - 1 \in Nat /\ ~(k <= k - 1)
    BY <1>3, <1>4
  <2> QED
    BY <1>2, <2>1
<1>6. PICK j \in Nat : j = k - 1
  BY <1>5
<1>7. PICK g : g = Rows(base, paths, 1..j, g)
  BY <1>5, <1>6
<1>8. PICK h : h = [s \in SUBSET (1..k) |->
                      IF k \in s THEN Created(g[s \ {k}], paths[k]) ELSE g[s]]
  OBVIOUS
<1>9. \A s \in SUBSET (1..k) : s \ {k} \in SUBSET (1..j) /\ (k \notin s => s \in SUBSET (1..j))
  BY <1>3, <1>6
<1>10. SUBSET (1..j) \subseteq SUBSET (1..k)
  BY <1>3, <1>6
<1>11. \A s \in SUBSET (1..j) : h[s] = g[s] /\ k \notin s
  <2>1. \A s \in SUBSET (1..j) : k \notin s
    BY <1>3, <1>6
  <2> QED
    BY <1>8, <1>10, <2>1
<1>12. ASSUME NEW s \in SUBSET (1..k)
       PROVE  h[s] = IF s = {} THEN base ELSE Created(h[s \ {Max(s)}], paths[Max(s)])
  <2>1. CASE k \in s
    <3>1. Max(s) = k
      <4>1. Max(s) \in s /\ \A y \in s : Max(s) >= y
        BY <1>3, <2>1, MaxIn
      <4>2. Max(s) \in 1..k /\ Max(s) >= k
        BY <2>1, <4>1
      <4> QED
        BY <1>3, <4>2
    <3>2. h[s] = Created(g[s \ {k}], paths[k])
      BY <1>8, <2>1
    <3>3. h[s \ {k}] = g[s \ {k}]
      BY <1>9, <1>11
    <3> QED
      BY <2>1, <3>1, <3>2, <3>3
  <2>2. CASE k \notin s
    <3>1. s \in SUBSET (1..j) /\ h[s] = g[s]
      BY <1>9, <1>11, <2>2
    <3>2. g[s] = IF s = {} THEN base ELSE Created(g[s \ {Max(s)}], paths[Max(s)])
      BY <1>7, <3>1 DEF Rows
    <3>3. s \ {Max(s)} \in SUBSET (1..j)
      BY <3>1
    <3>4. h[s \ {Max(s)}] = g[s \ {Max(s)}]
      BY <1>11, <3>3
    <3> QED
      BY <3>1, <3>2, <3>4
  <2> QED
    BY <2>1, <2>2
<1>13. h = Rows(base, paths, 1..k, h)
  <2>1. h = [s \in SUBSET (1..k) |-> h[s]]
    BY <1>8
  <2>2. Rows(base, paths, 1..k, h) = [s \in SUBSET (1..k) |-> h[s]]
    BY <1>12 DEF Rows
  <2> QED
    BY <2>1, <2>2
<1> QED
  BY <1>3, <1>13

\* Creating paths one after another.
AllCreated(base, paths) == FoldLeft(Created, base, paths)
\* The fold is the last of a sequence of single creations.
LEMMA CreatedInTurn ==
  ASSUME NEW base, NEW S, NEW paths \in Seq(S)
  PROVE  \E known : /\ known[0] = base
                    /\ \A k \in 1..Len(paths) : known[k] = Created(known[k - 1], paths[k])
                    /\ AllCreated(base, paths) = known[Len(paths)]
<1>1. Len(paths) \in Nat /\ DOMAIN paths = 1..Len(paths)
  OBVIOUS
<1>2. PICK n \in Nat : n = Len(paths)
  BY <1>1
<1>3. PICK g : g = Rowed(base, paths, 1..n)
  OBVIOUS
<1>4. g = Rows(base, paths, 1..n, g)
  BY <1>3, RowsExist DEF Rowed
<1>5. AllCreated(base, paths) = Rowed(base, paths, DOMAIN paths)[DOMAIN paths]
  BY DEF AllCreated, FoldLeft, MapThenFoldSet, Rowed, Rows
<1>6. PICK known : known = [k \in 0..n |-> g[1..k]]
  OBVIOUS
<1>7. known[0] = base
  <2>1. 1..0 = {} /\ {} \in SUBSET (1..n) /\ 0 \in 0..n
    BY <1>2
  <2> QED
    BY <1>4, <1>6, <2>1 DEF Rows
<1>8. ASSUME NEW k \in 1..n
      PROVE  known[k] = Created(known[k - 1], paths[k])
  <2>1. 1..k \in SUBSET (1..n) /\ 1..k # {} /\ k \in 0..n /\ k - 1 \in 0..n /\ k \in 1..k
    <3>1. k \in Nat /\ 1 <= k /\ k <= n
      BY <1>2
    <3>2. k \in 1..k /\ k \in 0..n /\ k - 1 \in 0..n
      BY <1>2, <3>1
    <3>3. 1..k \in SUBSET (1..n)
      BY <1>2, <3>1
    <3> QED
      BY <3>2, <3>3
  <2>2. Max(1..k) = k
    <3>1. Max(1..k) \in 1..k /\ Max(1..k) >= k
      BY <2>1, MaxIn
    <3> QED
      BY <3>1
  <2>3. (1..k) \ {k} = 1..(k - 1)
    OBVIOUS
  <2>4. g[1..k] = Created(g[(1..k) \ {Max(1..k)}], paths[Max(1..k)])
    BY <1>4, <2>1 DEF Rows
  <2> QED
    BY <1>6, <2>1, <2>2, <2>3, <2>4
<1>9. n \in 0..n /\ known[n] = g[1..n]
  BY <1>2, <1>6
<1> QED
  BY <1>1, <1>2, <1>3, <1>5, <1>7, <1>8, <1>9

\* What a mkfifo adds to the paths known: the new ones of its own, all of them
\* when there is room for every path of the script.
LEMMA CreatesPaths ==
  ASSUME NEW base, NEW S, NEW paths \in Seq(S), IsFiniteSet(S), DOMAIN base \subseteq S
  PROVE  /\ DOMAIN base \subseteq DOMAIN AllCreated(base, paths)
         /\ DOMAIN AllCreated(base, paths) \subseteq DOMAIN base \cup ToSet(paths)
         /\ \A p \in DOMAIN base : AllCreated(base, paths)[p] = base[p]
         /\ \A p \in DOMAIN AllCreated(base, paths) \ DOMAIN base :
              AllCreated(base, paths)[p] = step
         /\ Cardinality(S) <= MaxFacts => ToSet(paths) \subseteq DOMAIN AllCreated(base, paths)
<1>1. PICK n \in Nat : n = Len(paths)
  OBVIOUS
<1>2. DOMAIN paths = 1..n /\ \A k \in 1..n : paths[k] \in S
  BY <1>1
<1>3. PICK known : /\ known[0] = base
                   /\ \A k \in 1..n : known[k] = Created(known[k - 1], paths[k])
                   /\ AllCreated(base, paths) = known[n]
  BY <1>1, CreatedInTurn
<1> DEFINE Upto(k) == {paths[i] : i \in 1..k}
           Good(r, k) == /\ DOMAIN base \subseteq DOMAIN r
                         /\ DOMAIN r \subseteq DOMAIN base \cup Upto(k)
                         /\ \A p \in DOMAIN base : r[p] = base[p]
                         /\ \A p \in DOMAIN r \ DOMAIN base : r[p] = step
                         /\ Cardinality(S) <= MaxFacts => Upto(k) \subseteq DOMAIN r
           U == {k \in 0..n : ~Good(known[k], k)}
<1>4. Good(known[0], 0)
  <2>1. Upto(0) = {}
    OBVIOUS
  <2> QED
    BY <1>3, <2>1
<1>5. ASSUME NEW k \in 1..n, Good(known[k - 1], k - 1)
      PROVE  Good(known[k], k)
  <2>1. PICK r : r = known[k - 1]
    OBVIOUS
  <2>2. PICK q : q = known[k]
    OBVIOUS
  <2>3. q = Created(r, paths[k]) /\ paths[k] \in S
    BY <1>2, <1>3, <2>1, <2>2
  <2>4. Upto(k) = Upto(k - 1) \cup {paths[k]} /\ Upto(k - 1) \subseteq S
    <3>1. k \in 1..k /\ 1..k = 1..(k - 1) \cup {k} /\ 1..(k - 1) \subseteq 1..n
      BY <1>1
    <3> QED
      BY <1>2, <3>1
  <2>5. Good(r, k - 1)
    BY <1>5, <2>1
  <2>6. DOMAIN r \subseteq S /\ IsFiniteSet(DOMAIN r)
    <3>1. DOMAIN r \subseteq S
      BY <2>4, <2>5
    <3> QED
      BY <3>1, FS_Subset
  <2>7. CASE Cardinality(DOMAIN r) < MaxFacts
    <3>1. q = [p \in DOMAIN r \cup {paths[k]} |-> IF p \in DOMAIN r THEN r[p] ELSE step]
      BY <2>3, <2>7 DEF Created
    <3>2. /\ DOMAIN q = DOMAIN r \cup {paths[k]} /\ \A p \in DOMAIN r : q[p] = r[p]
          /\ \A p \in DOMAIN q \ DOMAIN r : q[p] = step
      BY <3>1
    <3> HIDE DEF Upto
    <3>3. Good(q, k)
      BY <2>4, <2>5, <3>2
    <3> QED
      BY <2>2, <3>3
  <2>8. CASE ~(Cardinality(DOMAIN r) < MaxFacts)
    <3>1. q = r
      BY <2>3, <2>8 DEF Created
    <3>2. ASSUME Cardinality(S) <= MaxFacts
          PROVE  paths[k] \in DOMAIN r
      <4>1. /\ Cardinality(DOMAIN r) \in Nat /\ Cardinality(S) \in Nat /\ MaxFacts \in Nat
            /\ Cardinality(DOMAIN r) <= Cardinality(S)
            /\ Cardinality(S) = Cardinality(DOMAIN r) => S = DOMAIN r
        BY <2>6, FS_Subset, FS_CardinalityType, ShellAssumption DEF ShellAssumption
      <4>2. S = DOMAIN r
        BY <2>8, <3>2, <4>1
      <4> QED
        BY <2>3, <4>2
    <3> HIDE DEF Upto
    <3>3. Good(r, k)
      BY <2>4, <2>5, <3>2
    <3> QED
      BY <2>2, <3>1, <3>3
  <2> QED
    BY <2>7, <2>8
<1>6. Good(known[n], n)
  <2>1. SUFFICES ASSUME U # {} PROVE FALSE
    <3>1. n \in 0..n
      BY <1>1
    <3> QED
      BY <3>1
  <2>2. PICK k \in U : \A m \in U : k <= m
    <3> HIDE DEF Good
    <3>1. U \in SUBSET Nat
      OBVIOUS
    <3> HIDE DEF U
    <3> QED
      BY <2>1, <3>1, LeastNumber
  <2> HIDE DEF Good
  <2>3. k \in 0..n /\ ~Good(known[k], k) /\ k # 0
    BY <1>4, <2>2
  <2>4. k \in 1..n /\ k - 1 \in 0..n /\ ~(k <= k - 1)
    BY <1>1, <2>3
  <2>5. Good(known[k - 1], k - 1)
    BY <2>2, <2>4
  <2> QED
    BY <1>5, <2>3, <2>4, <2>5
<1>7. Upto(n) = ToSet(paths)
  BY <1>2 DEF ToSet
<1> HIDE DEF Upto
<1> QED
  BY <1>3, <1>6, <1>7

-----------------------------------------------------------------------------
(* A shell script: what the collector has after some of the nodes.         *)

\* The nodes entered, the loops of a node, and those the walk has met.
Entered(kind) == {i \in Nodes(kind) : i < step}
LoopsAt(i) ==
  IF script[i].kind = "loop" THEN {[loop |-> script[i].loop, offset |-> <<i>>]}
  ELSE IF script[i].kind = "sh" /\ i \notin Overlong THEN {[loop |-> script[i].body[j], offset |-> <<i, j>>] : j \in DOMAIN script[i].body}
  ELSE {}
Met == {l \in SearchedLoops : l.offset[1] < step /\ l.offset[1] \notin unparsed}

\* The creations known: each by a node that is one, of all paths the first, if
\* there is room for all of them.
FifosKnown ==
  /\ \A p \in DOMAIN fifos : fifos[p] \in Entered("mkfifo") /\ fifos[p] \in Creators(p)
  /\ Cardinality(Paths) <= MaxFacts =>
       \A i \in Entered("mkfifo") : \A p \in ToSet(script[i].paths) : p \in DOMAIN fifos /\ fifos[p] <= i

\* The loops kept: all that were met, unless a budget is said to have cut it short.
LoopsKept ==
  /\ loops \in Seq(SearchedLoops) /\ ToSet(loops) \subseteq Met
  /\ (~limited /\ ~allowance.limited) => ToSet(loops) = Met

ShellTypeOK ==
  /\ script \in Scripts /\ step \in 1..(Len(script) + 1)
  /\ limited \in BOOLEAN /\ DOMAIN allowance = {"parses", "bytes", "limited"} /\ allowance.limited \in BOOLEAN
  /\ unparsed \subseteq 1..(step - 1)
  /\ functions = {script[i].name : i \in Entered("function")}
  /\ emitted # <<>> => step = Len(script) + 1

ShellInv == ShellTypeOK /\ LoopsKept /\ FifosKnown /\ RelationsWholeOrLimited

\* A script's nodes, as they are written.
LEMMA ScriptShape ==
  ASSUME script \in Scripts
  PROVE  /\ Len(script) \in Nat /\ DOMAIN script = 1..Len(script)
         /\ \A i \in Nodes("mkfifo") : script[i].paths \in Seq(ToSet(script[i].paths))
         /\ \A i \in Nodes("sh") : script[i].body \in Seq(ToSet(script[i].body)) /\ script[i].size \in Nat
<1>1. /\ script \in Seq(ToSet(script))
      /\ \A i \in DOMAIN script :
           /\ script[i].kind = "mkfifo" => script[i].paths \in Seq(ToSet(script[i].paths))
           /\ script[i].kind = "sh" => script[i].body \in Seq(ToSet(script[i].body)) /\ script[i].size \in Nat
  BY ShellAssumption DEF ShellAssumption
<1>2. Len(script) \in Nat /\ DOMAIN script = 1..Len(script)
  BY <1>1
<1> QED
  BY <1>1, <1>2 DEF Nodes

\* The loops of the script are those of its nodes.
LEMMA LoopsByNode ==
  /\ \A i \in DOMAIN script : \A l \in LoopsAt(i) :
       /\ l \in SearchedLoops /\ l.offset[1] = i /\ l = [loop |-> l.loop, offset |-> l.offset]
  /\ \A l \in SearchedLoops : \E i \in DOMAIN script : l \in LoopsAt(i)
<1>1. ASSUME NEW i \in DOMAIN script, NEW l \in LoopsAt(i)
      PROVE  l \in SearchedLoops /\ l.offset[1] = i /\ l = [loop |-> l.loop, offset |-> l.offset]
  <2>1. CASE script[i].kind = "loop"
    <3>1. l = [loop |-> script[i].loop, offset |-> <<i>>] /\ i \in Nodes("loop")
      BY <1>1, <2>1 DEF LoopsAt, Nodes
    <3>2. l \in SearchedLoops
      BY <3>1 DEF SearchedLoops
    <3>3. l.loop = script[i].loop /\ l.offset = <<i>> /\ <<i>>[1] = i
      BY <3>1
    <3> QED
      BY <3>1, <3>2, <3>3
  <2>2. CASE script[i].kind = "sh" /\ i \notin Overlong
    <3>1. PICK j \in DOMAIN script[i].body : l = [loop |-> script[i].body[j], offset |-> <<i, j>>]
      BY <1>1, <2>2 DEF LoopsAt
    <3>2. i \in Nodes("sh") \ Overlong
      BY <2>2 DEF Nodes
    <3>3. l \in SearchedLoops
      BY <3>1, <3>2 DEF SearchedLoops
    <3>4. l.loop = script[i].body[j] /\ l.offset = <<i, j>> /\ <<i, j>>[1] = i
      BY <3>1
    <3> QED
      BY <3>1, <3>3, <3>4
  <2>3. script[i].kind = "loop" \/ (script[i].kind = "sh" /\ i \notin Overlong)
    BY <1>1 DEF LoopsAt
  <2> QED
    BY <2>1, <2>2, <2>3
<1>2. ASSUME NEW l \in SearchedLoops
      PROVE  \E i \in DOMAIN script : l \in LoopsAt(i)
  <2>1. CASE \E i \in Nodes("loop") : l = [loop |-> script[i].loop, offset |-> <<i>>]
    <3>1. PICK i \in Nodes("loop") : l = [loop |-> script[i].loop, offset |-> <<i>>]
      BY <2>1
    <3>2. i \in DOMAIN script /\ script[i].kind = "loop"
      BY DEF Nodes
    <3>3. l \in LoopsAt(i)
      BY <3>1, <3>2 DEF LoopsAt
    <3> QED
      BY <3>2, <3>3
  <2>2. CASE \E i \in Nodes("sh") \ Overlong : \E j \in DOMAIN script[i].body :
               l = [loop |-> script[i].body[j], offset |-> <<i, j>>]
    <3>1. PICK i \in Nodes("sh") \ Overlong : \E j \in DOMAIN script[i].body :
               l = [loop |-> script[i].body[j], offset |-> <<i, j>>]
      BY <2>2
    <3>2. i \in DOMAIN script /\ script[i].kind = "sh" /\ i \notin Overlong
      BY DEF Nodes
    <3>3. l \in LoopsAt(i)
      BY <3>1, <3>2 DEF LoopsAt
    <3> QED
      BY <3>2, <3>3
  <2> QED
    BY <1>2, <2>1, <2>2 DEF SearchedLoops
<1> QED
  BY <1>1, <1>2

\* A node entered adds its loops to those that were met, unless its parse is
\* cut short.
LEMMA MetNext ==
  ASSUME ShellTypeOK, step \in DOMAIN script, script' = script, step' = step + 1
  PROVE  /\ unparsed' = unparsed => Met' = Met \cup LoopsAt(step)
         /\ unparsed' = unparsed \cup {step} => Met' = Met
<1>1. /\ step \in Nat /\ unparsed \subseteq 1..(step - 1) /\ DOMAIN script \subseteq Nat
  BY ScriptShape DEF ShellTypeOK
<1>2. SearchedLoops' = SearchedLoops
  BY DEF SearchedLoops, Nodes, Overlong
<1>3. \A l \in SearchedLoops : l.offset[1] \in DOMAIN script /\ l \in LoopsAt(l.offset[1])
  BY LoopsByNode
<1>4. \A l \in LoopsAt(step) : l \in SearchedLoops /\ l.offset[1] = step
  BY LoopsByNode
<1>5. step \notin unparsed
  BY <1>1
<1>6. ASSUME unparsed' = unparsed, NEW l
      PROVE  l \in Met' <=> l \in Met \cup LoopsAt(step)
  <2>1. l \in Met' <=> l \in SearchedLoops /\ l.offset[1] < step + 1 /\ l.offset[1] \notin unparsed
    BY <1>2, <1>6 DEF Met
  <2>2. l \in Met <=> l \in SearchedLoops /\ l.offset[1] < step /\ l.offset[1] \notin unparsed
    BY DEF Met
  <2>3. l \in SearchedLoops => (l.offset[1] < step + 1 <=> (l.offset[1] < step \/ l.offset[1] = step))
    BY <1>1, <1>3
  <2> QED
    BY <1>3, <1>4, <1>5, <2>1, <2>2, <2>3
<1>7. ASSUME unparsed' = unparsed \cup {step}, NEW l
      PROVE  l \in Met' <=> l \in Met
  <2>1. l \in Met' <=> l \in SearchedLoops /\ l.offset[1] < step + 1 /\ l.offset[1] \notin unparsed \cup {step}
    BY <1>2, <1>7 DEF Met
  <2>2. l \in Met <=> l \in SearchedLoops /\ l.offset[1] < step /\ l.offset[1] \notin unparsed
    BY DEF Met
  <2>3. l \in SearchedLoops => (l.offset[1] < step + 1 <=> (l.offset[1] < step \/ l.offset[1] = step))
    BY <1>1, <1>3
  <2>4. l \in SearchedLoops => (l.offset[1] < step => l.offset[1] # step)
    BY <1>1, <1>3
  <2> QED
    BY <2>1, <2>2, <2>3, <2>4
<1> QED
  BY <1>6, <1>7

\* push: what it keeps of the loops found.
LEMMA PushKeeps ==
  ASSUME LoopsKept, ShellTypeOK, NEW sighted \in Seq(SearchedLoops), PushLoops(sighted)
  PROVE  /\ loops' \in Seq(SearchedLoops) /\ limited' \in BOOLEAN /\ (limited => limited')
         /\ ToSet(loops') \subseteq ToSet(loops) \cup ToSet(sighted)
         /\ ~limited' => ToSet(loops') = ToSet(loops) \cup ToSet(sighted)
<1>1. /\ loops \in Seq(SearchedLoops) /\ limited \in BOOLEAN /\ MaxFacts \in Nat
  BY ShellAssumption DEF ShellAssumption, LoopsKept, ShellTypeOK
<1>2. PICK both : both = loops \o sighted
  OBVIOUS
<1>3. /\ both \in Seq(SearchedLoops) /\ Len(both) = Len(loops) + Len(sighted)
      /\ Len(loops) \in Nat /\ Len(sighted) \in Nat
  BY <1>1, <1>2
<1>4. ToSet(both) = ToSet(loops) \cup ToSet(sighted)
  <2>1. ASSUME NEW x \in ToSet(both) PROVE x \in ToSet(loops) \cup ToSet(sighted)
    <3>1. PICK i \in 1..Len(both) : x = both[i]
      BY <1>3, <2>1 DEF ToSet
    <3>2. CASE i <= Len(loops)
      BY <1>1, <1>2, <1>3, <3>1, <3>2 DEF ToSet
    <3>3. CASE i > Len(loops)
      <4>1. PICK k : k = i - Len(loops)
        OBVIOUS
      <4>2. k \in 1..Len(sighted) /\ i = Len(loops) + k
        BY <1>3, <3>1, <3>3, <4>1
      <4>3. both[i] = sighted[k]
        BY <1>1, <1>2, <1>3, <4>1, <4>2, <3>3, <3>1
      <4> QED
        BY <3>1, <4>2, <4>3 DEF ToSet
    <3> QED
      BY <1>3, <3>1, <3>2, <3>3
  <2>2. ASSUME NEW x \in ToSet(loops) PROVE x \in ToSet(both)
    <3>1. PICK i \in 1..Len(loops) : x = loops[i]
      BY <1>1, <2>2 DEF ToSet
    <3>2. i \in 1..Len(both) /\ both[i] = x
      BY <1>1, <1>2, <1>3, <3>1
    <3> QED
      BY <1>3, <3>2 DEF ToSet
  <2>3. ASSUME NEW x \in ToSet(sighted) PROVE x \in ToSet(both)
    <3>1. PICK k \in 1..Len(sighted) : x = sighted[k]
      BY <2>3 DEF ToSet
    <3>2. PICK i : i = Len(loops) + k
      OBVIOUS
    <3>3. i \in 1..Len(both) /\ i > Len(loops) /\ i - Len(loops) = k
      BY <1>3, <3>1, <3>2
    <3>4. both[i] = x
      BY <1>1, <1>2, <1>3, <3>1, <3>2, <3>3
    <3> QED
      BY <1>3, <3>3, <3>4 DEF ToSet
  <2> QED
    BY <2>1, <2>2, <2>3
<1>5. limited' = (limited \/ Overflows(sighted))
  BY DEF PushLoops
<1>6. CASE Overflows(sighted)
  <2>1. Len(both) > MaxFacts /\ loops' = SubSeq(both, 1, MaxFacts) /\ limited' = TRUE
    BY <1>2, <1>3, <1>5, <1>6, Zenon DEF PushLoops, Overflows
  <2>2. /\ loops' \in Seq(SearchedLoops) /\ Len(loops') = MaxFacts
        /\ \A i \in 1..MaxFacts : i \in 1..Len(both) /\ loops'[i] = both[i]
    BY <1>1, <1>3, <2>1
  <2>3. ToSet(loops') \subseteq ToSet(both)
    BY <1>3, <2>2 DEF ToSet
  <2> QED
    BY <1>4, <2>1, <2>2, <2>3
<1>7. CASE ~Overflows(sighted)
  <2>1. loops' = both /\ limited' = limited
    BY <1>2, <1>5, <1>7, <1>1, Zenon DEF PushLoops
  <2> QED
    BY <1>1, <1>3, <1>4, <2>1
<1> QED
  BY <1>6, <1>7

\* The nodes entered after one more.
LEMMA EnteredNext ==
  ASSUME ShellTypeOK, step \in DOMAIN script, script' = script, step' = step + 1, NEW kind
  PROVE  /\ script[step].kind = kind => Entered(kind)' = Entered(kind) \cup {step}
         /\ script[step].kind # kind => Entered(kind)' = Entered(kind)
<1>1. step \in Nat /\ DOMAIN script \subseteq Nat
  BY ScriptShape DEF ShellTypeOK
<1>2. \A i : i \in Entered(kind)' <=> i \in DOMAIN script /\ script[i].kind = kind /\ i < step + 1
  BY DEF Entered, Nodes
<1>3. \A i : i \in Entered(kind) <=> i \in DOMAIN script /\ script[i].kind = kind /\ i < step
  BY DEF Entered, Nodes
<1>4. \A i \in DOMAIN script : i < step + 1 <=> (i < step \/ i = step)
  BY <1>1
<1>5. ~(step < step)
  BY <1>1
<1>6. ASSUME script[step].kind = kind, NEW i
      PROVE  i \in Entered(kind)' <=> i \in Entered(kind) \cup {step}
  BY <1>2, <1>3, <1>4, <1>6
<1>7. ASSUME script[step].kind # kind, NEW i
      PROVE  i \in Entered(kind)' <=> i \in Entered(kind)
  BY <1>2, <1>3, <1>4, <1>7
<1> QED
  BY <1>6, <1>7

\* What entering a node does to the rest of the state it keeps its types with.
LEMMA Enters ==
  ASSUME ShellInv, NEW kind, Entering(kind), script' = script, emitted' = emitted
  PROVE  /\ step \in DOMAIN script /\ script[step].kind = kind /\ step' = step + 1
         /\ step \in Nodes(kind)
         /\ script' \in Scripts /\ step' \in 1..(Len(script') + 1)
         /\ emitted = <<>> /\ emitted' = <<>>
         /\ unparsed \cup {step} \subseteq 1..(step' - 1) /\ unparsed \subseteq 1..(step' - 1)
         /\ RelationsWholeOrLimited'
         /\ SearchedLoops' = SearchedLoops /\ Paths' = Paths /\ \A p : Creators(p)' = Creators(p)
<1>1. /\ Len(script) \in Nat /\ DOMAIN script = 1..Len(script) /\ script \in Scripts
      /\ step \in 1..(Len(script) + 1) /\ unparsed \subseteq 1..(step - 1)
      /\ emitted # <<>> => step = Len(script) + 1
  BY ScriptShape DEF ShellInv, ShellTypeOK
<1>2. step <= Len(script) /\ script[step].kind = kind /\ step' = step + 1
  BY DEF Entering
<1>3. step \in DOMAIN script /\ step \in Nodes(kind) /\ emitted = <<>>
  BY <1>1, <1>2 DEF Nodes
<1>4. step' \in 1..(Len(script') + 1)
  BY <1>1, <1>2
<1>5. unparsed \cup {step} \subseteq 1..(step' - 1) /\ unparsed \subseteq 1..(step' - 1)
  BY <1>1, <1>2
<1>6. RelationsWholeOrLimited'
  BY <1>3 DEF RelationsWholeOrLimited
<1>7. SearchedLoops' = SearchedLoops /\ Paths' = Paths /\ \A p : Creators(p)' = Creators(p)
  BY DEF SearchedLoops, Overlong, Paths, Creators, Nodes
<1> QED
  BY <1>1, <1>2, <1>3, <1>4, <1>5, <1>6, <1>7

\* A node that is no mkfifo leaves the creations known.
LEMMA FifosStill ==
  ASSUME ShellInv, NEW kind, Entering(kind), kind # "mkfifo", script' = script, emitted' = emitted, fifos' = fifos
  PROVE  FifosKnown'
<1>1. /\ step \in DOMAIN script /\ script[step].kind = kind /\ step' = step + 1
      /\ Paths' = Paths /\ \A p : Creators(p)' = Creators(p)
  BY Enters
<1>2. Entered("mkfifo")' = Entered("mkfifo")
  BY <1>1, EnteredNext DEF ShellInv
<1>3. FifosKnown
  BY DEF ShellInv
<1> QED
  BY <1>1, <1>2, <1>3 DEF FifosKnown

\* A node without loops leaves those that were met.
LEMMA LoopsStill ==
  ASSUME ShellInv, NEW kind, Entering(kind), kind \notin {"loop", "sh"}, script' = script, emitted' = emitted,
         loops' = loops, limited' = limited, allowance' = allowance, unparsed' = unparsed
  PROVE  LoopsKept'
<1>1. step \in DOMAIN script /\ script[step].kind = kind /\ step' = step + 1 /\ SearchedLoops' = SearchedLoops
  BY Enters
<1>2. LoopsAt(step) = {}
  BY <1>1 DEF LoopsAt
<1>3. Met' = Met
  BY <1>1, <1>2, MetNext DEF ShellInv
<1> QED
  BY <1>1, <1>3 DEF ShellInv, LoopsKept

\* A function definition.
LEMMA FunctionKeeps == ShellInv /\ EnterFunction => ShellInv'
<1> SUFFICES ASSUME ShellInv, EnterFunction PROVE ShellInv'
  OBVIOUS
<1>1. /\ Entering("function") /\ functions' = functions \cup {script[step].name}
      /\ script' = script /\ loops' = loops /\ fifos' = fifos /\ limited' = limited
      /\ allowance' = allowance /\ unparsed' = unparsed /\ emitted' = emitted
  BY DEF EnterFunction, ShellNode
<1>2. LoopsKept' /\ FifosKnown' /\ RelationsWholeOrLimited'
  BY <1>1, LoopsStill, FifosStill, Enters
<1>3. ShellTypeOK'
  <2>1. Entered("function")' = Entered("function") \cup {step}
    BY <1>1, Enters, EnteredNext DEF ShellInv
  <2>2. functions' = {script'[i].name : i \in Entered("function")'}
    BY <1>1, <2>1 DEF ShellInv, ShellTypeOK
  <2> QED
    BY <1>1, <2>2, Enters DEF ShellInv, ShellTypeOK
<1> QED
  BY <1>2, <1>3 DEF ShellInv

\* The functions are the same after any other node.
LEMMA FunctionsStill ==
  ASSUME ShellInv, NEW kind, Entering(kind), kind # "function", script' = script, emitted' = emitted,
         functions' = functions
  PROVE  functions' = {script'[i].name : i \in Entered("function")'}
<1>1. Entered("function")' = Entered("function")
  BY Enters, EnteredNext DEF ShellInv
<1> QED
  BY <1>1 DEF ShellInv, ShellTypeOK

\* A loop.
LEMMA LoopKeeps == ShellInv /\ EnterLoop => ShellInv'
<1> SUFFICES ASSUME ShellInv, EnterLoop PROVE ShellInv'
  OBVIOUS
<1> DEFINE new == [loop |-> script[step].loop, offset |-> <<step>>]
<1>1. /\ Entering("loop") /\ PushLoops(<<new>>)
      /\ script' = script /\ fifos' = fifos /\ functions' = functions
      /\ allowance' = allowance /\ unparsed' = unparsed /\ emitted' = emitted
  BY DEF EnterLoop, ShellNode
<1>2. /\ step \in DOMAIN script /\ script[step].kind = "loop" /\ step' = step + 1 /\ SearchedLoops' = SearchedLoops
  BY <1>1, Enters
<1>3. LoopsAt(step) = {new} /\ new \in SearchedLoops
  BY <1>2, LoopsByNode DEF LoopsAt
<1> HIDE DEF new
<1>4. <<new>> \in Seq(SearchedLoops) /\ ToSet(<<new>>) = {new}
  BY <1>3 DEF ToSet
<1>5. /\ loops' \in Seq(SearchedLoops) /\ limited' \in BOOLEAN /\ (limited => limited')
      /\ ToSet(loops') \subseteq ToSet(loops) \cup {new}
      /\ ~limited' => ToSet(loops') = ToSet(loops) \cup {new}
  BY <1>1, <1>4, PushKeeps DEF ShellInv
<1>6. Met' = Met \cup {new}
  BY <1>1, <1>2, <1>3, MetNext DEF ShellInv
<1>7. LoopsKept'
  BY <1>1, <1>2, <1>5, <1>6 DEF ShellInv, LoopsKept
<1>8. FifosKnown' /\ RelationsWholeOrLimited'
  BY <1>1, FifosStill, Enters
<1>9. ShellTypeOK'
  <2>1. functions' = {script'[i].name : i \in Entered("function")'}
    BY <1>1, FunctionsStill
  <2> QED
    BY <1>1, <1>5, <2>1, Enters DEF ShellInv, ShellTypeOK
<1> QED
  BY <1>7, <1>8, <1>9 DEF ShellInv

\* The script's paths, of which there are finitely many.
LEMMA PathsFinite ==
  ASSUME script \in Scripts
  PROVE  IsFiniteSet(Paths) /\ \A i \in Nodes("mkfifo") : ToSet(script[i].paths) \subseteq Paths
<1>1. IsFiniteSet(Nodes("mkfifo"))
  <2>1. Nodes("mkfifo") \in SUBSET (1..Len(script)) /\ Len(script) \in Nat
    BY ScriptShape DEF Nodes
  <2>2. IsFiniteSet(1..Len(script))
    BY <2>1, FS_Interval
  <2> QED
    BY <2>1, <2>2, FS_Subset
<1>2. \A i \in Nodes("mkfifo") : IsFiniteSet(ToSet(script[i].paths))
  <2> SUFFICES ASSUME NEW i \in Nodes("mkfifo") PROVE IsFiniteSet(ToSet(script[i].paths))
    OBVIOUS
  <2>1. PICK p : p = script[i].paths
    OBVIOUS
  <2>2. p \in Seq(ToSet(p))
    BY <2>1, ScriptShape
  <2>3. Len(p) \in Nat /\ DOMAIN p = 1..Len(p) /\ ToSet(p) = {p[k] : k \in 1..Len(p)}
    BY <2>2 DEF ToSet
  <2>4. p \in Surjection(1..Len(p), ToSet(p))
    BY <2>2, <2>3 DEF Surjection
  <2> QED
    BY <2>1, <2>3, <2>4, FS_Surjection, FS_Interval
<1>3. PICK all : all = [i \in Nodes("mkfifo") |-> ToSet(script[i].paths)]
  OBVIOUS
<1>4. PICK sets : sets = {ToSet(script[i].paths) : i \in Nodes("mkfifo")}
  OBVIOUS
<1>5. all \in Surjection(Nodes("mkfifo"), sets)
  BY <1>3, <1>4 DEF Surjection
<1>6. IsFiniteSet(sets) /\ \A T \in sets : IsFiniteSet(T)
  BY <1>1, <1>2, <1>4, <1>5, FS_Surjection
<1>7. Paths = UNION sets
  BY <1>4 DEF Paths
<1>8. IsFiniteSet(Paths)
  BY <1>6, <1>7, FS_UNION
<1> QED
  BY <1>4, <1>7, <1>8

\* A mkfifo.
LEMMA MkfifoKeeps == ShellInv /\ EnterMkfifo => ShellInv'
<1> SUFFICES ASSUME ShellInv, EnterMkfifo PROVE ShellInv'
  OBVIOUS
<1>1. /\ Entering("mkfifo") /\ fifos' = AllCreated(fifos, script[step].paths)
      /\ script' = script /\ loops' = loops /\ functions' = functions /\ limited' = limited
      /\ allowance' = allowance /\ unparsed' = unparsed /\ emitted' = emitted
  BY DEF EnterMkfifo, ShellNode, AllCreated
<1>2. /\ step \in DOMAIN script /\ script[step].kind = "mkfifo" /\ step' = step + 1
      /\ step \in Nodes("mkfifo") /\ Paths' = Paths /\ \A p : Creators(p)' = Creators(p)
  BY <1>1, Enters
<1>3. Entered("mkfifo")' = Entered("mkfifo") \cup {step}
  BY <1>1, <1>2, EnteredNext DEF ShellInv
<1>4. PICK paths : paths = script[step].paths
  OBVIOUS
<1>5. /\ script \in Scripts /\ paths \in Seq(ToSet(paths)) /\ ToSet(paths) \subseteq Paths
      /\ IsFiniteSet(Paths)
  BY <1>2, <1>4, PathsFinite, ScriptShape DEF ShellInv, ShellTypeOK
<1>6. paths \in Seq(Paths)
  BY <1>5
<1>7. \A i \in Nodes("mkfifo") : \A p : p \in ToSet(script[i].paths) <=> i \in Creators(p)
  <2> SUFFICES ASSUME NEW i \in Nodes("mkfifo"), NEW p
               PROVE  p \in ToSet(script[i].paths) <=> i \in Creators(p)
    OBVIOUS
  <2>1. PICK q : q = script[i].paths
    OBVIOUS
  <2>2. q \in Seq(ToSet(q))
    BY <2>1, ScriptShape DEF ShellInv, ShellTypeOK
  <2>3. DOMAIN q = 1..Len(q)
    BY <2>2
  <2>4. p \in ToSet(q) <=> \E k \in 1..Len(q) : q[k] = p
    BY <2>3 DEF ToSet
  <2> QED
    BY <2>1, <2>4 DEF Creators, Contains
<1>8. FifosKnown
  BY DEF ShellInv
<1>9. DOMAIN fifos \subseteq Paths
  <2>1. \A p \in DOMAIN fifos : fifos[p] \in Nodes("mkfifo") /\ fifos[p] \in Creators(p)
    BY <1>8 DEF FifosKnown, Entered
  <2> QED
    BY <1>7, <2>1, PathsFinite DEF ShellInv, ShellTypeOK
<1>10. /\ DOMAIN fifos \subseteq DOMAIN fifos'
       /\ DOMAIN fifos' \subseteq DOMAIN fifos \cup ToSet(paths)
       /\ \A p \in DOMAIN fifos : fifos'[p] = fifos[p]
       /\ \A p \in DOMAIN fifos' \ DOMAIN fifos : fifos'[p] = step
       /\ Cardinality(Paths) <= MaxFacts => ToSet(paths) \subseteq DOMAIN fifos'
  BY <1>1, <1>4, <1>5, <1>6, <1>9, CreatesPaths
<1>11. FifosKnown'
  <2>1. ASSUME NEW p \in DOMAIN fifos'
        PROVE  fifos'[p] \in Entered("mkfifo")' /\ fifos'[p] \in Creators(p)
    <3>1. CASE p \in DOMAIN fifos
      BY <1>3, <1>8, <1>10, <3>1 DEF FifosKnown
    <3>2. CASE p \notin DOMAIN fifos
      BY <1>2, <1>3, <1>4, <1>7, <1>10, <2>1, <3>2
    <3> QED
      BY <3>1, <3>2
  <2>2. ASSUME Cardinality(Paths) <= MaxFacts, NEW i \in Entered("mkfifo")', NEW p \in ToSet(script[i].paths)
        PROVE  p \in DOMAIN fifos' /\ fifos'[p] <= i
    <3>1. step \in Nat /\ \A j \in Entered("mkfifo") : j \in Nat /\ j < step
      BY ScriptShape DEF ShellInv, ShellTypeOK, Entered, Nodes
    <3>2. CASE i \in Entered("mkfifo")
      BY <1>8, <1>10, <2>2, <3>2 DEF FifosKnown
    <3>3. CASE i = step
      <4>1. p \in DOMAIN fifos'
        BY <1>4, <1>10, <2>2, <3>3
      <4>2. CASE p \in DOMAIN fifos
        BY <1>8, <1>10, <3>1, <3>3, <4>1, <4>2 DEF FifosKnown
      <4>3. CASE p \notin DOMAIN fifos
        BY <1>10, <3>1, <3>3, <4>1, <4>3
      <4> QED
        BY <4>2, <4>3, <4>1
    <3> QED
      BY <1>3, <2>2, <3>2, <3>3
  <2> QED
    BY <1>1, <1>2, <2>1, <2>2 DEF FifosKnown
<1>12. LoopsKept' /\ RelationsWholeOrLimited'
  BY <1>1, LoopsStill, Enters
<1>13. ShellTypeOK'
  <2>1. functions' = {script'[i].name : i \in Entered("function")'}
    BY <1>1, FunctionsStill
  <2> QED
    BY <1>1, <2>1, Enters DEF ShellInv, ShellTypeOK
<1> QED
  BY <1>11, <1>12, <1>13 DEF ShellInv

\* A literal body, parsed, cut short or refused.
LEMMA BodyKeeps == ShellInv /\ EnterBody => ShellInv'
<1> SUFFICES ASSUME ShellInv, EnterBody PROVE ShellInv'
  OBVIOUS
<1> DEFINE size == script[step].size
           body == script[step].body
           sighted == [i \in DOMAIN body |-> [loop |-> body[i], offset |-> <<step, i>>]]
<1>1. /\ Entering("sh") /\ size <= MaxBodyBytes /\ allowance' = Asked(allowance, size)
      /\ script' = script /\ fifos' = fifos /\ functions' = functions /\ emitted' = emitted
      /\ \/ Covers(allowance, size) /\ PushLoops(sighted) /\ unparsed' = unparsed
         \/ /\ Covers(allowance, size) /\ unparsed' = unparsed \cup {step}
            /\ loops' = loops /\ limited' = limited
         \/ /\ ~Covers(allowance, size)
            /\ loops' = loops /\ limited' = limited /\ unparsed' = unparsed
  BY DEF EnterBody, ShellNode
<1>2. /\ step \in DOMAIN script /\ script[step].kind = "sh" /\ step' = step + 1 /\ step \in Nodes("sh")
      /\ SearchedLoops' = SearchedLoops
  BY <1>1, Enters
<1>3. LoopsAt(step) = {[loop |-> body[j], offset |-> <<step, j>>] : j \in DOMAIN body}
  <2>1. ~(size > MaxBodyBytes)
    BY ShellAssumption, <1>1, <1>2, ScriptShape DEF ShellAssumption, ShellInv, ShellTypeOK
  <2> QED
    BY <1>2, <2>1 DEF LoopsAt, Overlong
<1>4. sighted \in Seq(SearchedLoops) /\ ToSet(sighted) = LoopsAt(step)
  <2>1. PICK b : b = body
    OBVIOUS
  <2>2. b \in Seq(ToSet(b))
    BY <1>2, <2>1, ScriptShape DEF ShellInv, ShellTypeOK
  <2>3. Len(b) \in Nat /\ DOMAIN b = 1..Len(b)
    BY <2>2
  <2>4. PICK f : f = sighted
    OBVIOUS
  <2>5. f = [i \in 1..Len(b) |-> [loop |-> b[i], offset |-> <<step, i>>]]
    BY <2>1, <2>3, <2>4
  <2>6. \A i \in 1..Len(b) : f[i] \in LoopsAt(step)
    BY <1>3, <2>1, <2>3, <2>5
  <2>7. LoopsAt(step) \subseteq SearchedLoops
    BY <1>2, LoopsByNode
  <2>8. f \in [1..Len(b) -> SearchedLoops]
    BY <2>5, <2>6, <2>7
  <2>9. f \in Seq(SearchedLoops)
    BY <2>3, <2>8
  <2>10. ToSet(f) = LoopsAt(step)
    <3>1. DOMAIN f = 1..Len(b)
      BY <2>5
    <3> QED
      BY <1>3, <2>1, <2>3, <2>5, <3>1 DEF ToSet
  <2> QED
    BY <2>4, <2>9, <2>10
<1> HIDE DEF sighted, body, size
<1>5. /\ DOMAIN allowance' = {"parses", "bytes", "limited"} /\ allowance'.limited \in BOOLEAN
      /\ Covers(allowance, size) => allowance'.limited = allowance.limited
      /\ ~Covers(allowance, size) => allowance'.limited = TRUE
  <2>1. DOMAIN allowance = {"parses", "bytes", "limited"} /\ allowance.limited \in BOOLEAN
    BY DEF ShellInv, ShellTypeOK
  <2>2. ASSUME Covers(allowance, size)
        PROVE  DOMAIN allowance' = DOMAIN allowance /\ allowance'.limited = allowance.limited
    <3>1. allowance' = [allowance EXCEPT !.parses = @ - 1, !.bytes = @ - size]
      BY <1>1, <2>2 DEF Asked
    <3> QED
      BY <3>1
  <2>3. ASSUME ~Covers(allowance, size)
        PROVE  DOMAIN allowance' = DOMAIN allowance /\ allowance'.limited = TRUE
    <3>1. allowance' = [allowance EXCEPT !.limited = TRUE]
      BY <1>1, <2>3 DEF Asked
    <3> QED
      BY <2>1, <3>1
  <2>4. allowance'.limited \in BOOLEAN
    <3>1. CASE Covers(allowance, size)
      BY <2>1, <2>2, <3>1
    <3>2. CASE ~Covers(allowance, size)
      BY <2>3, <3>2
    <3> QED
      BY <3>1, <3>2
  <2> QED
    BY <2>1, <2>2, <2>3, <2>4
<1>6. LoopsKept /\ limited \in BOOLEAN /\ ShellTypeOK
  BY DEF ShellInv, ShellTypeOK
<1>7. LoopsKept' /\ limited' \in BOOLEAN
  <2>1. CASE Covers(allowance, size) /\ PushLoops(sighted) /\ unparsed' = unparsed
    <3>1. /\ loops' \in Seq(SearchedLoops) /\ limited' \in BOOLEAN /\ (limited => limited')
          /\ ToSet(loops') \subseteq ToSet(loops) \cup LoopsAt(step)
          /\ ~limited' => ToSet(loops') = ToSet(loops) \cup LoopsAt(step)
      BY <1>4, <1>6, <2>1, PushKeeps
    <3>2. Met' = Met \cup LoopsAt(step)
      BY <1>1, <1>2, <1>6, <2>1, MetNext
    <3> QED
      BY <1>2, <1>5, <1>6, <2>1, <3>1, <3>2 DEF LoopsKept
  <2>2. CASE Covers(allowance, size) /\ unparsed' = unparsed \cup {step} /\ loops' = loops /\ limited' = limited
    <3>1. Met' = Met
      BY <1>1, <1>2, <1>6, <2>2, MetNext
    <3> QED
      BY <1>2, <1>5, <1>6, <2>2, <3>1 DEF LoopsKept
  <2>3. CASE ~Covers(allowance, size) /\ loops' = loops /\ limited' = limited /\ unparsed' = unparsed
    <3>1. Met' = Met \cup LoopsAt(step)
      BY <1>1, <1>2, <1>6, <2>3, MetNext
    <3> QED
      BY <1>2, <1>5, <1>6, <2>3, <3>1 DEF LoopsKept
  <2> QED
    BY <1>1, <2>1, <2>2, <2>3
<1>8. FifosKnown' /\ RelationsWholeOrLimited'
  BY <1>1, FifosStill, Enters
<1>9. ShellTypeOK'
  <2>1. functions' = {script'[i].name : i \in Entered("function")'}
    BY <1>1, FunctionsStill
  <2>2. unparsed' \subseteq 1..(step' - 1)
    BY <1>1, Enters
  <2> QED
    BY <1>1, <1>5, <1>7, <2>1, <2>2, Enters DEF ShellInv, ShellTypeOK
<1> QED
  BY <1>7, <1>8, <1>9 DEF ShellInv

\* A body too long to be read.
LEMMA SkipKeeps == ShellInv /\ SkipBody => ShellInv'
<1> SUFFICES ASSUME ShellInv, SkipBody PROVE ShellInv'
  OBVIOUS
<1>1. /\ Entering("sh") /\ script[step].size > MaxBodyBytes
      /\ script' = script /\ loops' = loops /\ fifos' = fifos /\ functions' = functions /\ limited' = limited
      /\ allowance' = allowance /\ unparsed' = unparsed /\ emitted' = emitted
  BY DEF SkipBody, ShellNode
<1>2. step \in DOMAIN script /\ step' = step + 1 /\ step \in Nodes("sh") /\ SearchedLoops' = SearchedLoops
  BY <1>1, Enters
<1>3. step \in Overlong /\ script[step].kind = "sh"
  BY <1>1, <1>2 DEF Overlong, Nodes
<1>4. LoopsAt(step) = {}
  BY <1>3 DEF LoopsAt
<1>5. Met' = Met
  BY <1>1, <1>2, <1>4, MetNext DEF ShellInv
<1>6. LoopsKept'
  BY <1>1, <1>2, <1>5 DEF ShellInv, LoopsKept
<1>7. FifosKnown' /\ RelationsWholeOrLimited'
  BY <1>1, FifosStill, Enters
<1>8. ShellTypeOK'
  <2>1. functions' = {script'[i].name : i \in Entered("function")'}
    BY <1>1, FunctionsStill
  <2> QED
    BY <1>1, <2>1, Enters DEF ShellInv, ShellTypeOK
<1> QED
  BY <1>6, <1>7, <1>8 DEF ShellInv

\* emit: what is reported is what the script has.
LEMMA EmitIsWhole == ShellInv /\ Emit => ShellInv'
<1> SUFFICES ASSUME ShellInv, Emit PROVE ShellInv'
  OBVIOUS
<1> DEFINE kept == {k \in ToSet(loops) : ~Shadowed(k.loop)}
           report == {[loop |-> l.loop, offset |-> l.offset, created |-> CreatedAt(l.loop)] : l \in kept}
<1>1. /\ step > Len(script) /\ emitted' = [limited |-> limited \/ allowance.limited, fifos |-> fifos, loops |-> report]
      /\ script' = script /\ step' = step /\ loops' = loops /\ fifos' = fifos /\ functions' = functions
      /\ limited' = limited /\ allowance' = allowance /\ unparsed' = unparsed
  BY DEF Emit
<1>2. /\ Len(script) \in Nat /\ DOMAIN script = 1..Len(script) /\ step = Len(script) + 1
      /\ script \in Scripts
  BY <1>1, ScriptShape DEF ShellInv, ShellTypeOK
<1>3. \A kind : Entered(kind) = Nodes(kind)
  BY <1>2 DEF Entered, Nodes
<1>4. functions = Defined
  BY <1>3 DEF ShellInv, ShellTypeOK, Defined
<1>5. Met = {l \in SearchedLoops : l.offset[1] \notin unparsed}
  <2>1. \A l \in SearchedLoops : l.offset[1] < step
    BY <1>2, LoopsByNode
  <2> QED
    BY <2>1 DEF Met
<1>6. \A loop : ~Shadowed(loop) <=> {loop.interpreter, loop.client} \cap Defined = {}
  BY <1>4 DEF Shadowed
<1>7. kept = Programs(ToSet(loops))
  BY <1>6 DEF Programs
<1> DEFINE reported == {[loop |-> l.loop, offset |-> l.offset] : l \in report}
<1>8. ToSet(loops) \subseteq Met /\ ((~limited /\ ~allowance.limited) => ToSet(loops) = Met)
  BY DEF ShellInv, LoopsKept
<1>9. kept \subseteq SearchedLoops /\ kept \subseteq Programs(Met)
  BY <1>7, <1>8 DEF Programs, Met
<1> HIDE DEF kept
<1>10. \A l \in SearchedLoops : l = [loop |-> l.loop, offset |-> l.offset]
  BY LoopsByNode
<1>11. reported = kept
  <2>1. ASSUME NEW x \in reported PROVE x \in kept
    <3>1. PICK l \in report : x = [loop |-> l.loop, offset |-> l.offset]
      BY <2>1
    <3>2. PICK k \in kept : l = [loop |-> k.loop, offset |-> k.offset, created |-> CreatedAt(k.loop)]
      BY <3>1
    <3>3. l.loop = k.loop /\ l.offset = k.offset
      BY <3>2
    <3> QED
      BY <1>9, <1>10, <3>1, <3>2, <3>3
  <2>2. ASSUME NEW k \in kept PROVE k \in reported
    <3>1. PICK l : l = [loop |-> k.loop, offset |-> k.offset, created |-> CreatedAt(k.loop)]
      OBVIOUS
    <3>2. l \in report /\ l.loop = k.loop /\ l.offset = k.offset
      BY <3>1
    <3>3. k = [loop |-> l.loop, offset |-> l.offset]
      BY <1>9, <1>10, <3>2
    <3> QED
      BY <3>2, <3>3
  <2> QED
    BY <2>1, <2>2
<1>12. (~limited /\ ~allowance.limited) => reported = Programs(Met)
  BY <1>7, <1>8, <1>11
<1>13. ASSUME Cardinality(Paths) <= MaxFacts, NEW l \in report
       PROVE  IF l.loop.fifo \notin Paths THEN l.created = NotCreated
              ELSE l.created \in Creators(l.loop.fifo) /\ \A i \in Creators(l.loop.fifo) : l.created <= i
  <2>1. PICK k \in kept : l = [loop |-> k.loop, offset |-> k.offset, created |-> CreatedAt(k.loop)]
    BY <1>13
  <2>2. l.created = CreatedAt(l.loop)
    BY <2>1
  <2>3. \A p : p \in Paths => p \in DOMAIN fifos
    <3> SUFFICES ASSUME NEW p \in Paths PROVE p \in DOMAIN fifos
      OBVIOUS
    <3>1. PICK i \in Nodes("mkfifo") : p \in ToSet(script[i].paths)
      BY DEF Paths
    <3> QED
      BY <1>3, <1>13, <3>1 DEF ShellInv, FifosKnown
  <2>4. \A p \in DOMAIN fifos : fifos[p] \in Creators(p)
    BY DEF ShellInv, FifosKnown
  <2>5. \A p : \A i \in Creators(p) : i \in Nodes("mkfifo") /\ p \in ToSet(script[i].paths)
    <3> SUFFICES ASSUME NEW p, NEW i \in Creators(p) PROVE i \in Nodes("mkfifo") /\ p \in ToSet(script[i].paths)
      OBVIOUS
    <3>1. i \in Nodes("mkfifo") /\ \E j \in 1..Len(script[i].paths) : script[i].paths[j] = p
      BY DEF Creators, Contains
    <3>2. PICK q : q = script[i].paths
      OBVIOUS
    <3>3. q \in Seq(ToSet(q))
      BY <1>2, <3>1, <3>2, ScriptShape
    <3>4. DOMAIN q = 1..Len(q)
      BY <3>3
    <3> QED
      BY <3>1, <3>2, <3>4 DEF ToSet
  <2>6. CASE l.loop.fifo \notin Paths
    <3>1. l.loop.fifo \notin DOMAIN fifos
      <4>1. l.loop.fifo \in DOMAIN fifos => l.loop.fifo \in Paths
        BY <1>2, <2>4, <2>5, PathsFinite
      <4> QED
        BY <2>6, <4>1
    <3> QED
      BY <2>2, <2>6, <3>1 DEF CreatedAt
  <2>7. CASE l.loop.fifo \in Paths
    <3>1. l.loop.fifo \in DOMAIN fifos /\ l.created = fifos[l.loop.fifo]
      BY <2>2, <2>3, <2>7 DEF CreatedAt
    <3>2. \A i \in Creators(l.loop.fifo) : fifos[l.loop.fifo] <= i
      BY <1>3, <1>13, <2>5 DEF ShellInv, FifosKnown
    <3> QED
      BY <2>4, <2>7, <3>1, <3>2
  <2> QED
    BY <2>6, <2>7
<1>14. emitted'.loops = report /\ emitted'.limited = (limited \/ allowance.limited)
  BY <1>1
<1> HIDE DEF report
<1>15. RelationsWholeOrLimited'
  <2>1. Defined' = Defined /\ SearchedLoops' = SearchedLoops /\ Paths' = Paths /\ \A p : Creators(p)' = Creators(p)
    BY <1>1 DEF Defined, SearchedLoops, Overlong, Paths, Creators, Nodes
  <2>2. {l \in SearchedLoops' : l.offset[1] \notin unparsed'} = Met
    BY <1>1, <1>5, <2>1
  <2>3. {m \in {l \in SearchedLoops' : l.offset[1] \notin unparsed'} :
            {m.loop.interpreter, m.loop.client} \cap Defined' = {}} = Programs(Met)
    BY <2>1, <2>2 DEF Programs
  <2>4. /\ {[loop |-> l.loop, offset |-> l.offset] : l \in emitted'.loops} = reported
        /\ reported \subseteq Programs(Met)
        /\ ~emitted'.limited => reported = Programs(Met)
    <3>1. ~emitted'.limited => ~limited /\ ~allowance.limited
      BY <1>14, Zenon
    <3> QED
      BY <1>9, <1>11, <1>12, <1>14, <3>1
  <2>5. Cardinality(Paths') <= MaxFacts =>
          \A l \in emitted'.loops :
            IF l.loop.fifo \notin Paths' THEN l.created = NotCreated
            ELSE l.created \in Creators(l.loop.fifo)' /\ \A i \in Creators(l.loop.fifo)' : l.created <= i
    BY <1>13, <1>14, <2>1
  <2>6. {[loop |-> l.loop, offset |-> l.offset] : l \in emitted'.loops} \subseteq
          {m \in {l \in SearchedLoops' : l.offset[1] \notin unparsed'} :
            {m.loop.interpreter, m.loop.client} \cap Defined' = {}}
    BY <2>3, <2>4
  <2>7. ~emitted'.limited => {[loop |-> l.loop, offset |-> l.offset] : l \in emitted'.loops} =
          {m \in {l \in SearchedLoops' : l.offset[1] \notin unparsed'} :
            {m.loop.interpreter, m.loop.client} \cap Defined' = {}}
    BY <2>3, <2>4
  <2> QED
    BY <2>5, <2>6, <2>7, Zenon DEF RelationsWholeOrLimited, Programs
<1>16. ShellTypeOK' /\ LoopsKept' /\ FifosKnown'
  BY <1>1, <1>2 DEF ShellInv, ShellTypeOK, LoopsKept, FifosKnown, Entered, Met, SearchedLoops, Overlong, Nodes, Paths, Creators
<1> QED
  BY <1>15, <1>16 DEF ShellInv

\* What the collector keeps of a script is what the script has, node after node:
\* every loop met unless a budget says otherwise, and the first creations
\* (Collector of src/src/formats/source/shell_fifo.rs).
THEOREM ShellCollectorSound == ShellSpec => []ShellInv
<1>1. ShellInit => ShellInv
  <2> SUFFICES ASSUME ShellInit PROVE ShellInv
    OBVIOUS
  <2>1. /\ script \in Scripts /\ step = 1 /\ loops = <<>> /\ fifos = <<>> /\ functions = {}
        /\ limited = FALSE /\ allowance = FullAllowance /\ unparsed = {} /\ emitted = <<>>
    BY DEF ShellInit
  <2>2. Len(script) \in Nat /\ DOMAIN script = 1..Len(script)
    BY <2>1, ScriptShape
  <2>3. \A kind : Entered(kind) = {}
    BY <2>1, <2>2 DEF Entered, Nodes
  <2>4. Met = {}
    <3>1. \A l \in SearchedLoops : ~(l.offset[1] < step)
      BY <2>1, <2>2, LoopsByNode
    <3> QED
      BY <3>1 DEF Met
  <2>5. ShellTypeOK
    <3>1. DOMAIN allowance = {"parses", "bytes", "limited"} /\ allowance.limited \in BOOLEAN
      BY <2>1 DEF FullAllowance
    <3>2. step \in 1..(Len(script) + 1)
      BY <2>1, <2>2
    <3>3. functions = {script[i].name : i \in Entered("function")}
      BY <2>1, <2>3
    <3> QED
      BY <2>1, <3>1, <3>2, <3>3 DEF ShellTypeOK
  <2>6. LoopsKept
    <3>1. <<>> \in Seq(SearchedLoops) /\ ToSet(<<>>) = {}
      BY DEF ToSet
    <3> QED
      BY <2>1, <2>4, <3>1 DEF LoopsKept
  <2>7. FifosKnown
    <3>1. DOMAIN fifos = {}
      BY <2>1
    <3> QED
      BY <2>3, <3>1 DEF FifosKnown
  <2> QED
    BY <2>1, <2>5, <2>6, <2>7 DEF ShellInv, RelationsWholeOrLimited
<1>2. ShellInv /\ [ShellNext]_shell => ShellInv'
  <2> SUFFICES ASSUME ShellInv, [ShellNext]_shell PROVE ShellInv'
    OBVIOUS
  <2>1. CASE ShellNext
    BY <2>1, FunctionKeeps, LoopKeeps, MkfifoKeeps, BodyKeeps, SkipKeeps, EmitIsWhole DEF ShellNext
  <2>2. CASE UNCHANGED shell
    <3>1. /\ script' = script /\ step' = step /\ loops' = loops /\ fifos' = fifos /\ functions' = functions
          /\ limited' = limited /\ allowance' = allowance /\ unparsed' = unparsed /\ emitted' = emitted
      BY <2>2 DEF shell
    <3>2. ShellTypeOK' /\ LoopsKept' /\ FifosKnown'
      BY <3>1 DEF ShellInv, ShellTypeOK, LoopsKept, FifosKnown, Entered, Met, SearchedLoops, Overlong, Nodes, Paths, Creators
    <3>3. RelationsWholeOrLimited'
      <4>1. SearchedLoops' = SearchedLoops /\ Defined' = Defined /\ Paths' = Paths /\ \A p : Creators(p)' = Creators(p)
        BY <3>1 DEF Defined, SearchedLoops, Overlong, Paths, Creators, Nodes
      <4> QED
        BY <3>1, <4>1, Zenon DEF ShellInv, RelationsWholeOrLimited, Programs
    <3> QED
      BY <3>2, <3>3 DEF ShellInv
  <2> QED
    BY <2>1, <2>2
<1> QED
  BY <1>1, <1>2, PTL DEF ShellSpec

\* A script's relations are its own, through the programs they name, and whole
\* unless it is said that they are not (emit, src/src/formats/source/shell_fifo.rs).
THEOREM RelationsAreWhole == ShellSpec => []RelationsWholeOrLimited
<1>1. ShellInv => RelationsWholeOrLimited
  BY DEF ShellInv
<1> QED
  BY <1>1, ShellCollectorSound, PTL

-----------------------------------------------------------------------------
(* complete_values.                                                        *)

\* A graph's values, and what one step of complete_values leads to.
LEMMA ValueTyped ==
  ASSUME graph \in Graphs
  PROVE  /\ Len(Values) \in Nat /\ DOMAIN Values = 1..Len(Values)
         /\ \A i \in DOMAIN Values : /\ Values[i].inputs \in Seq(Nat)
                                     /\ \A f \in DOMAIN Values[i].fields : Values[i].fields[f] \in Nat
<1>1. Values \in Seq(ToSet(Values))
  BY GraphsAssumption DEF Values
<1>2. Len(Values) \in Nat /\ DOMAIN Values = 1..Len(Values)
  BY <1>1
<1>3. \A i \in DOMAIN Values : Values[i] \in ToSet(Values)
  BY DEF ToSet
<1>4. \A v \in ToSet(Values) : v.inputs \in Seq(Nat) /\ \A f \in DOMAIN v.fields : v.fields[f] \in Nat
  BY GraphsAssumption DEF Values
<1> QED
  BY <1>2, <1>3, <1>4

Alone == [id : Nat, calls : {<<>>}, field : Fields]

\* A node's values.
LEMMA WholeFromTyped ==
  ASSUME graph \in Graphs, NEW n, n.field \in Fields
  PROVE  WholeFrom(n) \subseteq Alone /\ IsFiniteSet(WholeFrom(n))
         /\ (n.id \notin DOMAIN Values => WholeFrom(n) = {})
<1>1. CASE n.id \notin DOMAIN Values
  BY <1>1, FS_EmptySet DEF WholeFrom
<1>2. CASE n.id \in DOMAIN Values
  <2> DEFINE v == Values[n.id]
             chosen == {Node(i, <<>>, n.field) : i \in ToSet(v.inputs)}
             projected == {Node(v.fields[n.field], <<>>, NoField) : f \in {n.field} \cap DOMAIN v.fields}
  <2>1. WholeFrom(n) = {} \/ WholeFrom(n) = chosen \/ WholeFrom(n) = projected
    BY <1>2 DEF WholeFrom
  <2>2. v.inputs \in Seq(Nat) /\ \A f \in DOMAIN v.fields : v.fields[f] \in Nat
    BY <1>2, ValueTyped
  <2>3. chosen \subseteq Alone /\ projected \subseteq Alone
    BY <2>2 DEF Node, Alone, ToSet, Fields
  <2>4. IsFiniteSet(chosen)
    <3>1. PICK g : g = [k \in DOMAIN v.inputs |-> Node(v.inputs[k], <<>>, n.field)]
      OBVIOUS
    <3>2. Len(v.inputs) \in Nat /\ DOMAIN v.inputs = 1..Len(v.inputs)
      BY <2>2
    <3>3. IsFiniteSet(DOMAIN g)
      <4>1. DOMAIN g = 1..Len(v.inputs)
        BY <3>1, <3>2
      <4>2. 1 \in Int /\ Len(v.inputs) \in Int
        BY <3>2
      <4>3. IsFiniteSet(1..Len(v.inputs))
        BY <4>2, FS_Interval, Zenon
      <4> QED
        BY <4>1, <4>3
    <3>4. chosen = {g[k] : k \in DOMAIN g}
      BY <3>1 DEF ToSet
    <3> QED
      BY <3>3, <3>4, ImageFinite
  <2>5. IsFiniteSet(projected)
    <3>1. PICK x : x = Node(v.fields[n.field], <<>>, NoField)
      OBVIOUS
    <3>2. projected \in SUBSET {x}
      BY <3>1
    <3>3. IsFiniteSet({x})
      BY FS_Singleton
    <3> HIDE DEF projected
    <3> QED
      BY <3>2, <3>3, FS_Subset
  <2> QED
    BY <1>2, <2>1, <2>3, <2>4, <2>5, FS_EmptySet
<1> QED
  BY <1>1, <1>2

\* What complete_values can come to is the least set that holds its question
\* and what its choices lead to.
LEMMA WholeReached ==
  ASSUME graph \in Graphs, asked.question \in Questions
  PROVE  /\ FirstNode \in WholeNodes /\ WholeNodes \subseteq Alone
         /\ \A n \in WholeNodes : WholeFrom(n) \subseteq WholeNodes
         /\ \A T : (FirstNode \in T /\ \A n \in T \cap WholeNodes : WholeFrom(n) \subseteq T)
                     => WholeNodes \subseteq T
<1> DEFINE next == [n \in Under |-> WholeFrom(n)]
           D == (DOMAIN Values) \X Fields
           succ == [d \in D |-> WholeFrom(Node(d[1], <<>>, d[2]))]
           F == {FirstNode} \cup UNION {succ[d] : d \in D}
<1>1. Alone \subseteq Under /\ DOMAIN next = Under
  <2>1. <<>> \in Seq(LocalCalls)
    OBVIOUS
  <2> QED
    BY <2>1 DEF Alone, Under
<1>2. \A n \in Under : next[n] = WholeFrom(n) /\ WholeFrom(n) \subseteq Alone
  BY WholeFromTyped DEF Under
<1>3. FirstNode \in Alone
  BY GraphsAssumption DEF FirstNode, Node, Alone, Fields
<1>4. \A d \in D : /\ Node(d[1], <<>>, d[2]) \in Alone
                   /\ succ[d] = WholeFrom(Node(d[1], <<>>, d[2]))
                   /\ succ[d] \subseteq Alone /\ IsFiniteSet(succ[d])
  <2> TAKE d \in D
  <2>1. d[1] \in Nat /\ d[2] \in Fields
    BY ValueTyped
  <2>2. Node(d[1], <<>>, d[2]) \in Alone /\ Node(d[1], <<>>, d[2]).field \in Fields
    BY <2>1 DEF Node, Alone
  <2>3. succ[d] = WholeFrom(Node(d[1], <<>>, d[2]))
    OBVIOUS
  <2> QED
    BY <2>2, <2>3, WholeFromTyped
<1>5. F \subseteq Alone
  BY <1>3, <1>4
<1>6. IsFiniteSet(F)
  <2>1. IsFiniteSet(Fields)
    <3>1. Fields = {asked.question.field} \cup {NoField}
      BY DEF Fields
    <3>2. IsFiniteSet({asked.question.field}) /\ IsFiniteSet({NoField})
      BY FS_Singleton
    <3> QED
      BY <3>1, <3>2, FS_Union
  <2>2. IsFiniteSet(DOMAIN Values)
    BY ValueTyped, FS_Interval
  <2>3. IsFiniteSet(D)
    BY <2>1, <2>2, FS_Product
  <2>4. DOMAIN succ = D
    OBVIOUS
  <2>5. PICK S : S = {succ[d] : d \in D}
    OBVIOUS
  <2>6. IsFiniteSet(S) /\ \A T \in S : IsFiniteSet(T)
    <3> HIDE DEF succ, D
    <3> QED
      BY <1>4, <2>3, <2>4, <2>5, ImageFinite
  <2>7. IsFiniteSet(UNION S)
    BY <2>6, FS_UNION
  <2>8. F = (UNION S) \cup {FirstNode}
    BY <2>5
  <2> HIDE DEF F
  <2> QED
    BY <2>7, <2>8, FS_AddElement
<1>7. \A n \in F : WholeFrom(n) \subseteq F
  <2> TAKE n \in F
  <2>1. n \in Alone
    BY <1>5
  <2>2. n.id \in Nat /\ n.field \in Fields /\ n = Node(n.id, <<>>, n.field)
    BY <2>1 DEF Alone, Node
  <2>3. CASE n.id \notin DOMAIN Values
    BY <2>2, <2>3, WholeFromTyped
  <2>4. CASE n.id \in DOMAIN Values
    <3>1. PICK d : d = <<n.id, n.field>>
      OBVIOUS
    <3>2. d \in D /\ d[1] = n.id /\ d[2] = n.field
      BY <2>2, <2>4, <3>1
    <3>3. succ[d] = WholeFrom(n)
      BY <1>4, <2>2, <3>2
    <3> HIDE DEF succ, D
    <3> QED
      BY <3>2, <3>3
  <2> QED
    BY <2>3, <2>4
<1> HIDE DEF F, D, succ
<1>8. Closed(next, F) /\ F \in SUBSET DOMAIN next /\ {FirstNode} \in SUBSET F
  BY <1>1, <1>2, <1>5, <1>7 DEF Closed, F
<1>9. \A n \in DOMAIN next : next[n] \subseteq DOMAIN next
  BY <1>1, <1>2
<1>10. WholeNodes = Reached(next, {FirstNode})
  BY DEF WholeNodes
<1>11. PICK leads : leads = next
  OBVIOUS
<1>12. /\ {FirstNode} \subseteq WholeNodes /\ WholeNodes \subseteq F
       /\ Closed(leads, WholeNodes)
       /\ \A T : ({FirstNode} \subseteq T /\ \A n \in T \cap WholeNodes : leads[n] \subseteq T)
                   => WholeNodes \subseteq T
  <2> HIDE DEF next
  <2> QED
    BY <1>6, <1>8, <1>9, <1>10, <1>11, ReachedIsLeast
<1>13. \A n \in WholeNodes : n \in Under /\ leads[n] = WholeFrom(n)
  BY <1>1, <1>2, <1>5, <1>11, <1>12
<1> QED
  BY <1>5, <1>12, <1>13 DEF Closed

\* What is on the worklist, and what was walked, as nodes.
WholeItem == [id : Nat, bindings : {Unbound}, depth : Nat, field : Fields]
WholeKey == [id : Nat, bindings : {Unbound}, field : Fields]
NodeOf(x) == Node(x.id, <<>>, x.field)
ToDo == {NodeOf(x) : x \in ToSet(pending)}
Gone == {NodeOf(x) : x \in seen}

\* A node walked is a whole value that was found, or a choice whose
\* alternatives are walked or will be.
Looked(n) ==
  \/ IsWhole(n) /\ n.id \in {o.value : o \in found}
  \/ ~IsWhole(n) /\ IsChoice(n) /\ WholeFrom(n) \subseteq ToDo \cup Gone

Completing == asked.question.mode = "complete"
WholeInv ==
  /\ graph \in Graphs /\ asked.question \in Questions
  /\ Completing =>
       /\ pending \in Seq(WholeItem) /\ seen \subseteq WholeKey
       /\ ToDo \cup Gone \subseteq WholeNodes
       /\ \A o \in found : /\ Node(o.value, <<>>, NoField) \in WholeNodes
                           /\ IsWhole(Node(o.value, <<>>, NoField))
       /\ ~incomplete => FirstNode \in ToDo \cup Gone /\ \A n \in Gone : Looked(n)
       /\ (done /\ ~incomplete) => pending = <<>>

\* The reference depends on the graph and the question only.
LEMMA WholeStill ==
  ASSUME graph' = graph, asked' = asked
  PROVE  /\ WholeNodes' = WholeNodes /\ FirstNode' = FirstNode /\ Fields' = Fields
         /\ WholeItem' = WholeItem /\ WholeKey' = WholeKey
         /\ \A n : /\ WholeFrom(n)' = WholeFrom(n) /\ IsWhole(n)' = IsWhole(n)
                   /\ IsChoice(n)' = IsChoice(n)
<1>1. FirstNode' = FirstNode /\ Fields' = Fields /\ Values' = Values
  BY DEF FirstNode, Fields, Values, Node
<1>2. ASSUME NEW n
      PROVE  WholeFrom(n)' = WholeFrom(n) /\ IsWhole(n)' = IsWhole(n) /\ IsChoice(n)' = IsChoice(n)
  BY <1>1 DEF WholeFrom, IsWhole, IsChoice, Node
<1>3. WholeNodes' = WholeNodes
  <2>1. Under' = Under
    BY <1>1 DEF Under, LocalCalls, Functions
  <2> QED
    BY <1>1, <1>2, <2>1 DEF WholeNodes
<1> QED
  BY <1>1, <1>2, <1>3 DEF WholeItem, WholeKey

\* A walk starts at its question.
LEMMA WholeInit == FlowInit => WholeInv
<1> SUFFICES ASSUME FlowInit PROVE WholeInv
  OBVIOUS
<1>1. /\ graph \in Graphs /\ asked.question \in Questions /\ asked.start = asked.question.start
      /\ pending = <<Item(asked.question.start, Unbound, 0, asked.question.field)>>
      /\ seen = {} /\ found = {} /\ ~incomplete /\ ~done
  BY DEF FlowInit
<1>2. PICK x : x = Item(asked.question.start, Unbound, 0, asked.question.field)
  OBVIOUS
<1>3. x \in WholeItem /\ NodeOf(x) = FirstNode
  BY <1>1, <1>2, GraphsAssumption DEF WholeItem, Item, NodeOf, FirstNode, Fields
<1>4. pending = <<x>> /\ pending \in Seq(WholeItem) /\ ToSet(pending) = {x}
  BY <1>1, <1>2, <1>3 DEF ToSet
<1>5. ToDo = {FirstNode} /\ Gone = {}
  BY <1>1, <1>3, <1>4 DEF ToDo, Gone
<1>6. FirstNode \in WholeNodes
  BY <1>1, WholeReached
<1> QED
  BY <1>1, <1>4, <1>5, <1>6 DEF WholeInv

\* One turn of the loop of complete_values, whatever its kind of value.
LEMMA WholeTurn ==
  ASSUME WholeInv, Completing, Turn, NEW added \in Seq(WholeItem),
         graph' = graph, asked' = asked, pending' = Rest \o added,
         seen' = seen \cup {Key(Top)},
         NEW n, n = NodeOf(Top),
         {NodeOf(x) : x \in ToSet(added)} \subseteq WholeFrom(n),
         \/ found' = found
         \/ IsWhole(n) /\ found' = found \cup {[value |-> Top.id, bindings |-> Unbound]},
         ~incomplete' => /\ ~incomplete
                         /\ \/ IsWhole(n) /\ n.id \in {o.value : o \in found'}
                            \/ /\ ~IsWhole(n) /\ IsChoice(n)
                               /\ WholeFrom(n) \subseteq {NodeOf(x) : x \in ToSet(added)},
         done' => incomplete'
  PROVE  WholeInv'
<1>0. /\ graph \in Graphs /\ asked.question \in Questions
      /\ pending \in Seq(WholeItem) /\ seen \subseteq WholeKey /\ pending # <<>>
      /\ ToDo \cup Gone \subseteq WholeNodes
  BY DEF WholeInv, Turn
<1>1. /\ Rest \in Seq(WholeItem) /\ Top \in WholeItem
      /\ ToSet(pending) = {Top} \cup ToSet(Rest)
  BY <1>0, StackTop DEF Rest, Top
<1>2. pending' \in Seq(WholeItem) /\ ToSet(pending') = ToSet(Rest) \cup ToSet(added)
  BY <1>1, StackAdds
<1>3. Key(Top) \in WholeKey /\ NodeOf(Key(Top)) = n
  BY <1>1 DEF WholeItem, WholeKey, Key, NodeOf
<1> DEFINE new == {NodeOf(x) : x \in ToSet(added)}
           rest == {NodeOf(x) : x \in ToSet(Rest)}
<1>4. ToDo = {n} \cup rest /\ ToDo' = rest \cup new /\ Gone' = Gone \cup {n}
  BY <1>1, <1>2, <1>3 DEF ToDo, Gone
<1>5. n \in WholeNodes /\ WholeFrom(n) \subseteq WholeNodes
  BY <1>0, <1>4, WholeReached
<1>6. n.id = Top.id /\ n.field = Top.field /\ n = Node(n.id, <<>>, n.field)
  BY DEF NodeOf, Node
<1> HIDE DEF new, rest
<1>7. ToDo' \cup Gone' \subseteq WholeNodes
  BY <1>0, <1>4, <1>5 DEF new
<1>8. ToDo \cup Gone \cup new \subseteq ToDo' \cup Gone'
  BY <1>4
<1>9. \A o \in found' : /\ Node(o.value, <<>>, NoField) \in WholeNodes
                        /\ IsWhole(Node(o.value, <<>>, NoField))
  <2>1. \A o \in found : /\ Node(o.value, <<>>, NoField) \in WholeNodes
                         /\ IsWhole(Node(o.value, <<>>, NoField))
    BY DEF WholeInv
  <2>2. IsWhole(n) => n = Node(Top.id, <<>>, NoField)
    BY <1>6 DEF IsWhole
  <2> QED
    BY <1>5, <2>1, <2>2
<1>10. ASSUME ~incomplete' PROVE FirstNode \in ToDo' \cup Gone' /\ \A m \in Gone' : Looked(m)'
  <2>1. FirstNode \in ToDo \cup Gone /\ \A m \in Gone : Looked(m)
    BY <1>10 DEF WholeInv
  <2>2. found \subseteq found'
    OBVIOUS
  <2>3. \A m : /\ WholeFrom(m)' = WholeFrom(m) /\ IsWhole(m)' = IsWhole(m)
               /\ IsChoice(m)' = IsChoice(m)
    BY WholeStill
  <2>4. ASSUME NEW m \in Gone PROVE Looked(m)'
    <3>1. Looked(m)
      BY <2>1
    <3> QED
      BY <1>8, <2>2, <2>3, <3>1 DEF Looked
  <2>5. Looked(n)'
    BY <1>8, <1>10, <2>3 DEF Looked, new
  <2> QED
    BY <1>4, <1>8, <2>1, <2>4, <2>5
<1>11. WholeNodes' = WholeNodes /\ FirstNode' = FirstNode /\ WholeItem' = WholeItem /\ WholeKey' = WholeKey
  BY WholeStill
<1>12. \A m : IsWhole(m)' = IsWhole(m)
  BY WholeStill
<1>13. seen' \subseteq WholeKey
  BY <1>0, <1>3
<1>14. (done' /\ ~incomplete') => pending' = <<>>
  OBVIOUS
<1> QED
  BY <1>0, <1>2, <1>7, <1>9, <1>10, <1>11, <1>12, <1>13, <1>14 DEF WholeInv

\* Only walks of origins ask further questions, or look at kinds of values.
LEMMA WholeSame ==
  ASSUME [FlowNext]_vars
  PROVE  /\ graph' = graph /\ asked'.question = asked.question
         /\ Completing => /\ asked' = asked
                          /\ \/ UNCHANGED vars
                             \/ Exhausted \/ SeenAgain \/ Dangling \/ Finish
                             \/ Complete \/ ChooseWhole \/ CompleteField \/ Unproven
<1>1. CASE UNCHANGED vars
  BY <1>1 DEF vars
<1>2. CASE Exhausted \/ SeenAgain \/ Dangling \/ Finish
  BY <1>2 DEF Exhausted, SeenAgain, Dangling, Finish, Visit
<1>3. CASE Walk
  <2>1. graph' = graph /\ asked' = asked
    BY <1>3 DEF Walk, ProjectField, Leaf, Unknown, Combine, BoundParameter, FreeParameter,
                FreeParameterOut, CallTooWide, CallHelper, CallLibrary, Visit
  <2>2. asked.question.mode = "origins"
    BY <1>3 DEF Walk, ProjectField, Leaf, Unknown, Combine, BoundParameter, FreeParameter,
                FreeParameterOut, CallTooWide, CallHelper, CallLibrary, Local, Walks
  <2> QED
    BY <2>1, <2>2 DEF Completing
<1>4. CASE AskArgument
  <2>1. PICK o \in found : \E i \in DOMAIN Values[o.value].inputs :
          asked' = [asked EXCEPT !.start = Values[o.value].inputs[i], !.of = o.value,
                                 !.bindings = o.bindings, !.again = TRUE]
    BY <1>4 DEF AskArgument
  <2>2. graph' = graph /\ asked.question.mode = "origins"
    BY <1>4 DEF AskArgument, MayAskAgain
  <2> QED
    BY <2>1, <2>2 DEF Completing
<1>5. CASE AskMissingArgument
  BY <1>5 DEF AskMissingArgument, MayAskAgain, Completing
<1>6. CASE Complete \/ ChooseWhole \/ CompleteField \/ Unproven
  BY <1>6 DEF Complete, ChooseWhole, CompleteField, Unproven, Visit
<1> QED
  BY <1>1, <1>2, <1>3, <1>4, <1>5, <1>6 DEF FlowNext

\* The nodes of the values put on the worklist.
LEMMA WholeAdded ==
  ASSUME NEW ids \in Seq(Nat), NEW depth \in Nat, NEW field \in Fields,
         NEW added, added = [i \in DOMAIN ids |-> Item(ids[i], Unbound, depth, field)]
  PROVE  /\ added \in Seq(WholeItem)
         /\ {NodeOf(x) : x \in ToSet(added)} = {Node(i, <<>>, field) : i \in ToSet(ids)}
<1>2. Len(ids) \in Nat /\ DOMAIN ids = 1..Len(ids) /\ \A i \in DOMAIN ids : ids[i] \in Nat
  OBVIOUS
<1>3. \A i \in DOMAIN ids : added[i] \in WholeItem
  BY <1>2 DEF WholeItem, Item
<1>4. added \in Seq(WholeItem)
  <2>1. added \in [1..Len(ids) -> WholeItem]
    BY <1>2, <1>3
  <2> QED
    BY <1>2, <2>1
<1>5. \A i \in DOMAIN ids : NodeOf(added[i]) = Node(ids[i], <<>>, field)
  BY DEF NodeOf, Item
<1>6. {NodeOf(x) : x \in ToSet(added)} = {NodeOf(added[i]) : i \in DOMAIN ids}
  BY DEF ToSet
<1>7. {Node(i, <<>>, field) : i \in ToSet(ids)} = {Node(ids[i], <<>>, field) : i \in DOMAIN ids}
  BY DEF ToSet
<1>8. {NodeOf(added[i]) : i \in DOMAIN ids} = {Node(ids[i], <<>>, field) : i \in DOMAIN ids}
  BY <1>5
<1> QED
  BY <1>4, <1>6, <1>7, <1>8

\* Every turn of complete_values keeps the worklist, the nodes walked and the
\* answer together.
LEMMA WholeNext == WholeInv /\ [FlowNext]_vars => WholeInv'
<1> SUFFICES ASSUME WholeInv, [FlowNext]_vars PROVE WholeInv'
  OBVIOUS
<1>1. CASE ~Completing
  BY <1>1, WholeSame DEF WholeInv, Completing
<1>2. CASE Completing
  <2> USE <1>2
  <2>0. /\ graph' = graph /\ asked' = asked /\ Completing'
        /\ graph \in Graphs /\ asked.question \in Questions
        /\ pending \in Seq(WholeItem) /\ seen \subseteq WholeKey
    BY WholeSame DEF WholeInv, Completing
  <2>1. CASE UNCHANGED vars
    <3>1. /\ UNCHANGED <<pending, seen, found, incomplete, done>>
          /\ ToDo' = ToDo /\ Gone' = Gone
      BY <2>1 DEF vars, answer, ToDo, Gone
    <3>2. \A n : Looked(n)' = Looked(n)
      BY <2>0, <3>1, WholeStill DEF Looked
    <3> QED
      BY <2>0, <3>1, <3>2, WholeStill DEF WholeInv
  <2>2. ASSUME Exhausted \/ Finish PROVE WholeInv'
    <3>1. /\ UNCHANGED <<pending, seen, found>>
          /\ incomplete' = TRUE \/ (incomplete' = incomplete /\ pending = <<>>)
          /\ ToDo' = ToDo /\ Gone' = Gone
      BY <2>2 DEF Exhausted, Finish, answer, ToDo, Gone
    <3>2. \A n : Looked(n)' = Looked(n)
      BY <2>0, <3>1, WholeStill DEF Looked
    <3> QED
      BY <2>0, <3>1, <3>2, WholeStill DEF WholeInv
  <2>3. ASSUME SeenAgain PROVE WholeInv'
    <3>1. /\ UNCHANGED <<seen, found, incomplete, done>> /\ pending' = Rest
          /\ pending # <<>> /\ ~done /\ Key(Top) \in seen
      BY <2>3 DEF SeenAgain, InBudget, Turn, answer
    <3>2. /\ Rest \in Seq(WholeItem) /\ Top \in WholeItem
          /\ ToSet(pending) = {Top} \cup ToSet(Rest)
      BY <2>0, <3>1, StackTop DEF Rest, Top
    <3>3. NodeOf(Top) = NodeOf(Key(Top))
      BY DEF NodeOf, Key
    <3>4. Gone' = Gone /\ ToDo' \cup Gone = ToDo \cup Gone
      BY <3>1, <3>2, <3>3 DEF ToDo, Gone
    <3>5. \A n : Looked(n)' = Looked(n)
      BY <2>0, <3>1, <3>4, WholeStill DEF Looked
    <3> QED
      BY <2>0, <3>1, <3>2, <3>4, <3>5, WholeStill DEF WholeInv
  <2>4. ASSUME NEW cost, Visit(cost), Completes
        PROVE  /\ Turn /\ Top \in WholeItem /\ seen' = seen \cup {Key(Top)}
               /\ Top.id \in DOMAIN Values /\ Top.id \in Nat /\ Top.bindings = Unbound
               /\ Top.depth + 1 \in Nat /\ Top.field \in Fields /\ NoField \in Fields
               /\ NodeOf(Top).id = Top.id /\ NodeOf(Top).field = Top.field
               /\ Values[Top.id].inputs \in Seq(Nat)
               /\ \A f \in DOMAIN Values[Top.id].fields : Values[Top.id].fields[f] \in Nat
    <3>1. Turn /\ seen' = seen \cup {Key(Top)} /\ Top.id \in DOMAIN Values
      BY <2>4 DEF Visit, InBudget, Completes
    <3>2. Top \in WholeItem
      BY <2>0, <3>1, StackTop DEF Turn, Top
    <3> QED
      BY <2>0, <3>1, <3>2, ValueTyped DEF WholeItem, NodeOf, Node, Fields
  <2>e. <<>> \in Seq(WholeItem) /\ ToSet(<<>>) = {} /\ \A s \in Seq(WholeItem) : s \o <<>> = s
    BY DEF ToSet
  <2>r. Turn => Rest \in Seq(WholeItem)
    BY <2>0, StackTop DEF Turn, Rest
  <2>5. ASSUME Dangling PROVE WholeInv'
    <3>1. /\ Turn /\ seen' = seen \cup {Key(Top)} /\ pending' = Rest /\ incomplete'
          /\ found' = found
      BY <2>5 DEF Dangling, Visit, InBudget
    <3>2. pending' = Rest \o <<>>
      BY <2>e, <2>r, <3>1
    <3> QED
      BY <2>0, <2>e, <3>1, <3>2, WholeTurn
  <2>6. ASSUME Complete PROVE WholeInv'
    <3>1. /\ Visit(0) /\ Completes /\ Proven /\ pending' = Rest
          /\ found' = found \cup {[value |-> Top.id, bindings |-> Unbound]}
          /\ incomplete' = incomplete /\ done' = done
      BY <2>6 DEF Complete
    <3>2. IsWhole(NodeOf(Top))
      BY <2>4, <3>1 DEF IsWhole, Proven, Value
    <3>3. [value |-> Top.id, bindings |-> Unbound] \in found'
      BY <3>1
    <3>4. NodeOf(Top).id \in {o.value : o \in found'}
      BY <2>4, <3>1, <3>3
    <3>5. pending' = Rest \o <<>> /\ Turn /\ ~done
      BY <2>4, <2>e, <2>r, <3>1 DEF Turn
    <3> QED
      BY <2>0, <2>4, <2>e, <3>1, <3>2, <3>4, <3>5, WholeTurn
  <2>7. ASSUME ChooseWhole PROVE WholeInv'
    <3>1. /\ Visit(0) /\ Completes /\ ~Proven /\ Value.kind = "alternative"
          /\ found' = found
          /\ \/ incomplete' /\ pending' = pending
             \/ pending' = Follow(Value.inputs) /\ incomplete' = incomplete /\ done' = done
      BY <2>7 DEF ChooseWhole, Whole
    <3>2. PICK added : added = [i \in DOMAIN Value.inputs |->
                                  Item(Value.inputs[i], Unbound, Top.depth + 1, Top.field)]
      OBVIOUS
    <3>3. WholeFrom(NodeOf(Top)) = {Node(i, <<>>, Top.field) : i \in ToSet(Value.inputs)}
      BY <2>4, <3>1 DEF WholeFrom, Proven, Value
    <3>4. /\ added \in Seq(WholeItem)
          /\ {NodeOf(x) : x \in ToSet(added)} = WholeFrom(NodeOf(Top))
      <4>1. /\ Value.inputs \in Seq(Nat) /\ Top.depth + 1 \in Nat
            /\ Top.field \in Fields
        BY <2>4, <3>1 DEF Value
      <4>2. /\ added \in Seq(WholeItem)
            /\ {NodeOf(x) : x \in ToSet(added)} = {Node(i, <<>>, Top.field) : i \in ToSet(Value.inputs)}
        BY <3>2, <4>1, WholeAdded, Zenon
      <4> QED
        BY <3>3, <4>2
    <3>5. IsChoice(NodeOf(Top)) /\ ~IsWhole(NodeOf(Top))
      BY <2>4, <3>1 DEF IsChoice, IsWhole, Proven, Value
    <3>6. CASE incomplete' /\ pending' = pending
      <4>1. /\ Turn /\ Top \in WholeItem /\ ToSet(pending) = {Top} \cup ToSet(Rest)
            /\ seen' = seen \cup {Key(Top)}
        BY <2>0, <2>4, <3>1, StackTop DEF Turn, Rest, Top
      <4>2. ToDo' = ToDo /\ Gone' = Gone \cup {NodeOf(Key(Top))} /\ NodeOf(Key(Top)) = NodeOf(Top)
        BY <3>6, <4>1 DEF ToDo, Gone, NodeOf, Key
      <4>3. NodeOf(Top) \in ToDo
        BY <4>1 DEF ToDo
      <4>4. Key(Top) \in WholeKey
        BY <4>1 DEF WholeItem, WholeKey, Key
      <4> QED
        BY <2>0, <3>1, <3>6, <4>1, <4>2, <4>3, <4>4, WholeStill DEF WholeInv
    <3>7. CASE pending' = Follow(Value.inputs) /\ incomplete' = incomplete /\ done' = done
      <4>1. pending' = Rest \o added /\ Turn /\ ~done
        BY <2>4, <3>1, <3>2, <3>7 DEF Follow, Turn
      <4> QED
        BY <2>0, <2>4, <3>1, <3>4, <3>5, <3>7, <4>1, WholeTurn
    <3> QED
      BY <3>1, <3>6, <3>7
  <2>8. ASSUME CompleteField PROVE WholeInv'
    <3> DEFINE ids == Projected(Value, Top.field)
    <3>1. /\ Visit(0) /\ Completes /\ ~Proven /\ Value.kind \in {"object", "keyword"}
          /\ Top.field # NoField
          /\ pending' = Rest \o [i \in DOMAIN ids |-> Item(ids[i], Unbound, Top.depth + 1, NoField)]
          /\ found' = found /\ incomplete' = incomplete /\ done' = done
      BY <2>8 DEF CompleteField, answer
    <3>2. PICK added : added = [i \in DOMAIN ids |-> Item(ids[i], Unbound, Top.depth + 1, NoField)]
      OBVIOUS
    <3>3. ids \in Seq(Nat)
      BY <2>4, <3>1 DEF Projected, Value
    <3>4. WholeFrom(NodeOf(Top)) = {Node(Value.fields[Top.field], <<>>, NoField) :
                                      f \in {Top.field} \cap DOMAIN Value.fields}
      BY <2>4, <3>1 DEF WholeFrom, Value
    <3>5. {Node(i, <<>>, NoField) : i \in ToSet(ids)} = WholeFrom(NodeOf(Top))
      <4>1. CASE Top.field \in DOMAIN Value.fields
        <5>1. ToSet(ids) = {Value.fields[Top.field]}
          BY <4>1 DEF Projected, ToSet
        <5> QED
          BY <3>4, <4>1, <5>1
      <4>2. CASE Top.field \notin DOMAIN Value.fields
        <5>1. ToSet(ids) = {}
          BY <4>2 DEF Projected, ToSet
        <5> QED
          BY <3>4, <4>2, <5>1
      <4> QED
        BY <4>1, <4>2
    <3> HIDE DEF ids
    <3>6. /\ added \in Seq(WholeItem)
          /\ {NodeOf(x) : x \in ToSet(added)} = WholeFrom(NodeOf(Top))
      <4>1. Top.depth + 1 \in Nat /\ NoField \in Fields
        BY <2>4, <3>1
      <4> QED
        BY <3>2, <3>3, <3>5, <4>1, WholeAdded, Zenon
    <3>7. IsChoice(NodeOf(Top)) /\ ~IsWhole(NodeOf(Top))
      BY <2>4, <3>1 DEF IsChoice, IsWhole, Value
    <3>8. pending' = Rest \o added /\ Turn /\ ~done
      BY <2>4, <3>1, <3>2 DEF Turn
    <3> QED
      BY <2>0, <2>4, <3>1, <3>6, <3>7, <3>8, WholeTurn
  <2>9. ASSUME Unproven PROVE WholeInv'
    <3>1. /\ Visit(0) /\ Completes /\ pending' = Rest /\ found' = found /\ incomplete'
      BY <2>9 DEF Unproven
    <3>2. pending' = Rest \o <<>> /\ Turn
      BY <2>4, <2>e, <2>r, <3>1
    <3> QED
      BY <2>0, <2>4, <2>e, <3>1, <3>2, WholeTurn
  <2> QED
    BY <2>1, <2>2, <2>3, <2>5, <2>6, <2>7, <2>8, <2>9, WholeSame
<1> QED
  BY <1>1, <1>2

\* complete_values reports whole values its question can come to, and all of
\* them when its answer is not marked incomplete: for any graph, question and
\* budget (src/src/output/flow.rs:398).
THEOREM ValuesAreProven == FlowSpec => []CompleteValuesProven
<1>1. WholeInv => CompleteValuesProven
  <2> SUFFICES ASSUME WholeInv, Completing PROVE CompleteValuesProven
    BY DEF CompleteValuesProven, Completing
  <2>0. graph \in Graphs /\ asked.question \in Questions /\ ToDo \cup Gone \subseteq WholeNodes
    BY DEF WholeInv
  <2>1. ASSUME NEW o \in found PROVE o.value \in {n.id : n \in {m \in WholeNodes : IsWhole(m)}}
    <3>1. PICK n : n = Node(o.value, <<>>, NoField)
      OBVIOUS
    <3>2. n \in WholeNodes /\ IsWhole(n) /\ n.id = o.value
      BY <3>1 DEF WholeInv, Node
    <3> QED
      BY <3>2
  <2>2. ASSUME done, ~incomplete, NEW n \in WholeNodes
        PROVE  /\ IsWhole(n) \/ IsChoice(n)
               /\ IsWhole(n) => n.id \in {o.value : o \in found}
    <3>1. pending = <<>> /\ FirstNode \in ToDo \cup Gone /\ \A m \in Gone : Looked(m)
      BY <2>2 DEF WholeInv
    <3>2. ToDo = {}
      BY <3>1 DEF ToDo, ToSet
    <3>3. \A m \in Gone : IsWhole(m) => WholeFrom(m) = {}
      BY DEF IsWhole, WholeFrom
    <3>4. \A m \in Gone : WholeFrom(m) \subseteq Gone
      BY <3>1, <3>2, <3>3 DEF Looked
    <3>5. WholeNodes \subseteq Gone
      BY <2>0, <3>1, <3>2, <3>4, WholeReached
    <3>6. Looked(n)
      BY <3>1, <3>5
    <3> QED
      BY <3>6 DEF Looked
  <2> QED
    BY <2>1, <2>2 DEF CompleteValuesProven
<1> QED
  BY <1>1, WholeInit, WholeNext, PTL DEF FlowSpec

-----------------------------------------------------------------------------
(* join_relative.                                                          *)

\* Where a reference is joined to, and what one of its segments does.
Joined == LogicalPaths \cup {NoPath}
Into(d, x) ==
  IF d = NoPath \/ (x = ".." /\ d = <<>>) THEN NoPath ELSE IF x = ".." THEN Front(d) ELSE Append(d, x)
Follows(t, dir, s) == t[0] = dir /\ \A i \in 1..Len(s) : t[i] = Into(t[i - 1], s[i])

\* A segment leads to a path or to none.
LEMMA IntoTyped ==
  ASSUME NEW d \in Joined, NEW x \in STRING
  PROVE  Into(d, x) \in Joined
<1>1. CASE d = NoPath \/ (x = ".." /\ d = <<>>)
  BY <1>1 DEF Into, Joined
<1>2. CASE ~(d = NoPath \/ (x = ".." /\ d = <<>>))
  <2>1. d \in LogicalPaths
    BY <1>2 DEF Joined
  <2>2. Append(d, x) \in LogicalPaths
    BY <2>1, AppendProperties DEF LogicalPaths
  <2>3. d # <<>> => Front(d) \in LogicalPaths
    BY <2>1, StackTop DEF LogicalPaths
  <2> QED
    BY <1>2, <2>2, <2>3 DEF Into, Joined
<1> QED
  BY <1>1, <1>2

\* A reference is followed in one way.
LEMMA OneWay ==
  ASSUME NEW s \in LogicalPaths, NEW dir, NEW t, NEW u, Follows(t, dir, s), Follows(u, dir, s)
  PROVE  \A i \in 0..Len(s) : t[i] = u[i]
<1> DEFINE U == {i \in 0..Len(s) : t[i] # u[i]}
<1>1. SUFFICES ASSUME U # {} PROVE FALSE
  OBVIOUS
<1>2. PICK i \in U : \A j \in U : i <= j
  <2>1. U \in SUBSET Nat
    OBVIOUS
  <2> HIDE DEF U
  <2> QED
    BY <1>1, <2>1, LeastNumber
<1>3. i \in 0..Len(s) /\ t[i] # u[i] /\ Len(s) \in Nat
  BY DEF LogicalPaths
<1>4. i # 0
  BY <1>3 DEF Follows
<1>5. i \in 1..Len(s) /\ i - 1 \in 0..Len(s) /\ ~(i <= i - 1)
  BY <1>3, <1>4
<1>6. t[i - 1] = u[i - 1]
  BY <1>2, <1>5
<1> QED
  BY <1>3, <1>5, <1>6 DEF Follows

\* join_relative follows a reference from the directory on.
LEMMA JoinFollows ==
  ASSUME NEW dir \in Joined, NEW s \in LogicalPaths
  PROVE  \E t : /\ t \in [0..Len(s) -> Joined] /\ Follows(t, dir, s)
                /\ JoinRelative(dir, s) = t[Len(s)]
<1> DEFINE n == Len(s)
           Following(g) ==
             [i \in 0..Len(s) |->
                IF i = 0 THEN dir
                ELSE LET d == g[i - 1]
                     IN  IF d = NoPath \/ (s[i] = ".." /\ d = <<>>) THEN NoPath
                         ELSE IF s[i] = ".." THEN Front(d) ELSE Append(d, s[i])]
<1>1. n \in Nat /\ n = Len(s) /\ \A i \in 1..n : s[i] \in STRING
  BY DEF LogicalPaths
<1> HIDE DEF n
<1>2. PICK into : into = [p \in (1..n) \X Joined |-> Into(p[2], s[p[1]])]
  OBVIOUS
<1>3. Passes(into, n, Joined)
  <2>1. ASSUME NEW p \in (1..n) \X Joined PROVE Into(p[2], s[p[1]]) \in Joined
    BY <1>1, IntoTyped
  <2> QED
    BY <1>2, <2>1 DEF Passes
<1>4. PICK t : Stages(t, n, Joined, dir, into)
  BY <1>1, <1>3, InTurn
<1>5. t \in [0..n -> Joined] /\ t[0] = dir
  BY <1>4 DEF Stages
<1>6. ASSUME NEW i \in 1..n PROVE t[i] = Into(t[i - 1], s[i])
  <2>1. t[i - 1] \in Joined
    BY <1>1, <1>5
  <2>2. t[i] = into[<<i, t[i - 1]>>]
    BY <1>4 DEF Stages
  <2> QED
    BY <1>2, <2>1, <2>2
<1>7. Follows(t, dir, s)
  BY <1>1, <1>5, <1>6 DEF Follows
<1>8. t = Following(t)
  <2>1. \A i \in 0..n : i # 0 => i \in 1..n
    BY <1>1
  <2>2. t = [i \in 0..n |-> IF i = 0 THEN dir ELSE Into(t[i - 1], s[i])]
    BY <1>5, <1>6, <2>1
  <2> QED
    BY <1>1, <2>2 DEF Into
<1> DEFINE joined == CHOOSE g : g = Following(g)
<1>9. joined = Following(joined)
  <2> HIDE DEF Following
  <2> QED
    BY <1>8
<1>10. JoinRelative(dir, s) = joined[Len(s)]
  BY DEF JoinRelative
<1> HIDE DEF joined
<1>11. Follows(joined, dir, s)
  <2>1. 0 \in 0..Len(s) /\ \A i \in 1..Len(s) : i \in 0..Len(s) /\ i # 0
    BY <1>1
  <2>2. joined[0] = dir
    BY <1>9, <2>1
  <2>3. ASSUME NEW i \in 1..Len(s) PROVE joined[i] = Into(joined[i - 1], s[i])
    BY <1>9, <2>1 DEF Into
  <2> HIDE DEF Following
  <2> QED
    BY <2>2, <2>3 DEF Follows
<1>12. joined[Len(s)] = t[Len(s)]
  BY <1>1, <1>7, <1>11, OneWay
<1> QED
  BY <1>1, <1>5, <1>7, <1>10, <1>12

\* ... its last segment last.
LEMMA JoinStep ==
  ASSUME NEW dir \in Joined
  PROVE  /\ JoinRelative(dir, <<>>) = dir
         /\ \A s \in LogicalPaths : JoinRelative(dir, s) \in Joined
         /\ \A s \in LogicalPaths, x \in STRING :
              JoinRelative(dir, Append(s, x)) = Into(JoinRelative(dir, s), x)
<1>1. JoinRelative(dir, <<>>) = dir
  <2>1. <<>> \in LogicalPaths /\ Len(<<>>) = 0
    BY DEF LogicalPaths
  <2> QED
    BY <2>1, JoinFollows DEF Follows
<1>2. ASSUME NEW s \in LogicalPaths PROVE JoinRelative(dir, s) \in Joined
  <2>1. Len(s) \in 0..Len(s)
    BY DEF LogicalPaths
  <2> QED
    BY <2>1, JoinFollows
<1>3. ASSUME NEW s \in LogicalPaths, NEW x \in STRING
      PROVE  JoinRelative(dir, Append(s, x)) = Into(JoinRelative(dir, s), x)
  <2>1. PICK r : r = Append(s, x)
    OBVIOUS
  <2>2. /\ r \in LogicalPaths /\ Len(s) \in Nat /\ Len(r) = Len(s) + 1
        /\ r[Len(s) + 1] = x /\ \A i \in 1..Len(s) : r[i] = s[i]
    <3>1. Len(s) \in Nat
      BY DEF LogicalPaths
    <3> QED
      BY <2>1, <3>1, AppendProperties, Zenon DEF LogicalPaths
  <2>3. PICK t : /\ t \in [0..Len(r) -> Joined] /\ Follows(t, dir, r)
                 /\ JoinRelative(dir, r) = t[Len(r)]
    BY <2>2, JoinFollows
  <2>4. PICK u : /\ u \in [0..Len(s) -> Joined] /\ Follows(u, dir, s)
                 /\ JoinRelative(dir, s) = u[Len(s)]
    BY JoinFollows
  <2>5. Follows(t, dir, s)
    <3>1. \A i \in 1..Len(s) : i \in 1..Len(r)
      BY <2>2
    <3> QED
      BY <2>2, <2>3, <3>1 DEF Follows
  <2>6. t[Len(s)] = u[Len(s)]
    <3>1. Len(s) \in 0..Len(s)
      BY <2>2
    <3> QED
      BY <2>4, <2>5, <3>1, OneWay
  <2>7. t[Len(r)] = Into(t[Len(s)], x)
    <3>1. Len(r) \in 1..Len(r) /\ Len(r) - 1 = Len(s)
      BY <2>2
    <3> QED
      BY <2>2, <2>3, <3>1 DEF Follows
  <2> QED
    BY <2>1, <2>3, <2>4, <2>6, <2>7
<1> QED
  BY <1>1, <1>2, <1>3

\* A reference in two parts, a reference from nowhere, and one that goes down only.
LEMMA JoinParts ==
  ASSUME NEW dir \in Joined, NEW s \in LogicalPaths
  PROVE  \A t \in LogicalPaths : JoinRelative(dir, s \o t) = JoinRelative(JoinRelative(dir, s), t)
<1> DEFINE G == {t \in LogicalPaths : JoinRelative(dir, s \o t) = JoinRelative(JoinRelative(dir, s), t)}
<1>1. JoinRelative(dir, s) \in Joined
  BY JoinStep
<1>2. <<>> \in G
  <2>1. s \o <<>> = s /\ <<>> \in LogicalPaths
    BY ConcatEmptySeq DEF LogicalPaths
  <2> QED
    BY <1>1, <2>1, JoinStep
<1>3. ASSUME NEW t \in LogicalPaths, NEW x \in STRING, t \in G
      PROVE  Append(t, x) \in G
  <2>1. s \o t \in LogicalPaths /\ Append(t, x) \in LogicalPaths
    BY ConcatProperties, AppendProperties DEF LogicalPaths
  <2>2. s \o Append(t, x) = Append(s \o t, x)
    <3>1. <<x>> \in LogicalPaths
      BY Singly, Zenon DEF LogicalPaths
    <3>2. s \o (t \o <<x>>) = (s \o t) \o <<x>>
      BY <3>1, ConcatAssociative DEF LogicalPaths
    <3> QED
      BY <2>1, <3>2, AppendIsConcat DEF LogicalPaths
  <2>3. JoinRelative(dir, s \o t) = JoinRelative(JoinRelative(dir, s), t)
    BY <1>3
  <2>4. JoinRelative(dir, Append(s \o t, x)) = Into(JoinRelative(dir, s \o t), x)
    BY <2>1, JoinStep
  <2>5. JoinRelative(JoinRelative(dir, s), Append(t, x)) = Into(JoinRelative(JoinRelative(dir, s), t), x)
    BY <1>1, JoinStep
  <2> QED
    BY <2>1, <2>2, <2>3, <2>4, <2>5
<1>4. Seq(STRING) \subseteq G
  <2> HIDE DEF G
  <2> QED
    BY <1>2, <1>3, ByAppending DEF LogicalPaths
<1> QED
  BY <1>4 DEF LogicalPaths

\* Nothing leads on from where a reference leads nowhere.
LEMMA JoinNowhere == \A t \in LogicalPaths : JoinRelative(NoPath, t) = NoPath
<1> DEFINE G == {t \in LogicalPaths : JoinRelative(NoPath, t) = NoPath}
<1>1. NoPath \in Joined
  BY DEF Joined
<1>2. <<>> \in G
  <2>1. <<>> \in LogicalPaths
    BY DEF LogicalPaths
  <2> QED
    BY <1>1, <2>1, JoinStep
<1>3. ASSUME NEW t \in LogicalPaths, NEW x \in STRING, t \in G
      PROVE  Append(t, x) \in G
  <2>1. Append(t, x) \in LogicalPaths
    BY AppendProperties DEF LogicalPaths
  <2>2. JoinRelative(NoPath, Append(t, x)) = Into(JoinRelative(NoPath, t), x)
    BY <1>1, JoinStep, Zenon
  <2>3. JoinRelative(NoPath, t) = NoPath
    BY <1>3
  <2> QED
    BY <2>1, <2>2, <2>3 DEF Into
<1>4. Seq(STRING) \subseteq G
  <2> HIDE DEF G
  <2> QED
    BY <1>2, <1>3, ByAppending DEF LogicalPaths
<1> QED
  BY <1>4 DEF LogicalPaths

\* A reference that only goes down is behind its directory.
LEMMA JoinDown ==
  ASSUME NEW dir \in LogicalPaths
  PROVE  \A t \in LogicalPaths : ".." \notin ToSet(t) => JoinRelative(dir, t) = dir \o t
<1> DEFINE G == {t \in LogicalPaths : ".." \notin ToSet(t) => JoinRelative(dir, t) = dir \o t}
<1>1. dir \in Joined
  BY DEF Joined
<1>2. <<>> \in G
  <2>1. <<>> \in LogicalPaths /\ dir \o <<>> = dir
    BY ConcatEmptySeq DEF LogicalPaths
  <2> QED
    BY <1>1, <2>1, JoinStep
<1>3. ASSUME NEW t \in LogicalPaths, NEW x \in STRING, t \in G, ".." \notin ToSet(Append(t, x))
      PROVE  JoinRelative(dir, Append(t, x)) = dir \o Append(t, x)
  <2>1. Append(t, x) = t \o <<x>> /\ <<x>> \in LogicalPaths
    BY AppendIsConcat, Singly, Zenon DEF LogicalPaths
  <2>2. ToSet(Append(t, x)) = ToSet(t) \cup ToSet(<<x>>)
    BY <2>1, StackAdds DEF LogicalPaths
  <2>3. ToSet(<<x>>) = {x}
    BY Singly, Zenon
  <2>4. JoinRelative(dir, t) = dir \o t /\ x # ".."
    BY <1>3, <2>2, <2>3
  <2>5. dir \o t \in LogicalPaths
    BY ConcatProperties DEF LogicalPaths
  <2>6. JoinRelative(dir, Append(t, x)) = Into(dir \o t, x)
    <3>1. JoinRelative(dir, Append(t, x)) = Into(JoinRelative(dir, t), x)
      BY <1>1, JoinStep, Zenon
    <3> QED
      BY <2>4, <3>1
  <2>7. dir \o t # NoPath
    BY <2>5, CargoAssumption
  <2>8. Into(dir \o t, x) = Append(dir \o t, x)
    BY <2>4, <2>7 DEF Into
  <2>9. Append(dir \o t, x) = (dir \o t) \o <<x>> /\ (dir \o t) \o <<x>> = dir \o (t \o <<x>>)
    <3>1. Append(dir \o t, x) = (dir \o t) \o <<x>>
      BY <2>5, AppendIsConcat, Zenon DEF LogicalPaths
    <3>2. (dir \o t) \o <<x>> = dir \o (t \o <<x>>)
      BY <2>1, ConcatAssociative DEF LogicalPaths
    <3> QED
      BY <3>1, <3>2
  <2> QED
    BY <2>1, <2>6, <2>8, <2>9
<1>4. ASSUME NEW t \in LogicalPaths, NEW x \in STRING, t \in G
      PROVE  Append(t, x) \in G
  <2>1. Append(t, x) \in LogicalPaths
    BY AppendProperties DEF LogicalPaths
  <2> QED
    BY <1>3, <1>4, <2>1
<1>5. Seq(STRING) \subseteq G
  <2> HIDE DEF G
  <2> QED
    BY <1>2, <1>4, ByAppending DEF LogicalPaths
<1> QED
  BY <1>5 DEF LogicalPaths

-----------------------------------------------------------------------------
(* A path with its ".."s taken out is where it leads.                      *)

\* The first way up in a path is behind what goes down only.
LEMMA FirstWayUp ==
  ASSUME NEW p \in LogicalPaths, NEW i, i = FirstUp(p), Ups(p) # {}
  PROVE  /\ i \in 1..Len(p) /\ p[i] = ".."
         /\ i = 1 => \E c \in LogicalPaths : p = <<"..">> \o c
         /\ i # 1 => \E a, c \in LogicalPaths, x \in STRING :
              /\ p = (a \o <<x, "..">>) \o c /\ OneLess(p, i) = a \o c
              /\ ".." \notin ToSet(a) /\ x # ".." /\ Len(a \o c) < Len(p)
<1>1. Len(p) \in Nat /\ DOMAIN p = 1..Len(p)
  BY DEF LogicalPaths
<1>2. \E j \in Ups(p) : \A k \in Ups(p) : j <= k
  <2>1. Ups(p) \in SUBSET Nat
    BY <1>1 DEF Ups
  <2> QED
    BY <2>1, LeastNumber
<1>3. i \in Ups(p) /\ \A j \in Ups(p) : i <= j
  BY <1>2 DEF FirstUp
<1>4. i \in 1..Len(p) /\ p[i] = ".."
  BY <1>1, <1>3 DEF Ups
<1>5. \A j \in 1..Len(p) : j < i => p[j] # ".."
  <2> SUFFICES ASSUME NEW j \in 1..Len(p), j < i, p[j] = ".." PROVE FALSE
    OBVIOUS
  <2>1. j \in Ups(p)
    BY <1>1 DEF Ups
  <2> QED
    BY <1>3, <1>4, <2>1
<1> DEFINE c == SubSeq(p, i + 1, Len(p))
<1>6. c \in LogicalPaths /\ Len(c) = Len(p) - i /\ \A k \in 1..(Len(p) - i) : c[k] = p[i + k]
  <2>1. \A k \in (i + 1)..Len(p) : p[k] \in STRING
    BY <1>1, <1>4 DEF LogicalPaths
  <2>2. /\ c \in Seq(STRING) /\ Len(c) = IF i + 1 <= Len(p) THEN Len(p) - (i + 1) + 1 ELSE 0
        /\ \A k \in 1..(Len(p) - (i + 1) + 1) : c[k] = p[(i + 1) + k - 1]
    BY <1>1, <1>4, <2>1, SubSeqProperties
  <2>3. Len(c) = Len(p) - i
    BY <1>1, <1>4, <2>2
  <2>4. \A k \in 1..(Len(p) - i) : c[k] = p[i + k]
    <3>1. ASSUME NEW k \in 1..(Len(p) - i) PROVE k \in 1..(Len(p) - (i + 1) + 1) /\ (i + 1) + k - 1 = i + k
      BY <1>1, <1>4
    <3> QED
      BY <2>2, <3>1
  <2> QED
    BY <2>2, <2>3, <2>4 DEF LogicalPaths
<1> HIDE DEF c
<1>7. ASSUME i = 1 PROVE p = <<"..">> \o c
  <2>1. PICK r : r = <<"..">> \o c
    OBVIOUS
  <2>2. <<"..">> \in LogicalPaths /\ Len(<<"..">>) = 1 /\ <<"..">>[1] = ".."
    <3>1. ".." \in STRING
      BY <1>1, <1>4 DEF LogicalPaths
    <3> QED
      BY <3>1, Singly, Zenon DEF LogicalPaths
  <2>3. /\ r \in LogicalPaths /\ Len(r) = 1 + Len(c)
        /\ \A k \in 1..(1 + Len(c)) : r[k] = IF k <= 1 THEN <<"..">>[k] ELSE c[k - 1]
    BY <1>6, <2>1, <2>2, ConcatProperties DEF LogicalPaths
  <2>4. Len(r) = Len(p)
    <3>1. Len(c) = Len(p) - 1
      BY <1>6, <1>7
    <3> QED
      BY <1>1, <2>3, <3>1
  <2>5. ASSUME NEW k \in 1..Len(r) PROVE r[k] = p[k]
    <3>1. CASE k = 1
      BY <1>4, <1>7, <2>2, <2>3, <2>4, <3>1
    <3>2. CASE k # 1
      <4>1. k - 1 \in 1..(Len(p) - i) /\ i + (k - 1) = k /\ ~(k <= 1) /\ k \in 1..(1 + Len(c))
        BY <1>1, <1>7, <2>3, <2>4, <3>2
      <4> QED
        BY <1>6, <2>3, <4>1
    <3> QED
      BY <3>1, <3>2
  <2> QED
    BY <2>1, <2>3, <2>4, <2>5, SeqEqual DEF LogicalPaths
<1>8. ASSUME i # 1
      PROVE  \E a \in LogicalPaths, x \in STRING :
              /\ p = (a \o <<x, "..">>) \o c /\ OneLess(p, i) = a \o c
              /\ ".." \notin ToSet(a) /\ x # ".." /\ Len(a \o c) < Len(p)
  <2>1. PICK a : a = SubSeq(p, 1, i - 2)
    OBVIOUS
  <2>2. PICK x : x = p[i - 1]
    OBVIOUS
  <2>3. i \in Nat /\ i - 1 \in 1..Len(p) /\ i - 1 < i /\ i - 2 \in Nat
    BY <1>1, <1>4, <1>8
  <2>4. x \in STRING /\ x # ".."
    BY <1>1, <1>5, <2>2, <2>3 DEF LogicalPaths
  <2>5. a \in LogicalPaths /\ Len(a) = i - 2 /\ \A k \in 1..(i - 2) : a[k] = p[k]
    <3>1. \A k \in 1..(i - 2) : p[k] \in STRING
      BY <1>1, <1>4, <2>3 DEF LogicalPaths
    <3>2. /\ a \in Seq(STRING) /\ Len(a) = IF 1 <= i - 2 THEN (i - 2) - 1 + 1 ELSE 0
          /\ \A k \in 1..((i - 2) - 1 + 1) : a[k] = p[1 + k - 1]
      BY <2>1, <2>3, <3>1, SubSeqProperties
    <3>3. Len(a) = i - 2
      BY <2>3, <3>2
    <3>4. ASSUME NEW k \in 1..(i - 2) PROVE k \in 1..((i - 2) - 1 + 1) /\ 1 + k - 1 = k
      BY <2>3
    <3> QED
      BY <3>2, <3>3, <3>4 DEF LogicalPaths
  <2>6. ".." \notin ToSet(a)
    <3> SUFFICES ASSUME NEW k \in DOMAIN a PROVE a[k] # ".."
      BY DEF ToSet
    <3>1. k \in 1..(i - 2) /\ k \in 1..Len(p) /\ k < i
      BY <1>1, <1>4, <2>3, <2>5 DEF LogicalPaths
    <3> QED
      BY <1>5, <2>5, <3>1
  <2>7. OneLess(p, i) = a \o c
    BY <2>1 DEF OneLess, c
  <2>8. a \o c \in LogicalPaths /\ Len(a \o c) = (i - 2) + (Len(p) - i)
    <3>1. a \o c \in LogicalPaths /\ Len(a \o c) = Len(a) + Len(c)
      BY <1>6, <2>5, ConcatProperties, Zenon DEF LogicalPaths
    <3> QED
      BY <1>6, <2>5, <3>1
  <2>9. Len(a \o c) < Len(p)
    BY <1>1, <1>4, <2>8
  <2>10. PICK up : up = <<x, "..">>
    OBVIOUS
  <2>11. up \in LogicalPaths /\ Len(up) = 2 /\ up[1] = x /\ up[2] = ".."
    <3>1. ".." \in STRING
      BY <1>1, <1>4 DEF LogicalPaths
    <3> QED
      BY <2>4, <2>10, <3>1, Singly, Zenon DEF LogicalPaths
  <2>12. PICK b : b = a \o up
    OBVIOUS
  <2>13. /\ b \in LogicalPaths /\ Len(b) = i
         /\ \A k \in 1..i : b[k] = IF k <= i - 2 THEN a[k] ELSE up[k - (i - 2)]
    <3>1. /\ b \in Seq(STRING) /\ Len(b) = (i - 2) + 2
          /\ \A k \in 1..((i - 2) + 2) : b[k] = IF k <= i - 2 THEN a[k] ELSE up[k - (i - 2)]
      <4>1. /\ b \in Seq(STRING) /\ Len(b) = Len(a) + Len(up)
            /\ \A k \in 1..(Len(a) + Len(up)) : b[k] = IF k <= Len(a) THEN a[k] ELSE up[k - Len(a)]
        BY <2>5, <2>11, <2>12, ConcatProperties, Zenon DEF LogicalPaths
      <4> QED
        BY <2>5, <2>11, <4>1
    <3>2. (i - 2) + 2 = i
      BY <2>3
    <3> QED
      BY <3>1, <3>2 DEF LogicalPaths
  <2>14. ASSUME NEW k \in 1..i PROVE b[k] = p[k]
    <3>1. CASE k <= i - 2
      <4>1. k \in 1..(i - 2)
        BY <2>3, <3>1
      <4> QED
        BY <2>5, <2>13, <3>1, <4>1
    <3>2. CASE ~(k <= i - 2)
      <4>1. (k = i - 1 /\ k - (i - 2) = 1) \/ (k = i /\ k - (i - 2) = 2)
        BY <2>3, <3>2
      <4> QED
        BY <1>4, <2>2, <2>11, <2>13, <3>2, <4>1
    <3> QED
      BY <3>1, <3>2
  <2>15. PICK r : r = b \o c
    OBVIOUS
  <2>16. /\ r \in LogicalPaths /\ Len(r) = Len(p)
         /\ \A k \in 1..Len(p) : r[k] = IF k <= i THEN b[k] ELSE c[k - i]
    <3>1. /\ r \in Seq(STRING) /\ Len(r) = Len(b) + Len(c)
          /\ \A k \in 1..(Len(b) + Len(c)) : r[k] = IF k <= Len(b) THEN b[k] ELSE c[k - Len(b)]
      BY <1>6, <2>13, <2>15, ConcatProperties DEF LogicalPaths
    <3>2. Len(b) + Len(c) = Len(p) /\ Len(b) = i
      BY <1>1, <1>4, <1>6, <2>13
    <3> QED
      BY <3>1, <3>2 DEF LogicalPaths
  <2>17. ASSUME NEW k \in 1..Len(r) PROVE r[k] = p[k]
    <3>1. CASE k <= i
      <4>1. k \in 1..i
        BY <2>3, <2>16, <3>1
      <4> QED
        BY <2>14, <2>16, <3>1, <4>1
    <3>2. CASE ~(k <= i)
      <4>1. k - i \in 1..(Len(p) - i) /\ i + (k - i) = k
        BY <1>1, <1>4, <2>3, <2>16, <3>2
      <4> QED
        BY <1>6, <2>16, <3>2, <4>1
    <3> QED
      BY <3>1, <3>2
  <2>18. r = p
    BY <2>16, <2>17, SeqEqual DEF LogicalPaths
  <2>19. p = (a \o <<x, "..">>) \o c
    BY <2>10, <2>12, <2>15, <2>18
  <2> QED
    BY <2>4, <2>5, <2>6, <2>7, <2>9, <2>19
<1> QED
  BY <1>4, <1>6, <1>7, <1>8

\* The segments Cargo's own names have are strings.

\* The segments the code spells out are segments.
LEMMA SegmentNames == {"..", "build", "Cargo", "lib", "main", "mod", "src"} \subseteq STRING
  BY CargoAssumption

\* A way up taken out of a path together with the segment before it leads to
\* the same place.
LEMMA UpIsOut ==
  ASSUME NEW a \in LogicalPaths, NEW c \in LogicalPaths, NEW x \in STRING, ".." \notin ToSet(a), x # ".."
  PROVE  JoinRelative(<<>>, (a \o <<x, "..">>) \o c) = JoinRelative(<<>>, a \o c)
<1> DEFINE up == <<x, "..">>
           ax == Append(a, x)
<1>1. <<>> \in LogicalPaths /\ <<>> \in Joined
  BY DEF LogicalPaths, Joined
<1>2. ".." \in STRING
  BY SegmentNames
<1>3. ax \in LogicalPaths /\ ax = a \o <<x>> /\ ax # <<>>
  BY AppendProperties, AppendIsConcat, Zenon DEF LogicalPaths
<1>4. up \in LogicalPaths /\ <<x>> \in LogicalPaths /\ <<"..">> \in LogicalPaths
  BY <1>2, Singly, Zenon DEF LogicalPaths
<1>5. a \o up \in LogicalPaths /\ a \o up = Append(ax, "..")
  <2>1. a \o up \in LogicalPaths
    BY <1>4, ConcatProperties, Zenon DEF LogicalPaths
  <2>2. up = Append(<<x>>, "..")
    OBVIOUS
  <2>3. Append(<<x>>, "..") = <<x>> \o <<"..">>
    BY <1>2, <1>4, AppendIsConcat, Zenon DEF LogicalPaths
  <2>4. (a \o <<x>>) \o <<"..">> = a \o (<<x>> \o <<"..">>)
    BY <1>4, ConcatAssociative DEF LogicalPaths
  <2>5. Append(ax, "..") = ax \o <<"..">>
    BY <1>2, <1>3, AppendIsConcat, Zenon DEF LogicalPaths
  <2> QED
    BY <1>3, <2>1, <2>2, <2>3, <2>4, <2>5
<1>6. ToSet(ax) = ToSet(a) \cup {x}
  <2>1. ToSet(a \o <<x>>) = ToSet(a) \cup ToSet(<<x>>)
    BY <1>4, StackAdds, Zenon DEF LogicalPaths
  <2>2. ToSet(<<x>>) = {x}
    BY Singly, Zenon
  <2> QED
    BY <1>3, <2>1, <2>2
<1>7. \A t \in LogicalPaths : ".." \notin ToSet(t) => JoinRelative(<<>>, t) = t
  <2> SUFFICES ASSUME NEW t \in LogicalPaths, ".." \notin ToSet(t) PROVE JoinRelative(<<>>, t) = t
    OBVIOUS
  <2>1. JoinRelative(<<>>, t) = <<>> \o t
    BY <1>1, JoinDown
  <2>2. <<>> \o t = t
    BY ConcatEmptySeq DEF LogicalPaths
  <2> QED
    BY <2>1, <2>2
<1>8. JoinRelative(<<>>, a) = a /\ JoinRelative(<<>>, ax) = ax
  BY <1>3, <1>6, <1>7
<1>9. JoinRelative(<<>>, a \o up) = a
  <2>1. JoinRelative(<<>>, Append(ax, "..")) = Into(JoinRelative(<<>>, ax), "..")
    BY <1>1, <1>2, <1>3, JoinStep, Zenon
  <2>2. ax # NoPath
    BY <1>3, CargoAssumption
  <2>3. Into(ax, "..") = Front(ax)
    BY <1>3, <2>2 DEF Into
  <2>4. Front(ax) = a
    <3> HIDE DEF ax
    <3>1. Len(ax) = Len(a) + 1 /\ Len(a) \in Nat
      BY AppendProperties DEF LogicalPaths, ax
    <3>2. Front(ax) = SubSeq(ax, 1, Len(a))
      BY <3>1 DEF Front
    <3>3. ax = a \o <<x>>
      BY <1>3
    <3>4. SubSeq(a \o <<x>>, 1, Len(a)) = a
      <4>1. CASE a = <<>>
        <5>1. SubSeq(a \o <<x>>, 1, 0) = <<>>
          BY SubSeqEmpty
        <5>2. Len(a) = 0
          BY <4>1
        <5> QED
          BY <4>1, <5>1, <5>2
      <4>2. CASE a # <<>>
        <5>1. 1 \in 1..Len(a) /\ Len(a) \in 1..Len(a)
          <6>1. Len(a) # 0
            BY <4>2, EmptySeq DEF LogicalPaths
          <6> QED
            BY <3>1, <6>1
        <5>2. SubSeq(a \o <<x>>, 1, Len(a)) = SubSeq(a, 1, Len(a))
          BY <1>4, <5>1, SubSeqOfConcat1, Zenon DEF LogicalPaths
        <5>3. SubSeq(a, 1, Len(a)) = a
          BY SubSeqFull, Zenon DEF LogicalPaths
        <5> QED
          BY <5>2, <5>3
      <4> QED
        BY <4>1, <4>2
    <3> QED
      BY <3>2, <3>3, <3>4
  <2> QED
    BY <1>5, <1>8, <2>1, <2>3, <2>4
<1>10. JoinRelative(<<>>, (a \o up) \o c) = JoinRelative(JoinRelative(<<>>, a \o up), c)
  BY <1>1, <1>5, JoinParts, Zenon
<1>11. JoinRelative(<<>>, a \o c) = JoinRelative(JoinRelative(<<>>, a), c)
  BY <1>1, JoinParts, Zenon
<1> QED
  BY <1>8, <1>9, <1>10, <1>11

\* What a path reduces to is where join_relative leads from the root.
LEMMA ReducedJoins == \A p \in LogicalPaths : Reduced(p) = JoinRelative(<<>>, p)
<1> DEFINE Less(g) == [p \in LogicalPaths |->
                         IF Ups(p) = {} THEN p ELSE IF FirstUp(p) = 1 THEN NoPath ELSE g[OneLess(p, FirstUp(p))]]
           less == CHOOSE g : g = Less(g)
           h == [p \in LogicalPaths |-> JoinRelative(<<>>, p)]
<1>1. <<>> \in LogicalPaths /\ <<>> \in Joined
  BY DEF LogicalPaths, Joined
<1>2. \A p \in LogicalPaths : Ups(p) = {} => JoinRelative(<<>>, p) = p
  <2> SUFFICES ASSUME NEW p \in LogicalPaths, Ups(p) = {} PROVE JoinRelative(<<>>, p) = p
    OBVIOUS
  <2>1. ".." \notin ToSet(p)
    BY DEF Ups, ToSet
  <2>2. JoinRelative(<<>>, p) = <<>> \o p
    BY <1>1, <2>1, JoinDown
  <2>3. <<>> \o p = p
    BY ConcatEmptySeq DEF LogicalPaths
  <2> QED
    BY <2>2, <2>3
<1>3. \A p \in LogicalPaths : (Ups(p) # {} /\ FirstUp(p) = 1) => JoinRelative(<<>>, p) = NoPath
  <2> SUFFICES ASSUME NEW p \in LogicalPaths, Ups(p) # {}, FirstUp(p) = 1 PROVE JoinRelative(<<>>, p) = NoPath
    OBVIOUS
  <2>1. PICK c \in LogicalPaths : p = <<"..">> \o c
    BY FirstWayUp
  <2>2. ".." \in STRING
    BY SegmentNames
  <2>3. <<"..">> \in LogicalPaths
    BY <2>2, Singly, Zenon DEF LogicalPaths
  <2>4. JoinRelative(<<>>, <<"..">> \o c) = JoinRelative(JoinRelative(<<>>, <<"..">>), c)
    BY <1>1, <2>3, JoinParts, Zenon
  <2>5. <<"..">> = Append(<<>>, "..")
    OBVIOUS
  <2>6. JoinRelative(<<>>, Append(<<>>, "..")) = Into(JoinRelative(<<>>, <<>>), "..")
    BY <1>1, <2>2, JoinStep, Zenon
  <2>7. JoinRelative(<<>>, <<>>) = <<>>
    BY <1>1, JoinStep, Zenon
  <2>8. JoinRelative(<<>>, <<"..">>) = NoPath
    BY <2>5, <2>6, <2>7 DEF Into
  <2> QED
    BY <2>1, <2>4, <2>8, JoinNowhere
<1>4. ASSUME NEW p \in LogicalPaths, Ups(p) # {}, FirstUp(p) # 1
      PROVE  /\ OneLess(p, FirstUp(p)) \in LogicalPaths /\ Len(OneLess(p, FirstUp(p))) < Len(p)
             /\ JoinRelative(<<>>, p) = JoinRelative(<<>>, OneLess(p, FirstUp(p)))
  <2>1. PICK a \in LogicalPaths, c \in LogicalPaths, x \in STRING :
          /\ p = (a \o <<x, "..">>) \o c /\ OneLess(p, FirstUp(p)) = a \o c
          /\ ".." \notin ToSet(a) /\ x # ".." /\ Len(a \o c) < Len(p)
    BY <1>4, FirstWayUp
  <2>2. a \o c \in LogicalPaths
    BY ConcatProperties, Zenon DEF LogicalPaths
  <2> QED
    BY <2>1, <2>2, UpIsOut
<1>5. h = Less(h)
  <2>1. \A p \in LogicalPaths : JoinRelative(<<>>, p) =
          IF Ups(p) = {} THEN p ELSE IF FirstUp(p) = 1 THEN NoPath ELSE JoinRelative(<<>>, OneLess(p, FirstUp(p)))
    BY <1>2, <1>3, <1>4
  <2>2. \A p \in LogicalPaths : (Ups(p) # {} /\ FirstUp(p) # 1) =>
          h[OneLess(p, FirstUp(p))] = JoinRelative(<<>>, OneLess(p, FirstUp(p)))
    BY <1>4
  <2> QED
    BY <2>1, <2>2
<1>6. less = Less(less)
  <2> HIDE DEF Less, h
  <2> QED
    BY <1>5
<1>7. \A p : Reduced(p) = less[p]
  BY DEF Reduced
<1> HIDE DEF less
<1>8. \A p \in LogicalPaths : less[p] = h[p]
  <2> DEFINE U == {n \in Nat : \E p \in LogicalPaths : Len(p) = n /\ less[p] # h[p]}
  <2>1. SUFFICES ASSUME U # {} PROVE FALSE
    <3>1. ASSUME NEW p \in LogicalPaths, less[p] # h[p] PROVE Len(p) \in U
      <4>1. Len(p) \in Nat
        BY DEF LogicalPaths
      <4> QED
        BY <3>1, <4>1
    <3> QED
      BY <3>1
  <2>2. PICK n \in U : \A m \in U : n <= m
    <3>1. U \in SUBSET Nat
      OBVIOUS
    <3> HIDE DEF U
    <3> QED
      BY <2>1, <3>1, LeastNumber
  <2>3. PICK p \in LogicalPaths : Len(p) = n /\ less[p] # h[p]
    BY <2>2
  <2>4. /\ less[p] = IF Ups(p) = {} THEN p ELSE IF FirstUp(p) = 1 THEN NoPath ELSE less[OneLess(p, FirstUp(p))]
        /\ h[p] = IF Ups(p) = {} THEN p ELSE IF FirstUp(p) = 1 THEN NoPath ELSE h[OneLess(p, FirstUp(p))]
    <3> HIDE DEF h
    <3> QED
      BY <1>5, <1>6
  <2>5. Ups(p) # {} /\ FirstUp(p) # 1
    BY <2>3, <2>4
  <2> DEFINE q == OneLess(p, FirstUp(p))
  <2>6. q \in LogicalPaths /\ Len(q) < Len(p)
    BY <1>4, <2>5
  <2>7. Len(q) \in Nat /\ Len(p) \in Nat
    BY <2>6 DEF LogicalPaths
  <2>8. Len(q) \notin U
    BY <2>2, <2>3, <2>6, <2>7
  <2>9. less[q] = h[q]
    BY <2>6, <2>7, <2>8
  <2> QED
    BY <2>3, <2>4, <2>5, <2>9
<1> QED
  BY <1>7, <1>8

-----------------------------------------------------------------------------
(* What a declaration may mean.                                            *)

\* The files of an artifact and what they declare.
IsModule(m) == m.name \in STRING /\ m.inline \in LogicalPaths /\ m.path \in LogicalPaths \cup {NoPath}
IsFilePath(f) == f \in LogicalPaths /\ f # <<>> /\ ".." \notin ToSet(f)

\* Member paths are files' and what is declared in them is well formed.
LEMMA FilesTyped ==
  ASSUME artifact \in Artifacts
  PROVE  /\ IsFiniteSet(Files) /\ NoPath \notin Files /\ \A f \in Files : IsFilePath(f)
         /\ \A f \in Files : LET declared == artifact.files[f].modules
                             IN  /\ Len(declared) \in Nat /\ DOMAIN declared = 1..Len(declared)
                                 /\ \A i \in DOMAIN declared : IsModule(declared[i])
<1>1. IsFiniteSet(Files)
  BY CargoAssumption DEF Files
<1>2. \A f \in Files : IsFilePath(f)
  BY CargoAssumption DEF Files, IsFilePath
<1>3. NoPath \notin Files
  BY <1>2, CargoAssumption DEF IsFilePath
<1>4. ASSUME NEW f \in Files, NEW declared, declared = artifact.files[f].modules
      PROVE  /\ Len(declared) \in Nat /\ DOMAIN declared = 1..Len(declared)
             /\ \A i \in DOMAIN declared : IsModule(declared[i])
  <2>1. declared \in Seq(ToSet(declared)) /\ \A m \in ToSet(declared) : IsModule(m)
    BY <1>4, CargoAssumption DEF Files, IsModule
  <2>2. Len(declared) \in Nat /\ DOMAIN declared = 1..Len(declared)
    BY <2>1
  <2>3. \A i \in DOMAIN declared : declared[i] \in ToSet(declared)
    BY DEF ToSet
  <2> QED
    BY <2>1, <2>2, <2>3
<1> QED
  BY <1>1, <1>2, <1>3, <1>4

\* The directory of a file, within the directory of its manifest.
Within(at, f) == SubSeq(Front(f), Len(at) + 1, Len(f) - 1)

\* That directory is a path with no way up, and the one resolve joins to.
LEMMA WithinTyped ==
  ASSUME NEW at \in LogicalPaths, NEW f, IsFilePath(f), IsPrefix(at, f)
  PROVE  /\ Within(at, f) \in LogicalPaths /\ ".." \notin ToSet(Within(at, f))
         /\ Front(SubSeq(f, Len(at) + 1, Len(f))) = Within(at, f)
<1>1. /\ f \in Seq(STRING) /\ f # <<>> /\ ".." \notin ToSet(f)
      /\ Len(at) \in Nat /\ Len(at) <= Len(f)
  BY DEF IsFilePath, IsPrefix, LogicalPaths
<1> QED
  BY <1>1, FrontBetween DEF Within, LogicalPaths

\* A path from the manifest's directory on, where there is one.
Placed(at, r) == IF r = NoPath THEN NoPath ELSE at \o r
Referred(at, f, s) == Within(at, f) \o s

\* resolve leads to what a reference reduces to from the manifest's directory.
LEMMA ResolveReduces ==
  ASSUME NEW at \in LogicalPaths, NEW f, IsFilePath(f), IsPrefix(at, f), NEW s \in LogicalPaths
  PROVE  Resolve(f, s, at) = Placed(at, Reduced(Referred(at, f, s)))
<1> DEFINE q == Referred(at, f, s)
<1>1. <<>> \in LogicalPaths /\ <<>> \in Joined
  BY DEF LogicalPaths, Joined
<1>2. PICK here \in LogicalPaths : /\ here = Within(at, f) /\ ".." \notin ToSet(here)
                                   /\ Front(SubSeq(f, Len(at) + 1, Len(f))) = here
  BY WithinTyped
<1>3. q = here \o s /\ q \in LogicalPaths
  BY <1>2, ConcatProperties DEF LogicalPaths, Referred
<1> HIDE DEF q
<1>4. JoinRelative(<<>>, here) = here
  <2>1. JoinRelative(<<>>, here) = <<>> \o here
    BY <1>1, <1>2, JoinDown
  <2>2. <<>> \o here = here
    BY ConcatEmptySeq DEF LogicalPaths
  <2> QED
    BY <2>1, <2>2
<1>5. JoinRelative(<<>>, here \o s) = JoinRelative(JoinRelative(<<>>, here), s)
  BY <1>1, JoinParts, Zenon
<1>6. Reduced(q) = JoinRelative(<<>>, q)
  BY <1>3, ReducedJoins
<1>7. Reduced(q) = JoinRelative(here, s)
  BY <1>3, <1>4, <1>5, <1>6
<1>8. Resolve(f, s, at) = Placed(at, JoinRelative(here, s))
  BY <1>2 DEF Resolve, Placed
<1> QED
  BY <1>7, <1>8 DEF q

\* Paths put behind one another.
LEMMA PathsJoin == \A a, b, c \in LogicalPaths : (a \o b) \o c = a \o (b \o c)
  BY ConcatAssociative DEF LogicalPaths

\* What the code takes a declaration for, where it goes from there, and what of
\* the files fs it cannot follow.
Takes(at, e, f, module) ==
  LET here == SubSeq(Front(f), Len(at) + 1, Len(f) - 1)
      children == IF f # e /\ Last(f) \notin {"lib", "main", "mod"} THEN Append(here, Last(f)) ELSE here
      below == children \o module.inline
      spelled == IF module.path # NoPath THEN {here \o module.inline \o module.path}
               ELSE {below \o <<module.name>>, below \o <<module.name, "mod">>}
  IN  {at \o r : r \in {Reduced(s) : s \in spelled} \ {NoPath}} \cap Files
Submodules(at, e, f) ==
  UNION {Takes(at, e, f, m) : m \in {n \in Declarations(f) : Cardinality(Takes(at, e, f, n)) = 1}}
Walkable(at, e) == Reached([f \in Files |-> Submodules(at, e, f)], {e})
Unresolvable(at, e, fs) ==
  UNION {{[file |-> f, module |-> m.name] :
            m \in {n \in Declarations(f) : Cardinality(Takes(at, e, f, n)) # 1}} : f \in fs}

\* Its candidates are these, with their ".."s taken out.
LEMMA CandidatesTaken ==
  ASSUME artifact \in Artifacts, NEW at \in LogicalPaths, at = target.at, Path \in Files, IsPrefix(at, Path),
         NEW m, IsModule(m)
  PROVE  Candidates(m) = Takes(at, target.entry, Path, m)
<1> DEFINE f == Path
           own == ModuleDir \o m.inline
           specs == IF m.path # NoPath THEN {m.inline \o m.path}
                    ELSE {Append(own, m.name), own \o <<m.name, "mod">>}
           here == Within(at, f)
           children == IF f # target.entry /\ Last(f) \notin {"lib", "main", "mod"} THEN Append(here, Last(f)) ELSE here
           below == children \o m.inline
           spelled == IF m.path # NoPath THEN {here \o m.inline \o m.path}
                    ELSE {below \o <<m.name>>, below \o <<m.name, "mod">>}
<1>1. IsFilePath(f) /\ NoPath \notin Files
  BY FilesTyped
<1>2. Candidates(m) = {Resolve(f, s, at) : s \in specs} \cap Files
  BY DEF Candidates
<1>3. Takes(at, target.entry, f, m) = {at \o r : r \in {Reduced(s) : s \in spelled} \ {NoPath}} \cap Files
  BY DEF Takes, Within
<1>4. here \in LogicalPaths
  BY <1>1, WithinTyped
<1>5. m.name \in STRING /\ m.inline \in LogicalPaths /\ "mod" \in STRING
  BY SegmentNames DEF IsModule
<1>6. <<m.name>> \in LogicalPaths /\ <<m.name, "mod">> \in LogicalPaths
  BY <1>5, Singly, Zenon DEF LogicalPaths
<1>7. Last(f) \in STRING
  BY <1>1, StackTop DEF IsFilePath, LogicalPaths
<1>8. <<Last(f)>> \in LogicalPaths
  BY <1>7, Singly, Zenon DEF LogicalPaths
<1>9. PICK dir \in LogicalPaths : dir = ModuleDir
  <2>1. <<>> \in LogicalPaths
    BY DEF LogicalPaths
  <2> QED
    BY <1>8, <2>1 DEF ModuleDir
<1>10. children = here \o dir
  <2>1. here \o <<>> = here
    BY <1>4, ConcatEmptySeq DEF LogicalPaths
  <2>2. Append(here, Last(f)) = here \o <<Last(f)>>
    BY <1>4, <1>7, AppendIsConcat DEF LogicalPaths
  <2> HIDE DEF here
  <2> QED
    BY <1>9, <2>1, <2>2 DEF ModuleDir
<1> HIDE DEF here, children, f
<1>11. own \in LogicalPaths /\ below = here \o own
  <2>1. own = dir \o m.inline
    BY <1>9
  <2>2. dir \o m.inline \in LogicalPaths
    BY <1>5, ConcatProperties, Zenon DEF LogicalPaths
  <2>3. (here \o dir) \o m.inline = here \o (dir \o m.inline)
    BY <1>4, <1>5, PathsJoin, Zenon
  <2> QED
    BY <1>10, <2>1, <2>2, <2>3
<1> HIDE DEF own, below
<1>12. /\ \A s \in specs : s \in LogicalPaths
       /\ spelled = {here \o s : s \in specs}
  <2>1. CASE m.path # NoPath
    <3>1. m.path \in LogicalPaths
      BY <2>1 DEF IsModule
    <3>2. m.inline \o m.path \in LogicalPaths
      BY <1>5, <3>1, ConcatProperties, Zenon DEF LogicalPaths
    <3>3. (here \o m.inline) \o m.path = here \o (m.inline \o m.path)
      BY <1>4, <1>5, <3>1, PathsJoin, Zenon
    <3> QED
      BY <2>1, <3>2, <3>3
  <2>2. CASE m.path = NoPath
    <3>1. Append(own, m.name) = own \o <<m.name>>
      BY <1>5, <1>11, AppendIsConcat, Zenon DEF LogicalPaths
    <3>2. own \o <<m.name>> \in LogicalPaths /\ own \o <<m.name, "mod">> \in LogicalPaths
      BY <1>6, <1>11, ConcatProperties, Zenon DEF LogicalPaths
    <3>3. below \o <<m.name>> = here \o (own \o <<m.name>>)
      BY <1>4, <1>6, <1>11, PathsJoin, Zenon
    <3>4. below \o <<m.name, "mod">> = here \o (own \o <<m.name, "mod">>)
      BY <1>4, <1>6, <1>11, PathsJoin, Zenon
    <3>5. specs = {own \o <<m.name>>, own \o <<m.name, "mod">>}
      BY <2>2, <3>1
    <3>6. spelled = {here \o (own \o <<m.name>>), here \o (own \o <<m.name, "mod">>)}
      BY <2>2, <3>3, <3>4
    <3> HIDE DEF specs, spelled
    <3>7. \A s \in specs : s \in LogicalPaths
      BY <3>2, <3>5
    <3> QED
      BY <3>5, <3>6, <3>7
  <2> QED
    BY <2>1, <2>2
<1> HIDE DEF specs, spelled
<1>13. ASSUME NEW s \in specs, NEW r, r = Reduced(here \o s)
       PROVE  Resolve(f, s, at) = IF r = NoPath THEN NoPath ELSE at \o r
  <2>1. s \in LogicalPaths /\ here = Within(at, f) /\ IsFilePath(f) /\ IsPrefix(at, f)
    BY <1>1, <1>12 DEF here, f
  <2>2. Resolve(f, s, at) = Placed(at, Reduced(Referred(at, f, s)))
    BY <2>1, ResolveReduces
  <2>3. Referred(at, f, s) = here \o s
    BY <2>1 DEF Referred
  <2> QED
    BY <1>13, <2>2, <2>3 DEF Placed
<1>14. ASSUME NEW x \in Files
       PROVE  (\E s \in specs : x = Resolve(f, s, at)) <=> \E r \in {Reduced(s) : s \in spelled} \ {NoPath} : x = at \o r
  <2>1. ASSUME NEW s \in specs, x = Resolve(f, s, at)
        PROVE  \E r \in {Reduced(t) : t \in spelled} \ {NoPath} : x = at \o r
    BY <1>1, <1>12, <1>13, <2>1
  <2>2. ASSUME NEW r \in {Reduced(s) : s \in spelled} \ {NoPath}, x = at \o r
        PROVE  \E s \in specs : x = Resolve(f, s, at)
    <3>1. PICK s \in specs : r = Reduced(here \o s)
      BY <1>12
    <3> QED
      BY <1>13, <2>2, <3>1
  <2> QED
    BY <2>1, <2>2
<1>15. Candidates(m) = {x \in Files : \E s \in specs : x = Resolve(f, s, at)}
  BY <1>2
<1>16. Takes(at, target.entry, f, m) = {x \in Files : \E r \in {Reduced(s) : s \in spelled} \ {NoPath} : x = at \o r}
  BY <1>3
<1> QED
  BY <1>14, <1>15, <1>16 DEF f

\* What a declaration may mean is below its manifest.
LEMMA TakesTyped ==
  ASSUME artifact \in Artifacts, NEW at \in LogicalPaths, NEW e, NEW f \in Files, IsPrefix(at, f), NEW m, IsModule(m)
  PROVE  /\ Takes(at, e, f, m) \subseteq Files /\ IsFiniteSet(Takes(at, e, f, m))
         /\ \A g \in Takes(at, e, f, m) : IsPrefix(at, g)
<1> DEFINE here == Within(at, f)
           children == IF f # e /\ Last(f) \notin {"lib", "main", "mod"} THEN Append(here, Last(f)) ELSE here
           below == children \o m.inline
           spelled == IF m.path # NoPath THEN {here \o m.inline \o m.path}
                    ELSE {below \o <<m.name>>, below \o <<m.name, "mod">>}
<1>1. Takes(at, e, f, m) = {at \o r : r \in {Reduced(s) : s \in spelled} \ {NoPath}} \cap Files
  BY DEF Takes, Within
<1>2. IsFilePath(f) /\ IsFiniteSet(Files)
  BY FilesTyped
<1>3. Takes(at, e, f, m) \in SUBSET Files
  BY <1>1
<1>4. IsFiniteSet(Takes(at, e, f, m))
  BY <1>2, <1>3, FS_Subset
<1>5. here \in LogicalPaths
  BY <1>2, WithinTyped
<1>6. Last(f) \in STRING
  BY <1>2, StackTop DEF IsFilePath, LogicalPaths
<1>7. children \in LogicalPaths
  BY <1>5, <1>6, AppendProperties DEF LogicalPaths
<1>8. m.name \in STRING /\ m.inline \in LogicalPaths /\ "mod" \in STRING
  BY SegmentNames DEF IsModule
<1>9. <<m.name>> \in LogicalPaths /\ <<m.name, "mod">> \in LogicalPaths
  BY <1>8, Singly, Zenon DEF LogicalPaths
<1> HIDE DEF here, children
<1>10. below \in LogicalPaths /\ here \o m.inline \in LogicalPaths
  BY <1>5, <1>7, <1>8, ConcatProperties, Zenon DEF LogicalPaths
<1> HIDE DEF below
<1>11. \A s \in spelled : s \in LogicalPaths
  <2>1. CASE m.path # NoPath
    <3>1. m.path \in LogicalPaths
      BY <2>1 DEF IsModule
    <3>2. (here \o m.inline) \o m.path \in LogicalPaths
      BY <1>10, <3>1, ConcatProperties, Zenon DEF LogicalPaths
    <3> QED
      BY <2>1, <3>2
  <2>2. CASE m.path = NoPath
    <3>1. below \o <<m.name>> \in LogicalPaths /\ below \o <<m.name, "mod">> \in LogicalPaths
      BY <1>9, <1>10, ConcatProperties, Zenon DEF LogicalPaths
    <3> QED
      BY <2>2, <3>1
  <2> QED
    BY <2>1, <2>2
<1> HIDE DEF spelled
<1>12. ASSUME NEW g \in Takes(at, e, f, m) PROVE IsPrefix(at, g)
  <2>1. PICK s \in spelled : Reduced(s) # NoPath /\ g = at \o Reduced(s)
    BY <1>1
  <2>2. <<>> \in Joined
    BY DEF LogicalPaths, Joined
  <2>3. Reduced(s) \in Joined
    BY <1>11, <2>2, ReducedJoins, JoinStep
  <2>4. Reduced(s) \in LogicalPaths
    BY <2>1, <2>3 DEF Joined
  <2> QED
    BY <2>1, <2>4, PrefixBelow DEF LogicalPaths
<1> QED
  BY <1>3, <1>4, <1>12

-----------------------------------------------------------------------------
(* A crate and the walk through it.                                        *)

\* The files a target's declarations lead to are the artifact's, below its manifest.
LEMMA SubmodulesTyped ==
  ASSUME artifact \in Artifacts, NEW at \in LogicalPaths, NEW e, NEW f \in Files, IsPrefix(at, f)
  PROVE  Submodules(at, e, f) \subseteq {g \in Files : IsPrefix(at, g)}
<1>1. \A m \in Declarations(f) : IsModule(m)
  BY FilesTyped DEF Declarations
<1> QED
  BY <1>1, TakesTyped DEF Submodules

\* What the walk may reach is the least set that holds the entry and what its files declare.
LEMMA WalkableIsLeast ==
  ASSUME artifact \in Artifacts, NEW at \in LogicalPaths, NEW e \in Files, IsPrefix(at, e)
  PROVE  /\ e \in Walkable(at, e) /\ Walkable(at, e) \subseteq {f \in Files : IsPrefix(at, f)}
         /\ \A f \in Walkable(at, e) : Submodules(at, e, f) \subseteq Walkable(at, e)
         /\ \A T : (e \in T /\ \A f \in T \cap Walkable(at, e) : Submodules(at, e, f) \subseteq T)
                     => Walkable(at, e) \subseteq T
<1> DEFINE S == {f \in Files : IsPrefix(at, f)}
<1>1. PICK next : next = [f \in Files |-> Submodules(at, e, f)]
  OBVIOUS
<1>2. DOMAIN next = Files /\ \A f \in Files : next[f] = Submodules(at, e, f)
  BY <1>1
<1>3. \A f \in S : Submodules(at, e, f) \subseteq S
  BY SubmodulesTyped
<1>4. \A f \in Files : Submodules(at, e, f) \subseteq Files
  <2> SUFFICES ASSUME NEW f \in Files, NEW m \in Declarations(f) PROVE Takes(at, e, f, m) \subseteq Files
    BY DEF Submodules
  <2> QED
    BY DEF Takes
<1>5. S \in SUBSET Files /\ IsFiniteSet(S) /\ {e} \in SUBSET S
  <2>1. IsFiniteSet(Files) /\ S \in SUBSET Files
    BY FilesTyped
  <2> QED
    BY <2>1, FS_Subset
<1>6. Closed(next, S)
  BY <1>2, <1>3 DEF Closed
<1>7. \A n \in DOMAIN next : next[n] \subseteq DOMAIN next
  BY <1>2, <1>4
<1> HIDE DEF S
<1>8. PICK F : F = S
  OBVIOUS
<1>9. PICK C : C = Reached(next, {e})
  OBVIOUS
<1>10. S \in SUBSET DOMAIN next
  BY <1>2, <1>5
<1>11. /\ {e} \subseteq C /\ C \subseteq S /\ Closed(next, C)
       /\ \A T : ({e} \subseteq T /\ \A n \in T \cap C : next[n] \subseteq T) => C \subseteq T
  <2>1. PICK b : b = {e}
    OBVIOUS
  <2>2. F \in SUBSET DOMAIN next /\ IsFiniteSet(F) /\ Closed(next, F) /\ b \in SUBSET F
    BY <1>5, <1>6, <1>8, <1>10, <2>1
  <2>3. C = Reached(next, b)
    BY <1>9, <2>1
  <2>4. /\ b \subseteq Reached(next, b) /\ Reached(next, b) \subseteq F
        /\ Closed(next, Reached(next, b))
        /\ \A T : (b \subseteq T /\ \A n \in T \cap Reached(next, b) : next[n] \subseteq T)
                    => Reached(next, b) \subseteq T
    BY <1>7, <2>2, ReachedIsLeast, Zenon
  <2> QED
    BY <1>8, <2>1, <2>3, <2>4
<1>12. C = Walkable(at, e)
  BY <1>1, <1>9 DEF Walkable
<1>13. \A f \in C : next[f] = Submodules(at, e, f)
  BY <1>2, <1>5, <1>11
<1> QED
  BY <1>11, <1>12, <1>13 DEF Closed, S

-----------------------------------------------------------------------------
(* What is queued.                                                         *)

Phases == {"build", "proc-macro", "runtime"}
            \cup UNION {{k.phase : k \in ToSet(m.kinds)} : m \in ToSet(artifact.manifests)}
Queued == [at : LogicalPaths, entry : LogicalPaths, phase : Phases]

\* An entry point, and several in a row.
LEMMA EntryTyped ==
  ASSUME NEW m, m.at \in LogicalPaths, NEW path \in LogicalPaths, NEW phase \in Phases
  PROVE  Entry(m, path, phase) \in Seq(Queued)
<1>1. [at |-> m.at, entry |-> path, phase |-> phase] \in Queued
  BY DEF Queued
<1> QED
  BY <1>1, Singly, Zenon DEF Entry

\* One segment and two.
LEMMA Segments ==
  /\ \A x \in STRING : <<x>> \in LogicalPaths
  /\ \A x, y \in STRING : <<x, y>> \in LogicalPaths
<1>1. ASSUME NEW x \in STRING, NEW y \in STRING PROVE <<x>> \in LogicalPaths /\ <<x, y>> \in LogicalPaths
  BY Singly, Zenon DEF LogicalPaths
<1> QED
  BY <1>1

\* Declared and discovered entry points.
LEMMA DeclaredTyped ==
  ASSUME artifact \in Artifacts, NEW m \in ToSet(artifact.manifests), NEW k \in ToSet(m.kinds)
  PROVE  Declared(m, k) \in Seq(Queued)
<1> DEFINE row(t) == IF t.path # NoPath THEN Entry(m, t.path, k.phase)
                     ELSE IF k.bin /\ t.name = m.package THEN Entry(m, <<"src", "main">>, k.phase)
                     ELSE Entry(m, Append(k.directory, t.name), k.phase)
                            \o Entry(m, k.directory \o <<t.name, "main">>, k.phase)
           rows == [i \in DOMAIN k.declared |-> row(k.declared[i])]
<1>1. /\ m.at \in LogicalPaths /\ k.directory \in LogicalPaths /\ k.declared \in Seq(ToSet(k.declared))
      /\ \A t \in ToSet(k.declared) : t.name \in STRING /\ t.path \in LogicalPaths \cup {NoPath}
  BY CargoAssumption
<1>2. k.phase \in Phases
  BY DEF Phases
<1>3. ASSUME NEW t \in ToSet(k.declared) PROVE row(t) \in Seq(Queued)
  <2>1. t.name \in STRING /\ "main" \in STRING /\ "src" \in STRING
    BY <1>1, SegmentNames
  <2>2. <<"src", "main">> \in LogicalPaths /\ <<t.name, "main">> \in LogicalPaths
    BY <2>1, Segments
  <2>3. Append(k.directory, t.name) \in LogicalPaths /\ k.directory \o <<t.name, "main">> \in LogicalPaths
    BY <1>1, <2>1, <2>2, AppendProperties, ConcatProperties, Zenon DEF LogicalPaths
  <2>4. t.path # NoPath => Entry(m, t.path, k.phase) \in Seq(Queued)
    BY <1>1, <1>2, EntryTyped
  <2>5. Entry(m, <<"src", "main">>, k.phase) \in Seq(Queued)
    BY <1>1, <1>2, <2>2, EntryTyped
  <2>6. /\ Entry(m, Append(k.directory, t.name), k.phase) \in Seq(Queued)
        /\ Entry(m, k.directory \o <<t.name, "main">>, k.phase) \in Seq(Queued)
    BY <1>1, <1>2, <2>3, EntryTyped
  <2>7. Entry(m, Append(k.directory, t.name), k.phase)
          \o Entry(m, k.directory \o <<t.name, "main">>, k.phase) \in Seq(Queued)
    BY <2>6, ConcatProperties
  <2> QED
    BY <2>4, <2>5, <2>7
<1> HIDE DEF row
<1>4. \A i \in DOMAIN k.declared : rows[i] \in Seq(Queued)
  BY <1>3 DEF ToSet
<1>5. PICK r : r = rows
  OBVIOUS
<1>6. r = [i \in DOMAIN k.declared |-> r[i]]
  BY <1>5
<1>7. r \in Seq(Seq(Queued))
  BY <1>1, <1>4, <1>5, <1>6, RowOf
<1>8. Declared(m, k) = FlattenSeq(r)
  BY <1>5 DEF Declared, row
<1> QED
  BY <1>7, <1>8, Flattened

\* `<name>` and `<name>/main` of a kind's directory are entry points.
LEMMA DiscoveredTyped ==
  ASSUME artifact \in Artifacts, NEW m \in ToSet(artifact.manifests), NEW k \in ToSet(m.kinds)
  PROVE  Discovered(m, k) \in Seq(Queued)
<1> DEFINE dir == m.at \o k.directory
           below == {q \in Files : IsStrictPrefix(dir, q)}
           names == {SubSeq(p, Len(dir) + 1, Len(p)) : p \in below}
           sighted == {n \in names : Len(n) = 1 \/ (Len(n) = 2 /\ n[2] = "main")}
           entries == {Entry(m, k.directory \o n, k.phase) : n \in sighted}
<1>1. m.at \in LogicalPaths /\ k.directory \in LogicalPaths
  BY CargoAssumption
<1>2. k.phase \in Phases
  BY DEF Phases
<1>3. Len(dir) \in Nat
  <2>1. dir \in LogicalPaths
    BY <1>1, ConcatProperties, Zenon DEF LogicalPaths
  <2> HIDE DEF dir
  <2> QED
    BY <2>1 DEF LogicalPaths
<1> HIDE DEF dir
<1>4. \A n \in names : n \in LogicalPaths
  <2> SUFFICES ASSUME NEW p \in below PROVE SubSeq(p, Len(dir) + 1, Len(p)) \in LogicalPaths
    OBVIOUS
  <2>1. p \in LogicalPaths
    BY FilesTyped DEF IsFilePath
  <2>2. Len(p) \in Nat /\ \A i \in (Len(dir) + 1)..Len(p) : p[i] \in STRING
    BY <1>3, <2>1 DEF LogicalPaths
  <2> QED
    BY <1>3, <2>2, SubSeqProperties DEF LogicalPaths
<1>5. IsFiniteSet(sighted)
  <2>1. IsFiniteSet(below)
    <3>1. IsFiniteSet(Files) /\ below \in SUBSET Files
      BY FilesTyped
    <3> HIDE DEF below
    <3> QED
      BY <3>1, FS_Subset
  <2> HIDE DEF below
  <2>2. PICK g : g = [p \in below |-> SubSeq(p, Len(dir) + 1, Len(p))]
    OBVIOUS
  <2>3. DOMAIN g = below /\ names = {g[p] : p \in DOMAIN g}
    BY <2>2
  <2>4. IsFiniteSet(names)
    <3> HIDE DEF names
    <3> QED
      BY <2>1, <2>3, ImageFinite
  <2> HIDE DEF names
  <2>5. sighted \in SUBSET names
    OBVIOUS
  <2> HIDE DEF sighted
  <2> QED
    BY <2>4, <2>5, FS_Subset
<1>6. \A n \in sighted : Entry(m, k.directory \o n, k.phase) \in Seq(Queued)
  <2> SUFFICES ASSUME NEW n \in sighted PROVE Entry(m, k.directory \o n, k.phase) \in Seq(Queued)
    OBVIOUS
  <2>1. n \in LogicalPaths
    BY <1>4
  <2>2. k.directory \o n \in LogicalPaths
    BY <1>1, <2>1, ConcatProperties, Zenon DEF LogicalPaths
  <2> QED
    BY <1>1, <1>2, <2>2, EntryTyped
<1> HIDE DEF sighted
<1>7. IsFiniteSet(entries) /\ entries \subseteq Seq(Queued)
  <2>1. PICK g : g = [n \in sighted |-> Entry(m, k.directory \o n, k.phase)]
    OBVIOUS
  <2>2. DOMAIN g = sighted /\ entries = {g[n] : n \in DOMAIN g}
    BY <2>1
  <2>3. IsFiniteSet(entries)
    <3> HIDE DEF entries
    <3> QED
      BY <1>5, <2>2, ImageFinite
  <2> QED
    BY <1>6, <2>3
<1>8. Discovered(m, k) = <<>> \/ Discovered(m, k) = FlattenSeq(SetToSeq(entries))
  BY DEF Discovered, sighted, dir
<1> HIDE DEF entries
<1>9. SetToSeq(entries) \in Seq(entries)
  BY <1>7, AsSequence
<1>10. SetToSeq(entries) \in Seq(Seq(Queued))
  BY <1>7, <1>9, SeqMonotonic
<1>11. FlattenSeq(SetToSeq(entries)) \in Seq(Queued)
  BY <1>10, Flattened
<1>12. <<>> \in Seq(Queued)
  OBVIOUS
<1> QED
  BY <1>8, <1>11, <1>12

\* All the entry points of a manifest, and of all manifests.
LEMMA EntriesTyped ==
  ASSUME artifact \in Artifacts, NEW m \in ToSet(artifact.manifests)
  PROVE  EntriesOf(m) \in Seq(Queued)
<1>1. m.at \in LogicalPaths /\ {m.lib, m.build.path} \subseteq LogicalPaths \cup {NoPath} /\ m.kinds \in Seq(ToSet(m.kinds))
  BY CargoAssumption
<1>2. <<"build">> \in LogicalPaths /\ <<"src", "lib">> \in LogicalPaths /\ <<"src", "main">> \in LogicalPaths
  BY SegmentNames, Segments
<1>3. {"build", "proc-macro", "runtime"} \subseteq Phases
  BY DEF Phases
<1>4. BuildEntry(m) \in Seq(Queued)
  <2>1. \A p \in LogicalPaths : Entry(m, p, "build") \in Seq(Queued)
    BY <1>1, <1>3, EntryTyped
  <2>2. <<>> \in Seq(Queued)
    OBVIOUS
  <2> QED
    BY <1>1, <1>2, <2>1, <2>2 DEF BuildEntry
<1>5. LibEntry(m) \in Seq(Queued)
  <2>1. \A p \in LogicalPaths : Entry(m, p, "proc-macro") \in Seq(Queued) /\ Entry(m, p, "runtime") \in Seq(Queued)
    BY <1>1, <1>3, EntryTyped
  <2> QED
    BY <1>1, <1>2, <2>1 DEF LibEntry
<1>6. Entry(m, <<"src", "main">>, "runtime") \in Seq(Queued)
  BY <1>1, <1>2, <1>3, EntryTyped
<1> DEFINE rows == [i \in DOMAIN m.kinds |-> Declared(m, m.kinds[i]) \o Discovered(m, m.kinds[i])]
<1>7. FlattenSeq(rows) \in Seq(Queued)
  <2>1. ASSUME NEW i \in DOMAIN m.kinds PROVE rows[i] \in Seq(Queued)
    <3>1. m.kinds[i] \in ToSet(m.kinds)
      BY DEF ToSet
    <3>2. Declared(m, m.kinds[i]) \in Seq(Queued) /\ Discovered(m, m.kinds[i]) \in Seq(Queued)
      BY <3>1, DeclaredTyped, DiscoveredTyped
    <3>3. Declared(m, m.kinds[i]) \o Discovered(m, m.kinds[i]) \in Seq(Queued)
      BY <3>2, ConcatProperties
    <3> QED
      BY <3>3
  <2>2. PICK r : r = rows
    OBVIOUS
  <2>3. r = [i \in DOMAIN m.kinds |-> r[i]]
    BY <2>2
  <2> HIDE DEF rows
  <2>4. r \in Seq(Seq(Queued))
    BY <1>1, <2>1, <2>2, <2>3, RowOf
  <2> QED
    BY <2>2, <2>4, Flattened
<1> HIDE DEF rows
<1>8. BuildEntry(m) \o LibEntry(m) \in Seq(Queued)
  BY <1>4, <1>5, ConcatProperties
<1>9. (BuildEntry(m) \o LibEntry(m)) \o Entry(m, <<"src", "main">>, "runtime") \in Seq(Queued)
  BY <1>6, <1>8, ConcatProperties
<1>10. ((BuildEntry(m) \o LibEntry(m)) \o Entry(m, <<"src", "main">>, "runtime")) \o FlattenSeq(rows) \in Seq(Queued)
  BY <1>7, <1>9, ConcatProperties
<1> QED
  BY <1>10 DEF EntriesOf, rows

\* The queue of an artifact holds entry points.
LEMMA QueueTyped ==
  ASSUME artifact \in Artifacts
  PROVE  FlattenSeq([i \in DOMAIN artifact.manifests |-> EntriesOf(artifact.manifests[i])]) \in Seq(Queued)
<1> DEFINE rows == [i \in DOMAIN artifact.manifests |-> EntriesOf(artifact.manifests[i])]
<1>1. artifact.manifests \in Seq(ToSet(artifact.manifests))
  BY CargoAssumption
<1>2. ASSUME NEW i \in DOMAIN artifact.manifests PROVE rows[i] \in Seq(Queued)
  <2>1. artifact.manifests[i] \in ToSet(artifact.manifests)
    BY DEF ToSet
  <2> QED
    BY <2>1, EntriesTyped
<1>3. PICK r : r = rows
  OBVIOUS
<1>4. r = [i \in DOMAIN artifact.manifests |-> r[i]]
  BY <1>3
<1> HIDE DEF rows
<1>5. r \in Seq(Seq(Queued))
  BY <1>1, <1>2, <1>3, <1>4, RowOf
<1>6. FlattenSeq(rows) \in Seq(Queued)
  BY <1>3, <1>5, Flattened
<1> QED
  BY <1>6 DEF rows

-----------------------------------------------------------------------------
(* What a visit adds.                                                      *)

\* The declarations of one file that cannot be followed.
LostIn(at, e, f) ==
  {[file |-> f, module |-> m.name] : m \in {n \in Declarations(f) : Cardinality(Takes(at, e, f, n)) # 1}}

\* What is lost in a crate is lost in its files.
LEMMA LostByFile == \A at, e, fs : Unresolvable(at, e, fs) = UNION {LostIn(at, e, f) : f \in fs}
  BY DEF Unresolvable, LostIn

\* A declaration is followed where it has one meaning, and then to that.
LEMMA OneTaken ==
  ASSUME artifact \in Artifacts, NEW at \in LogicalPaths, at = target.at, Path \in Files, IsPrefix(at, Path),
         NEW i \in 1..Len(Modules)
  PROVE  LET meant == Takes(at, target.entry, Path, Modules[i])
         IN  /\ Modules[i] \in Declarations(Path)
             /\ Unique(Modules[i]) <=> Cardinality(meant) = 1
             /\ Unique(Modules[i]) => meant = {CHOOSE c \in Candidates(Modules[i]) : TRUE}
<1>1. i \in DOMAIN Modules /\ IsModule(Modules[i])
  BY FilesTyped DEF Modules
<1>2. Modules[i] \in Declarations(Path)
  BY <1>1 DEF Declarations, Modules
<1>3. PICK S : S = Takes(at, target.entry, Path, Modules[i])
  OBVIOUS
<1>4. IsFiniteSet(S)
  BY <1>1, <1>3, TakesTyped
<1>5. Candidates(Modules[i]) = S
  BY <1>1, <1>3, CandidatesTaken
<1>6. Cardinality(S) = 1 => \E x : S = {x}
  BY <1>4, FS_Singleton
<1>7. Cardinality(S) = 1 => S = {CHOOSE c \in S : TRUE}
  BY <1>6
<1> QED
  BY <1>2, <1>3, <1>5, <1>7 DEF Unique

\* A file's declarations lead to its submodules, in their order.
LEMMA FollowedAll ==
  ASSUME artifact \in Artifacts, NEW at \in LogicalPaths, at = target.at, Path \in Files, IsPrefix(at, Path)
  PROVE  /\ Followed(Len(Modules)) \in Seq(Submodules(at, target.entry, Path))
         /\ ToSet(Followed(Len(Modules))) = Submodules(at, target.entry, Path)
<1> DEFINE row(i) == IF ~Unique(Modules[i]) THEN <<>> ELSE <<CHOOSE c \in Candidates(Modules[i]) : TRUE>>
           leads(i) == IF Unique(Modules[i]) THEN Takes(at, target.entry, Path, Modules[i]) ELSE {}
<1>1. PICK n \in Nat : n = Len(Modules) /\ DOMAIN Modules = 1..n
  BY FilesTyped DEF Modules
<1>2. PICK S : S = Submodules(at, target.entry, Path)
  OBVIOUS
<1>3. \A i \in 1..n : Unique(Modules[i]) => leads(i) \subseteq S
  <2> SUFFICES ASSUME NEW i \in 1..n, Unique(Modules[i]) PROVE leads(i) \subseteq S
    OBVIOUS
  <2>1. /\ Modules[i] \in Declarations(Path)
        /\ Cardinality(Takes(at, target.entry, Path, Modules[i])) = 1
    BY <1>1, OneTaken
  <2> QED
    BY <1>2, <2>1 DEF Submodules
<1>4. S = UNION {leads(i) : i \in 1..n}
  <2>1. ASSUME NEW c \in S PROVE \E i \in 1..n : c \in leads(i)
    <3>1. PICK m \in Declarations(Path) : /\ Cardinality(Takes(at, target.entry, Path, m)) = 1
                                          /\ c \in Takes(at, target.entry, Path, m)
      BY <1>2, <2>1 DEF Submodules
    <3>2. PICK i \in 1..n : m = Modules[i]
      BY <1>1 DEF Declarations, Modules
    <3> QED
      BY <1>1, <3>1, <3>2, OneTaken
  <2> QED
    BY <1>3, <2>1
<1>5. ASSUME NEW i \in 1..n PROVE row(i) \in Seq(S) /\ ToSet(row(i)) = leads(i)
  <2>1. CASE Unique(Modules[i])
    <3>1. PICK c : c = CHOOSE d \in Candidates(Modules[i]) : TRUE
      OBVIOUS
    <3>2. leads(i) = {c}
      BY <1>1, <2>1, <3>1, OneTaken
    <3>3. c \in S /\ row(i) = <<c>>
      BY <1>3, <2>1, <3>1, <3>2
    <3> QED
      BY <3>2, <3>3, Singly
  <2>2. CASE ~Unique(Modules[i])
    BY <2>2 DEF ToSet
  <2> QED
    BY <2>1, <2>2
<1> HIDE DEF leads
<1>6. PICK r : r = [i \in 1..n |-> row(i)]
  OBVIOUS
<1>7. FlattenSeq(r) = Followed(Len(Modules))
  BY <1>1, <1>6 DEF Followed
<1> HIDE DEF row
<1>8. r \in Seq(Seq(S)) /\ DOMAIN r = 1..n
  <2>1. r \in [1..n -> Seq(S)]
    BY <1>5, <1>6
  <2> QED
    BY <2>1, SeqDef
<1>9. \A i \in 1..n : ToSet(r[i]) = leads(i)
  BY <1>5, <1>6
<1>10. FlattenSeq(r) \in Seq(S) /\ ToSet(FlattenSeq(r)) = UNION {ToSet(r[i]) : i \in DOMAIN r}
  BY <1>8, Flattened
<1>11. UNION {ToSet(r[i]) : i \in DOMAIN r} = S
  BY <1>4, <1>8, <1>9
<1> QED
  BY <1>2, <1>7, <1>10, <1>11

\* A file's declarations that cannot be followed, and some of them.
LEMMA UnresolvedAll ==
  ASSUME artifact \in Artifacts, NEW at \in LogicalPaths, at = target.at, Path \in Files, IsPrefix(at, Path)
  PROVE  /\ Unresolved(Len(Modules)) = LostIn(at, target.entry, Path)
         /\ \A k \in 0..Len(Modules) : Unresolved(k) \subseteq LostIn(at, target.entry, Path)
<1>1. PICK n \in Nat : n = Len(Modules) /\ DOMAIN Modules = 1..n
  BY FilesTyped DEF Modules
<1> DEFINE lost == {m \in Declarations(Path) : Cardinality(Takes(at, target.entry, Path, m)) # 1}
<1>2. \A i \in 1..n : ~Unique(Modules[i]) => Modules[i] \in lost
  BY <1>1, OneTaken
<1>3. \A m \in lost : \E i \in 1..n : m = Modules[i] /\ ~Unique(Modules[i])
  <2> SUFFICES ASSUME NEW m \in lost PROVE \E i \in 1..n : m = Modules[i] /\ ~Unique(Modules[i])
    OBVIOUS
  <2>1. PICK i \in 1..n : m = Modules[i]
    BY <1>1 DEF Declarations, Modules
  <2> QED
    BY <1>1, <2>1, OneTaken
<1>4. LostIn(at, target.entry, Path) = {[file |-> Path, module |-> m.name] : m \in lost}
  BY DEF LostIn
<1> HIDE DEF lost
<1>5. ASSUME NEW k \in 0..n PROVE Unresolved(k) \subseteq LostIn(at, target.entry, Path)
  <2> SUFFICES ASSUME NEW i \in 1..k, ~Unique(Modules[i])
               PROVE  [file |-> Path, module |-> Modules[i].name] \in LostIn(at, target.entry, Path)
    BY DEF Unresolved
  <2>1. i \in 1..n
    OBVIOUS
  <2> QED
    BY <1>2, <1>4, <2>1
<1>6. LostIn(at, target.entry, Path) \subseteq Unresolved(n)
  <2> SUFFICES ASSUME NEW m \in lost PROVE [file |-> Path, module |-> m.name] \in Unresolved(n)
    BY <1>4
  <2> QED
    BY <1>3 DEF Unresolved
<1>7. n \in 0..n
  OBVIOUS
<1>8. Unresolved(n) = LostIn(at, target.entry, Path)
  BY <1>5, <1>6, <1>7
<1>9. \A k \in 0..n : Unresolved(k) \subseteq LostIn(at, target.entry, Path)
  BY <1>5
<1> HIDE DEF lost
<1> QED
  BY <1>1, <1>8, <1>9, Zenon

\* What an entry resolves to is in its manifest's directory.
LEMMA GoalTyped ==
  ASSUME artifact \in Artifacts, NEW e \in Queued, Goal(e) \in Files
  PROVE  IsPrefix(e.at, Goal(e))
<1>1. e.at \in LogicalPaths /\ e.entry \in LogicalPaths /\ "Cargo" \in STRING
  BY SegmentNames DEF Queued
<1>2. PICK f : f = Append(e.at, "Cargo")
  OBVIOUS
<1>3. /\ f \in LogicalPaths /\ Len(f) = Len(e.at) + 1
      /\ f[Len(f)] = "Cargo" /\ \A i \in 1..Len(e.at) : f[i] = e.at[i]
  BY <1>1, <1>2, AppendProperties DEF LogicalPaths
<1>4. PICK n \in Nat : n = Len(e.at)
  BY <1>1 DEF LogicalPaths
<1>5. PICK r : r = SubSeq(f, n + 1, n + 1)
  OBVIOUS
<1>6. r \in LogicalPaths /\ Len(r) = 1
  <2>1. \A i \in (n + 1)..(n + 1) : f[i] \in STRING
    BY <1>3, <1>4 DEF LogicalPaths
  <2>2. /\ r \in Seq(STRING)
        /\ Len(r) = IF n + 1 <= n + 1 THEN (n + 1) - (n + 1) + 1 ELSE 0
    BY <1>4, <1>5, <2>1, SubSeqProperties
  <2>3. Len(r) = 1
    BY <2>2
  <2> QED
    BY <2>2, <2>3 DEF LogicalPaths
<1>7. Front(r) = <<>>
  <2>1. Front(r) = SubSeq(r, 1, 0)
    BY <1>6 DEF Front
  <2> QED
    BY <2>1
<1>8. Goal(e) = IF JoinRelative(<<>>, e.entry) = NoPath THEN NoPath ELSE e.at \o JoinRelative(<<>>, e.entry)
  <2>1. SubSeq(f, Len(e.at) + 1, Len(f)) = r
    BY <1>3, <1>4, <1>5
  <2> QED
    BY <1>2, <1>7, <2>1 DEF Goal, Resolve
<1>9. NoPath \notin Files
  BY FilesTyped
<1>10. PICK j : j = JoinRelative(<<>>, e.entry)
  OBVIOUS
<1>11. j \in Joined
  <2>1. <<>> \in Joined
    BY DEF LogicalPaths, Joined
  <2> QED
    BY <1>1, <1>10, <2>1, JoinStep
<1>12. j \in LogicalPaths /\ Goal(e) = e.at \o j
  BY <1>8, <1>9, <1>10, <1>11 DEF Joined
<1> QED
  BY <1>1, <1>12, PrefixBelow DEF LogicalPaths

-----------------------------------------------------------------------------
(* The walk itself.  A target holds files of its crate; what they declare  *)
(* is held as well or on the stack, so that with an empty stack it is all. *)

\* The events of some files.
EventsOf(fs) == UNION {artifact.files[f].events : f \in fs}

\* What the result says of one target.
Told(t) ==
  LET crate == Walkable(t.at, t.entry)
  IN  /\ t.at \in LogicalPaths /\ t.entry \in Files /\ IsPrefix(t.at, t.entry)
      /\ t.members \subseteq crate /\ t.unresolved \subseteq Unresolvable(t.at, t.entry, crate)
      /\ t.events = EventsOf(t.members)
      /\ \A f \in t.members : IsPrefix(t.at, f)
      /\ ~truncated => t.members = crate /\ t.unresolved = Unresolvable(t.at, t.entry, crate)
Once == \A t, u \in targets : (u.at = t.at /\ u.entry = t.entry) => u = t

TargetInv ==
  LET crate == Walkable(target.at, target.entry)
      held == members \cup ToSet(unvisited)
  IN  /\ target.at \in LogicalPaths /\ target.entry \in Files /\ IsPrefix(target.at, target.entry)
      /\ [at |-> target.at, entry |-> target.entry] \in taken
      /\ \A t \in targets : ~(t.at = target.at /\ t.entry = target.entry)
      /\ unvisited \in Seq(crate) /\ members \subseteq crate /\ target.entry \in held
      /\ \A f \in members : Submodules(target.at, target.entry, f) \subseteq held
      /\ missing = Unresolvable(target.at, target.entry, members) /\ events = EventsOf(members)
CratesInv ==
  /\ artifact \in Artifacts /\ queue \in Seq(Queued)
  /\ \A t \in targets : [at |-> t.at, entry |-> t.entry] \in taken
  /\ target = NoPath => members = {} /\ events = {} /\ missing = {}
  /\ target # NoPath => TargetInv
  /\ (\A t \in targets : Told(t)) /\ Once

-----------------------------------------------------------------------------
(* The walk beside rustc, where names tell how files were loaded.          *)

Loadings == [file : Files, owns : BOOLEAN]

\* There are finitely many ways to load the files of an artifact.
LEMMA LoadingsFinite ==
  ASSUME artifact \in Artifacts
  PROVE  IsFiniteSet(Loadings)
<1>1. IsFiniteSet(Files) /\ IsFiniteSet(BOOLEAN)
  <2>1. BOOLEAN = {TRUE} \cup {FALSE}
    OBVIOUS
  <2>2. IsFiniteSet({TRUE}) /\ IsFiniteSet({FALSE})
    BY FS_Singleton, Zenon
  <2>3. IsFiniteSet({TRUE} \cup {FALSE})
    BY <2>2, FS_Union, Zenon
  <2> QED
    BY <2>1, <2>3, FilesTyped
<1>2. PICK f : f = [x \in Files \X BOOLEAN |-> Loaded(x[1], x[2])]
  OBVIOUS
<1>3. DOMAIN f = Files \X BOOLEAN /\ IsFiniteSet(DOMAIN f)
  BY <1>1, <1>2, FS_Product
<1>4. IsFiniteSet({f[x] : x \in DOMAIN f})
  BY <1>3, ImageFinite
<1>5. ASSUME NEW n \in Loadings PROVE \E x \in DOMAIN f : n = f[x]
  <2>1. <<n.file, n.owns>> \in DOMAIN f /\ n = Loaded(n.file, n.owns)
    BY <1>3 DEF Loadings, Loaded
  <2> QED
    BY <1>2, <1>3, <2>1
<1>6. Loadings \subseteq {f[x] : x \in DOMAIN f}
  BY <1>5
<1> QED
  BY <1>4, <1>6, FS_Subset

\* A declaration leads to files of the artifact, loaded in one way or the other.
LEMMA ChildrenTyped == \A at, n : Children(at, n) \subseteq Loadings
<1> SUFFICES ASSUME NEW at, NEW n, NEW m, NEW g \in Means(at, n, m) PROVE g \in Loadings
  BY DEF Children
<1>1. g.file \in Files
  BY DEF Means
<1>2. PICK a \in Sought(at, n, m) : g = Loaded(at \o Reduced(a.file), a.owns)
  BY DEF Means, Inside
<1>3. a.owns \in BOOLEAN
  <2>1. PICK p, q, r : Sought(at, n, m) = IF m.path = NoPath THEN {Loaded(p, FALSE), Loaded(q, TRUE)}
                                          ELSE {Loaded(r, TRUE)}
    BY Zenon DEF Sought
  <2>2. Loaded(p, FALSE).owns = FALSE /\ Loaded(q, TRUE).owns = TRUE /\ Loaded(r, TRUE).owns = TRUE
    BY DEF Loaded
  <2> QED
    BY <2>1, <2>2
<1>4. PICK f : f = at \o Reduced(a.file)
  OBVIOUS
<1>5. f \in Files
  BY <1>1, <1>2, <1>4 DEF Loaded
<1> QED
  BY <1>2, <1>3, <1>4, <1>5 DEF Loadings, Loaded

\* A crate is the least set that holds its root and what its files load.
LEMMA CrateIsLeast ==
  ASSUME artifact \in Artifacts, NEW at, NEW e \in Files
  PROVE  /\ Loaded(e, TRUE) \in Crate(at, e) /\ Crate(at, e) \subseteq Loadings
         /\ \A n \in Crate(at, e) : Children(at, n) \subseteq Crate(at, e)
         /\ \A T : (Loaded(e, TRUE) \in T /\ \A n \in T \cap Crate(at, e) : Children(at, n) \subseteq T)
                     => Crate(at, e) \subseteq T
<1>1. PICK next : next = [n \in Loadings |-> Children(at, n)]
  OBVIOUS
<1>2. PICK b : b = {Loaded(e, TRUE)}
  OBVIOUS
<1>3. DOMAIN next = Loadings /\ \A n \in Loadings : next[n] = Children(at, n)
  BY <1>1
<1>4. PICK F : F = Loadings
  OBVIOUS
<1>5. /\ \A n \in DOMAIN next : next[n] \subseteq DOMAIN next
      /\ F \in SUBSET DOMAIN next /\ IsFiniteSet(F) /\ Closed(next, F) /\ b \in SUBSET F
  <2>1. Loaded(e, TRUE) \in Loadings
    BY DEF Loadings, Loaded
  <2>2. \A n \in DOMAIN next : next[n] \subseteq DOMAIN next
    BY <1>3, ChildrenTyped
  <2>3. Closed(next, F)
    BY <1>3, <1>4, <2>2 DEF Closed
  <2>4. IsFiniteSet(F)
    BY <1>4, LoadingsFinite
  <2> QED
    BY <1>2, <1>3, <1>4, <2>1, <2>2, <2>3, <2>4
<1>6. /\ b \subseteq Reached(next, b) /\ Reached(next, b) \subseteq F
      /\ Closed(next, Reached(next, b))
      /\ \A T : (b \subseteq T /\ \A n \in T \cap Reached(next, b) : next[n] \subseteq T)
                  => Reached(next, b) \subseteq T
  BY <1>5, ReachedIsLeast, Zenon
<1>7. Crate(at, e) = Reached(next, b)
  BY <1>1, <1>2 DEF Crate, Loadings
<1> DEFINE C == Crate(at, e)
<1> HIDE DEF C
<1>8. C = Reached(next, b)
  BY <1>7 DEF C
<1>9. /\ b \subseteq C /\ C \subseteq Loadings /\ \A n \in C : next[n] \subseteq C
      /\ \A T : (b \subseteq T /\ \A n \in T \cap C : next[n] \subseteq T) => C \subseteq T
  BY <1>4, <1>6, <1>8 DEF Closed
<1>10. \A n \in C : next[n] = Children(at, n)
  BY <1>3, <1>9
<1>11. ASSUME NEW T, Loaded(e, TRUE) \in T, \A n \in T \cap C : Children(at, n) \subseteq T PROVE C \subseteq T
  <2>1. b \subseteq T /\ \A n \in T \cap C : next[n] \subseteq T
    BY <1>2, <1>10, <1>11
  <2> QED
    BY <1>9, <2>1
<1>12. Loaded(e, TRUE) \in C /\ C \subseteq Loadings /\ \A n \in C : Children(at, n) \subseteq C
  BY <1>2, <1>9, <1>10
<1>13. \A T : (Loaded(e, TRUE) \in T /\ \A n \in T \cap C : Children(at, n) \subseteq T) => C \subseteq T
  BY <1>11, Zenon
<1> QED
  BY <1>12, <1>13 DEF C

\* Where its name tells how a file was loaded, the code takes a declaration in
\* it for what it means.
LEMMA MeansTaken ==
  ASSUME artifact \in Artifacts, NEW at \in LogicalPaths, NEW e, NEW n, n.file \in Files, IsPrefix(at, n.file),
         NEW m, IsModule(m), n.owns <=> n.file = e \/ Last(n.file) \in {"lib", "main", "mod"},
         m.path # NoPath /\ m.inline # <<>> => n.owns
  PROVE  FilesOf(Means(at, n, m)) = Takes(at, e, n.file, m)
<1> DEFINE here == Within(at, n.file)
           own == (IF n.owns THEN here ELSE Append(here, Last(n.file))) \o m.inline
           tried == Sought(at, n, m)
           spelled == IF m.path # NoPath THEN {here \o m.inline \o m.path}
                      ELSE {own \o <<m.name>>, own \o <<m.name, "mod">>}
<1>1. here \in LogicalPaths
  BY FilesTyped, WithinTyped
<1>2. here \o <<>> = here
  BY <1>1, ConcatEmptySeq DEF LogicalPaths
<1>3. Takes(at, e, n.file, m) = {at \o r : r \in {Reduced(s) : s \in spelled} \ {NoPath}} \cap Files
  BY DEF Takes, Within
<1>4. tried = IF m.path = NoPath
              THEN {Loaded(own \o <<m.name>>, FALSE), Loaded(own \o <<m.name, "mod">>, TRUE)}
              ELSE {Loaded((IF m.inline = <<>> THEN here ELSE own) \o m.path, TRUE)}
  BY DEF Sought, Within
<1>l. \A f, o : Loaded(f, o).file = f
  BY DEF Loaded
<1>h. (IF m.inline = <<>> THEN here ELSE own) = here \o m.inline \/ m.path = NoPath
  BY <1>2
<1> HIDE DEF here, own, tried
<1>5. /\ \A s \in spelled : \E a \in tried : a.file = s
      /\ \A a \in tried : a.file \in spelled
  <2>1. CASE m.path = NoPath
    BY <1>4, <1>l, <2>1
  <2>2. CASE m.path # NoPath
    <3>1. tried = {Loaded((here \o m.inline) \o m.path, TRUE)} /\ spelled = {(here \o m.inline) \o m.path}
      BY <1>4, <1>h, <2>2
    <3> HIDE DEF spelled
    <3> QED
      BY <1>l, <3>1
  <2> QED
    BY <2>1, <2>2
<1> HIDE DEF spelled
<1>6. ASSUME NEW x \in FilesOf(Means(at, n, m)) PROVE x \in Takes(at, e, n.file, m)
  <2>1. PICK a \in tried : Reduced(a.file) # NoPath /\ x = at \o Reduced(a.file) /\ x \in Files
    <3>1. PICK g \in Means(at, n, m) : x = g.file
      BY <1>6 DEF FilesOf
    <3>2. PICK a \in tried : Reduced(a.file) # NoPath /\ g = Loaded(at \o Reduced(a.file), a.owns) /\ g.file \in Files
      BY DEF Means, Inside, tried
    <3> QED
      BY <1>l, <3>1, <3>2
  <2> QED
    BY <1>3, <1>5, <2>1
<1>7. ASSUME NEW x \in Takes(at, e, n.file, m) PROVE x \in FilesOf(Means(at, n, m))
  <2>1. PICK s \in spelled : Reduced(s) # NoPath /\ x = at \o Reduced(s) /\ x \in Files
    BY <1>3, <1>7
  <2>2. PICK a \in tried : a.file = s
    BY <1>5
  <2>3. PICK g : g = Loaded(at \o Reduced(a.file), a.owns)
    OBVIOUS
  <2>4. g.file = x /\ g \in Means(at, n, m)
    BY <1>l, <2>1, <2>2, <2>3 DEF Means, Inside, tried
  <2> QED
    BY <2>4 DEF FilesOf
<1> QED
  BY <1>6, <1>7

\* What the code walks is the crate, and what it cannot follow rustc cannot.
LEMMA NamesAgree ==
  ASSUME artifact \in Artifacts, NEW at \in LogicalPaths, NEW e \in Files, IsPrefix(at, e), NamesTell(e, Crate(at, e))
  PROVE  /\ FilesOf(Crate(at, e)) = Walkable(at, e)
         /\ Lost(at, Crate(at, e)) = Unresolvable(at, e, Walkable(at, e))
<1>1. PICK C : C = Crate(at, e)
  OBVIOUS
<1>2. PICK W : W = Walkable(at, e)
  OBVIOUS
<1>3. /\ Loaded(e, TRUE) \in C /\ C \subseteq Loadings /\ \A n \in C : Children(at, n) \subseteq C
      /\ \A T : (Loaded(e, TRUE) \in T /\ \A n \in T \cap C : Children(at, n) \subseteq T) => C \subseteq T
  BY <1>1, CrateIsLeast
<1>4. /\ e \in W /\ W \subseteq {f \in Files : IsPrefix(at, f)}
      /\ \A f \in W : Submodules(at, e, f) \subseteq W
      /\ \A T : (e \in T /\ \A f \in T \cap W : Submodules(at, e, f) \subseteq T) => W \subseteq T
  BY <1>2, WalkableIsLeast
<1>5. ASSUME NEW n \in C, n.file \in W, NEW m \in Declarations(n.file)
      PROVE  FilesOf(Means(at, n, m)) = Takes(at, e, n.file, m)
  <2>1. IsModule(m)
    BY <1>4, <1>5, FilesTyped DEF Declarations
  <2>2. /\ n.owns <=> n.file = e \/ Last(n.file) \in {"lib", "main", "mod"}
        /\ m.path # NoPath /\ m.inline # <<>> => n.owns
    BY <1>1, <1>5 DEF NamesTell
  <2>3. n.file \in Files /\ IsPrefix(at, n.file)
    BY <1>4, <1>5
  <2> QED
    BY <2>1, <2>2, <2>3, MeansTaken
<1>6. \A n \in C : n.file \in W
  <2>1. PICK T : T = {n \in C : n.file \in W}
    OBVIOUS
  <2>2. Loaded(e, TRUE) \in T
    BY <1>3, <1>4, <2>1 DEF Loaded
  <2>3. ASSUME NEW n \in T \cap C, NEW g \in Children(at, n) PROVE g \in T
    <3>1. PICK m \in Declarations(n.file) : OneFile(Means(at, n, m)) /\ g \in Means(at, n, m)
      BY <2>3 DEF Children
    <3>2. g.file \in Takes(at, e, n.file, m) /\ Cardinality(Takes(at, e, n.file, m)) = 1
      BY <1>5, <2>1, <2>3, <3>1 DEF OneFile, FilesOf
    <3>3. g.file \in Submodules(at, e, n.file)
      BY <3>2 DEF Submodules
    <3> QED
      BY <1>3, <1>4, <2>1, <2>3, <3>3
  <2>4. C \subseteq T
    BY <1>3, <2>2, <2>3
  <2> QED
    BY <2>1, <2>4
<1>7. W \subseteq FilesOf(C)
  <2>1. e \in FilesOf(C)
    BY <1>3 DEF FilesOf, Loaded
  <2>2. ASSUME NEW f \in FilesOf(C) \cap W, NEW x \in Submodules(at, e, f) PROVE x \in FilesOf(C)
    <3>1. PICK n \in C : n.file = f
      BY <2>2 DEF FilesOf
    <3>2. PICK m \in Declarations(n.file) : Cardinality(Takes(at, e, n.file, m)) = 1 /\ x \in Takes(at, e, n.file, m)
      BY <2>2, <3>1 DEF Submodules
    <3>3. FilesOf(Means(at, n, m)) = Takes(at, e, n.file, m)
      BY <1>5, <2>2, <3>1
    <3>4. PICK g \in Means(at, n, m) : g.file = x
      BY <3>2, <3>3 DEF FilesOf
    <3>5. g \in Children(at, n)
      BY <3>2, <3>3 DEF Children, OneFile
    <3> QED
      BY <1>3, <3>4, <3>5 DEF FilesOf
  <2> QED
    BY <1>4, <2>1, <2>2
<1>8. FilesOf(C) = W
  BY <1>6, <1>7 DEF FilesOf
<1>9. ASSUME NEW n \in C, NEW m \in Declarations(n.file)
      PROVE  OneFile(Means(at, n, m)) <=> Cardinality(Takes(at, e, n.file, m)) = 1
  BY <1>5, <1>6, <1>9 DEF OneFile
<1>10. ASSUME NEW x \in Lost(at, C) PROVE x \in Unresolvable(at, e, W)
  <2>1. PICK n \in C : \E m \in Declarations(n.file) :
          ~OneFile(Means(at, n, m)) /\ x = [file |-> n.file, module |-> m.name]
    BY <1>10 DEF Lost
  <2> QED
    BY <1>6, <1>9, <2>1 DEF Unresolvable
<1>11. ASSUME NEW x \in Unresolvable(at, e, W) PROVE x \in Lost(at, C)
  <2>1. PICK f \in W : \E m \in Declarations(f) :
          Cardinality(Takes(at, e, f, m)) # 1 /\ x = [file |-> f, module |-> m.name]
    BY <1>11 DEF Unresolvable
  <2>2. PICK n \in C : n.file = f
    BY <1>7, <2>1 DEF FilesOf
  <2> QED
    BY <1>9, <2>1, <2>2 DEF Lost
<1> QED
  BY <1>1, <1>2, <1>8, <1>10, <1>11

\* The property is what every target is told by, each once.
LEMMA CratesTold ==
  ASSUME artifact \in Artifacts, \A t \in targets : Told(t), Once
  PROVE  CratesWholeOrTruncated
<1> SUFFICES ASSUME NEW t \in targets
             PROVE  LET crate == Crate(t.at, t.entry)
                    IN  /\ \A f \in t.members : IsPrefix(t.at, f)
                        /\ t.events = EventsOf(t.members)
                        /\ NamesTell(t.entry, crate) =>
                             /\ t.members \subseteq FilesOf(crate) /\ t.unresolved \subseteq Lost(t.at, crate)
                             /\ ~truncated => t.members = FilesOf(crate) /\ t.unresolved = Lost(t.at, crate)
  BY DEF Once, CratesWholeOrTruncated, EventsOf
<1>1. Told(t)
  OBVIOUS
<1>2. CASE ~NamesTell(t.entry, Crate(t.at, t.entry))
  BY <1>1, <1>2 DEF Told
<1>3. CASE NamesTell(t.entry, Crate(t.at, t.entry))
  <2>1. /\ FilesOf(Crate(t.at, t.entry)) = Walkable(t.at, t.entry)
        /\ Lost(t.at, Crate(t.at, t.entry)) = Unresolvable(t.at, t.entry, Walkable(t.at, t.entry))
    BY <1>1, <1>3, NamesAgree DEF Told
  <2> QED
    BY <1>1, <2>1 DEF Told
<1> QED
  BY <1>2, <1>3

\* What a crate is depends on the artifact only.
LEMMA CrateStill ==
  ASSUME artifact' = artifact
  PROVE  /\ Files' = Files /\ Queued' = Queued
         /\ \A a, e : Walkable(a, e)' = Walkable(a, e)
         /\ \A a, e, f : Submodules(a, e, f)' = Submodules(a, e, f)
         /\ \A a, e, f : LostIn(a, e, f)' = LostIn(a, e, f)
         /\ \A a, e, s : Unresolvable(a, e, s)' = Unresolvable(a, e, s)
         /\ \A s : EventsOf(s)' = EventsOf(s)
<1>1. Files' = Files /\ Queued' = Queued /\ \A f : Declarations(f)' = Declarations(f)
  BY DEF Files, Queued, Phases, Declarations
<1>2. \A a, e, f, m : Takes(a, e, f, m)' = Takes(a, e, f, m)
  BY <1>1 DEF Takes
<1>3. \A a, e, f : Submodules(a, e, f)' = Submodules(a, e, f)
  BY <1>1, <1>2 DEF Submodules
<1>4. \A a, e : Walkable(a, e)' = Walkable(a, e)
  BY <1>1, <1>3 DEF Walkable
<1>5. \A a, e, f : LostIn(a, e, f)' = LostIn(a, e, f)
  BY <1>1, <1>2 DEF LostIn
<1>6. \A a, e, s : Unresolvable(a, e, s)' = Unresolvable(a, e, s)
  BY <1>1, <1>2 DEF Unresolvable
<1>7. \A s : EventsOf(s)' = EventsOf(s)
  BY DEF EventsOf
<1> QED
  BY <1>1, <1>3, <1>4, <1>5, <1>6, <1>7

\* A target that is told of as far as it was walked.
LEMMA Closing ==
  ASSUME CratesInv, target # NoPath, NEW M, NEW E, NEW L, Close(M, E, L), UNCHANGED <<artifact, queue, taken>>,
         truncated => truncated',
         M \subseteq Walkable(target.at, target.entry),
         L \subseteq Unresolvable(target.at, target.entry, Walkable(target.at, target.entry)), E = EventsOf(M),
         ~truncated' => /\ M = Walkable(target.at, target.entry)
                        /\ L = Unresolvable(target.at, target.entry, Walkable(target.at, target.entry))
  PROVE  CratesInv'
<1>1. TargetInv
  BY DEF CratesInv
<1>2. PICK new : new = [at |-> target.at, entry |-> target.entry, phase |-> target.phase,
                        members |-> M, events |-> E, unresolved |-> L]
  OBVIOUS
<1>3. /\ targets' = targets \cup {new} /\ target' = NoPath
      /\ members' = {} /\ events' = {} /\ missing' = {}
  BY <1>2 DEF Close
<1>4. /\ new.at = target.at /\ new.entry = target.entry /\ new.members = M /\ new.events = E /\ new.unresolved = L
      /\ [at |-> new.at, entry |-> new.entry] \in taken
  BY <1>1, <1>2 DEF TargetInv
<1>5. ASSUME NEW t \in targets PROVE Told(t)'
  <2>1. Told(t)
    BY DEF CratesInv
  <2> QED
    BY <2>1, CrateStill DEF Told
<1>6. \A f \in M : IsPrefix(new.at, f)
  BY <1>1, <1>4, WalkableIsLeast DEF TargetInv, CratesInv
<1>7. Told(new)'
  BY <1>1, <1>4, <1>6, CrateStill DEF Told, TargetInv
<1>8. Once'
  <2>1. \A t \in targets : ~(t.at = new.at /\ t.entry = new.entry)
    BY <1>1, <1>4 DEF TargetInv
  <2>2. Once
    BY DEF CratesInv
  <2> QED
    BY <1>3, <2>1, <2>2 DEF Once
<1>9. \A t \in targets' : ([at |-> t.at, entry |-> t.entry] \in taken)'
  BY <1>3, <1>4 DEF CratesInv
<1>10. artifact' \in Artifacts /\ queue' \in Seq(Queued')
  BY CrateStill DEF CratesInv
<1>11. \A t \in targets' : Told(t)'
  BY <1>3, <1>5, <1>7
<1> QED
  BY <1>3, <1>8, <1>9, <1>10, <1>11 DEF CratesInv

\* The file on top of the stack.
LEMMA OnTop ==
  ASSUME CratesInv, Popping
  PROVE  /\ artifact \in Artifacts /\ target.at \in LogicalPaths
         /\ Path \in Walkable(target.at, target.entry) /\ Path \in Files /\ IsPrefix(target.at, Path)
         /\ Front(unvisited) \in Seq(Walkable(target.at, target.entry))
         /\ ToSet(unvisited) = {Path} \cup ToSet(Front(unvisited))
<1>1. TargetInv /\ artifact \in Artifacts /\ unvisited # <<>>
  BY DEF CratesInv, Popping
<1>2. unvisited \in Seq(Walkable(target.at, target.entry))
  BY <1>1 DEF TargetInv
<1>3. /\ Path \in Walkable(target.at, target.entry)
      /\ Front(unvisited) \in Seq(Walkable(target.at, target.entry))
      /\ ToSet(unvisited) = {Path} \cup ToSet(Front(unvisited))
  BY <1>1, <1>2, StackTop DEF Path
<1>4. Walkable(target.at, target.entry) \subseteq {f \in Files : IsPrefix(target.at, f)}
  BY <1>1, WalkableIsLeast DEF TargetInv
<1> QED
  BY <1>1, <1>3, <1>4 DEF TargetInv

\* A target with an empty stack holds its crate.
LEMMA HoldsAll ==
  ASSUME CratesInv, target # NoPath, unvisited = <<>>
  PROVE  members = Walkable(target.at, target.entry)
<1>1. TargetInv /\ artifact \in Artifacts
  BY DEF CratesInv
<1>2. ToSet(unvisited) = {}
  BY DEF ToSet
<1>3. /\ target.entry \in members /\ members \subseteq Walkable(target.at, target.entry)
      /\ \A f \in members : Submodules(target.at, target.entry, f) \subseteq members
  BY <1>1, <1>2 DEF TargetInv
<1>4. \A T : (target.entry \in T /\ \A f \in T \cap Walkable(target.at, target.entry) :
                                       Submodules(target.at, target.entry, f) \subseteq T)
               => Walkable(target.at, target.entry) \subseteq T
  BY <1>1, WalkableIsLeast DEF TargetInv
<1>5. Walkable(target.at, target.entry) \subseteq members
  BY <1>3, <1>4
<1> QED
  BY <1>3, <1>5

\* Before the walk there is no target.
LEMMA CratesStart == CargoInit => CratesInv
<1> SUFFICES ASSUME CargoInit PROVE CratesInv
  OBVIOUS
<1>1. artifact \in Artifacts /\ queue \in Seq(Queued)
  BY QueueTyped DEF CargoInit
<1> QED
  BY <1>1 DEF CargoInit, CratesInv, Once

\* A fresh entry starts a target with its entry on the stack.
LEMMA CratesNextEntry == CratesInv /\ NextEntry => CratesInv'
<1> SUFFICES ASSUME CratesInv, NextEntry PROVE CratesInv'
  OBVIOUS
<1>1. PICK e : e = Head(queue)
  OBVIOUS
<1>2. /\ target = NoPath /\ members = {} /\ events = {} /\ missing = {}
      /\ UNCHANGED <<artifact, members, events, missing, targets, truncated>>
  BY DEF NextEntry, CratesInv
<1>3. e \in Queued /\ queue' \in Seq(Queued)
  <2>1. queue \in Seq(Queued) /\ queue # <<>> /\ queue' = Tail(queue)
    BY DEF CratesInv, NextEntry
  <2> QED
    BY <1>1, <2>1, HeadTailProperties
<1>4. \A t \in targets : Told(t)'
  <2> SUFFICES ASSUME NEW t \in targets PROVE Told(t)'
    OBVIOUS
  <2>1. Told(t)
    BY DEF CratesInv
  <2> QED
    BY <1>2, <2>1, CrateStill DEF Told
<1>5. Once' /\ artifact' \in Artifacts /\ queue' \in Seq(Queued')
  BY <1>2, <1>3, CrateStill DEF CratesInv, Once
<1>6. CASE ~Fresh(e)
  <2>1. UNCHANGED <<taken, target, unvisited>>
    BY <1>1, <1>6 DEF NextEntry
  <2> QED
    BY <1>2, <1>4, <1>5, <2>1 DEF CratesInv
<1>7. CASE Fresh(e)
  <2>1. PICK g : g = Goal(e)
    OBVIOUS
  <2>2. /\ taken' = taken \cup {[at |-> e.at, entry |-> g]} /\ [at |-> e.at, entry |-> g] \notin taken
        /\ target' = [e EXCEPT !.entry = g] /\ unvisited' = <<g>>
    BY <1>1, <1>7, <2>1 DEF NextEntry, Fresh
  <2>3. artifact \in Artifacts /\ g \in Files /\ IsPrefix(e.at, g) /\ e.at \in LogicalPaths
    BY <1>3, <1>7, <2>1, GoalTyped DEF Fresh, CratesInv, Queued
  <2>4. target'.at = e.at /\ target'.entry = g
    BY <1>3, <2>2 DEF Queued
  <2>5. g \in Walkable(e.at, g)
    BY <2>3, WalkableIsLeast
  <2>6. <<g>> \in Seq(Walkable(e.at, g)) /\ ToSet(<<g>>) = {g}
    BY <2>5, Singly
  <2>7. \A t \in targets : ~(t.at = e.at /\ t.entry = g)
    BY <2>2 DEF CratesInv
  <2>8. Unresolvable(e.at, g, {}) = {} /\ EventsOf({}) = {}
    BY DEF Unresolvable, EventsOf
  <2>9. /\ members' = {} /\ missing' = Unresolvable(e.at, g, {})' /\ events' = EventsOf({})'
        /\ unvisited' \in Seq(Walkable(e.at, g)') /\ ToSet(unvisited') = {g} /\ g \in Files'
        /\ [at |-> e.at, entry |-> g] \in taken' /\ targets' = targets
    BY <1>2, <2>2, <2>3, <2>6, <2>8, CrateStill
  <2>10. TargetInv'
    BY <2>3, <2>4, <2>7, <2>9 DEF TargetInv
  <2>11. \A t \in targets' : ([at |-> t.at, entry |-> t.entry] \in taken)'
    BY <1>2, <2>2 DEF CratesInv
  <2> QED
    BY <1>2, <1>4, <1>5, <2>10, <2>11 DEF CratesInv
<1> QED
  BY <1>6, <1>7

\* A target is done, or left where the visits ran out.
LEMMA CratesEnd == CratesInv /\ (Walked \/ Spent \/ VisitSpent) => CratesInv'
<1> SUFFICES ASSUME CratesInv, Walked \/ Spent \/ VisitSpent PROVE CratesInv'
  OBVIOUS
<1>1. TargetInv /\ artifact \in Artifacts /\ target # NoPath
  BY DEF CratesInv, Walked, Spent, VisitSpent, Popping
<1>2. PICK crate : crate = Walkable(target.at, target.entry)
  OBVIOUS
<1>3. /\ members \subseteq crate /\ missing = Unresolvable(target.at, target.entry, members)
      /\ events = EventsOf(members) /\ missing \subseteq Unresolvable(target.at, target.entry, crate)
  BY <1>1, <1>2, LostByFile DEF TargetInv
<1>4. CASE Walked
  <2>1. members = crate
    BY <1>1, <1>2, <1>4, HoldsAll DEF Walked
  <2>2. /\ Close(members, events, missing) /\ UNCHANGED <<artifact, queue, taken, truncated>>
    BY <1>4 DEF Walked
  <2> QED
    BY <1>1, <1>2, <1>3, <2>1, <2>2, Closing
<1>5. CASE Spent
  <2>1. /\ Close(members, events, missing) /\ UNCHANGED <<artifact, queue, taken>> /\ truncated' = TRUE
    BY <1>5 DEF Spent
  <2> QED
    BY <1>1, <1>2, <1>3, <2>1, Closing
<1>6. CASE VisitSpent
  <2>1. PICK upTo \in 0..Len(Modules) - 1 :
          Close(members \cup {Path}, events \cup artifact.files[Path].events, missing \cup Unresolved(upTo))
    BY <1>6 DEF VisitSpent
  <2>2. UNCHANGED <<artifact, queue, taken>> /\ truncated' = TRUE /\ Popping
    BY <1>6 DEF VisitSpent
  <2>3. target.at \in LogicalPaths /\ Path \in crate /\ Path \in Files /\ IsPrefix(target.at, Path)
    BY <1>2, <2>2, OnTop
  <2>4. Len(Modules) \in Nat
    BY <1>1, <2>3, FilesTyped DEF Modules
  <2>5. upTo \in 0..Len(Modules)
    BY <2>4
  <2>6. Unresolved(upTo) \subseteq LostIn(target.at, target.entry, Path)
    BY <1>1, <2>3, <2>5, UnresolvedAll
  <2>7. Unresolved(upTo) \subseteq Unresolvable(target.at, target.entry, crate)
    BY <2>3, <2>6, LostByFile
  <2>e. events \cup artifact.files[Path].events = EventsOf(members \cup {Path})
    BY <1>3 DEF EventsOf
  <2>8. members \cup {Path} \subseteq crate /\ missing \cup Unresolved(upTo) \subseteq Unresolvable(target.at, target.entry, crate)
    BY <1>3, <2>3, <2>7
  <2> QED
    BY <1>1, <1>2, <2>1, <2>2, <2>8, <2>e, Closing
<1> QED
  BY <1>4, <1>5, <1>6

\* A file seen before is passed over; another adds what it declares.
LEMMA CratesVisit == CratesInv /\ (VisitAgain \/ VisitFile) => CratesInv'
<1> SUFFICES ASSUME CratesInv, VisitAgain \/ VisitFile PROVE CratesInv'
  OBVIOUS
<1>1. TargetInv /\ artifact \in Artifacts /\ target # NoPath /\ Popping
  BY DEF CratesInv, VisitAgain, VisitFile, Popping
<1>2. UNCHANGED <<artifact, queue, taken, target, targets, truncated>>
  BY DEF VisitAgain, VisitFile
<1>3. PICK crate : crate = Walkable(target.at, target.entry)
  OBVIOUS
<1>4. /\ target.at \in LogicalPaths /\ Path \in crate /\ Path \in Files /\ IsPrefix(target.at, Path)
      /\ Front(unvisited) \in Seq(crate) /\ ToSet(unvisited) = {Path} \cup ToSet(Front(unvisited))
  BY <1>1, <1>3, OnTop
<1>5. /\ unvisited' \in Seq(crate) /\ members' \subseteq crate
      /\ members \cup ToSet(unvisited) \subseteq members' \cup ToSet(unvisited')
      /\ \A f \in members' : Submodules(target.at, target.entry, f) \subseteq members' \cup ToSet(unvisited')
      /\ missing' = Unresolvable(target.at, target.entry, members') /\ events' = EventsOf(members')
  <2>1. CASE VisitAgain
    <3>1. /\ unvisited' = Front(unvisited) /\ Path \in members
          /\ members' = members /\ missing' = missing /\ events' = events
      BY <2>1 DEF VisitAgain
    <3>2. members' \cup ToSet(unvisited') = members \cup ToSet(unvisited)
      BY <1>4, <3>1
    <3> QED
      BY <1>1, <1>3, <1>4, <3>1, <3>2 DEF TargetInv
  <2>2. CASE VisitFile
    <3>1. /\ members' = members \cup {Path} /\ events' = events \cup artifact.files[Path].events
          /\ missing' = missing \cup Unresolved(Len(Modules))
          /\ unvisited' = Front(unvisited) \o Followed(Len(Modules))
      BY <2>2 DEF VisitFile
    <3>2. PICK added : added = Followed(Len(Modules))
      OBVIOUS
    <3>3. /\ added \in Seq(Submodules(target.at, target.entry, Path))
          /\ ToSet(added) = Submodules(target.at, target.entry, Path)
      BY <1>1, <1>4, <3>2, FollowedAll
    <3>4. Submodules(target.at, target.entry, Path) \subseteq crate
      BY <1>1, <1>3, <1>4, WalkableIsLeast DEF TargetInv
    <3>5. added \in Seq(crate)
      BY <3>3, <3>4, SeqMonotonic
    <3>6. unvisited' \in Seq(crate) /\ ToSet(unvisited') = ToSet(Front(unvisited)) \cup ToSet(added)
      BY <1>4, <3>1, <3>2, <3>5, StackAdds
    <3>7. members' \cup ToSet(unvisited')
            = (members \cup ToSet(unvisited)) \cup Submodules(target.at, target.entry, Path)
      BY <1>4, <3>1, <3>3, <3>6
    <3>8. Unresolved(Len(Modules)) = LostIn(target.at, target.entry, Path)
      BY <1>1, <1>4, UnresolvedAll
    <3>9. missing' = Unresolvable(target.at, target.entry, members')
      <4>1. missing = UNION {LostIn(target.at, target.entry, f) : f \in members}
        BY <1>1, LostByFile DEF TargetInv
      <4> QED
        BY <3>1, <3>8, <4>1, LostByFile
    <3>10. events' = EventsOf(members')
      BY <1>1, <3>1 DEF TargetInv, EventsOf
    <3>11. \A f \in members : Submodules(target.at, target.entry, f) \subseteq members \cup ToSet(unvisited)
      BY <1>1 DEF TargetInv
    <3>12. members' \subseteq crate
      BY <1>1, <1>3, <1>4, <3>1 DEF TargetInv
    <3>13. \A f \in members' : Submodules(target.at, target.entry, f) \subseteq members' \cup ToSet(unvisited')
      BY <3>1, <3>7, <3>11
    <3> QED
      BY <3>6, <3>7, <3>9, <3>10, <3>12, <3>13
  <2> QED
    BY <2>1, <2>2
<1>6. TargetInv'
  <2>1. target' = target /\ taken' = taken /\ targets' = targets
    BY <1>2
  <2>2. /\ target.at \in LogicalPaths /\ target.entry \in Files /\ IsPrefix(target.at, target.entry)
        /\ [at |-> target.at, entry |-> target.entry] \in taken
        /\ \A t \in targets : ~(t.at = target.at /\ t.entry = target.entry)
        /\ target.entry \in members' \cup ToSet(unvisited')
    BY <1>1, <1>5 DEF TargetInv
  <2>3. /\ Walkable(target.at, target.entry)' = crate /\ Files' = Files
        /\ \A f : Submodules(target.at, target.entry, f)' = Submodules(target.at, target.entry, f)
        /\ missing' = Unresolvable(target.at, target.entry, members)' /\ events' = EventsOf(members)'
    BY <1>2, <1>3, <1>5, CrateStill
  <2> QED
    BY <1>5, <2>1, <2>2, <2>3 DEF TargetInv
<1>7. \A t \in targets : Told(t)'
  <2> SUFFICES ASSUME NEW t \in targets PROVE Told(t)'
    OBVIOUS
  <2>1. Told(t)
    BY DEF CratesInv
  <2> QED
    BY <1>2, <2>1, CrateStill DEF Told
<1>8. Once' /\ artifact' \in Artifacts /\ queue' \in Seq(Queued')
  BY <1>2, CrateStill DEF CratesInv, Once
<1> QED
  BY <1>1, <1>2, <1>6, <1>7, <1>8 DEF CratesInv

\* Every target of every artifact reaches its crate and says what it could
\* not follow, or the result says that visits ran out.
THEOREM CratesAreWhole == CargoSpec => []CratesWholeOrTruncated
<1>1. CratesInv /\ [CargoNext]_cargo => CratesInv'
  <2>1. CratesInv /\ UNCHANGED cargo => CratesInv'
    <3> SUFFICES ASSUME CratesInv, UNCHANGED cargo PROVE CratesInv'
      OBVIOUS
    <3>1. UNCHANGED <<artifact, queue, taken, target, unvisited, members, events, missing, targets, truncated>>
      BY DEF cargo, reach
    <3>2. TargetInv => TargetInv'
      BY <3>1, CrateStill DEF TargetInv
    <3>3. \A t : Told(t) => Told(t)'
      BY <3>1, CrateStill DEF Told
    <3> QED
      BY <3>1, <3>2, <3>3, CrateStill DEF CratesInv, Once
  <2> QED
    BY <2>1, CratesNextEntry, CratesEnd, CratesVisit DEF CargoNext
<1>2. CratesInv => CratesWholeOrTruncated
  BY CratesTold DEF CratesInv
<1> QED
  BY <1>1, <1>2, CratesStart, PTL DEF CargoSpec

-----------------------------------------------------------------------------
(* The pickle scan beside the unpickler.                                   *)

\* What the unpickler's frames hold, and what the scanner's stack holds: the
\* frames, and a mark between two of them.
Passive ==
  [kind : {"other"}] \cup [kind : {"text"}, at : Nat, text : Text, line : BOOLEAN]
    \cup [kind : {"unread"}, text : Text]
    \cup [kind : {"global"}, module : Text, attr : Text]
Cells == Passive \cup {Mark}

LaidBy(fs) ==
  LET flat[i \in DOMAIN fs] == IF i = 1 THEN fs[1] ELSE Append(flat[i - 1], Mark) \o fs[i]
  IN  flat
Laid(fs) == LaidBy(fs)[Len(fs)]
Base(fs) == IF fs = <<>> THEN <<>> ELSE Append(Laid(fs), Mark)

\* No value of the unpickler's is a mark.
LEMMA MarksApart == Mark \notin Passive /\ Mark \in Cells /\ Passive \subseteq Cells /\ Other \in Passive
BY DEF Mark, Passive, Cells, Other

\* What is popped is popped of the innermost frame.
LEMMA PoppedOff ==
  ASSUME NEW S, NEW b \in Seq(S), NEW f \in Seq(S), NEW n \in 1..Len(f)
  PROVE  /\ Popped(b \o f, n) = b \o SubSeq(f, 1, Len(f) - n)
         /\ \A T : f \in Seq(T) => SubSeq(f, 1, Len(f) - n) \in Seq(T)
  BY CutOff, Zenon DEF Popped

\* Down to the last mark.
LEMMA ThroughLastMark ==
  ASSUME NEW l \in Seq(Cells), NEW f \in Seq(Passive)
  PROVE  ThroughMark(Append(l, Mark) \o f) = l
<1>0. PICK b : b = Append(l, Mark)
  OBVIOUS
<1>1. /\ b \in Seq(Cells) /\ Len(b) = Len(l) + 1 /\ b[Len(l) + 1] = Mark
      /\ \A i \in 1..Len(l) : b[i] = l[i]
  <2>1. Mark \in Cells
    BY MarksApart
  <2> QED
    BY <1>0, <2>1, AppendProperties
<1>2. f \in Seq(Cells)
  BY MarksApart, SeqMonotonic, Zenon
<1>3. PICK g : g = b \o f
  OBVIOUS
<1>4. /\ g \in Seq(Cells) /\ Len(g) = Len(b) + Len(f)
      /\ \A i \in 1..(Len(b) + Len(f)) : g[i] = IF i <= Len(b) THEN b[i] ELSE f[i - Len(b)]
  <2>1. b \in Seq(Cells)
    BY <1>1
  <2> QED
    BY <1>2, <1>3, <2>1, ConcatProperties, Zenon
<1>5. Len(l) \in Nat /\ Len(f) \in Nat
  BY LenProperties
<1> DEFINE k == Len(l) + 1
           I == {i \in 1..Len(g) : g[i] = Mark}
<1>6. k \in I /\ k \in Nat
  BY <1>1, <1>4, <1>5
<1>7. ASSUME NEW i \in I PROVE i <= k /\ i \in Nat
  <2>1. SUFFICES ASSUME ~(i <= k) PROVE FALSE
    BY <1>5
  <2>2. i \in 1..(Len(b) + Len(f)) /\ ~(i <= Len(b)) /\ i - Len(b) \in 1..Len(f)
    BY <1>1, <1>4, <1>5, <2>1
  <2>3. f[i - Len(b)] \in Passive
    BY <2>2, ElementOfSeq, Zenon
  <2> QED
    BY <1>4, <2>2, <2>3, MarksApart
<1>8. SelectLastInSeq(g, LAMBDA v : v = Mark) = k
  <2>1. SelectLastInSeq(g, LAMBDA v : v = Mark) = CHOOSE x \in I : \A y \in I : x >= y
    BY <1>6 DEF SelectLastInSeq, Max
  <2> HIDE DEF I
  <2>2. \A y \in I : k >= y
    BY <1>6, <1>7
  <2>3. \A x \in I : (\A y \in I : x >= y) => x = k
    BY <1>6, <1>7
  <2> QED
    BY <1>6, <2>1, <2>2, <2>3
<1>9. PICK h : h = SubSeq(g, 1, Len(l))
  OBVIOUS
<1>10. h \in Seq(Cells) /\ Len(h) = Len(l) /\ \A i \in 1..Len(l) : h[i] = g[i]
  BY <1>1, <1>4, <1>5, <1>9
<1>11. ASSUME NEW i \in 1..Len(l) PROVE h[i] = l[i]
  <2>1. i \in 1..(Len(b) + Len(f)) /\ i <= Len(b)
    BY <1>1, <1>5
  <2> QED
    BY <1>1, <1>4, <1>10, <2>1
<1>12. h = l
  BY <1>10, <1>11, SeqEqual, Zenon
<1>13. k - 1 = Len(l)
  BY <1>5
<1> QED
  BY <1>0, <1>3, <1>8, <1>9, <1>12, <1>13 DEF ThroughMark

\* How the frames lie, one after another.
LEMMA LaidInTurn ==
  ASSUME NEW fs \in Seq(Seq(Cells)), NEW n, n = Len(fs)
  PROVE  \A i \in 1..n :
           /\ LaidBy(fs)[i] \in Seq(Cells)
           /\ i = 1 => LaidBy(fs)[i] = fs[i]
           /\ i # 1 => LaidBy(fs)[i] = Append(LaidBy(fs)[i - 1], Mark) \o fs[i]
<1> DEFINE Laying(g) == [i \in DOMAIN fs |-> IF i = 1 THEN fs[1] ELSE Append(g[i - 1], Mark) \o fs[i]]
<1>1. n \in Nat /\ DOMAIN fs = 1..n /\ \A i \in 1..n : fs[i] \in Seq(Cells)
  OBVIOUS
<1>0. Mark \in Cells /\ <<>> \in Seq(Cells)
  BY MarksApart
<1>m. ASSUME NEW l \in Seq(Cells), NEW f \in Seq(Cells) PROVE Append(l, Mark) \o f \in Seq(Cells)
  <2>1. Append(l, Mark) \in Seq(Cells)
    BY <1>0, AppendProperties
  <2> QED
    BY <2>1, ConcatProperties, Zenon
<1>2. PICK into : into = [p \in (1..n) \X Seq(Cells) |->
                            IF p[1] = 1 THEN fs[p[1]] ELSE Append(p[2], Mark) \o fs[p[1]]]
  OBVIOUS
<1>3. Passes(into, n, Seq(Cells))
  <2>1. ASSUME NEW p \in (1..n) \X Seq(Cells)
        PROVE  (IF p[1] = 1 THEN fs[p[1]] ELSE Append(p[2], Mark) \o fs[p[1]]) \in Seq(Cells)
    <3>1. p[2] \in Seq(Cells) /\ fs[p[1]] \in Seq(Cells)
      BY <1>1
    <3>2. Append(p[2], Mark) \o fs[p[1]] \in Seq(Cells)
      BY <1>m, <3>1
    <3> QED
      BY <3>1, <3>2
  <2> QED
    BY <1>2, <2>1 DEF Passes
<1>4. PICK g \in [0..n -> Seq(Cells)] : \A i \in 1..n : g[i] = into[<<i, g[i - 1]>>]
  <2>1. \E g : Stages(g, n, Seq(Cells), <<>>, into)
    BY <1>0, <1>1, <1>3, InTurn
  <2> QED
    BY <2>1 DEF Stages
<1>5. ASSUME NEW i \in 1..n
      PROVE  g[i] = IF i = 1 THEN fs[i] ELSE Append(g[i - 1], Mark) \o fs[i]
  <2>1. i - 1 \in 0..n
    BY <1>1
  <2>2. g[i - 1] \in Seq(Cells)
    BY <2>1
  <2> QED
    BY <1>2, <1>4, <2>2
<1>6. PICK h : h = [i \in 1..n |-> g[i]]
  OBVIOUS
<1>7. h = Laying(h)
  <2>1. ASSUME NEW i \in 1..n PROVE g[i] = IF i = 1 THEN fs[1] ELSE Append(h[i - 1], Mark) \o fs[i]
    <3>1. CASE i = 1
      BY <1>5, <3>1
    <3>2. CASE i # 1
      <4>1. i - 1 \in 1..n
        BY <1>1, <3>2
      <4>2. h[i - 1] = g[i - 1]
        BY <1>6, <4>1
      <4> QED
        BY <1>5, <3>2, <4>2
    <3> QED
      BY <3>1, <3>2
  <2> QED
    BY <1>1, <1>6, <2>1
<1> DEFINE flat == CHOOSE f : f = Laying(f)
<1>8. flat = Laying(flat)
  <2> HIDE DEF Laying
  <2> QED
    BY <1>7
<1>9. LaidBy(fs) = flat
  BY DEF LaidBy
<1> HIDE DEF flat
<1>10. ASSUME NEW i \in 1..n
       PROVE  flat[i] = IF i = 1 THEN fs[i] ELSE Append(flat[i - 1], Mark) \o fs[i]
  BY <1>1, <1>8
<1> HIDE DEF Laying
<1> DEFINE U == {i \in 1..n : flat[i] \notin Seq(Cells)}
<1>11. U = {}
  <2> SUFFICES ASSUME U # {} PROVE FALSE
    OBVIOUS
  <2>1. PICK k \in U : \A m \in U : k <= m
    <3>1. U \in SUBSET Nat
      OBVIOUS
    <3> HIDE DEF U
    <3> QED
      BY <3>1, LeastNumber
  <2>2. CASE k = 1
    BY <1>1, <1>10, <2>1, <2>2
  <2>3. CASE k # 1
    <3>1. k \in 1..n /\ k - 1 \in 1..n /\ ~(k <= k - 1)
      BY <1>1, <2>1, <2>3
    <3>2. flat[k - 1] \in Seq(Cells)
      BY <2>1, <3>1
    <3>3. Append(flat[k - 1], Mark) \o fs[k] \in Seq(Cells)
      BY <1>1, <1>m, <3>1, <3>2
    <3> QED
      BY <1>10, <2>1, <2>3, <3>1, <3>3
  <2> QED
    BY <2>2, <2>3
<1>12. \A i \in 1..n : flat[i] \in Seq(Cells)
  BY <1>11
<1> QED
  BY <1>9, <1>10, <1>12

\* It depends on nothing that lies behind.
LEMMA LaidAlike ==
  ASSUME NEW fs \in Seq(Seq(Cells)), NEW gs \in Seq(Seq(Cells)), Len(fs) <= Len(gs),
         \A i \in 1..Len(fs) : fs[i] = gs[i]
  PROVE  \A i \in 1..Len(fs) : LaidBy(fs)[i] = LaidBy(gs)[i]
<1>1. Len(fs) \in Nat /\ Len(gs) \in Nat
  OBVIOUS
<1>2. ASSUME NEW i \in 1..Len(fs)
      PROVE  /\ i \in 1..Len(gs) /\ fs[i] = gs[i]
             /\ i = 1 => LaidBy(fs)[i] = LaidBy(gs)[i]
             /\ i # 1 => /\ LaidBy(fs)[i] = Append(LaidBy(fs)[i - 1], Mark) \o fs[i]
                         /\ LaidBy(gs)[i] = Append(LaidBy(gs)[i - 1], Mark) \o gs[i]
  <2>1. i \in 1..Len(gs) /\ fs[i] = gs[i]
    BY <1>1
  <2>2. /\ i = 1 => LaidBy(fs)[i] = fs[i]
        /\ i # 1 => LaidBy(fs)[i] = Append(LaidBy(fs)[i - 1], Mark) \o fs[i]
    BY LaidInTurn
  <2>3. /\ i = 1 => LaidBy(gs)[i] = gs[i]
        /\ i # 1 => LaidBy(gs)[i] = Append(LaidBy(gs)[i - 1], Mark) \o gs[i]
    BY <2>1, LaidInTurn
  <2> QED
    BY <2>1, <2>2, <2>3
<1> DEFINE U == {i \in 1..Len(fs) : LaidBy(fs)[i] # LaidBy(gs)[i]}
<1>3. U = {}
  <2> SUFFICES ASSUME U # {} PROVE FALSE
    OBVIOUS
  <2>1. PICK k \in U : \A m \in U : k <= m
    <3>1. U \in SUBSET Nat
      OBVIOUS
    <3> HIDE DEF U
    <3> QED
      BY <3>1, LeastNumber
  <2>2. k # 1
    BY <1>2, <2>1
  <2>3. k \in 1..Len(fs) /\ k - 1 \in 1..Len(fs) /\ ~(k <= k - 1)
    BY <1>1, <2>1, <2>2
  <2>4. LaidBy(fs)[k - 1] = LaidBy(gs)[k - 1]
    BY <2>1, <2>3
  <2> QED
    BY <1>2, <2>1, <2>2, <2>3, <2>4
<1> QED
  BY <1>3

\* A frame more lies behind the others and a mark.
LEMMA LaidOn ==
  ASSUME NEW fs \in Seq(Seq(Cells)), NEW f \in Seq(Cells)
  PROVE  /\ Base(fs) \in Seq(Cells)
         /\ Laid(Append(fs, f)) = Base(fs) \o f
         /\ fs # <<>> => Laid(fs) \in Seq(Cells)
<1>1. PICK gs : gs = Append(fs, f)
  OBVIOUS
<1>2. /\ gs \in Seq(Seq(Cells)) /\ Len(gs) = Len(fs) + 1 /\ gs[Len(fs) + 1] = f
      /\ \A i \in 1..Len(fs) : gs[i] = fs[i]
  BY <1>1, AppendProperties
<1>3. Len(fs) \in Nat /\ Mark \in Cells
  BY MarksApart
<1>4. CASE fs = <<>>
  <2>1. Len(fs) = 0 /\ Base(fs) = <<>> /\ <<>> \in Seq(Cells)
    BY <1>4 DEF Base
  <2>2. Len(gs) = 1 /\ gs[1] = f
    BY <1>2, <2>1
  <2>3. Laid(gs) = f
    <3>1. 1 \in 1..Len(gs)
      BY <2>2
    <3>2. LaidBy(gs)[1] = gs[1]
      BY <1>2, <3>1, LaidInTurn
    <3> QED
      BY <2>2, <3>2 DEF Laid
  <2>4. <<>> \o f = f
    BY ConcatEmptySeq, Zenon
  <2> QED
    BY <1>1, <1>4, <2>1, <2>3, <2>4
<1>5. CASE fs # <<>>
  <2>1. PICK k \in Nat \ {0} : k = Len(fs)
    BY <1>5, EmptySeq
  <2>2. k \in 1..Len(fs) /\ k + 1 \in 1..Len(gs) /\ k + 1 # 1 /\ (k + 1) - 1 = k
    BY <1>2, <2>1
  <2>3. LaidBy(fs)[k] \in Seq(Cells)
    BY <2>2, LaidInTurn
  <2>4. LaidBy(gs)[k + 1] = Append(LaidBy(gs)[k], Mark) \o gs[k + 1]
    BY <1>2, <2>2, LaidInTurn
  <2>5. LaidBy(fs)[k] = LaidBy(gs)[k]
    <3>1. Len(fs) <= Len(gs) /\ \A i \in 1..Len(fs) : fs[i] = gs[i]
      BY <1>2, <1>3
    <3> QED
      BY <1>2, <2>2, <3>1, LaidAlike
  <2>6. Laid(gs) = Append(Laid(fs), Mark) \o f
    BY <1>2, <2>1, <2>4, <2>5 DEF Laid
  <2>7. Laid(fs) \in Seq(Cells)
    BY <2>1, <2>3 DEF Laid
  <2>8. Append(Laid(fs), Mark) \in Seq(Cells)
    BY <1>3, <2>7, AppendProperties
  <2> QED
    BY <1>1, <1>5, <2>6, <2>7, <2>8 DEF Base
<1> QED
  BY <1>4, <1>5

\* The frames of a state: the innermost, and those around it.
LEMMA Framed ==
  ASSUME NEW fs \in Seq(Seq(Passive)), fs # <<>>
  PROVE  \E o \in Seq(Seq(Passive)), h \in Seq(Passive) :
           /\ fs = Append(o, h) /\ Front(fs) = o /\ Last(fs) = h
           /\ Len(fs) > 1 <=> o # <<>>
<1>1. PICK o \in Seq(Seq(Passive)), h \in Seq(Passive) : fs = Append(o, h)
  BY SequenceEmptyOrAppend
<1>2. /\ Len(fs) = Len(o) + 1 /\ fs[Len(o) + 1] = h
      /\ \A i \in 1..Len(o) : fs[i] = o[i]
  BY <1>1, AppendProperties
<1>3. Len(o) \in Nat
  OBVIOUS
<1>4. Len(fs) - 1 = Len(o) /\ Last(fs) = h
  BY <1>2, <1>3 DEF Last
<1>5. PICK r : r = SubSeq(fs, 1, Len(o))
  OBVIOUS
<1>6. r \in Seq(Seq(Passive)) /\ Len(r) = Len(o) /\ \A i \in 1..Len(o) : r[i] = fs[i]
  BY <1>2, <1>3, <1>5
<1>7. r = o
  BY <1>2, <1>6, SeqEqual
<1>8. Front(fs) = o
  BY <1>4, <1>5, <1>7 DEF Front
<1>9. o = <<>> <=> Len(o) = 0
  OBVIOUS
<1> QED
  BY <1>1, <1>2, <1>3, <1>4, <1>8, <1>9

\* A value more in the innermost frame.
LEMMA LaidMore ==
  ASSUME NEW o \in Seq(Seq(Passive)), NEW h \in Seq(Passive), NEW v \in Passive
  PROVE  /\ Append(o, Append(h, v)) \in Seq(Seq(Passive)) /\ Append(o, Append(h, v)) # <<>>
         /\ Append(Laid(Append(o, h)), v) = Laid(Append(o, Append(h, v)))
<1>1. PICK i : i = Append(h, v)
  OBVIOUS
<1>2. i \in Seq(Passive)
  BY <1>1, AppendProperties
<1>3. o \in Seq(Seq(Cells)) /\ h \in Seq(Cells) /\ i \in Seq(Cells) /\ v \in Cells
  BY <1>2, MarksApart, SeqMonotonic
<1>4. Laid(Append(o, h)) = Base(o) \o h /\ Laid(Append(o, i)) = Base(o) \o i /\ Base(o) \in Seq(Cells)
  BY <1>3, LaidOn
<1>5. Append(Base(o) \o h, v) = Base(o) \o i
  <2>1. PICK b \in Seq(Cells) : b = Base(o)
    BY <1>4
  <2>2. Behind(b, h, v)
    <3>1. h \in Seq(Cells) /\ v \in Cells
      BY <1>3
    <3> QED
      BY <2>1, <3>1, Concats
  <2> QED
    BY <1>1, <2>1, <2>2, Zenon DEF Behind
<1>6. Append(o, i) \in Seq(Seq(Passive)) /\ Append(o, i) # <<>>
  BY <1>2, AppendProperties
<1> QED
  BY <1>1, <1>4, <1>5, <1>6

\* A frame more.
LEMMA LaidFrame ==
  ASSUME NEW fs \in Seq(Seq(Passive)), fs # <<>>
  PROVE  /\ Append(fs, <<>>) \in Seq(Seq(Passive)) /\ Append(fs, <<>>) # <<>>
         /\ Append(Laid(fs), Mark) = Laid(Append(fs, <<>>))
<1>1. <<>> \in Seq(Passive) /\ <<>> \in Seq(Cells) /\ fs \in Seq(Seq(Cells))
  BY MarksApart, SeqMonotonic
<1>2. Laid(Append(fs, <<>>)) = Base(fs) \o <<>> /\ Base(fs) \in Seq(Cells)
  BY <1>1, LaidOn
<1>3. Base(fs) \o <<>> = Base(fs)
  BY <1>2, ConcatEmptySeq, Zenon
<1>4. Append(fs, <<>>) \in Seq(Seq(Passive)) /\ Append(fs, <<>>) # <<>>
  BY <1>1, AppendProperties
<1> QED
  BY <1>2, <1>3, <1>4 DEF Base

\* Fewer values in it.
LEMMA LaidLess ==
  ASSUME NEW o \in Seq(Seq(Passive)), NEW h \in Seq(Passive), NEW n \in 1..Len(h), NEW i,
         i = SubSeq(h, 1, Len(h) - n)
  PROVE  /\ i \in Seq(Passive) /\ Append(o, i) \in Seq(Seq(Passive)) /\ Append(o, i) # <<>>
         /\ Popped(Laid(Append(o, h)), n) = Laid(Append(o, i))
<1>1. o \in Seq(Seq(Cells)) /\ h \in Seq(Cells)
  BY MarksApart, SeqMonotonic
<1>2. Laid(Append(o, h)) = Base(o) \o h /\ Base(o) \in Seq(Cells)
  BY <1>1, LaidOn
<1>3. Popped(Base(o) \o h, n) = Base(o) \o i /\ \A T : h \in Seq(T) => i \in Seq(T)
  BY <1>1, <1>2, PoppedOff
<1>4. i \in Seq(Passive) /\ i \in Seq(Cells)
  BY <1>1, <1>3
<1>5. Laid(Append(o, i)) = Base(o) \o i
  BY <1>1, <1>4, LaidOn
<1>6. Append(o, i) \in Seq(Seq(Passive)) /\ Append(o, i) # <<>>
  <2>1. i \in Seq(Passive)
    BY <1>4
  <2> QED
    BY <2>1, AppendProperties, Zenon
<1> QED
  BY <1>2, <1>3, <1>4, <1>5, <1>6

\* The innermost frame gone, with the mark before it.
LEMMA LaidOut ==
  ASSUME NEW o \in Seq(Seq(Passive)), NEW h \in Seq(Passive), o # <<>>
  PROVE  /\ ThroughMark(Laid(Append(o, h))) = Laid(o)
         /\ h = <<>> => Popped(Laid(Append(o, h)), 1) = Laid(o)
<1>1. o \in Seq(Seq(Cells)) /\ h \in Seq(Cells)
  BY MarksApart, SeqMonotonic
<1>2. Laid(Append(o, h)) = Append(Laid(o), Mark) \o h /\ Laid(o) \in Seq(Cells)
  BY <1>1, LaidOn DEF Base
<1>3. PICK l : l = Laid(o)
  OBVIOUS
<1>4. ThroughMark(Append(l, Mark) \o h) = l
  BY <1>2, <1>3, ThroughLastMark
<1>5. ASSUME h = <<>> PROVE Popped(Append(l, Mark) \o h, 1) = l
  <2>1. Mark \in Cells /\ l \in Seq(Cells)
    BY <1>2, <1>3, MarksApart
  <2>2. Append(l, Mark) \in Seq(Cells) /\ Append(l, Mark) = l \o <<Mark>>
    BY <2>1, AppendProperties, AppendIsConcat, Zenon
  <2>3. Append(l, Mark) \o h = l \o <<Mark>>
    BY <1>5, <2>2, ConcatEmptySeq, Zenon
  <2>4. <<Mark>> \in Seq(Cells) /\ Len(<<Mark>>) = 1
    BY <2>1, Singly
  <2>5. 1 \in 1..Len(<<Mark>>) /\ Len(<<Mark>>) - 1 = 0
    BY <2>4
  <2>6. Popped(l \o <<Mark>>, 1) = l \o SubSeq(<<Mark>>, 1, 0)
    <3>1. PICK m : m = <<Mark>>
      OBVIOUS
    <3>2. m \in Seq(Cells) /\ 1 \in 1..Len(m) /\ Len(m) - 1 = 0
      BY <2>4, <2>5, <3>1
    <3>3. Popped(l \o m, 1) = l \o SubSeq(m, 1, Len(m) - 1)
      BY <2>1, <3>2, PoppedOff, Zenon
    <3> QED
      BY <3>1, <3>2, <3>3
  <2>7. SubSeq(<<Mark>>, 1, 0) = <<>>
    OBVIOUS
  <2>8. l \o <<>> = l
    BY <2>1, ConcatEmptySeq, Zenon
  <2> QED
    BY <2>3, <2>6, <2>7, <2>8
<1> QED
  BY <1>2, <1>3, <1>4, <1>5

PickleInv ==
  /\ offset \in Nat /\ protocol \in Nat
  /\ streamsLeft \in Nat /\ (scanning # "ended" => streamsLeft # 0)
  /\ frames \in Seq(Seq(Passive)) /\ frames # <<>>
  /\ \A i \in DOMAIN pyMemo : pyMemo[i] \in Passive
  /\ alive /\ scanning # "header" => protocol = pyProtocol
  /\ alive => admitted \in Nat
  /\ GlobalsAsImported

\* What the values of an opcode are.
LEMMA OpcodeShape ==
  ASSUME NEW o \in Pickles
  PROVE  /\ o.op = "proto" => o.to \in Nat
         /\ o.op \in {"text", "unread"} => o.text \in Text
         /\ o.op = "text" => o.line \in BOOLEAN
         /\ o.op \in {"global", "inst"} => o.module \in Text /\ o.attr \in Text
         /\ o.op \in {"drop", "replace"} => o.count \in Nat \ {0}
<1>1. o \in Opcode
  BY PickleAssumption
<1> QED
  BY <1>1 DEF Opcode

\* What the scan leaves alone.
LEMMA ScanLeaves ==
  ASSUME NEW o, Scan(o)
  PROVE  /\ offset' = offset + 1 /\ named \subseteq named' /\ scanning # "ended"
         /\ scanning = "header" => o.op = "proto"
         /\ o.op \notin {"put", "memoize", "stop"} => memo' = memo
         /\ o.op \notin {"global", "inst", "stackglobal"} => named' = named
         /\ o.op # "proto" => protocol' = protocol
         /\ o.op = "proto" => o.to > 5 \/ protocol' = o.to
         /\ o.op # "stop" => streamsLeft' = streamsLeft /\ scanning' # "header"
<1>1. CASE Proto(o) \/ BadProto(o)
  BY <1>1 DEF Proto, BadProto, Applies, Decodes, machine
<1>2. CASE GlobalOpcode(o) \/ Inst(o)
  BY <1>2 DEF GlobalOpcode, Inst, Applies, Decodes, Beside, Record
<1>3. ASSUME NEW name, NEW s, ToStack(o, name, s)
      PROVE  /\ offset' = offset + 1 /\ named' = named /\ scanning # "ended"
             /\ scanning = "header" => o.op = "proto"
             /\ memo' = memo /\ protocol' = protocol /\ streamsLeft' = streamsLeft
             /\ scanning' = "opcode" /\ o.op = name
  BY <1>3 DEF ToStack, Applies, Decodes, Beside
<1>4. CASE \/ PushText(o) \/ PushUnread(o) \/ Persid(o) \/ PushMark(o) \/ Push(o) \/ Pop(o) \/ PopMark(o) \/ Dup(o)
           \/ Collect(o) \/ Batch(o) \/ Drop(o) \/ Replace(o) \/ NoEffect(o) \/ Get(o)
           \/ StackGlobalUnknown(o)
  <2>1. \E name, s : ToStack(o, name, s) /\ name # "proto" /\ name # "stop"
    BY <1>4, Zenon DEF PushText, PushUnread, Persid, PushMark, Push, Pop, PopMark, Dup, Collect, Batch, Drop, Replace,
                       NoEffect, Get, StackGlobalUnknown
  <2> QED
    BY <1>3, <2>1
<1>5. CASE Put(o) \/ Memoize(o)
  BY <1>5 DEF Put, Memoize, Applies, Decodes
<1>6. CASE StackGlobal(o)
  BY <1>6 DEF StackGlobal, Applies, Decodes, Record
<1>7. CASE Stop(o)
  BY <1>7 DEF Stop, Decodes
<1> QED
  BY <1>1, <1>2, <1>4, <1>5, <1>6, <1>7 DEF Scan

\* The operands are those the unpickler takes.
LEMMA OperandsAgree ==
  ASSUME PickleInv, alive, Len(Here) >= 2
  PROVE  /\ Operands # <<>> /\ Operands[1] = Here[Len(Here) - 1] /\ Operands[2] = Last(Here)
         /\ Here[Len(Here) - 1] \in Passive /\ Last(Here) \in Passive
<1>1. /\ frames \in Seq(Seq(Passive)) /\ frames # <<>> /\ stack = Laid(frames)
  BY DEF PickleInv, GlobalsAsImported, StacksAgree, Flat, Laid, LaidBy
<1>2. PICK u \in Seq(Seq(Passive)), h \in Seq(Passive) : frames = Append(u, h) /\ Here = h
  BY <1>1, Framed DEF Here
<1>3. Len(h) >= 2 /\ Len(h) \in Nat
  BY <1>2
<1>4. u \in Seq(Seq(Cells)) /\ h \in Seq(Cells) /\ h # <<>>
  BY <1>2, <1>3, MarksApart, SeqMonotonic
<1>5. PICK b \in Seq(Cells) : stack = b \o h
  BY <1>1, <1>2, <1>4, LaidOn
<1>6. PICK w : w = stack
  OBVIOUS
<1>7. w[Len(w) - 1] = h[Len(h) - 1] /\ Len(w) >= Len(h) /\ Last(w) = Last(h)
  BY <1>3, <1>4, <1>5, <1>6, OnTopOf
<1>8. Len(w) \in Nat
  BY <1>4, <1>5, <1>6, ConcatProperties, LenProperties
<1>9. ~(Len(w) < 2)
  BY <1>3, <1>7, <1>8
<1>10. Operands = <<h[Len(h) - 1], Last(h)>>
  BY <1>6, <1>7, <1>9 DEF Operands, Last
<1>11. Operands # <<>> /\ Operands[1] = h[Len(h) - 1] /\ Operands[2] = Last(h)
  BY <1>10
<1>12. Len(h) - 1 \in 1..Len(h) /\ Len(h) \in 1..Len(h)
  BY <1>3
<1>13. h[Len(h) - 1] \in Passive /\ Last(h) \in Passive
  BY <1>2, <1>12, ElementOfSeq DEF Last
<1> QED
  BY <1>2, <1>11, <1>13

\* The stacks agree, whatever the opcode that does not raise.
LEMMA StackFollows ==
  ASSUME PickleInv, alive, NEW o \in Pickles, Scan(o), Loads(o), ~(o.op = "stop" /\ streamsLeft > 1)
  PROVE  /\ FramesAfter(o) \in Seq(Seq(Passive)) /\ FramesAfter(o) # <<>>
         /\ stack' = Laid(FramesAfter(o))
<1> DEFINE Reaches(fs) ==
             /\ fs \in Seq(Seq(Passive)) /\ fs # <<>> /\ stack' = Laid(fs)
<1>1. /\ frames \in Seq(Seq(Passive)) /\ frames # <<>>
      /\ \A i \in DOMAIN memo : memo[i] \in Passive
      /\ stack = Laid(frames) /\ memo = pyMemo /\ offset \in Nat
  BY DEF PickleInv, GlobalsAsImported, StacksAgree, Flat, Laid, LaidBy
<1>2. PICK u \in Seq(Seq(Passive)), h \in Seq(Passive) :
        frames = Append(u, h) /\ Outer = u /\ Here = h /\ (Len(frames) > 1 <=> u # <<>>)
  BY <1>1, Framed DEF Outer, Here
<1>3. PICK w : w = stack
  OBVIOUS
<1>4. w = Laid(Append(u, h))
  BY <1>1, <1>2, <1>3
<1>5. ASSUME NEW v \in Passive, stack' = Append(w, v) PROVE Reaches(Append(u, Append(h, v)))
  BY <1>2, <1>4, <1>5, LaidMore
<1>6. ASSUME h # <<>> PROVE w # <<>> /\ Last(w) = Last(h) /\ Last(h) \in Passive
  <2>1. u \in Seq(Seq(Cells)) /\ h \in Seq(Cells)
    BY <1>2, MarksApart, SeqMonotonic
  <2>2. PICK b \in Seq(Cells) : w = b \o h
    BY <1>4, <2>1, LaidOn
  <2> QED
    BY <1>2, <1>6, <2>1, <2>2, OnTopOf
<1>8. ASSUME NEW n \in 1..Len(h)
      PROVE  /\ stack' = Popped(w, n) => Reaches(Append(u, Keep(n)))
             /\ \A v \in Passive : stack' = Append(Popped(w, n), v) => Reaches(Append(u, Append(Keep(n), v)))
  <2>1. PICK i : i = SubSeq(h, 1, Len(h) - n)
    OBVIOUS
  <2>2. Keep(n) = i
    BY <1>2, <2>1 DEF Keep
  <2>3. /\ i \in Seq(Passive) /\ Append(u, i) \in Seq(Seq(Passive)) /\ Append(u, i) # <<>>
        /\ Popped(w, n) = Laid(Append(u, i))
    BY <1>2, <1>4, <2>1, LaidLess
  <2>4. ASSUME NEW v \in Passive
        PROVE  /\ Append(u, Append(i, v)) \in Seq(Seq(Passive)) /\ Append(u, Append(i, v)) # <<>>
               /\ Append(Laid(Append(u, i)), v) = Laid(Append(u, Append(i, v)))
    BY <1>2, <2>3, LaidMore
  <2> QED
    BY <2>2, <2>3, <2>4
<1>9. ASSUME u # <<>>
      PROVE  /\ stack' = ThroughMark(w) => Reaches(u)
             /\ stack' = Append(ThroughMark(w), Other) => Reaches(Append(Front(u), Append(Last(u), Other)))
             /\ h = <<>> /\ stack' = Popped(w, 1) => Reaches(u)
  <2>1. ThroughMark(w) = Laid(u) /\ (h = <<>> => Popped(w, 1) = Laid(u))
    BY <1>2, <1>4, <1>9, LaidOut
  <2>2. PICK p \in Seq(Seq(Passive)), k \in Seq(Passive) : u = Append(p, k) /\ Front(u) = p /\ Last(u) = k
    BY <1>2, <1>9, Framed
  <2>3. /\ Append(p, Append(k, Other)) \in Seq(Seq(Passive)) /\ Append(p, Append(k, Other)) # <<>>
        /\ Append(Laid(Append(p, k)), Other) = Laid(Append(p, Append(k, Other)))
    BY <2>2, MarksApart, LaidMore
  <2> QED
    BY <1>2, <1>9, <2>1, <2>2, <2>3
<1>10. stack' = w => Reaches(frames)
  BY <1>1, <1>3
<1>11. stack' = Append(w, Mark) => Reaches(Append(frames, <<>>))
  BY <1>1, <1>3, LaidFrame
<1>12. Other \in Passive /\ \A m, a \in Text : Global(m, a) \in Passive
  BY DEF Other, Global, Passive
<1>13. \A t \in Text : Unread(t) \in Passive /\ \A l \in BOOLEAN : Operand(t, l) \in Passive
  BY <1>1 DEF Operand, Unread, Passive
<1> HIDE DEF Reaches
<1>a. CASE Proto(o) \/ BadProto(o)
  <2>1. stack' = w /\ o.op = "proto"
    BY <1>3, <1>a DEF Proto, BadProto, Applies, Decodes, machine
  <2> QED
    BY <1>10, <2>1 DEF FramesAfter, Reaches
<1>b. CASE GlobalOpcode(o)
  <2>1. stack' = Append(w, Global(o.module, o.attr)) /\ o.op = "global"
    BY <1>3, <1>b DEF GlobalOpcode, Applies, Decodes
  <2>2. Reaches(Append(u, Append(h, Global(o.module, o.attr))))
    BY <1>5, <1>12, <2>1, OpcodeShape
  <2> QED
    BY <1>2, <2>1, <2>2 DEF FramesAfter, Reaches
<1>c. CASE Inst(o)
  <2>1. stack' = Append(ThroughMark(w), Other) /\ o.op = "inst"
    BY <1>3, <1>c DEF Inst, Applies, Decodes
  <2>2. u # <<>>
    BY <1>2, <2>1 DEF Loads
  <2> QED
    BY <1>2, <1>9, <2>1, <2>2 DEF FramesAfter, Reaches
<1>d. CASE PushText(o)
  <2>1. stack' = Append(w, Operand(o.text, o.line)) /\ o.op = "text"
    BY <1>3, <1>d DEF PushText, ToStack, Applies, Decodes
  <2>2. Reaches(Append(u, Append(h, Operand(o.text, o.line))))
    BY <1>5, <1>13, <2>1, OpcodeShape
  <2> QED
    BY <1>2, <2>1, <2>2 DEF FramesAfter, Reaches
<1>t. CASE PushUnread(o)
  <2>1. stack' = Append(w, Unread(o.text)) /\ o.op = "unread"
    BY <1>3, <1>t DEF PushUnread, ToStack, Applies, Decodes
  <2>2. Reaches(Append(u, Append(h, Unread(o.text))))
    BY <1>5, <1>13, <2>1, OpcodeShape
  <2> QED
    BY <1>2, <2>1, <2>2 DEF FramesAfter, Reaches
<1>v. CASE Persid(o)
  BY <1>v DEF Persid, ToStack, Applies, Decodes, Loads
<1>e. CASE PushMark(o)
  <2>1. stack' = Append(w, Mark) /\ o.op = "mark"
    BY <1>3, <1>e DEF PushMark, ToStack, Applies, Decodes
  <2> QED
    BY <1>11, <2>1 DEF FramesAfter, Frame0, Reaches
<1>f. CASE Push(o)
  <2>1. stack' = Append(w, Other) /\ o.op = "push"
    BY <1>3, <1>f DEF Push, ToStack, Applies, Decodes
  <2> QED
    BY <1>2, <1>5, <1>12, <2>1 DEF FramesAfter, Reaches
<1>g. CASE Pop(o)
  <2>1. stack' = Popped(w, 1) /\ o.op = "pop"
    BY <1>3, <1>g DEF Pop, ToStack, Applies, Decodes
  <2>2. CASE h = <<>>
    <3>1. u # <<>>
      BY <1>2, <2>1, <2>2 DEF Loads
    <3> QED
      BY <1>2, <1>9, <2>1, <2>2, <3>1 DEF FramesAfter, Reaches
  <2>3. CASE h # <<>>
    <3>1. 1 \in 1..Len(h)
      BY <1>2, <2>3
    <3> QED
      BY <1>2, <1>8, <2>1, <2>3, <3>1 DEF FramesAfter, Reaches
  <2> QED
    BY <2>2, <2>3
<1>h. CASE PopMark(o) \/ Batch(o)
  <2>1. stack' = ThroughMark(w) /\ o.op \in {"popmark", "batch"}
    BY <1>3, <1>h DEF PopMark, Batch, ToStack, Applies, Decodes
  <2>2. u # <<>>
    BY <1>2, <2>1 DEF Loads
  <2> QED
    BY <1>2, <1>9, <2>1, <2>2 DEF FramesAfter, Reaches
<1>i. CASE Dup(o)
  <2>1. stack' = (IF w = <<>> THEN w ELSE Append(w, Last(w))) /\ o.op = "dup"
    BY <1>3, <1>i DEF Dup, ToStack, Applies, Decodes
  <2>2. h # <<>>
    BY <1>2, <2>1 DEF Loads
  <2>3. stack' = Append(w, Last(h)) /\ Last(h) \in Passive
    BY <1>6, <2>1, <2>2
  <2> QED
    BY <1>2, <1>5, <2>1, <2>3 DEF FramesAfter, Reaches
<1>j. CASE Collect(o)
  <2>1. stack' = Append(ThroughMark(w), Other) /\ o.op = "collect"
    BY <1>3, <1>j DEF Collect, ToStack, Applies, Decodes
  <2>2. u # <<>>
    BY <1>2, <2>1 DEF Loads
  <2> QED
    BY <1>2, <1>9, <2>1, <2>2 DEF FramesAfter, Reaches
<1>k. CASE Drop(o)
  <2>1. stack' = Popped(w, o.count) /\ o.op = "drop"
    BY <1>3, <1>k DEF Drop, ToStack, Applies, Decodes
  <2>2. o.count \in 1..Len(h)
    <3>1. o.count \in Nat \ {0} /\ Len(h) > o.count /\ Len(h) \in Nat
      BY <1>2, <2>1, OpcodeShape DEF Loads
    <3> QED
      BY <3>1
  <2> QED
    BY <1>2, <1>8, <2>1, <2>2 DEF FramesAfter, Reaches
<1>l. CASE Replace(o)
  <2>1. stack' = Append(Popped(w, o.count), Other) /\ o.op = "replace"
    BY <1>3, <1>l DEF Replace, ToStack, Applies, Decodes
  <2>2. o.count \in 1..Len(h)
    <3>1. o.count \in Nat \ {0} /\ Len(h) >= o.count /\ Len(h) \in Nat
      BY <1>2, <2>1, OpcodeShape DEF Loads
    <3> QED
      BY <3>1
  <2> QED
    BY <1>2, <1>8, <1>12, <2>1, <2>2 DEF FramesAfter, Reaches
<1>m. CASE NoEffect(o)
  <2>1. stack' = w /\ o.op = "none"
    BY <1>3, <1>m DEF NoEffect, ToStack, Applies, Decodes
  <2> QED
    BY <1>10, <2>1 DEF FramesAfter, Reaches
<1>n. CASE Get(o)
  <2>1. /\ stack' = Append(w, IF o.index \in DOMAIN memo THEN memo[o.index] ELSE Other)
        /\ o.op = "get"
    BY <1>3, <1>n DEF Get, ToStack, Applies, Decodes
  <2>2. o.index \in DOMAIN pyMemo
    BY <2>1 DEF Loads
  <2>3. stack' = Append(w, pyMemo[o.index]) /\ pyMemo[o.index] \in Passive
    BY <1>1, <2>1, <2>2
  <2> QED
    BY <1>2, <1>5, <2>1, <2>3 DEF FramesAfter, Reaches
<1>o. CASE Put(o) \/ Memoize(o)
  <2>1. stack' = w /\ o.op \in {"put", "memoize"}
    BY <1>3, <1>o DEF Put, Memoize, Applies, Decodes
  <2> QED
    BY <1>10, <2>1 DEF FramesAfter, Reaches
<1>p. ASSUME o.op = "stackglobal"
      PROVE  /\ 2 \in 1..Len(h) /\ Operands # <<>>
             /\ Operands[1] = h[Len(h) - 1] /\ Operands[2] = h[Len(h)]
             /\ h[Len(h) - 1] \in Passive /\ h[Len(h)] \in Passive
  <2>1. Len(h) >= 2 /\ Len(h) \in Nat
    BY <1>2, <1>p DEF Loads
  <2>2. 2 \in 1..Len(h)
    BY <2>1
  <2> QED
    BY <1>2, <2>1, <2>2, OperandsAgree DEF Last
<1>q. CASE StackGlobal(o)
  <2>1. /\ stack' = Append(Popped(w, 2), Global(Operands[1].text, Operands[2].text))
        /\ o.op = "stackglobal" /\ Resolves
    BY <1>3, <1>q DEF StackGlobal, Applies, Decodes
  <2>2. h[Len(h) - 1].kind = "text" /\ h[Len(h)].kind = "text"
    BY <1>p, <2>1 DEF Resolves, IsText
  <2>3. PICK g : g = Global(h[Len(h) - 1].text, h[Len(h)].text)
    OBVIOUS
  <2>4. g \in Passive
    <3>1. h[Len(h) - 1].text \in Text /\ h[Len(h)].text \in Text
      BY <1>p, <2>1, <2>2 DEF Passive
    <3> QED
      BY <1>12, <2>3, <3>1
  <2>5. stack' = Append(Popped(w, 2), g)
    BY <1>p, <2>1, <2>3
  <2>6. Reaches(Append(u, Append(Keep(2), g)))
    BY <1>8, <1>p, <2>1, <2>4, <2>5
  <2> QED
    BY <1>2, <2>1, <2>2, <2>3, <2>6 DEF FramesAfter, Reaches, Last
<1>r. CASE StackGlobalUnknown(o)
  <2>1. /\ stack' = Append(Popped(w, 2), Other)
        /\ o.op = "stackglobal" /\ ~Resolves
    BY <1>3, <1>r DEF StackGlobalUnknown, ToStack, Applies, Decodes
  <2>2. ~(h[Len(h) - 1].kind = "text" /\ h[Len(h)].kind = "text")
    BY <1>p, <2>1 DEF Resolves, IsText
  <2>3. Reaches(Append(u, Append(Keep(2), Other)))
    BY <1>8, <1>12, <1>p, <2>1
  <2> QED
    BY <1>2, <2>1, <2>2, <2>3 DEF FramesAfter, Reaches, Last
<1>s. CASE Stop(o)
  <2>1. o.op = "stop" /\ scanning # "ended" /\ (streamsLeft = 1 => stack' = w)
    BY <1>3, <1>s DEF Stop, Decodes, machine
  <2>2. streamsLeft = 1
    BY <2>1 DEF PickleInv
  <2> QED
    BY <1>10, <2>1, <2>2 DEF FramesAfter, Reaches
<1> QED
  BY <1>a, <1>b, <1>c, <1>d, <1>e, <1>f, <1>g, <1>h, <1>i, <1>j, <1>k, <1>l, <1>m, <1>n, <1>o,
     <1>q, <1>r, <1>s, <1>t, <1>v DEF Scan

\* So do the memos.
LEMMA MemoFollows ==
  ASSUME PickleInv, alive, NEW o \in Pickles, Step(o), Loads(o), ~(o.op = "stop" /\ streamsLeft > 1)
  PROVE  memo' = pyMemo' /\ \A i \in DOMAIN pyMemo' : pyMemo'[i] \in Passive
<1>1. Scan(o) /\ Load(o) /\ memo = pyMemo /\ \A i \in DOMAIN pyMemo : pyMemo[i] \in Passive
  BY DEF Step, PickleInv, GlobalsAsImported, StacksAgree
<1>2. CASE o.op \in {"put", "memoize"}
  <2>1. /\ frames \in Seq(Seq(Passive)) /\ frames # <<>> /\ stack = Laid(frames)
    BY DEF PickleInv, GlobalsAsImported, StacksAgree, Flat, Laid, LaidBy
  <2>2. PICK u \in Seq(Seq(Passive)), h \in Seq(Passive) : frames = Append(u, h) /\ Here = h
    BY <2>1, Framed DEF Here
  <2>3. h # <<>>
    BY <1>2, <2>2 DEF Loads
  <2>4. stack # <<>> /\ Last(stack) = Last(Here) /\ Last(Here) \in Passive
    <3>1. u \in Seq(Seq(Cells)) /\ h \in Seq(Cells)
      BY <2>2, MarksApart, SeqMonotonic
    <3>2. PICK b \in Seq(Cells) : stack = b \o h
      BY <2>1, <2>2, <3>1, LaidOn
    <3> QED
      BY <2>2, <2>3, <3>1, <3>2, OnTopOf
  <2>5. PICK k : k = IF o.op = "put" THEN o.index ELSE Cardinality(DOMAIN pyMemo)
    OBVIOUS
  <2>6. memo' = [j \in DOMAIN pyMemo \cup {k} |-> IF j = k THEN Last(Here) ELSE pyMemo[j]]
    <3>1. CASE Put(o)
      BY <1>1, <2>4, <2>5, <3>1 DEF Put, Applies, Decodes, MemoPut
    <3>2. CASE Memoize(o)
      BY <1>1, <2>4, <2>5, <3>2 DEF Memoize, Applies, Decodes, MemoPut
    <3>3. Put(o) \/ Memoize(o)
      BY <1>1, <1>2 DEF Scan, Proto, BadProto, GlobalOpcode, Inst, PushText, PushUnread, Persid, PushMark, Push, Pop, PopMark,
         Dup, Collect, Batch, Drop, Replace, NoEffect, Get, StackGlobal, StackGlobalUnknown, Stop,
         ToStack, Applies, Decodes
    <3> QED
      BY <3>1, <3>2, <3>3
  <2>7. pyMemo' = [j \in DOMAIN pyMemo \cup {k} |-> IF j = k THEN Last(Here) ELSE pyMemo[j]]
    <3>1. alive /\ Loads(o) /\ ~(o.op = "stop" /\ streamsLeft > 1)
      OBVIOUS
    <3>2. CASE o.op = "put"
      BY <1>1, <2>5, <3>1, <3>2 DEF Load
    <3>3. CASE o.op = "memoize"
      BY <1>1, <2>5, <3>1, <3>3 DEF Load
    <3> QED
      BY <1>2, <3>2, <3>3
  <2>8. ASSUME NEW i \in DOMAIN pyMemo' PROVE pyMemo'[i] \in Passive
    <3>1. i = k \/ i \in DOMAIN pyMemo
      BY <2>7, <2>8
    <3>2. pyMemo'[i] = IF i = k THEN Last(Here) ELSE pyMemo[i]
      BY <2>7, <2>8
    <3> QED
      BY <1>1, <2>4, <3>1, <3>2
  <2> QED
    BY <2>6, <2>7, <2>8
<1>3. CASE o.op \notin {"put", "memoize"}
  <2>1. pyMemo' = pyMemo
    BY <1>1, <1>3 DEF Load
  <2>2. CASE o.op = "stop"
    <3>1. Stop(o)
      BY <1>1, <2>2 DEF Scan, Proto, BadProto, GlobalOpcode, Inst, PushText, PushUnread, Persid, PushMark, Push, Pop, PopMark,
         Dup, Collect, Batch, Drop, Replace, NoEffect, Get, Put, Memoize, StackGlobal, StackGlobalUnknown,
         ToStack, Applies, Decodes
    <3>2. streamsLeft = 1
      BY <1>1, <2>2, ScanLeaves DEF PickleInv
    <3>3. memo' = memo
      BY <3>1, <3>2 DEF Stop, machine
    <3> QED
      BY <1>1, <2>1, <3>3
  <2>3. CASE o.op # "stop"
    <3>1. memo' = memo
      BY <1>1, <1>3, <2>3, ScanLeaves
    <3> QED
      BY <1>1, <2>1, <3>1
  <2> QED
    BY <2>2, <2>3
<1> QED
  BY <1>2, <1>3

\* What the scan names is what the unpickler imports, where it takes the
\* operands of an opcode to be known and their pair to be new.
LEMMA NamesFollow ==
  ASSUME PickleInv, alive, NEW o \in Pickles, Scan(o), Loads(o)
  PROVE  \/ named' = named /\ (Imports(o) = {} \/ Excused(o))
         \/ /\ ~Excused(o)
            /\ \E g : Imports(o) = {g} /\ named' = IF Named(g) THEN named \cup {g} ELSE named
<1>1. /\ protocol \in Nat /\ scanning # "ended" /\ (scanning = "header" => o.op = "proto")
      /\ scanning # "header" => protocol = pyProtocol
  BY ScanLeaves DEF PickleInv
<1>2. ASSUME protocol = pyProtocol, NEW x, NEW y PROVE FindClass(x, y) = PyFindClass(x, y)
  BY <1>1, <1>2 DEF FindClass, PyFindClass
<1>3. CASE o.op \in {"global", "inst"}
  <2>1. GlobalOpcode(o) \/ Inst(o)
    BY <1>3 DEF Scan, Proto, BadProto, PushText, PushUnread, Persid, PushMark, Push, Pop, PopMark,
         Dup, Collect, Batch, Drop, Replace, NoEffect, Get, Put, Memoize, StackGlobal, StackGlobalUnknown,
         Stop, ToStack, Applies, Decodes
  <2>2. Record(o.module, o.attr)
    BY <2>1 DEF GlobalOpcode, Inst
  <2>3. protocol = pyProtocol
    BY <1>1, <1>3
  <2>4. PICK g : g = FindClass(o.module, o.attr)
    OBVIOUS
  <2>5. named' = IF Named(g) THEN named \cup {g} ELSE named
    BY <2>2, <2>4 DEF Record, Named
  <2>6. Imports(o) = {g}
    BY <1>2, <1>3, <2>3, <2>4 DEF Imports
  <2>7. ~Excused(o)
    BY <1>3 DEF Excused
  <2> QED
    BY <2>5, <2>6, <2>7
<1>4. CASE o.op = "stackglobal"
  <2>1. StackGlobal(o) \/ StackGlobalUnknown(o)
    BY <1>4 DEF Scan, Proto, BadProto, GlobalOpcode, Inst, PushText, PushUnread, Persid, PushMark, Push, Pop, PopMark,
         Dup, Collect, Batch, Drop, Replace, NoEffect, Get, Put, Memoize,
         Stop, ToStack, Applies, Decodes
  <2>2. PICK m : m = Here[Len(Here) - 1]
    OBVIOUS
  <2>3. PICK a : a = Last(Here)
    OBVIOUS
  <2>4. /\ Operands # <<>> /\ Operands[1] = m /\ Operands[2] = a
        /\ m \in Passive /\ a \in Passive
    BY <1>4, <2>2, <2>3, OperandsAgree DEF Loads
  <2>5. Imports(o) = IF Spells(m) /\ Spells(a) THEN {PyFindClass(Reads(m), Reads(a))} ELSE {}
    BY <1>4, <2>2, <2>3 DEF Imports
  <2>6. Resolves <=> m.kind = "text" /\ a.kind = "text"
    BY <2>4 DEF Resolves, IsText
  <2>7. CASE StackGlobalUnknown(o)
    <3>1. ~Resolves /\ named' = named
      BY <2>7 DEF StackGlobalUnknown, ToStack
    <3> QED
      BY <1>4, <2>4, <3>1 DEF Excused
  <2>8. CASE StackGlobal(o)
    <3>1. /\ Resolves
          /\ IF AdmitGlobal(m.text, a.text) THEN Record(m.text, a.text) ELSE named' = named
      BY <2>4, <2>8 DEF StackGlobal
    <3>2. Excused(o) <=> \/ Reads(m) # m.text \/ Reads(a) # a.text
                         \/ Pair \in resolved \/ AdmittedWith(m.text, a.text) > OperandCap
      BY <1>4, <2>4, <3>1 DEF Excused
    <3>t. m.text \in Text /\ a.text \in Text
      BY <2>4, <2>6, <3>1 DEF Passive
    <3>3. AdmittedWith(m.text, a.text) \in Nat /\ OperandCap \in Nat
      BY <3>t, PickleAssumption DEF AdmittedWith, PickleInv
    <3>4. PICK g : g = FindClass(m.text, a.text)
      OBVIOUS
    <3>5. AdmitGlobal(m.text, a.text) => named' = IF Named(g) THEN named \cup {g} ELSE named
      BY <3>1, <3>4 DEF Record, Named
    <3>6. CASE Reads(m) # m.text \/ Reads(a) # a.text
      <4>1. Decoded[m.text] # m.text \/ Decoded[a.text] # a.text
        BY <3>6 DEF Reads
      <4>2. g = <<m.text, a.text>> \/ (m.text \in DOMAIN ImportMapping /\ g = <<ImportMapping[m.text], a.text>>)
        BY <3>4, <3>t, <4>1, DecodedAssumption DEF FindClass
      <4>3. ~Named(g)
        BY <3>t, <4>1, <4>2, DecodedAssumption DEF Named
      <4> QED
        BY <3>1, <3>2, <3>5, <3>6, <4>3
    <3>7. CASE Reads(m) = m.text /\ Reads(a) = a.text /\ AdmitGlobal(m.text, a.text)
      <4>1. Pair \notin resolved /\ AdmittedWith(m.text, a.text) <= OperandCap
        BY <3>7 DEF AdmitGlobal
      <4>2. Imports(o) = {g}
        BY <1>1, <1>2, <1>4, <2>5, <2>6, <3>1, <3>4, <3>7 DEF Spells
      <4>3. ~Excused(o)
        BY <3>2, <3>3, <3>7, <4>1
      <4> QED
        BY <3>5, <3>7, <4>2, <4>3
    <3>8. CASE ~AdmitGlobal(m.text, a.text)
      BY <3>1, <3>2, <3>3, <3>8 DEF AdmitGlobal
    <3> QED
      BY <3>6, <3>7, <3>8
  <2> QED
    BY <2>1, <2>7, <2>8
<1>5. CASE o.op \notin {"global", "inst", "stackglobal"}
  <2>1. named' = named
    BY <1>5, ScanLeaves
  <2>2. Imports(o) = {}
    BY <1>5 DEF Imports
  <2> QED
    BY <2>1, <2>2
<1> QED
  BY <1>3, <1>4, <1>5

\* The bytes admitted stay a number.
LEMMA AdmittedTyped ==
  ASSUME PickleInv, alive, NEW o \in Pickles, Scan(o), Loads(o)
  PROVE  admitted' \in Nat
<1>1. admitted \in Nat
  BY DEF PickleInv
<1>2. CASE StackGlobal(o)
  <2>1. /\ o.op = "stackglobal" /\ Resolves
        /\ admitted' = AdmittedWith(Operands[1].text, Operands[2].text)
    BY <1>2 DEF StackGlobal, Applies, Decodes
  <2>2. Operands[1] \in Passive /\ Operands[2] \in Passive
    BY <2>1, OperandsAgree DEF Loads
  <2>3. Operands[1].text \in Text /\ Operands[2].text \in Text
    BY <2>1, <2>2 DEF Resolves, IsText, Passive
  <2> QED
    BY <1>1, <2>1, <2>3, PickleAssumption DEF AdmittedWith
<1>3. CASE Stop(o)
  BY <1>1, <1>3 DEF Stop, machine
<1>4. CASE ~StackGlobal(o) /\ ~Stop(o)
  <2>1. admitted' = admitted
    BY <1>4 DEF Scan, Proto, BadProto, GlobalOpcode, Inst, PushText, PushUnread, Persid, PushMark, Push, Pop, PopMark,
       Dup, Collect, Batch, Drop, Replace, NoEffect, Get, Put, Memoize, StackGlobalUnknown,
       ToStack, Applies, machine, Beside
  <2> QED
    BY <1>1, <2>1
<1> QED
  BY <1>2, <1>3, <1>4

\* An unpickler that starts has one frame, and nothing in it.
LEMMA NoFrames ==
  <<Frame0>> \in Seq(Seq(Passive)) /\ <<Frame0>> # <<>> /\ Laid(<<Frame0>>) = <<>>
<1>1. /\ <<>> \in Seq(Seq(Passive)) /\ <<>> \in Seq(Passive) /\ <<>> \in Seq(Cells)
      /\ <<>> \in Seq(Seq(Cells))
  OBVIOUS
<1>2. Append(<<>>, <<>>) = <<Frame0>>
  BY DEF Frame0
<1>3. <<Frame0>> \in Seq(Seq(Passive)) /\ Len(<<Frame0>>) = 1
  BY <1>1, Singly DEF Frame0
<1>4. Laid(Append(<<>>, <<>>)) = <<>> \o <<>>
  BY <1>1, LaidOn DEF Base
<1>5. <<>> \o <<>> = <<>>
  OBVIOUS
<1> QED
  BY <1>2, <1>3, <1>4, <1>5

\* The scan starts with nothing on either stack.
LEMMA PickleStart == PickleAndPython => PickleInv
<1> SUFFICES ASSUME PickleAndPython PROVE PickleInv
  OBVIOUS
<1> USE DEF PickleAndPython, PickleInit, LoadInit
<1>1. frames \in Seq(Seq(Passive)) /\ frames # <<>> /\ Laid(frames) = <<>>
  BY NoFrames
<1>2. StacksAgree
  BY <1>1 DEF StacksAgree, Flat, Laid, LaidBy
<1>3. GlobalsAsImported
  BY <1>2 DEF GlobalsAsImported
<1>4. offset \in Nat /\ protocol \in Nat /\ protocol = pyProtocol /\ admitted \in Nat
  OBVIOUS
<1>5. streamsLeft \in Nat /\ streamsLeft # 0
  BY PickleAssumption
<1>6. \A i \in DOMAIN pyMemo : pyMemo[i] \in Passive
  OBVIOUS
<1> QED
  BY <1>1, <1>3, <1>4, <1>5, <1>6 DEF PickleInv

\* An opcode of the scan and of the unpickler, or one that raises.
LEMMA PickleKeeps ==
  ASSUME PickleInv, NEW o \in Pickles, Step(o)
  PROVE  PickleInv'
<1>1. alive /\ Scan(o) /\ Load(o)
  BY DEF Step
<1>2. /\ offset' \in Nat /\ protocol' \in Nat /\ named \subseteq named'
      /\ streamsLeft' \in Nat /\ (scanning' # "ended" => streamsLeft' # 0)
  <2>1. offset' = offset + 1 /\ named \subseteq named' /\ scanning # "ended" /\ offset \in Nat
        /\ protocol \in Nat /\ streamsLeft \in Nat \ {0}
    BY <1>1, ScanLeaves DEF PickleInv
  <2>2. protocol' \in Nat
    <3>1. CASE Proto(o) \/ BadProto(o)
      <4>1. (protocol' = o.to \/ protocol' = protocol) /\ o.op = "proto"
        BY <3>1 DEF Proto, BadProto, Applies, Decodes
      <4> QED
        BY <2>1, <4>1, OpcodeShape
    <3>2. CASE ~Proto(o) /\ ~BadProto(o)
      <4>1. protocol' = protocol
        BY <1>1, <3>2 DEF Scan, GlobalOpcode, Inst, PushText, PushUnread, Persid, PushMark, Push, Pop, PopMark, Dup, Collect,
           Batch, Drop, Replace, NoEffect, Get, Put, Memoize, StackGlobal, StackGlobalUnknown, Stop, ToStack
      <4> QED
        BY <2>1, <4>1
    <3> QED
      BY <3>1, <3>2
  <2>3. CASE o.op = "stop"
    <3>1. Stop(o)
      BY <1>1, <2>3 DEF Scan, Proto, BadProto, GlobalOpcode, Inst, PushText, PushUnread, Persid, PushMark, Push, Pop, PopMark,
         Dup, Collect, Batch, Drop, Replace, NoEffect, Get, Put, Memoize, StackGlobal, StackGlobalUnknown,
         ToStack, Applies, Decodes
    <3>2. /\ streamsLeft' = streamsLeft - 1
          /\ scanning' = IF streamsLeft = 1 THEN "ended" ELSE "header"
      BY <3>1 DEF Stop
    <3>3. streamsLeft' \in Nat /\ (streamsLeft # 1 => streamsLeft' # 0)
      BY <2>1, <3>2
    <3> QED
      BY <2>1, <2>2, <3>2, <3>3
  <2>4. CASE o.op # "stop"
    BY <1>1, <2>1, <2>2, <2>4, ScanLeaves
  <2> QED
    BY <2>3, <2>4
<1>3. CASE ~Loads(o)
  <2>1. alive' = FALSE /\ UNCHANGED <<frames, pyMemo, pyProtocol, imported, excused>>
    BY <1>1, <1>3 DEF Load, Raise
  <2>2. {g \in imported' \ excused' : Named(g)} \subseteq named'
    BY <1>2, <2>1 DEF PickleInv, GlobalsAsImported
  <2>3. GlobalsAsImported'
    BY <2>1, <2>2 DEF GlobalsAsImported, StacksAgree, Named
  <2> QED
    BY <1>2, <2>1, <2>3 DEF PickleInv
<1>4. CASE Loads(o) /\ o.op = "stop" /\ streamsLeft > 1
  <2>1. Stop(o)
    BY <1>1, <1>4 DEF Scan, Proto, BadProto, GlobalOpcode, Inst, PushText, PushUnread, Persid, PushMark, Push, Pop, PopMark,
       Dup, Collect, Batch, Drop, Replace, NoEffect, Get, Put, Memoize, StackGlobal, StackGlobalUnknown,
       ToStack, Applies, Decodes
  <2>2. streamsLeft # 1
    BY <1>4 DEF PickleInv
  <2>3. stack' = <<>> /\ memo' = <<>> /\ admitted' = 0 /\ named' = named /\ scanning' = "header"
    BY <2>1, <2>2 DEF Stop
  <2>4. /\ frames' = <<Frame0>> /\ pyMemo' = <<>>
        /\ UNCHANGED <<imported, excused, alive>>
    BY <1>1, <1>4 DEF Load
  <2>5. frames' \in Seq(Seq(Passive)) /\ frames' # <<>> /\ Laid(frames') = <<>>
    BY <2>4, NoFrames
  <2>6. StacksAgree'
    BY <2>3, <2>4, <2>5 DEF StacksAgree, Flat, Laid, LaidBy
  <2>7. GlobalsAsImported'
    BY <2>3, <2>4, <2>6 DEF PickleInv, GlobalsAsImported, Named
  <2>8. \A i \in DOMAIN pyMemo' : pyMemo'[i] \in Passive
    BY <2>4
  <2>9. admitted' \in Nat /\ ~(scanning' # "header")
    BY <2>3
  <2> QED
    BY <1>2, <2>5, <2>7, <2>8, <2>9 DEF PickleInv
<1>5. CASE Loads(o) /\ ~(o.op = "stop" /\ streamsLeft > 1)
  <2>1. /\ frames' = FramesAfter(o) /\ imported' = imported \cup Imports(o)
        /\ excused' = (IF Excused(o) THEN excused \cup Imports(o) ELSE excused)
        /\ pyProtocol' = (IF o.op = "proto" THEN o.to ELSE pyProtocol) /\ alive' = alive
    BY <1>1, <1>5 DEF Load
  <2>2. frames' \in Seq(Seq(Passive)) /\ frames' # <<>> /\ stack' = Laid(frames')
    BY <1>1, <1>5, <2>1, StackFollows
  <2>3. memo' = pyMemo' /\ \A i \in DOMAIN pyMemo' : pyMemo'[i] \in Passive
    BY <1>1, <1>5, MemoFollows
  <2>4. StacksAgree'
    BY <2>2, <2>3 DEF StacksAgree, Flat, Laid, LaidBy
  <2>5. /\ {g \in imported \ excused : Named(g)} \subseteq named /\ named \subseteq imported
    BY <1>1 DEF PickleInv, GlobalsAsImported
  <2>6. {g \in imported' \ excused' : Named(g)} \subseteq named' /\ named' \subseteq imported'
    <3>1. \/ named' = named /\ (Imports(o) = {} \/ Excused(o))
          \/ /\ ~Excused(o)
             /\ \E g : Imports(o) = {g} /\ named' = IF Named(g) THEN named \cup {g} ELSE named
      BY <1>1, <1>5, NamesFollow
    <3>2. CASE named' = named /\ Imports(o) = {}
      BY <2>1, <2>5, <3>2
    <3>3. CASE named' = named /\ Excused(o)
      BY <2>1, <2>5, <3>3
    <3>4. ASSUME ~Excused(o), NEW g, Imports(o) = {g}, named' = IF Named(g) THEN named \cup {g} ELSE named
          PROVE  {x \in imported' \ excused' : Named(x)} \subseteq named' /\ named' \subseteq imported'
      BY <2>1, <2>5, <3>4
    <3> QED
      BY <3>1, <3>2, <3>3, <3>4
  <2>7. GlobalsAsImported'
    BY <2>4, <2>6 DEF GlobalsAsImported, Named
  <2>8. admitted' \in Nat
    BY <1>1, <1>5, AdmittedTyped
  <2>9. scanning' # "header" => protocol' = pyProtocol'
    <3>1. CASE o.op = "proto"
      <4>1. o.to <= 5 /\ o.to \in Nat
        BY <1>5, <3>1, OpcodeShape DEF Loads
      <4>2. ~(o.to > 5)
        BY <4>1
      <4> QED
        BY <1>1, <2>1, <3>1, <4>2, ScanLeaves
    <3>2. CASE o.op # "proto"
      <4>1. protocol' = protocol /\ scanning # "header"
        BY <1>1, <3>2, ScanLeaves
      <4> QED
        BY <1>1, <2>1, <3>2, <4>1 DEF PickleInv
    <3> QED
      BY <3>1, <3>2
  <2> QED
    BY <1>2, <2>2, <2>3, <2>7, <2>8, <2>9 DEF PickleInv
<1> QED
  BY <1>3, <1>4, <1>5

\* For every pickle and every name table, the globals the scan finds are those
\* the unpickler imports, up to a PERSID: nothing else while it runs, and all of
\* them but for operands past the cap, taken a second time, not read (8-bit
\* strings) or read undecoded (UNICODE's escapes) (apply_side_effects, pickle.rs).
THEOREM PickleNamesImports == BothSpec => []GlobalsAsImported
<1>1. ASSUME PickleInv, UNCHANGED <<scan, python>> PROVE PickleInv'
  <2>1. /\ UNCHANGED <<offset, protocol, stack, memo, admitted, streamsLeft, named, scanning>>
        /\ UNCHANGED <<frames, pyMemo, pyProtocol, imported, excused, alive>>
    BY <1>1 DEF scan, python, machine
  <2>2. StacksAgree'
    <3>1. alive => stack = Laid(frames) /\ memo = pyMemo
      BY <1>1 DEF PickleInv, GlobalsAsImported, StacksAgree, Flat, Laid, LaidBy
    <3>2. alive' => stack' = Laid(frames') /\ memo' = pyMemo'
      BY <2>1, <3>1
    <3> QED
      BY <3>2 DEF StacksAgree, Flat, Laid, LaidBy
  <2>3. GlobalsAsImported'
    BY <1>1, <2>1, <2>2 DEF PickleInv, GlobalsAsImported, Named
  <2> QED
    BY <1>1, <2>1, <2>3 DEF PickleInv
<1>2. PickleInv /\ [\E o \in Pickles : Step(o)]_<<scan, python>> => PickleInv'
  BY <1>1, PickleKeeps
<1>3. PickleInv => GlobalsAsImported
  BY DEF PickleInv
<1> QED
  BY <1>2, <1>3, PickleStart, PTL DEF BothSpec

-----------------------------------------------------------------------------
(* origins: what leads to a value.                                         *)

\* The graph of a file.
LEMMA GraphTyped ==
  ASSUME graph \in Graphs
  PROVE  /\ Len(Values) \in Nat /\ DOMAIN Values = 1..Len(Values) /\ IsFiniteSet(DOMAIN Functions)
         /\ \A i \in DOMAIN Values :
              /\ Values[i].inputs \in Seq(Nat) /\ Values[i].receiver \in Nat
              /\ IsFiniteSet(DOMAIN Values[i].fields)
              /\ \A f \in DOMAIN Values[i].fields : Values[i].fields[f] \in Nat
         /\ \A f \in DOMAIN Functions : /\ Functions[f].parameters \in Seq(Nat)
                                        /\ Functions[f].returns \in Seq(Nat)
<1>1. Values \in Seq(ToSet(Values)) /\ IsFiniteSet(DOMAIN Functions)
  BY GraphsAssumption DEF Values, Functions
<1>2. Len(Values) \in Nat /\ DOMAIN Values = 1..Len(Values)
  BY <1>1
<1>3. \A i \in DOMAIN Values : Values[i] \in ToSet(Values)
  BY DEF ToSet
<1>4. \A v \in ToSet(Values) : /\ v.inputs \in Seq(Nat) /\ v.receiver \in Nat
                               /\ IsFiniteSet(DOMAIN v.fields)
                               /\ \A f \in DOMAIN v.fields : v.fields[f] \in Nat
  BY GraphsAssumption DEF Values
<1>5. \A f \in DOMAIN Functions : /\ Functions[f].parameters \in Seq(Nat)
                                  /\ Functions[f].returns \in Seq(Nat)
  BY GraphsAssumption DEF Functions
<1> QED
  BY <1>1, <1>2, <1>3, <1>4, <1>5

\* Stacks of calls that enter no helper twice.
Stacks == {s \in Seq(LocalCalls) : \A i, j \in DOMAIN s : Values[s[i]].target = Values[s[j]].target => i = j}

\* They are finitely many.
LEMMA StacksFinite ==
  ASSUME graph \in Graphs
  PROVE  IsFiniteSet(Stacks) /\ Stacks \subseteq Seq(LocalCalls) /\ <<>> \in Stacks
<1>1. Len(Values) \in Nat /\ DOMAIN Values = 1..Len(Values) /\ LocalCalls \subseteq DOMAIN Values
  BY GraphTyped DEF LocalCalls
<1>2. Cardinality(DOMAIN Values) = Len(Values) /\ IsFiniteSet(DOMAIN Values)
  <2>1. 1 \in Int /\ Len(Values) \in Int
    BY <1>1
  <2>2. /\ IsFiniteSet(1..Len(Values))
        /\ Cardinality(1..Len(Values)) = IF 1 > Len(Values) THEN 0 ELSE Len(Values) - 1 + 1
    BY <2>1, FS_Interval, Zenon
  <2> QED
    BY <1>1, <2>2
<1>3. IsFiniteSet(LocalCalls)
  BY <1>1, <1>2, FS_Subset
<1>4. ASSUME NEW s \in Stacks PROVE s \in {t \in Seq(LocalCalls) : Len(t) <= Len(Values)}
  <2>1. s \in Seq(LocalCalls) /\ Len(s) \in Nat /\ DOMAIN s = 1..Len(s)
    BY DEF Stacks
  <2>2. s \in Injection(1..Len(s), DOMAIN Values)
    <3>1. s \in [1..Len(s) -> DOMAIN Values]
      BY <1>1, <2>1
    <3>2. \A i, j \in 1..Len(s) : s[i] = s[j] => i = j
      BY <2>1 DEF Stacks
    <3> QED
      BY <3>1, <3>2 DEF Injection, IsInjective
  <2>3. Cardinality(1..Len(s)) <= Cardinality(DOMAIN Values)
    BY <1>2, <2>2, FS_Injection
  <2>4. Cardinality(1..Len(s)) = Len(s)
    <3>1. 1 \in Int /\ Len(s) \in Int
      BY <2>1
    <3>2. Cardinality(1..Len(s)) = IF 1 > Len(s) THEN 0 ELSE Len(s) - 1 + 1
      BY <3>1, FS_Interval, Zenon
    <3> QED
      BY <2>1, <3>2
  <2> QED
    BY <1>2, <2>1, <2>3, <2>4
<1>5. IsFiniteSet({t \in Seq(LocalCalls) : Len(t) <= Len(Values)})
  BY <1>1, <1>3, FewSequences
<1>6. Stacks \in SUBSET {t \in Seq(LocalCalls) : Len(t) <= Len(Values)}
  BY <1>4
<1>7. <<>> \in Stacks
  <2>1. <<>> \in Seq(LocalCalls) /\ DOMAIN <<>> = {}
    OBVIOUS
  <2> QED
    BY <2>1 DEF Stacks
<1> QED
  BY <1>5, <1>6, <1>7, FS_Subset DEF Stacks
\* The values a graph's values and helpers refer to.
Entries(v) == {Values[v].fields[f] : f \in DOMAIN Values[v].fields}
Refers(v) == ToSet(Values[v].inputs) \cup Entries(v) \cup {Values[v].receiver}
Mentioned ==
  (UNION {Refers(v) : v \in DOMAIN Values}) \cup (UNION {ToSet(Functions[f].returns) : f \in DOMAIN Functions})

\* They are finitely many.
LEMMA MentionedFinite ==
  ASSUME graph \in Graphs
  PROVE  IsFiniteSet(Mentioned) /\ Mentioned \subseteq Nat
<1>1. ASSUME NEW v \in DOMAIN Values PROVE IsFiniteSet(Refers(v)) /\ Refers(v) \subseteq Nat
  <2>1. /\ Values[v].inputs \in Seq(Nat) /\ Values[v].receiver \in Nat
        /\ IsFiniteSet(DOMAIN Values[v].fields)
        /\ \A f \in DOMAIN Values[v].fields : Values[v].fields[f] \in Nat
    BY GraphTyped
  <2>2. IsFiniteSet(ToSet(Values[v].inputs)) /\ ToSet(Values[v].inputs) \subseteq Nat
    BY <2>1, ElementsFinite
  <2>3. IsFiniteSet(Entries(v)) /\ Entries(v) \subseteq Nat
    BY <2>1, ImageFinite DEF Entries
  <2>4. IsFiniteSet(ToSet(Values[v].inputs) \cup Entries(v))
    BY <2>2, <2>3, FS_Union
  <2>5. IsFiniteSet((ToSet(Values[v].inputs) \cup Entries(v)) \cup {Values[v].receiver})
    BY <2>4, FS_AddElement
  <2> QED
    BY <2>1, <2>2, <2>3, <2>5 DEF Refers
<1>2. PICK r : r = [v \in DOMAIN Values |-> Refers(v)]
  OBVIOUS
<1>3. PICK t : t = [f \in DOMAIN Functions |-> ToSet(Functions[f].returns)]
  OBVIOUS
<1>4. IsFiniteSet(DOMAIN Values) /\ IsFiniteSet(DOMAIN Functions)
  <2>1. Len(Values) \in Nat /\ DOMAIN Values = 1..Len(Values) /\ IsFiniteSet(DOMAIN Functions)
    BY GraphTyped
  <2>2. 1 \in Int /\ Len(Values) \in Int
    BY <2>1
  <2>3. IsFiniteSet(1..Len(Values))
    BY <2>2, FS_Interval, Zenon
  <2> QED
    BY <2>1, <2>3
<1>5. ASSUME NEW f \in DOMAIN Functions PROVE IsFiniteSet(t[f]) /\ t[f] \subseteq Nat
  <2>1. Functions[f].returns \in Seq(Nat)
    BY GraphTyped
  <2>2. t[f] = ToSet(Functions[f].returns)
    BY <1>3
  <2> QED
    BY <2>1, <2>2, ElementsFinite
<1>6. IsFiniteSet(UNION {r[v] : v \in DOMAIN r})
  <2>1. IsFiniteSet({r[v] : v \in DOMAIN r})
    BY <1>2, <1>4, ImageFinite
  <2>2. \A T \in {r[v] : v \in DOMAIN r} : IsFiniteSet(T)
    BY <1>1, <1>2
  <2> QED
    BY <2>1, <2>2, FS_UNION
<1>7. IsFiniteSet(UNION {t[f] : f \in DOMAIN t})
  <2>1. IsFiniteSet({t[f] : f \in DOMAIN t})
    BY <1>3, <1>4, ImageFinite
  <2>2. \A T \in {t[f] : f \in DOMAIN t} : IsFiniteSet(T)
    BY <1>3, <1>5
  <2> QED
    BY <2>1, <2>2, FS_UNION
<1>8. Mentioned = (UNION {r[v] : v \in DOMAIN r}) \cup (UNION {t[f] : f \in DOMAIN t})
  <2>1. {r[v] : v \in DOMAIN r} = {Refers(v) : v \in DOMAIN Values}
    BY <1>2
  <2>2. {t[f] : f \in DOMAIN t} = {ToSet(Functions[f].returns) : f \in DOMAIN Functions}
    BY <1>3
  <2> QED
    BY <2>1, <2>2 DEF Mentioned
<1>9. IsFiniteSet(Mentioned)
  BY <1>6, <1>7, <1>8, FS_Union
<1>10. Mentioned \subseteq Nat
  BY <1>1, <1>3, <1>5 DEF Mentioned
<1> QED
  BY <1>9, <1>10

\* The calls below a call, and a call of another helper above.
LEMMA StackTyped ==
  ASSUME graph \in Graphs, NEW s \in Stacks
  PROVE  /\ s \in Seq(LocalCalls)
         /\ s # <<>> => /\ Head(s) \in LocalCalls /\ Tail(s) \in Stacks
                        /\ s = <<Head(s)>> \o Tail(s) /\ Len(s) = Len(Tail(s)) + 1
                        /\ \A i \in DOMAIN Tail(s) : Values[Tail(s)[i]].target # Values[Head(s)].target
         /\ \A c \in LocalCalls :
              (\A i \in DOMAIN s : Values[s[i]].target # Values[c].target) => <<c>> \o s \in Stacks
<1>1. s \in Seq(LocalCalls) /\ \A i, j \in DOMAIN s : Values[s[i]].target = Values[s[j]].target => i = j
  BY DEF Stacks
<1>2. ASSUME s # <<>>
      PROVE  /\ Head(s) \in LocalCalls /\ Tail(s) \in Stacks
             /\ s = <<Head(s)>> \o Tail(s) /\ Len(s) = Len(Tail(s)) + 1
             /\ \A i \in DOMAIN Tail(s) : Values[Tail(s)[i]].target # Values[Head(s)].target
  <2>1. PICK t : t = Tail(s)
    OBVIOUS
  <2>2. PICK c : c = Head(s)
    OBVIOUS
  <2>3. c \in LocalCalls /\ t \in Seq(LocalCalls) /\ s = <<c>> \o t /\ Len(s) = Len(t) + 1
    BY <1>1, <1>2, <2>1, <2>2, OneBelow
  <2>4. /\ s \in Seq(LocalCalls) /\ Len(s) = Len(t) + 1 /\ s # <<>> /\ Head(s) = c /\ Tail(s) = t
        /\ s[1] = c /\ \A i \in 1..Len(t) : s[i + 1] = t[i]
        /\ DOMAIN s = {1} \cup {i + 1 : i \in DOMAIN t}
    <3>1. c \in LocalCalls /\ t \in Seq(LocalCalls) /\ s = <<c>> \o t
      BY <2>3
    <3> QED
      BY <3>1, OneOnTop
  <2>5. Len(t) \in Nat /\ DOMAIN t = 1..Len(t)
    BY <2>3
  <2>6. \A i, j \in DOMAIN t : Values[t[i]].target = Values[t[j]].target => i = j
    <3> SUFFICES ASSUME NEW i \in DOMAIN t, NEW j \in DOMAIN t, Values[t[i]].target = Values[t[j]].target
                 PROVE  i = j
      OBVIOUS
    <3>1. i + 1 \in DOMAIN s /\ j + 1 \in DOMAIN s /\ s[i + 1] = t[i] /\ s[j + 1] = t[j]
      BY <2>4, <2>5
    <3>2. i + 1 = j + 1
      BY <1>1, <3>1
    <3> QED
      BY <2>5, <3>2
  <2>7. ASSUME NEW i \in DOMAIN t PROVE Values[t[i]].target # Values[c].target
    <3>1. i + 1 \in DOMAIN s /\ s[i + 1] = t[i] /\ 1 \in DOMAIN s /\ i + 1 # 1
      BY <2>4, <2>5
    <3> QED
      BY <1>1, <2>4, <3>1
  <2>8. t \in Stacks
    BY <2>3, <2>6 DEF Stacks
  <2> QED
    BY <2>1, <2>2, <2>3, <2>7, <2>8
<1>3. ASSUME NEW c \in LocalCalls, \A i \in DOMAIN s : Values[s[i]].target # Values[c].target
      PROVE  <<c>> \o s \in Stacks
  <2>1. PICK t : t = <<c>> \o s
    OBVIOUS
  <2>2. /\ t \in Seq(LocalCalls) /\ Len(t) = Len(s) + 1 /\ t # <<>> /\ Head(t) = c /\ Tail(t) = s
        /\ t[1] = c /\ \A i \in 1..Len(s) : t[i + 1] = s[i]
        /\ DOMAIN t = {1} \cup {i + 1 : i \in DOMAIN s}
    <3>1. c \in LocalCalls /\ s \in Seq(LocalCalls)
      BY <1>1
    <3> QED
      BY <2>1, <3>1, OneOnTop
  <2>3. Len(s) \in Nat /\ DOMAIN s = 1..Len(s)
    BY <1>1
  <2>4. ASSUME NEW i \in DOMAIN t, NEW j \in DOMAIN t, Values[t[i]].target = Values[t[j]].target
        PROVE  i = j
    <3>1. CASE i = 1 /\ j = 1
      BY <3>1
    <3>2. CASE i = 1 /\ j # 1
      <4>1. PICK m \in DOMAIN s : j = m + 1
        BY <2>2, <3>2
      <4> QED
        BY <1>3, <2>2, <2>3, <2>4, <3>2, <4>1
    <3>3. CASE i # 1 /\ j = 1
      <4>1. PICK m \in DOMAIN s : i = m + 1
        BY <2>2, <3>3
      <4> QED
        BY <1>3, <2>2, <2>3, <2>4, <3>3, <4>1
    <3>4. CASE i # 1 /\ j # 1
      <4>1. PICK m \in DOMAIN s : i = m + 1
        BY <2>2, <3>4
      <4>2. PICK k \in DOMAIN s : j = k + 1
        BY <2>2, <3>4
      <4>3. t[i] = s[m] /\ t[j] = s[k]
        BY <2>2, <2>3, <4>1, <4>2
      <4>4. m = k
        BY <1>1, <2>4, <4>3
      <4> QED
        BY <4>1, <4>2, <4>4
    <3> QED
      BY <3>1, <3>2, <3>3, <3>4
  <2> QED
    BY <2>1, <2>2, <2>4 DEF Stacks
<1> QED
  BY <1>1, <1>2, <1>3
\* Where a step leads back to, kind by kind.
LEMMA FromByKind ==
  ASSUME NEW n, n.id \in DOMAIN Values
  PROVE  /\ (Values[n.id].kind \in {"object", "keyword"} /\ n.field # NoField) =>
              \A m : m \in From(n) <=> /\ n.field \in DOMAIN Values[n.id].fields
                                       /\ m = Node(Values[n.id].fields[n.field], n.calls, NoField)
         /\ (Values[n.id].kind = "object" /\ n.field = NoField) =>
              \A m : m \in From(n) <=> \E f \in DOMAIN Values[n.id].fields :
                                         m = Node(Values[n.id].fields[f], n.calls, n.field)
         /\ Values[n.id].kind \in {"merge", "concat", "alternative"} =>
              \A m : m \in From(n) <=> \E i \in ToSet(Values[n.id].inputs) : m = Node(i, n.calls, n.field)
         /\ (Values[n.id].kind = "parameter" /\ n.calls # <<>>) =>
              \A m : m \in From(n) <=> \E i \in Args(Head(n.calls), n.id) : m = Node(i, Tail(n.calls), n.field)
         /\ (Values[n.id].kind = "parameter" /\ n.calls = <<>>) =>
              \A m : m \in From(n) <=> \E c \in LocalCalls : \E i \in Args(c, n.id) : m = Node(i, <<>>, n.field)
         /\ (n.id \in LocalCalls /\ Values[n.id].target \in Active(n)) => From(n) = {}
         /\ (n.id \in LocalCalls /\ Values[n.id].target \notin Active(n)) =>
              \A m : m \in From(n) <=> \E r \in ToSet(Functions[Values[n.id].target].returns) :
                                         m = Node(r, <<n.id>> \o n.calls, n.field)
         /\ (Values[n.id].kind = "call" /\ n.field = NoField /\ n.id \notin LocalCalls) =>
              \A m : m \in From(n) <=> \E i \in ModelledInputs(Values[n.id]) : m = Node(i, n.calls, n.field)
         /\ (Values[n.id].kind = "call" /\ n.field # NoField /\ n.id \notin LocalCalls) => From(n) = {}
         /\ (Values[n.id].kind = "keyword" /\ n.field = NoField) => From(n) = {}
         /\ Values[n.id].kind \notin {"object", "keyword", "merge", "concat", "alternative", "parameter", "call"} =>
              From(n) = {}
<1>1. n.id \in LocalCalls => Values[n.id].kind = "call" /\ Values[n.id].target \in DOMAIN Functions
  BY DEF LocalCalls
<1>2. CASE Values[n.id].kind \in {"object", "keyword"}
  BY <1>1, <1>2 DEF From
<1>3. CASE Values[n.id].kind \in {"merge", "concat", "alternative"}
  BY <1>1, <1>3 DEF From
<1>4. CASE Values[n.id].kind = "parameter"
  BY <1>1, <1>4 DEF From
<1>5. CASE Values[n.id].kind = "call"
  BY <1>1, <1>5 DEF From
<1>6. CASE Values[n.id].kind \notin {"object", "keyword", "merge", "concat", "alternative", "parameter", "call"}
  BY <1>1, <1>6 DEF From
<1> QED
  BY <1>2, <1>3, <1>4, <1>5, <1>6

\* What a call passes for a parameter is a value referred to.
LEMMA ArgsTyped ==
  ASSUME graph \in Graphs, NEW c \in LocalCalls, NEW p
  PROVE  Args(c, p) \subseteq Mentioned /\ Parameters(c) \in Seq(Nat) /\ Values[c].inputs \in Seq(Nat)
<1>1. c \in DOMAIN Values /\ Values[c].target \in DOMAIN Functions
  BY DEF LocalCalls
<1>2. Values[c].inputs \in Seq(Nat) /\ Parameters(c) \in Seq(Nat)
  BY <1>1, GraphTyped DEF Parameters
<1>3. ToSet(Values[c].inputs) \subseteq Mentioned
  BY <1>1 DEF Mentioned, Refers
<1>4. Args(c, p) \subseteq ToSet(Values[c].inputs)
  BY DEF Args, ToSet
<1> QED
  BY <1>2, <1>3, <1>4

\* A step keeps the shape of a stack.
LEMMA FromTyped ==
  ASSUME graph \in Graphs, NEW n, n.calls \in Seq(LocalCalls), n.field \in Fields, NEW m \in From(n)
  PROVE  /\ m.id \in Mentioned /\ m.calls \in Seq(LocalCalls) /\ m.field \in Fields
         /\ m = Node(m.id, m.calls, m.field)
         /\ n.calls \in Stacks => m.calls \in Stacks
<1>1. n.id \in DOMAIN Values
  BY DEF From
<1>2. PICK v : v = Values[n.id]
  OBVIOUS
<1>3. NoField \in Fields
  BY DEF Fields
<1>4. Refers(n.id) \subseteq Mentioned
  BY <1>1 DEF Mentioned
<1>5. ASSUME NEW i \in Mentioned, NEW f \in Fields, NEW s \in Seq(LocalCalls), m = Node(i, s, f)
      PROVE  /\ m.id \in Mentioned /\ m.calls = s /\ m.calls \in Seq(LocalCalls) /\ m.field \in Fields
             /\ m = Node(m.id, m.calls, m.field)
  BY <1>5 DEF Node
<1>6. CASE v.kind \in {"object", "keyword"}
  <2>1. \A f \in DOMAIN v.fields : v.fields[f] \in Mentioned
    BY <1>2, <1>4 DEF Refers, Entries
  <2>2. \E i \in Mentioned, f \in Fields : m = Node(i, n.calls, f)
    <3>1. CASE n.field # NoField
      <4>1. m = Node(v.fields[n.field], n.calls, NoField) /\ n.field \in DOMAIN v.fields
        BY <1>1, <1>2, <1>6, <3>1, FromByKind
      <4> QED
        BY <1>3, <2>1, <4>1
    <3>2. CASE n.field = NoField /\ v.kind = "object"
      <4>1. PICK f \in DOMAIN v.fields : m = Node(v.fields[f], n.calls, n.field)
        BY <1>1, <1>2, <3>2, FromByKind
      <4> QED
        BY <2>1, <4>1
    <3>3. CASE n.field = NoField /\ v.kind = "keyword"
      <4>1. From(n) = {}
        BY <1>1, <1>2, <3>3, FromByKind
      <4> QED
        BY <4>1
    <3> QED
      BY <1>6, <3>1, <3>2, <3>3
  <2>3. PICK i \in Mentioned, f \in Fields : m = Node(i, n.calls, f)
    BY <2>2
  <2> QED
    BY <1>5, <2>3
<1>7. CASE v.kind \in {"merge", "concat", "alternative"}
  <2>1. PICK i \in ToSet(v.inputs) : m = Node(i, n.calls, n.field)
    BY <1>1, <1>2, <1>7, FromByKind
  <2>2. i \in Mentioned
    BY <1>2, <1>4, <2>1 DEF Refers
  <2> QED
    BY <1>5, <2>1, <2>2
<1>8. CASE v.kind = "call" /\ n.id \notin LocalCalls
  <2>1. PICK i \in ModelledInputs(v) : m = Node(i, n.calls, n.field)
    BY <1>1, <1>2, <1>8, FromByKind
  <2>2. ModelledInputs(v) \subseteq ToSet(v.inputs) \cup {v.receiver}
    BY DEF ModelledInputs, ToSet
  <2>3. i \in Mentioned
    BY <1>2, <1>4, <2>1, <2>2 DEF Refers
  <2> QED
    BY <1>5, <2>1, <2>3
<1>9. CASE v.kind = "parameter" /\ n.calls # <<>>
  <2>1. PICK i \in Args(Head(n.calls), n.id) : m = Node(i, Tail(n.calls), n.field)
    BY <1>1, <1>2, <1>9, FromByKind
  <2>2. Head(n.calls) \in LocalCalls /\ Tail(n.calls) \in Seq(LocalCalls)
    BY <1>9
  <2>3. Args(Head(n.calls), n.id) \subseteq Mentioned
    BY <2>2, ArgsTyped
  <2>4. n.calls \in Stacks => Tail(n.calls) \in Stacks
    BY <1>9, StackTyped
  <2> QED
    BY <1>5, <2>1, <2>2, <2>3, <2>4
<1>10. CASE v.kind = "parameter" /\ n.calls = <<>>
  <2>1. PICK c \in LocalCalls : \E i \in Args(c, n.id) : m = Node(i, <<>>, n.field)
    BY <1>1, <1>2, <1>10, FromByKind
  <2>3. PICK i \in Args(c, n.id) : m = Node(i, <<>>, n.field)
    BY <2>1
  <2>2. i \in Mentioned
    BY <2>3, ArgsTyped
  <2> QED
    BY <1>5, <1>10, <2>2, <2>3
<1>11. CASE n.id \in LocalCalls
  <2>1. v.target \notin Active(n)
    BY <1>1, <1>2, <1>11, FromByKind
  <2>2. PICK r \in ToSet(Functions[v.target].returns) : m = Node(r, <<n.id>> \o n.calls, n.field)
    BY <1>1, <1>2, <1>11, <2>1, FromByKind
  <2>3. r \in Mentioned
    BY <1>2, <1>11, <2>2 DEF LocalCalls, Mentioned
  <2>4. n.calls \in Stacks => <<n.id>> \o n.calls \in Stacks
    BY <1>2, <1>11, <2>1, StackTyped DEF Active
  <2>5. <<n.id>> \o n.calls \in Seq(LocalCalls)
    BY <1>11
  <2> QED
    BY <1>5, <2>2, <2>3, <2>4, <2>5
<1>12. CASE v.kind \notin {"object", "keyword", "merge", "concat", "alternative", "parameter", "call"}
  <2>1. From(n) = {}
    BY <1>1, <1>2, <1>12, FromByKind
  <2> QED
    BY <2>1
<1> QED
  BY <1>6, <1>7, <1>8, <1>9, <1>10, <1>11, <1>12

\* What leads to some nodes is the least set that holds them and where each
\* step leads back to.
LEMMA OriginIsLeast ==
  ASSUME graph \in Graphs, NEW X \in SUBSET Nat, IsFiniteSet(X),
         NEW s \in SUBSET [id : X, calls : Stacks, field : Fields]
  PROVE  /\ s \subseteq Origin(s) /\ Origin(s) \subseteq [id : Nat, calls : Stacks, field : Fields]
         /\ \A n \in Origin(s) : From(n) \subseteq Origin(s)
         /\ \A T : (s \subseteq T /\ \A n \in T \cap Origin(s) : From(n) \subseteq T) => Origin(s) \subseteq T
<1> DEFINE next == [n \in Under |-> From(n)]
           A == Mentioned \cup X
           F == [id : A, calls : Stacks, field : Fields]
<1>1. IsFiniteSet(A) /\ A \subseteq Nat
  BY MentionedFinite, FS_Union
<1>2. IsFiniteSet(Stacks) /\ Stacks \subseteq Seq(LocalCalls)
  BY StacksFinite
<1>3. IsFiniteSet(Fields)
  <2>1. Fields = {asked.question.field} \cup {NoField}
    BY DEF Fields
  <2>2. IsFiniteSet({asked.question.field}) /\ IsFiniteSet({NoField})
    BY FS_Singleton
  <2> QED
    BY <2>1, <2>2, FS_Union
<1>4. IsFiniteSet(F)
  <2>1. PICK D : D = (A \X Stacks) \X Fields
    OBVIOUS
  <2>2. PICK make : make = [d \in D |-> [id |-> d[1][1], calls |-> d[1][2], field |-> d[2]]]
    OBVIOUS
  <2>3. IsFiniteSet(DOMAIN make)
    <3>1. IsFiniteSet(A \X Stacks)
      <4> HIDE DEF A
      <4> QED
        BY <1>1, <1>2, FS_Product
    <3>2. IsFiniteSet(D)
      <4> HIDE DEF A
      <4> QED
        BY <1>3, <2>1, <3>1, FS_Product
    <3> QED
      BY <2>2, <3>2
  <2>4. IsFiniteSet({make[d] : d \in DOMAIN make})
    BY <2>3, ImageFinite
  <2>5. ASSUME NEW n \in F PROVE n \in {make[d] : d \in DOMAIN make}
    <3>1. PICK d : d = <<<<n.id, n.calls>>, n.field>>
      OBVIOUS
    <3>2. d \in D /\ make[d] = n
      BY <2>1, <2>2, <3>1
    <3> QED
      BY <2>2, <3>2
  <2>6. F \in SUBSET {make[d] : d \in DOMAIN make}
    BY <2>5
  <2> HIDE DEF F
  <2> QED
    BY <2>4, <2>6, FS_Subset
<1>5. F \subseteq Under /\ DOMAIN next = Under
  BY <1>1, <1>2 DEF Under
<1>6. \A n \in Under : next[n] = From(n)
  OBVIOUS
<1>7. \A n \in DOMAIN next : next[n] \subseteq DOMAIN next
  <2> SUFFICES ASSUME NEW n \in Under, NEW m \in From(n) PROVE m \in Under
    BY <1>5, <1>6
  <2>1. n.calls \in Seq(LocalCalls) /\ n.field \in Fields
    BY DEF Under
  <2>2. /\ m.id \in Mentioned /\ m.calls \in Seq(LocalCalls) /\ m.field \in Fields
        /\ m = Node(m.id, m.calls, m.field)
    BY <2>1, FromTyped
  <2> QED
    BY <2>2, MentionedFinite DEF Under, Node
<1>8. ASSUME NEW n \in F, NEW m \in From(n) PROVE m \in F
  <2>1. n.calls \in Seq(LocalCalls) /\ n.field \in Fields /\ n.calls \in Stacks
    BY <1>2
  <2>2. m.id \in Mentioned /\ m.calls \in Stacks /\ m.field \in Fields /\ m = Node(m.id, m.calls, m.field)
    BY <2>1, FromTyped
  <2> QED
    BY <2>2 DEF Node
<1>9. Closed(next, F) /\ F \in SUBSET DOMAIN next /\ s \in SUBSET F
  BY <1>5, <1>6, <1>8 DEF Closed
<1>10. Origin(s) = Reached(next, s)
  BY DEF Origin
<1>11. PICK leads : leads = next
  OBVIOUS
<1> HIDE DEF F
<1>12. /\ s \subseteq Origin(s) /\ Origin(s) \subseteq F
       /\ Closed(leads, Origin(s))
       /\ \A T : (s \subseteq T /\ \A n \in T \cap Origin(s) : leads[n] \subseteq T) => Origin(s) \subseteq T
  <2> HIDE DEF next
  <2> QED
    BY <1>4, <1>7, <1>9, <1>10, <1>11, ReachedIsLeast
<1>13. \A n \in Origin(s) : n \in Under /\ leads[n] = From(n)
  BY <1>5, <1>6, <1>11, <1>12
<1>14. Origin(s) \subseteq [id : Nat, calls : Stacks, field : Fields]
  BY <1>1, <1>12 DEF F
<1> QED
  BY <1>12, <1>13, <1>14 DEF Closed

-----------------------------------------------------------------------------
(* The frame a stack of calls opens.                                       *)

\* The bindings a frame may hold.
Frames == UNION {[P -> Mentioned] : P \in SUBSET Owned}

\* A call's parameters, and what it passes, when it passes all of them and a
\* parameter has one place.
LEMMA ArgsOne ==
  ASSUME graph \in Graphs, Applied, InOnePlace, NEW c \in LocalCalls
  PROVE  /\ Given(c) = ToSet(Parameters(c)) /\ Given(c) \subseteq Owned
         /\ \A p \in Given(c) : /\ Args(c, p) = {Own(c, p)} /\ Own(c, p) \in Mentioned
                                /\ Own(c, p) \in ToSet(Values[c].inputs)
         /\ \A p : p \notin Given(c) => Args(c, p) = {}
<1>1. c \in DOMAIN Values /\ Values[c].target \in DOMAIN Functions
  BY DEF LocalCalls
<1>2. PICK params : params = Parameters(c)
  OBVIOUS
<1>3. PICK inputs : inputs = Values[c].inputs
  OBVIOUS
<1>4. params \in Seq(Nat) /\ inputs \in Seq(Nat) /\ Len(inputs) >= Len(params)
  BY <1>2, <1>3, ArgsTyped DEF Applied
<1>5. \A i \in DOMAIN params : i \in DOMAIN inputs
  BY <1>4
<1>6. \A i, j \in DOMAIN params : params[i] = params[j] => i = j
  BY <1>1, <1>2 DEF InOnePlace, Parameters
<1>7. \A p : Args(c, p) = {inputs[i] : i \in {j \in DOMAIN params \cap DOMAIN inputs : params[j] = p}}
  BY <1>2, <1>3 DEF Args
<1>8. ASSUME NEW i \in DOMAIN params PROVE Args(c, params[i]) = {inputs[i]}
  <2>1. {j \in DOMAIN params \cap DOMAIN inputs : params[j] = params[i]} = {i}
    BY <1>5, <1>6
  <2> QED
    BY <1>7, <2>1
<1>9. ASSUME NEW p, p \notin ToSet(params) PROVE Args(c, p) = {}
  <2>1. {j \in DOMAIN params \cap DOMAIN inputs : params[j] = p} = {}
    BY <1>9 DEF ToSet
  <2> QED
    BY <1>7, <2>1
<1>10. ASSUME NEW p \in ToSet(params) PROVE \E i \in DOMAIN params : params[i] = p /\ Args(c, p) = {inputs[i]}
  <2>1. PICK i \in DOMAIN params : p = params[i]
    BY DEF ToSet
  <2> QED
    BY <1>8, <2>1
<1>11. Given(c) = ToSet(params)
  <2>1. \A p \in ToSet(params) : Args(c, p) # {}
    BY <1>10
  <2> QED
    BY <1>2, <2>1 DEF Given
<1>12. ToSet(params) \subseteq Owned
  BY <1>1, <1>2 DEF Owned, Parameters
<1>13. ASSUME NEW p \in ToSet(params)
       PROVE  /\ Args(c, p) = {Own(c, p)} /\ Own(c, p) \in Mentioned /\ Own(c, p) \in ToSet(inputs)
  <2>1. PICK i \in DOMAIN params : params[i] = p /\ Args(c, p) = {inputs[i]}
    BY <1>10
  <2>2. Own(c, p) = inputs[i]
    BY <2>1 DEF Own
  <2>3. inputs[i] \in ToSet(inputs)
    BY <1>5 DEF ToSet
  <2>4. Args(c, p) \subseteq Mentioned
    BY ArgsTyped
  <2> QED
    BY <2>1, <2>2, <2>3, <2>4
<1> QED
  BY <1>2, <1>3, <1>9, <1>11, <1>12, <1>13

\* What a call opens on a frame.
LEMMA OpenedTyped ==
  ASSUME graph \in Graphs, Applied, InOnePlace, NEW c \in LocalCalls, NEW b \in Frames
  PROVE  /\ Opened(c, b) \in Frames /\ DOMAIN Opened(c, b) = DOMAIN b \cup Given(c)
         /\ \A p \in DOMAIN b \ Given(c) : Opened(c, b)[p] = b[p]
         /\ \A p \in Given(c) : Opened(c, b)[p] = IF Own(c, p) \in DOMAIN b THEN b[Own(c, p)] ELSE Own(c, p)
<1>1. PICK P \in SUBSET Owned : b \in [P -> Mentioned]
  BY DEF Frames
<1>2. /\ Given(c) \subseteq Owned /\ \A p \in Given(c) : Own(c, p) \in Mentioned
  BY ArgsOne
<1>3. PICK f : f = Opened(c, b)
  OBVIOUS
<1>4. f = [p \in DOMAIN b \cup Given(c) |->
             IF p \notin Given(c) THEN b[p] ELSE IF Own(c, p) \in DOMAIN b THEN b[Own(c, p)] ELSE Own(c, p)]
  BY <1>3 DEF Opened
<1>5. f \in [P \cup Given(c) -> Mentioned]
  BY <1>1, <1>2, <1>4
<1>6. f \in Frames
  BY <1>1, <1>2, <1>5 DEF Frames
<1> QED
  BY <1>3, <1>4, <1>6

\* The frames of a stack of calls, the outermost call's first.
Piled(s, g) ==
  /\ g \in [0..Len(s) -> Frames] /\ g[0] = <<>>
  /\ \A k \in 1..Len(s) : g[k] = Opened(s[Len(s) + 1 - k], g[k - 1])

\* The bindings a stack of calls leaves are the last of them.
LEMMA BindingPiled ==
  ASSUME graph \in Graphs, Applied, InOnePlace, NEW s \in Seq(LocalCalls)
  PROVE  \E g : Piled(s, g) /\ Binding(s) = g[Len(s)]
<1> DEFINE Piling(g) == [k \in 0..Len(s) |-> IF k = 0 THEN <<>> ELSE Opened(s[Len(s) + 1 - k], g[k - 1])]
           F == CHOOSE g : g = Piling(g)
<1>1. PICK n \in Nat : n = Len(s)
  OBVIOUS
<1>2. ASSUME NEW k \in 1..n PROVE s[n + 1 - k] \in LocalCalls
  <2>1. n + 1 - k \in 1..n
    BY <1>1
  <2> QED
    BY <1>1, <2>1
<1>3. PICK into : into = [d \in (1..n) \X Frames |-> Opened(s[n + 1 - d[1]], d[2])]
  OBVIOUS
<1>4. Passes(into, n, Frames)
  <2>1. ASSUME NEW d \in (1..n) \X Frames PROVE Opened(s[n + 1 - d[1]], d[2]) \in Frames
    <3>1. d[1] \in 1..n /\ d[2] \in Frames
      OBVIOUS
    <3> QED
      BY <1>2, <3>1, OpenedTyped
  <2> QED
    BY <1>3, <2>1 DEF Passes
<1>5. <<>> \in Frames
  <2>1. <<>> \in [{} -> Mentioned]
    OBVIOUS
  <2> QED
    BY <2>1 DEF Frames
<1>6. PICK g : Stages(g, n, Frames, <<>>, into)
  BY <1>4, <1>5, InTurn
<1>7. Piled(s, g)
  <2>1. g \in [0..n -> Frames] /\ g[0] = <<>>
    BY <1>6 DEF Stages
  <2>2. ASSUME NEW k \in 1..n PROVE g[k] = Opened(s[n + 1 - k], g[k - 1])
    <3>1. k - 1 \in 0..n
      OBVIOUS
    <3>2. g[k] = into[<<k, g[k - 1]>>]
      BY <1>6 DEF Stages
    <3>3. <<k, g[k - 1]>> \in (1..n) \X Frames
      BY <2>1, <3>1
    <3> QED
      BY <1>3, <3>2, <3>3
  <2> QED
    BY <1>1, <2>1, <2>2 DEF Piled
<1>8. g = Piling(g)
  <2>1. \A k \in 0..n : g[k] = IF k = 0 THEN <<>> ELSE Opened(s[n + 1 - k], g[k - 1])
    BY <1>1, <1>7 DEF Piled
  <2> QED
    BY <1>1, <1>7, <2>1 DEF Piled
<1>9. ASSUME NEW h, h = Piling(h) PROVE h = g
  <2> DEFINE U == {k \in 0..n : h[k] # g[k]}
  <2>0. \A k \in 0..n : h[k] = IF k = 0 THEN <<>> ELSE Opened(s[n + 1 - k], h[k - 1])
    BY <1>1, <1>9
  <2>1. ASSUME U # {} PROVE FALSE
    <3>1. PICK k \in U : \A m \in U : k <= m
      <4>1. U \in SUBSET Nat
        OBVIOUS
      <4> HIDE DEF U
      <4> QED
        BY <2>1, <4>1, LeastNumber
    <3>2. k \in 0..n /\ h[k] # g[k]
      BY <3>1
    <3>3. CASE k = 0
      BY <1>7, <2>0, <3>2, <3>3 DEF Piled
    <3>4. CASE k # 0
      <4>1. k \in 1..n /\ k - 1 \in 0..n /\ ~(k <= k - 1)
        BY <3>2, <3>4
      <4>2. h[k - 1] = g[k - 1]
        BY <3>1, <4>1
      <4>3. h[k] = Opened(s[n + 1 - k], h[k - 1])
        BY <2>0, <3>4, <4>1
      <4>4. g[k] = Opened(s[n + 1 - k], g[k - 1])
        BY <1>1, <1>7, <4>1 DEF Piled
      <4> QED
        BY <3>2, <4>2, <4>3, <4>4
    <3> QED
      BY <3>3, <3>4
  <2>2. \A k \in 0..n : h[k] = g[k]
    BY <2>1
  <2>3. DOMAIN h = 0..n /\ h = [k \in 0..n |-> h[k]]
    BY <1>1, <1>9
  <2>4. DOMAIN g = 0..n /\ g = [k \in 0..n |-> g[k]]
    BY <1>1, <1>7 DEF Piled
  <2> HIDE DEF Piling
  <2> QED
    BY <2>2, <2>3, <2>4
<1>10. F = g
  <2> HIDE DEF Piling
  <2> QED
    BY <1>8, <1>9
<1>11. Binding(s) = F[Len(s)]
  BY DEF Binding
<1> QED
  BY <1>7, <1>10, <1>11

\* No call binds nothing; a call on top opens on what the others leave.
LEMMA BindingSteps ==
  ASSUME graph \in Graphs, Applied, InOnePlace
  PROVE  /\ Binding(<<>>) = <<>> /\ DOMAIN Binding(<<>>) = {}
         /\ \A s \in Seq(LocalCalls) : Binding(s) \in Frames
         /\ \A s \in Seq(LocalCalls), c \in LocalCalls : Binding(<<c>> \o s) = Opened(c, Binding(s))
<1>1. Binding(<<>>) = <<>> /\ DOMAIN Binding(<<>>) = {}
  <2>1. <<>> \in Seq(LocalCalls) /\ Len(<<>>) = 0
    OBVIOUS
  <2>2. PICK g : Piled(<<>>, g) /\ Binding(<<>>) = g[Len(<<>>)]
    BY <2>1, BindingPiled
  <2> QED
    BY <2>1, <2>2 DEF Piled
<1>2. ASSUME NEW s \in Seq(LocalCalls) PROVE Binding(s) \in Frames
  <2>1. PICK g : Piled(s, g) /\ Binding(s) = g[Len(s)]
    BY BindingPiled
  <2>2. Len(s) \in 0..Len(s)
    OBVIOUS
  <2> QED
    BY <2>1, <2>2 DEF Piled
<1>3. ASSUME NEW s \in Seq(LocalCalls), NEW c \in LocalCalls PROVE Binding(<<c>> \o s) = Opened(c, Binding(s))
  <2>1. PICK t : t = <<c>> \o s
    OBVIOUS
  <2>2. /\ t \in Seq(LocalCalls) /\ Len(t) = Len(s) + 1 /\ t # <<>> /\ Head(t) = c /\ Tail(t) = s
        /\ t[1] = c /\ \A i \in 1..Len(s) : t[i + 1] = s[i]
        /\ DOMAIN t = {1} \cup {i + 1 : i \in DOMAIN s}
    BY <2>1, OneOnTop
  <2>3. PICK g : Piled(s, g) /\ Binding(s) = g[Len(s)]
    BY BindingPiled
  <2>4. PICK h : Piled(t, h) /\ Binding(t) = h[Len(t)]
    BY <2>2, BindingPiled
  <2>5. PICK n \in Nat : n = Len(s)
    OBVIOUS
  <2> DEFINE U == {k \in 0..n : h[k] # g[k]}
  <2>6. ASSUME U # {} PROVE FALSE
    <3>1. PICK k \in U : \A m \in U : k <= m
      <4>1. U \in SUBSET Nat
        OBVIOUS
      <4> HIDE DEF U
      <4> QED
        BY <2>6, <4>1, LeastNumber
    <3>2. k \in 0..n /\ h[k] # g[k]
      BY <3>1
    <3>3. CASE k = 0
      BY <2>3, <2>4, <3>2, <3>3 DEF Piled
    <3>4. CASE k # 0
      <4>1. k \in 1..n /\ k - 1 \in 0..n /\ ~(k <= k - 1) /\ k \in 1..(n + 1)
        BY <3>2, <3>4
      <4>2. h[k - 1] = g[k - 1]
        BY <3>1, <4>1
      <4>3. h[k] = Opened(t[Len(t) + 1 - k], h[k - 1])
        BY <2>2, <2>4, <2>5, <4>1 DEF Piled
      <4>4. g[k] = Opened(s[n + 1 - k], g[k - 1])
        BY <2>3, <2>5, <4>1 DEF Piled
      <4>5. n + 1 - k \in 1..n /\ Len(t) + 1 - k = (n + 1 - k) + 1
        BY <2>2, <2>5, <4>1
      <4>6. t[Len(t) + 1 - k] = s[n + 1 - k]
        BY <2>2, <2>5, <4>5
      <4> QED
        BY <3>2, <4>2, <4>3, <4>4, <4>6
    <3> QED
      BY <3>3, <3>4
  <2>7. h[n] = g[n]
    BY <2>5, <2>6
  <2>8. h[n + 1] = Opened(t[1], h[n])
    <3>1. n + 1 \in 1..Len(t) /\ Len(t) + 1 - (n + 1) = 1 /\ (n + 1) - 1 = n
      BY <2>2, <2>5
    <3> QED
      BY <2>4, <3>1 DEF Piled
  <2> QED
    BY <2>1, <2>2, <2>3, <2>4, <2>5, <2>7, <2>8
<1> QED
  BY <1>1, <1>2, <1>3

-----------------------------------------------------------------------------
(* A regular graph.                                                        *)

\* Helpers that share a parameter are the same.
LEMMA GivenApart ==
  ASSUME graph \in Graphs, Applied, InOnePlace, NEW c \in LocalCalls, NEW d \in LocalCalls,
         NEW p \in Given(c), p \in Given(d)
  PROVE  Values[c].target = Values[d].target
<1>1. Given(c) = ToSet(Parameters(c)) /\ Given(d) = ToSet(Parameters(d))
  BY ArgsOne
<1>2. PICK i \in DOMAIN Parameters(c) : p = Parameters(c)[i]
  BY <1>1 DEF ToSet
<1>3. PICK j \in DOMAIN Parameters(d) : p = Parameters(d)[j]
  BY <1>1 DEF ToSet
<1>4. Values[c].target \in DOMAIN Functions /\ Values[d].target \in DOMAIN Functions
  BY DEF LocalCalls
<1>5. PICK f \in DOMAIN Functions : f = Values[c].target
  BY <1>4
<1>6. PICK g \in DOMAIN Functions : g = Values[d].target
  BY <1>4
<1>7. i \in DOMAIN Functions[f].parameters /\ p = Functions[f].parameters[i]
  BY <1>2, <1>5 DEF Parameters
<1>8. j \in DOMAIN Functions[g].parameters /\ p = Functions[g].parameters[j]
  BY <1>3, <1>6 DEF Parameters
<1>9. \A x, y \in DOMAIN Functions :
        \A k \in DOMAIN Functions[x].parameters, l \in DOMAIN Functions[y].parameters :
          Functions[x].parameters[k] = Functions[y].parameters[l] => x = y
  BY DEF InOnePlace
<1>10. f = g
  BY <1>7, <1>8, <1>9
<1> QED
  BY <1>5, <1>6, <1>10

\* Only the parameters of the calls on it are bound in a stack's frame.
LEMMA OnlyGiven ==
  ASSUME graph \in Graphs, Applied, InOnePlace, NEW s \in Seq(LocalCalls), NEW p \in DOMAIN Binding(s)
  PROVE  \E i \in DOMAIN s : p \in Given(s[i])
<1> DEFINE Bad(t, q) == q \in DOMAIN Binding(t) /\ ~\E i \in DOMAIN t : q \in Given(t[i])
           U == {n \in Nat : \E t \in Seq(LocalCalls) : Len(t) = n /\ \E q : Bad(t, q)}
<1>1. SUFFICES ASSUME U # {} PROVE FALSE
  <2>1. Len(s) \in Nat
    OBVIOUS
  <2> QED
    BY <1>1, <2>1
<1>2. PICK n \in U : \A m \in U : n <= m
  <2>1. U \in SUBSET Nat
    OBVIOUS
  <2> HIDE DEF U
  <2> QED
    BY <1>1, <2>1, LeastNumber
<1>3. PICK t \in Seq(LocalCalls) : Len(t) = n /\ \E q : Bad(t, q)
  BY <1>2
<1>4. PICK q : Bad(t, q)
  BY <1>3
<1>5. t # <<>>
  BY <1>4, BindingSteps
<1>6. PICK c : c = Head(t)
  OBVIOUS
<1>7. PICK u : u = Tail(t)
  OBVIOUS
<1>8. c \in LocalCalls /\ u \in Seq(LocalCalls) /\ t = <<c>> \o u /\ Len(t) = Len(u) + 1
  BY <1>5, <1>6, <1>7, OneBelow
<1>9. 1 \in DOMAIN t /\ t[1] = c /\ \A i \in DOMAIN u : i + 1 \in DOMAIN t /\ t[i + 1] = u[i]
  <2>1. Len(u) \in Nat /\ DOMAIN u = 1..Len(u) /\ DOMAIN t = 1..(Len(u) + 1)
    BY <1>8
  <2>2. \A i \in 1..Len(u) : u[i] = t[i + 1]
    BY <1>5, <1>7, <1>8
  <2> QED
    BY <1>5, <1>6, <2>1, <2>2
<1>10. Binding(t) = Opened(c, Binding(u)) /\ Binding(u) \in Frames
  BY <1>8, BindingSteps
<1>11. q \in DOMAIN Binding(u) \cup Given(c)
  BY <1>4, <1>8, <1>10, OpenedTyped
<1>12. q \notin Given(c)
  BY <1>4, <1>9
<1>13. ~\E i \in DOMAIN u : q \in Given(u[i])
  <2> SUFFICES ASSUME NEW i \in DOMAIN u, q \in Given(u[i]) PROVE FALSE
    OBVIOUS
  <2>1. Len(u) \in Nat /\ DOMAIN u = 1..Len(u)
    BY <1>8
  <2>2. i + 1 \in DOMAIN t /\ t[i + 1] = u[i]
    BY <1>9
  <2> QED
    BY <1>4, <2>2
<1>14. Bad(u, q)
  BY <1>11, <1>12, <1>13
<1>15. Len(u) \in U
  <2>1. Len(u) \in Nat
    BY <1>8
  <2> HIDE DEF Bad
  <2> QED
    BY <1>8, <1>14, <2>1
<1>16. n <= Len(u)
  <2> HIDE DEF U
  <2> QED
    BY <1>2, <1>15
<1>17. Len(u) \in Nat /\ n = Len(u) + 1
  BY <1>3, <1>8
<1> QED
  BY <1>16, <1>17

\* The frame of a stack is the one below it, and what its last call gives.
LEMMA FrameBelow ==
  ASSUME graph \in Graphs, Applied, InOnePlace, NEW s \in Stacks, s # <<>>
  PROVE  /\ Head(s) \in LocalCalls /\ Tail(s) \in Stacks /\ Len(s) = Len(Tail(s)) + 1
         /\ Binding(Tail(s)) \in Frames /\ Binding(s) = Opened(Head(s), Binding(Tail(s)))
         /\ Given(Head(s)) \subseteq DOMAIN Binding(s)
         /\ Agree(Binding(Tail(s)), Binding(s))
<1>1. /\ Head(s) \in LocalCalls /\ Tail(s) \in Stacks
      /\ s = <<Head(s)>> \o Tail(s) /\ Len(s) = Len(Tail(s)) + 1
      /\ \A i \in DOMAIN Tail(s) : Values[Tail(s)[i]].target # Values[Head(s)].target
  BY StackTyped
<1>2. PICK t : t = Tail(s)
  OBVIOUS
<1>3. PICK c : c = Head(s)
  OBVIOUS
<1>4. c \in LocalCalls /\ t \in Stacks /\ t \in Seq(LocalCalls) /\ s = <<c>> \o t
  BY <1>1, <1>2, <1>3 DEF Stacks
<1>5. Binding(t) \in Frames /\ Binding(s) = Opened(c, Binding(t))
  BY <1>4, BindingSteps
<1>6. PICK b \in Frames : b = Binding(t)
  BY <1>5
<1>7. /\ DOMAIN Binding(s) = DOMAIN b \cup Given(c)
      /\ \A p \in DOMAIN b \ Given(c) : Binding(s)[p] = b[p]
  <2>1. c \in LocalCalls
    BY <1>4
  <2>2. /\ DOMAIN Opened(c, b) = DOMAIN b \cup Given(c)
        /\ \A p \in DOMAIN b \ Given(c) : Opened(c, b)[p] = b[p]
    BY <2>1, OpenedTyped
  <2> QED
    BY <1>5, <1>6, <2>2
<1>8. ASSUME NEW p \in DOMAIN b PROVE p \notin Given(c)
  <2>1. PICK i \in DOMAIN t : p \in Given(t[i])
    BY <1>4, <1>6, <1>8, OnlyGiven
  <2>2. t[i] \in LocalCalls
    BY <1>4
  <2>3. Values[t[i]].target # Values[c].target
    BY <1>1, <1>2, <1>3
  <2> QED
    BY <1>4, <2>1, <2>2, <2>3, GivenApart
<1>9. Agree(b, Binding(s))
  BY <1>7, <1>8 DEF Agree
<1> QED
  BY <1>1, <1>2, <1>3, <1>5, <1>6, <1>7, <1>9

\* A walk of a regular graph.
Asking ==
  /\ graph \in Graphs /\ asked.question \in Questions /\ asked.start \in Nat
  /\ Regular /\ DOMAIN asked.bindings \subseteq Owned
Region == Origin(StartNodes)
CallsTo(n) == {m \in Region : m.id \in LocalCalls /\ n \in Origin({m})}
\* The parameters a walk may have bound where it reaches a node.
Carried(n) == (DOMAIN asked.bindings) \cup (UNION {ToSet(Parameters(m.id)) : m \in CallsTo(n)})

\* Where a walk starts.
LEMMA StartsTyped ==
  ASSUME graph \in Graphs, asked.question \in Questions, asked.start \in Nat
  PROVE  StartNodes \subseteq [id : {asked.question.start, asked.start}, calls : Stacks, field : Fields]
<1>1. asked.question.start \in Nat /\ <<>> \in Stacks
  BY GraphsAssumption, StacksFinite
<1>2. FirstNode \in [id : {asked.question.start}, calls : Stacks, field : Fields]
  BY <1>1 DEF FirstNode, Node, Fields
<1>3. Origin({FirstNode}) \subseteq [id : Nat, calls : Stacks, field : Fields]
  <2>1. PICK X : X = {asked.question.start}
    OBVIOUS
  <2>2. X \in SUBSET Nat /\ IsFiniteSet(X)
    BY <1>1, <2>1, FS_Singleton
  <2>3. {FirstNode} \in SUBSET [id : X, calls : Stacks, field : Fields]
    BY <1>2, <2>1
  <2> QED
    BY <2>2, <2>3, OriginIsLeast
<1>4. \A n \in Origin({FirstNode}) : n.calls \in Stacks
  BY <1>3
<1>5. CASE ~asked.again
  <2>1. StartNodes = {FirstNode}
    BY <1>5 DEF StartNodes
  <2> QED
    BY <1>2, <2>1
<1>6. CASE asked.again
  <2>1. ASSUME NEW x \in StartNodes PROVE \E n \in Origin({FirstNode}) : x = Node(asked.start, n.calls, NoField)
    BY <1>6 DEF StartNodes
  <2>2. NoField \in Fields
    BY DEF Fields
  <2> QED
    BY <1>4, <2>1, <2>2 DEF Node
<1> QED
  BY <1>5, <1>6

\* What leads to the start of a walk.
LEMMA RegionTyped ==
  ASSUME graph \in Graphs, asked.question \in Questions, asked.start \in Nat
  PROVE  /\ StartNodes \subseteq Region /\ Region \subseteq [id : Nat, calls : Stacks, field : Fields]
         /\ \A n \in Region : From(n) \subseteq Region
         /\ \A T : (StartNodes \subseteq T /\ \A n \in T \cap Region : From(n) \subseteq T) => Region \subseteq T
         /\ \A n \in Region : n \in Origin({n}) /\ \A m \in Origin({n}) : From(m) \subseteq Origin({n})
<1>1. PICK X : X = {asked.question.start, asked.start}
  OBVIOUS
<1>2. X \in SUBSET Nat /\ IsFiniteSet(X)
  <2>1. X = {asked.question.start} \cup {asked.start}
    BY <1>1
  <2>2. IsFiniteSet({asked.question.start}) /\ IsFiniteSet({asked.start})
    BY FS_Singleton
  <2>3. IsFiniteSet(X)
    BY <2>1, <2>2, FS_Union
  <2> QED
    BY <1>1, <2>3, GraphsAssumption
<1>3. StartNodes \in SUBSET [id : X, calls : Stacks, field : Fields]
  BY <1>1, StartsTyped
<1>4. /\ StartNodes \subseteq Region /\ Region \subseteq [id : Nat, calls : Stacks, field : Fields]
      /\ \A n \in Region : From(n) \subseteq Region
      /\ \A T : (StartNodes \subseteq T /\ \A n \in T \cap Region : From(n) \subseteq T) => Region \subseteq T
  BY <1>2, <1>3, OriginIsLeast DEF Region
<1>5. ASSUME NEW n \in Region PROVE n \in Origin({n}) /\ \A m \in Origin({n}) : From(m) \subseteq Origin({n})
  <2>1. PICK Y : Y = {n.id}
    OBVIOUS
  <2>2. n \in [id : Nat, calls : Stacks, field : Fields]
    BY <1>4
  <2>3. Y \in SUBSET Nat /\ IsFiniteSet(Y)
    BY <2>1, <2>2, FS_Singleton
  <2>4. {n} \in SUBSET [id : Y, calls : Stacks, field : Fields]
    BY <2>1, <2>2
  <2>5. {n} \subseteq Origin({n}) /\ \A m \in Origin({n}) : From(m) \subseteq Origin({n})
    BY <2>3, <2>4, OriginIsLeast
  <2> QED
    BY <2>5
<1> QED
  BY <1>4, <1>5

\* What may be bound grows on the way back.
LEMMA CarriedGrows ==
  ASSUME graph \in Graphs, asked.question \in Questions, asked.start \in Nat, NEW n \in Region, NEW m \in From(n)
  PROVE  /\ Carried(n) \subseteq Carried(m)
         /\ n.id \in LocalCalls => ToSet(Parameters(n.id)) \subseteq Carried(m)
<1>1. ASSUME NEW x \in CallsTo(n) PROVE x \in CallsTo(m)
  <2>1. x \in Region /\ x.id \in LocalCalls /\ n \in Origin({x})
    BY DEF CallsTo
  <2>2. m \in Origin({x})
    BY <2>1, RegionTyped
  <2> QED
    BY <2>1, <2>2 DEF CallsTo
<1>2. ASSUME n.id \in LocalCalls PROVE n \in CallsTo(m)
  <2>1. m \in Origin({n})
    BY RegionTyped
  <2> QED
    BY <1>2, <2>1 DEF CallsTo
<1> QED
  BY <1>1, <1>2 DEF Carried

\* A parameter read is bound by the call above, or by none.
LEMMA ReadBound ==
  ASSUME Asking, NEW n \in Region, NEW p \in Read(n)
  PROVE  /\ n.calls # <<>> => p \in Given(Head(n.calls)) /\ p \in DOMAIN Binding(n.calls)
         /\ n.calls = <<>> => p \notin Carried(n)
<1>1. Plain(StartNodes, asked.bindings) /\ Applied /\ InOnePlace /\ graph \in Graphs
  BY DEF Asking, Regular
<1>2. n.calls \in Stacks
  BY RegionTyped DEF Asking
<1>3. ASSUME n.calls # <<>> PROVE p \in Given(Head(n.calls)) /\ p \in DOMAIN Binding(n.calls)
  <2>1. p \in ToSet(Parameters(Head(n.calls)))
    BY <1>1, <1>3 DEF Plain, Region
  <2>2. Head(n.calls) \in LocalCalls /\ Given(Head(n.calls)) \subseteq DOMAIN Binding(n.calls)
    BY <1>1, <1>2, <1>3, FrameBelow
  <2>3. Given(Head(n.calls)) = ToSet(Parameters(Head(n.calls)))
    BY <1>1, <2>2, ArgsOne
  <2> QED
    BY <2>1, <2>2, <2>3
<1>4. ASSUME n.calls = <<>> PROVE p \notin Carried(n)
  <2>1. /\ Read(n) \cap DOMAIN asked.bindings = {}
        /\ \A m \in Region : (m.id \in LocalCalls /\ n \in Origin({m})) => Read(n) \cap ToSet(Parameters(m.id)) = {}
    BY <1>1, <1>4 DEF Plain, Region
  <2> QED
    BY <2>1 DEF Carried, CallsTo
<1> QED
  BY <1>3, <1>4

\* A parameter of the call above leads to what that call passes.
LEMMA BackFromBound ==
  ASSUME Asking, NEW n \in Region, n.id \in Owned, n.calls # <<>>,
         NEW m, m = Node(Own(Head(n.calls), n.id), Tail(n.calls), n.field)
  PROVE  /\ n.id \in DOMAIN Binding(n.calls) /\ From(n) = {m} /\ m \in Region /\ m.field = n.field
         /\ m.calls = Tail(n.calls) /\ Len(n.calls) = Len(m.calls) + 1 /\ Len(m.calls) \in Nat
         /\ Agree(Binding(m.calls), Binding(n.calls)) /\ Carried(n) \subseteq Carried(m)
         /\ Binding(n.calls)[n.id] = IF m.id \in DOMAIN Binding(m.calls) THEN Binding(m.calls)[m.id] ELSE m.id
<1>1. Applied /\ InOnePlace /\ graph \in Graphs /\ asked.question \in Questions /\ asked.start \in Nat
  BY DEF Asking, Regular
<1>2. n.calls \in Stacks
  BY <1>1, RegionTyped
<1>3. PICK c : c = Head(n.calls)
  OBVIOUS
<1>4. PICK t : t = Tail(n.calls)
  OBVIOUS
<1>5. /\ c \in LocalCalls /\ t \in Stacks /\ Len(n.calls) = Len(t) + 1
      /\ Binding(t) \in Frames /\ Binding(n.calls) = Opened(c, Binding(t))
      /\ Given(c) \subseteq DOMAIN Binding(n.calls) /\ Agree(Binding(t), Binding(n.calls))
  BY <1>1, <1>2, <1>3, <1>4, FrameBelow
<1>6. n.id \in Given(c)
  <2>1. n.id \in Read(n)
    BY DEF Read
  <2> QED
    BY <1>3, <2>1, ReadBound
<1>7. Args(c, n.id) = {Own(c, n.id)}
  BY <1>1, <1>5, <1>6, ArgsOne
<1>8. n.id \in DOMAIN Values /\ Values[n.id].kind = "parameter"
  BY <1>1 DEF InOnePlace, Owned, ToSet
<1>9. m.id = Own(c, n.id) /\ m.calls = t /\ m.field = n.field /\ m = Node(Own(c, n.id), t, n.field)
  BY <1>3, <1>4 DEF Node
<1>10. From(n) = {m}
  <2>1. \A x : x \in From(n) <=> \E i \in Args(c, n.id) : x = Node(i, t, n.field)
    BY <1>3, <1>4, <1>8, FromByKind
  <2> QED
    BY <1>7, <1>9, <2>1
<1>11. m \in Region /\ Carried(n) \subseteq Carried(m)
  BY <1>1, <1>10, RegionTyped, CarriedGrows
<1>12. Binding(n.calls)[n.id] = IF Own(c, n.id) \in DOMAIN Binding(t) THEN Binding(t)[Own(c, n.id)] ELSE Own(c, n.id)
  <2>1. PICK b \in Frames : b = Binding(t)
    BY <1>5
  <2>3. \A p \in Given(c) : Opened(c, b)[p] = IF Own(c, p) \in DOMAIN b THEN b[Own(c, p)] ELSE Own(c, p)
    <3>1. c \in LocalCalls
      BY <1>5
    <3> QED
      BY <1>1, <3>1, OpenedTyped
  <2>2. Opened(c, b)[n.id] = IF Own(c, n.id) \in DOMAIN b THEN b[Own(c, n.id)] ELSE Own(c, n.id)
    BY <1>6, <2>3
  <2> QED
    BY <1>5, <2>1, <2>2
<1>13. Len(t) \in Nat
  BY <1>5 DEF Stacks
<1> QED
  BY <1>4, <1>5, <1>6, <1>9, <1>10, <1>11, <1>12, <1>13

\* A bound parameter leads, call by call, to the value it is bound to.
LEMMA LeadsToBound ==
  ASSUME Asking, NEW n \in Region, n.id \in DOMAIN Binding(n.calls)
  PROVE  \E m \in Region : /\ m.id = Binding(n.calls)[n.id] /\ m.field = n.field
                           /\ Agree(Binding(m.calls), Binding(n.calls)) /\ Carried(n) \subseteq Carried(m)
<1> DEFINE Leads(x, y) == /\ y.id = Binding(x.calls)[x.id] /\ y.field = x.field
                          /\ Agree(Binding(y.calls), Binding(x.calls)) /\ Carried(x) \subseteq Carried(y)
           Unled(x) == x.id \in DOMAIN Binding(x.calls) /\ ~\E y \in Region : Leads(x, y)
           U == {k \in Nat : \E x \in Region : Len(x.calls) = k /\ Unled(x)}
<1>1. Applied /\ InOnePlace /\ graph \in Graphs
  BY DEF Asking, Regular
<1>2. ASSUME NEW x \in Region
      PROVE  /\ x.calls \in Seq(LocalCalls) /\ Len(x.calls) \in Nat /\ Binding(x.calls) \in Frames
             /\ DOMAIN Binding(x.calls) \subseteq Owned
  <2>1. x.calls \in Stacks
    BY RegionTyped DEF Asking
  <2>2. x.calls \in Seq(LocalCalls)
    BY <2>1 DEF Stacks
  <2>3. Binding(x.calls) \in Frames
    BY <1>1, <2>2, BindingSteps
  <2> QED
    BY <2>2, <2>3 DEF Frames
<1>3. SUFFICES ASSUME U # {} PROVE FALSE
  <2>1. ~Unled(n)
    <3> HIDE DEF Unled
    <3> QED
      BY <1>2, <1>3
  <2> QED
    BY <2>1
<1>4. PICK k \in U : \A j \in U : k <= j
  <2>1. U \in SUBSET Nat
    OBVIOUS
  <2> HIDE DEF U
  <2> QED
    BY <1>3, <2>1, LeastNumber
<1>5. PICK x \in Region : Len(x.calls) = k /\ Unled(x)
  BY <1>4
<1>6. x.calls # <<>>
  BY <1>1, <1>5, BindingSteps
<1>7. x.id \in Owned
  BY <1>2, <1>5
<1>8. PICK m : m = Node(Own(Head(x.calls), x.id), Tail(x.calls), x.field)
  OBVIOUS
<1>9. /\ m \in Region /\ m.field = x.field /\ Len(x.calls) = Len(m.calls) + 1 /\ Len(m.calls) \in Nat
      /\ Agree(Binding(m.calls), Binding(x.calls)) /\ Carried(x) \subseteq Carried(m)
      /\ Binding(x.calls)[x.id] = IF m.id \in DOMAIN Binding(m.calls) THEN Binding(m.calls)[m.id] ELSE m.id
  BY <1>6, <1>7, <1>8, BackFromBound
<1>10. CASE m.id \notin DOMAIN Binding(m.calls)
  <2>1. Leads(x, m)
    BY <1>9, <1>10
  <2> QED
    BY <1>5, <1>9, <2>1
<1>11. CASE m.id \in DOMAIN Binding(m.calls)
  <2>1. Len(m.calls) \notin U
    <3>1. ~(k <= Len(m.calls))
      BY <1>5, <1>9
    <3> HIDE DEF U
    <3> QED
      BY <1>4, <3>1
  <2>2. ~Unled(m)
    <3> HIDE DEF Unled
    <3> QED
      BY <1>9, <2>1
  <2>3. PICK y \in Region : Leads(m, y)
    BY <1>11, <2>2
  <2>4. Agree(Binding(y.calls), Binding(x.calls))
    BY <1>9, <2>3 DEF Agree
  <2>5. Leads(x, y)
    BY <1>9, <1>11, <2>3, <2>4
  <2> QED
    BY <1>5, <2>5
<1> QED
  BY <1>10, <1>11

-----------------------------------------------------------------------------
(* A walk of a regular graph: what is on its worklist, and what was        *)
(* walked, matches what leads to the start; what was walked is settled.    *)

\* What is on the worklist, and what was walked.
BoundItem == [id : Nat, bindings : Frames, depth : Nat, field : Fields]
BoundKey == [id : Nat, bindings : Frames, field : Fields]
WalkKeys == seen \cup {Key(x) : x \in ToSet(pending)}

\* A key fits a node when it binds what the node's calls bind, and nothing that
\* is not bound on some way there.
Fits(k, n) == k.field = n.field /\ Agree(Binding(n.calls), k.bindings) /\ DOMAIN k.bindings \subseteq Carried(n)
Match(k, n) == k.id = n.id /\ Fits(k, n)
\* A parameter may be skipped for what it is bound to.
StandsFor(k, n) ==
  /\ Fits(k, n)
  /\ k.id = n.id \/ (n.id \in DOMAIN Binding(n.calls) /\ k.id = Binding(n.calls)[n.id])
Covered(n, keys) == \E k \in keys : StandsFor(k, n)
Settled(n, ids, keys) ==
  /\ ~CannotSee(n) /\ (n.field = NoField => n.id \in ids)
  /\ \A m \in From(n) : Covered(m, keys)

WalkSound ==
  /\ \A o \in found : \E k \in seen : k.id = o.value /\ k.bindings = o.bindings /\ k.field = NoField
  /\ \A k \in WalkKeys : \E n \in Region : Match(k, n)
WalkWhole ==
  /\ \A n \in StartNodes : Covered(n, WalkKeys)
  /\ \A k \in seen : \A n \in Region : Match(k, n) => Settled(n, {o.value : o \in found}, WalkKeys)
PlainInv ==
  /\ DOMAIN asked.bindings \subseteq Owned
  /\ pending \in Seq(BoundItem) /\ seen \subseteq BoundKey
  /\ WalkSound /\ (~incomplete => WalkWhole)

Missing == asked.again /\ asked.of = 0
FlowInv ==
  /\ graph \in Graphs /\ asked.question \in Questions /\ asked.start \in Nat
  /\ Origins =>
       /\ \A o \in found : o.value \in DOMAIN Values
       /\ ~asked.again => asked = [question |-> asked.question, start |-> asked.question.start, of |-> 0,
                                   bindings |-> Unbound, again |-> FALSE]
       /\ Missing => done /\ incomplete /\ found = {}
       /\ (done /\ ~incomplete) => pending = <<>>
       /\ (Regular /\ ~Missing) => PlainInv

\* What leads where depends on the graph and the question only.
LEMMA GraphStill ==
  ASSUME graph' = graph, asked'.question = asked.question
  PROVE  /\ Values' = Values /\ Functions' = Functions /\ Fields' = Fields /\ FirstNode' = FirstNode
         /\ LocalCalls' = LocalCalls /\ Owned' = Owned /\ Frames' = Frames /\ Origins' = Origins
         /\ Applied' = Applied /\ InOnePlace' = InOnePlace
         /\ \A c : Parameters(c)' = Parameters(c)
         /\ \A n : From(n)' = From(n) /\ CannotSee(n)' = CannotSee(n)
         /\ \A s : Origin(s)' = Origin(s) /\ Binding(s)' = Binding(s)
         /\ Origin({FirstNode})' = Origin({FirstNode})
         /\ \A nodes, bound : Plain(nodes, bound)' = Plain(nodes, bound)
         /\ Plain({FirstNode}, Unbound)' = Plain({FirstNode}, Unbound)
<1>1. Values' = Values /\ Functions' = Functions /\ Fields' = Fields /\ FirstNode' = FirstNode
  BY DEF Values, Functions, Fields, FirstNode, Node
<1>2. LocalCalls' = LocalCalls
  BY <1>1 DEF LocalCalls
<1>3. \A c : Parameters(c)' = Parameters(c)
  BY <1>1 DEF Parameters
<1>4. \A c, p : Args(c, p)' = Args(c, p)
  BY <1>1, <1>3 DEF Args
<1>5. \A n : Active(n)' = Active(n)
  BY <1>1 DEF Active
<1>6. ASSUME NEW n PROVE From(n)' = From(n)
  BY <1>1, <1>2, <1>4, <1>5 DEF From, Node, ModelledInputs
<1>7. Under' = Under
  BY <1>1, <1>2 DEF Under
<1>8. \A s : Origin(s)' = Origin(s)
  BY <1>6, <1>7 DEF Origin
<1>9. \A c : Given(c)' = Given(c)
  BY <1>3, <1>4 DEF Given
<1>10. \A c, p : Own(c, p)' = Own(c, p)
  BY <1>4 DEF Own
<1>11. \A c, b : Opened(c, b)' = Opened(c, b)
  BY <1>9, <1>10 DEF Opened
<1>12. \A s : Binding(s)' = Binding(s)
  BY <1>11 DEF Binding
<1>13. Origin({FirstNode})' = Origin({FirstNode})
  BY <1>1, <1>8
<1>14. Owned' = Owned
  BY <1>1 DEF Owned
<1>15. Applied' = Applied /\ InOnePlace' = InOnePlace
  BY <1>1, <1>2, <1>3 DEF Applied, InOnePlace
<1>16. \A n : Read(n)' = Read(n)
  BY <1>1, <1>2, <1>14 DEF Read
<1>17. ASSUME NEW nodes, NEW bound PROVE Plain(nodes, bound)' = Plain(nodes, bound)
  BY <1>1, <1>2, <1>3, <1>5, <1>8, <1>16 DEF Plain
<1>18. Plain({FirstNode}, Unbound)' = Plain({FirstNode}, Unbound)
  BY <1>1, <1>17 DEF Unbound
<1>19. ASSUME NEW n PROVE CannotSee(n)' = CannotSee(n)
  BY <1>1 DEF CannotSee
<1>20. Mentioned' = Mentioned /\ Frames' = Frames
  BY <1>1, <1>14 DEF Mentioned, Refers, Entries, Frames
<1>21. Origins' = Origins
  BY DEF Origins
<1> QED
  BY <1>1, <1>2, <1>3, <1>6, <1>8, <1>12, <1>13, <1>14, <1>15, <1>17, <1>18, <1>19, <1>20, <1>21

\* The rest depends on what is asked, too.
LEMMA FlowStill ==
  ASSUME graph' = graph, asked' = asked
  PROVE  /\ Region' = Region /\ StartNodes' = StartNodes /\ Regular' = Regular /\ Missing' = Missing
         /\ Origins' = Origins /\ BoundItem' = BoundItem /\ BoundKey' = BoundKey /\ Owned' = Owned
         /\ Values' = Values
         /\ \A n : From(n)' = From(n) /\ CannotSee(n)' = CannotSee(n)
         /\ \A k, n : Match(k, n)' = Match(k, n)
         /\ \A n, keys : Covered(n, keys)' = Covered(n, keys)
         /\ \A n, ids, keys : Settled(n, ids, keys)' = Settled(n, ids, keys)
<1>1. /\ Values' = Values /\ Fields' = Fields
      /\ LocalCalls' = LocalCalls /\ Owned' = Owned /\ Frames' = Frames /\ Origins' = Origins
      /\ Applied' = Applied /\ InOnePlace' = InOnePlace
      /\ \A c : Parameters(c)' = Parameters(c)
      /\ \A n : From(n)' = From(n) /\ CannotSee(n)' = CannotSee(n)
      /\ \A s : Origin(s)' = Origin(s)
  BY GraphStill
<1>2. \A s : Binding(s)' = Binding(s)
  BY GraphStill
<1>3. FirstNode' = FirstNode /\ Origin({FirstNode})' = Origin({FirstNode})
  BY GraphStill
<1>4. \A nodes, bound : Plain(nodes, bound)' = Plain(nodes, bound)
  BY GraphStill
<1>5. Plain({FirstNode}, Unbound)' = Plain({FirstNode}, Unbound)
  BY GraphStill
<1>6. StartNodes' = StartNodes
  <2>1. \A n : Agree(Binding(n.calls), asked.bindings)' <=> Agree(Binding(n.calls), asked.bindings)
    BY <1>2 DEF Agree
  <2> QED
    BY <1>3, <2>1 DEF StartNodes, Node
<1>7. Region' = Region
  BY <1>1, <1>6 DEF Region
<1>8. Regular' = Regular
  <2>1. Plain(StartNodes, asked.bindings)' = Plain(StartNodes, asked.bindings)
    BY <1>4, <1>6
  <2> QED
    BY <1>1, <1>5, <2>1 DEF Regular
<1>9. ASSUME NEW n PROVE Carried(n)' = Carried(n)
  BY <1>1, <1>7 DEF Carried, CallsTo
<1>10. ASSUME NEW k, NEW n PROVE Fits(k, n)' = Fits(k, n)
  <2>1. Agree(Binding(n.calls), k.bindings)' <=> Agree(Binding(n.calls), k.bindings)
    BY <1>2 DEF Agree
  <2> QED
    BY <1>9, <2>1 DEF Fits
<1>11. \A k, n : Match(k, n)' = Match(k, n)
  BY <1>10 DEF Match
<1>12. \A k, n : StandsFor(k, n)' = StandsFor(k, n)
  BY <1>2, <1>10 DEF StandsFor
<1>13. \A n, keys : Covered(n, keys)' = Covered(n, keys)
  BY <1>12 DEF Covered
<1>14. \A n, ids, keys : Settled(n, ids, keys)' = Settled(n, ids, keys)
  BY <1>1, <1>13 DEF Settled
<1>15. /\ Missing' = Missing /\ BoundItem' = BoundItem /\ BoundKey' = BoundKey
  BY <1>1 DEF Missing, BoundItem, BoundKey
<1> QED
  BY <1>1, <1>6, <1>7, <1>8, <1>11, <1>13, <1>14, <1>15

\* More keys cover more.
LEMMA SettledMore ==
  ASSUME NEW n, NEW ids, NEW more, ids \subseteq more, NEW keys, NEW others, keys \subseteq others,
         Settled(n, ids, keys)
  PROVE  Settled(n, more, others)
<1>1. \A m : Covered(m, keys) => Covered(m, others)
  BY DEF Covered
<1> QED
  BY <1>1 DEF Settled

\* An item's key.
LEMMA KeyTyped ==
  ASSUME NEW x \in BoundItem
  PROVE  /\ Key(x) \in BoundKey /\ Key(x).id = x.id /\ Key(x).bindings = x.bindings /\ Key(x).field = x.field
         /\ x.id \in Nat /\ x.bindings \in Frames /\ x.depth \in Nat /\ x.field \in Fields
BY DEF BoundItem, BoundKey, Key

\* What a turn leaves of a walk, whatever it adds.
LEMMA FlowMoved ==
  ASSUME Asking, PlainInv, graph' = graph, asked' = asked,
         pending' \in Seq(BoundItem), seen' \subseteq BoundKey,
         seen \subseteq seen', WalkKeys \subseteq WalkKeys',
         \A o \in found' : o \in found
                           \/ \E k \in seen' : k.id = o.value /\ k.bindings = o.bindings /\ k.field = NoField,
         found \subseteq found',
         \A k \in WalkKeys' : k \in WalkKeys \/ \E n \in Region : Match(k, n),
         ~incomplete' => /\ ~incomplete
                         /\ \A k \in seen' : k \in seen
                              \/ \A n \in Region : Match(k, n) => Settled(n, {o.value : o \in found'}, WalkKeys')
  PROVE  PlainInv'
<1>1. /\ Region' = Region /\ StartNodes' = StartNodes
      /\ BoundItem' = BoundItem /\ BoundKey' = BoundKey /\ Owned' = Owned
      /\ \A k, n : Match(k, n)' = Match(k, n)
      /\ \A n, keys : Covered(n, keys)' = Covered(n, keys)
      /\ \A n, ids, keys : Settled(n, ids, keys)' = Settled(n, ids, keys)
  BY FlowStill
<1>2. WalkSound /\ DOMAIN asked.bindings \subseteq Owned
  BY DEF PlainInv
<1>3. WalkSound'
  <2>1. \A o \in found' : \E k \in seen' : k.id = o.value /\ k.bindings = o.bindings /\ k.field = NoField
    BY <1>2 DEF WalkSound
  <2>2. \A k \in WalkKeys' : \E n \in Region : Match(k, n)
    BY <1>2 DEF WalkSound
  <2> QED
    BY <1>1, <2>1, <2>2 DEF WalkSound
<1>4. ASSUME ~incomplete' PROVE WalkWhole'
  <2>1. WalkWhole
    BY <1>4 DEF PlainInv
  <2>2. \A n \in StartNodes : Covered(n, WalkKeys')
    <3>1. \A n : Covered(n, WalkKeys) => Covered(n, WalkKeys')
      BY DEF Covered
    <3> QED
      BY <2>1, <3>1 DEF WalkWhole
  <2>3. PICK ids : ids = {o.value : o \in found}
    OBVIOUS
  <2>4. PICK more : more = {o.value : o \in found'}
    OBVIOUS
  <2>5. ids \subseteq more
    BY <2>3, <2>4
  <2>6. ASSUME NEW k \in seen', NEW n \in Region, Match(k, n) PROVE Settled(n, more, WalkKeys')
    <3>1. CASE k \in seen
      <4>1. Settled(n, ids, WalkKeys)
        BY <2>1, <2>3, <2>6, <3>1 DEF WalkWhole
      <4> QED
        BY <2>5, <4>1, SettledMore
    <3>2. CASE k \notin seen
      BY <1>4, <2>4, <2>6, <3>2
    <3> QED
      BY <3>1, <3>2
  <2>7. \A k \in seen' : \A n \in Region : Match(k, n) => Settled(n, {o.value : o \in found'}, WalkKeys')
    BY <2>4, <2>6
  <2> QED
    BY <1>1, <2>2, <2>7 DEF WalkWhole
<1> QED
  BY <1>1, <1>2, <1>3, <1>4 DEF PlainInv

\* One turn of the loop.
LEMMA FlowTurn ==
  ASSUME Asking, PlainInv, Turn, graph' = graph, asked' = asked,
         NEW added \in Seq(BoundItem), pending' = Rest \o added, seen' = seen \cup {Key(Top)},
         \/ found' = found
         \/ Top.field = NoField /\ found' = found \cup {[value |-> Top.id, bindings |-> Top.bindings]},
         \A x \in ToSet(added) : \E n \in Region : Match(Key(x), n),
         ~incomplete' =>
           /\ ~incomplete
           /\ \A n \in Region : Match(Key(Top), n) =>
                Settled(n, {o.value : o \in found'}, {Key(x) : x \in ToSet(added)})
  PROVE  PlainInv'
<1>0. pending \in Seq(BoundItem) /\ pending # <<>> /\ seen \subseteq BoundKey
  BY DEF PlainInv, Turn
<1>1. Rest \in Seq(BoundItem) /\ Top \in BoundItem /\ ToSet(pending) = {Top} \cup ToSet(Rest)
  BY <1>0, StackTop DEF Rest, Top
<1>2. pending' \in Seq(BoundItem) /\ ToSet(pending') = ToSet(Rest) \cup ToSet(added)
  BY <1>1, StackAdds
<1>3. PICK new : new = {Key(x) : x \in ToSet(added)}
  OBVIOUS
<1>4. PICK rest : rest = {Key(x) : x \in ToSet(Rest)}
  OBVIOUS
<1>5. WalkKeys = seen \cup {Key(Top)} \cup rest
  BY <1>1, <1>4 DEF WalkKeys
<1>6. WalkKeys' = seen \cup {Key(Top)} \cup rest \cup new
  <2>1. \A x : Key(x)' = Key(x)
    BY DEF Key
  <2>2. {Key(x) : x \in ToSet(Rest) \cup ToSet(added)} = rest \cup new
    BY <1>3, <1>4
  <2>3. WalkKeys' = seen' \cup {Key(x) : x \in ToSet(pending')}
    BY <2>1 DEF WalkKeys
  <2> QED
    BY <1>2, <2>2, <2>3
<1>7. seen' \subseteq BoundKey
  BY <1>0, <1>1, KeyTyped
<1>8. \A o \in found' : o \in found
                        \/ \E k \in seen' : k.id = o.value /\ k.bindings = o.bindings /\ k.field = NoField
  <2>1. Key(Top).id = Top.id /\ Key(Top).bindings = Top.bindings /\ Key(Top).field = Top.field
    BY <1>1, KeyTyped
  <2> QED
    BY <2>1
<1>9. \A k \in WalkKeys' : k \in WalkKeys \/ \E n \in Region : Match(k, n)
  BY <1>3, <1>5, <1>6
<1>10. ASSUME ~incomplete'
       PROVE  /\ ~incomplete
              /\ \A k \in seen' : k \in seen
                   \/ \A n \in Region : Match(k, n) => Settled(n, {o.value : o \in found'}, WalkKeys')
  <2>1. PICK ids : ids = {o.value : o \in found'}
    OBVIOUS
  <2>2. ASSUME NEW n \in Region, Match(Key(Top), n) PROVE Settled(n, ids, WalkKeys')
    <3>1. Settled(n, ids, new)
      BY <1>3, <1>10, <2>1, <2>2
    <3>2. new \subseteq WalkKeys'
      BY <1>6
    <3> QED
      BY <3>1, <3>2, SettledMore
  <2> QED
    BY <1>10, <2>1, <2>2
<1>11. seen \subseteq seen' /\ WalkKeys \subseteq WalkKeys' /\ found \subseteq found'
  BY <1>5, <1>6
<1> QED
  BY <1>2, <1>7, <1>8, <1>9, <1>10, <1>11, FlowMoved

\* A turn that cuts the walk short.
LEMMA FlowCut ==
  ASSUME Asking, PlainInv, pending # <<>>, graph' = graph, asked' = asked, incomplete',
         pending' = pending, seen' \in {seen, seen \cup {Key(Top)}},
         \/ found' = found
         \/ /\ Top.field = NoField /\ Key(Top) \in seen'
            /\ found' = found \cup {[value |-> Top.id, bindings |-> Top.bindings]}
  PROVE  PlainInv'
<1>0. pending \in Seq(BoundItem) /\ seen \subseteq BoundKey
  BY DEF PlainInv
<1>1. Top \in BoundItem /\ ToSet(pending) = {Top} \cup ToSet(Rest)
  BY <1>0, StackTop DEF Rest, Top
<1>2. Key(Top) \in WalkKeys
  BY <1>1 DEF WalkKeys
<1>3. WalkKeys' = WalkKeys
  <2>1. \A x : Key(x)' = Key(x)
    BY DEF Key
  <2>2. WalkKeys' = seen' \cup {Key(x) : x \in ToSet(pending')}
    BY <2>1 DEF WalkKeys
  <2>3. Key(Top) \in {Key(x) : x \in ToSet(pending)}
    BY <1>1
  <2> QED
    BY <2>2, <2>3 DEF WalkKeys
<1>4. \A o \in found' : o \in found
                        \/ \E k \in seen' : k.id = o.value /\ k.bindings = o.bindings /\ k.field = NoField
  <2>1. Key(Top).id = Top.id /\ Key(Top).bindings = Top.bindings /\ Key(Top).field = Top.field
    BY <1>1, KeyTyped
  <2> QED
    BY <2>1
<1>5. seen' \subseteq BoundKey /\ seen \subseteq seen' /\ found \subseteq found' /\ pending' \in Seq(BoundItem)
  BY <1>0, <1>1, KeyTyped
<1> QED
  BY <1>3, <1>4, <1>5, FlowMoved

Spread(ids, b, depth, field) == [i \in DOMAIN ids |-> Item(ids[i], b, depth, field)]
Adds(added, ids, b, field) ==
  /\ added \in Seq(BoundItem)
  /\ \A x \in ToSet(added) : Key(x).id \in ToSet(ids) /\ Key(x).bindings = b /\ Key(x).field = field
  /\ \A i \in ToSet(ids) : \E x \in ToSet(added) :
       Key(x).id = i /\ Key(x).bindings = b /\ Key(x).field = field

\* The items put on the worklist.
LEMMA ItemsAdded ==
  ASSUME NEW ids \in Seq(Nat), NEW b \in Frames, NEW depth \in Nat, NEW field \in Fields
  PROVE  Adds(Spread(ids, b, depth, field), ids, b, field)
<1>0. PICK added : added = Spread(ids, b, depth, field)
  OBVIOUS
<1>1. Len(ids) \in Nat /\ DOMAIN ids = 1..Len(ids) /\ \A i \in DOMAIN ids : ids[i] \in Nat
  OBVIOUS
<1>2. \A i \in DOMAIN ids : added[i] \in BoundItem
  BY <1>0, <1>1 DEF BoundItem, Item, Spread
<1>3. added \in [1..Len(ids) -> BoundItem]
  BY <1>0, <1>1, <1>2 DEF Spread
<1>4. added \in Seq(BoundItem)
  BY <1>1, <1>3
<1>5. \A i \in DOMAIN ids : /\ Key(added[i]).id = ids[i] /\ Key(added[i]).bindings = b
                            /\ Key(added[i]).field = field
  BY <1>0 DEF Key, Item, Spread
<1>6. DOMAIN added = DOMAIN ids
  BY <1>0 DEF Spread
<1> HIDE DEF BoundItem
<1>7. ASSUME NEW x \in ToSet(added) PROVE Key(x).id \in ToSet(ids) /\ Key(x).bindings = b /\ Key(x).field = field
  <2>1. PICK i \in DOMAIN ids : x = added[i]
    BY <1>6 DEF ToSet
  <2>2. ids[i] \in ToSet(ids)
    BY DEF ToSet
  <2> QED
    BY <1>5, <2>1, <2>2
<1>8. ASSUME NEW i \in ToSet(ids)
      PROVE  \E x \in ToSet(added) : Key(x).id = i /\ Key(x).bindings = b /\ Key(x).field = field
  <2>1. PICK j \in DOMAIN ids : i = ids[j]
    BY DEF ToSet
  <2>2. added[j] \in ToSet(added)
    BY <1>6 DEF ToSet
  <2> QED
    BY <1>5, <2>1, <2>2
<1>9. Adds(added, ids, b, field)
  BY <1>4, <1>7, <1>8 DEF Adds
<1> QED
  BY <1>0, <1>9

\* What a turn works on.
LEMMA Visited ==
  ASSUME Asking, PlainInv, NEW cost, Visit(cost)
  PROVE  /\ Turn /\ pending # <<>> /\ ~done /\ graph' = graph /\ asked' = asked /\ seen' = seen \cup {Key(Top)}
         /\ Top \in BoundItem /\ Rest \in Seq(BoundItem)
         /\ Top.id \in Nat /\ Top.bindings \in Frames /\ Top.depth + 1 \in Nat /\ Top.field \in Fields
         /\ NoField \in Fields
         /\ \E n \in Region : Match(Key(Top), n)
         /\ \A n \in Region : Match(Key(Top), n) =>
              /\ n.id = Top.id /\ n.field = Top.field /\ n.calls \in Stacks
              /\ Agree(Binding(n.calls), Top.bindings) /\ DOMAIN Top.bindings \subseteq Carried(n)
<1>1. Turn /\ pending # <<>> /\ ~done /\ graph' = graph /\ asked' = asked /\ seen' = seen \cup {Key(Top)}
  BY DEF Visit, InBudget, Turn
<1>2. pending \in Seq(BoundItem) /\ WalkSound
  BY DEF PlainInv
<1>3. Top \in BoundItem /\ Rest \in Seq(BoundItem) /\ ToSet(pending) = {Top} \cup ToSet(Rest)
  BY <1>1, <1>2, StackTop DEF Rest, Top
<1>4. Key(Top).id = Top.id /\ Key(Top).bindings = Top.bindings /\ Key(Top).field = Top.field
  BY <1>3, KeyTyped
<1>5. Key(Top) \in WalkKeys
  BY <1>3 DEF WalkKeys
<1>6. \E n \in Region : Match(Key(Top), n)
  BY <1>2, <1>5 DEF WalkSound
<1>7. ASSUME NEW n \in Region, Match(Key(Top), n)
      PROVE  /\ n.id = Top.id /\ n.field = Top.field /\ n.calls \in Stacks
             /\ Agree(Binding(n.calls), Top.bindings) /\ DOMAIN Top.bindings \subseteq Carried(n)
  <2>1. n.calls \in Stacks
    BY RegionTyped DEF Asking
  <2> QED
    BY <1>4, <1>7, <2>1 DEF Match, Fits
<1>8. Top.id \in Nat /\ Top.bindings \in Frames /\ Top.depth + 1 \in Nat /\ Top.field \in Fields
  BY <1>3, KeyTyped
<1> QED
  BY <1>1, <1>3, <1>6, <1>7, <1>8 DEF Fields

\* Walking on in the same frame.
LEMMA FlowFollows ==
  ASSUME Asking, PlainInv, NEW cost, Visit(cost),
         NEW ids \in Seq(Nat), NEW f \in Fields,
         pending' = Rest \o [i \in DOMAIN ids |-> Item(ids[i], Top.bindings, Top.depth + 1, f)],
         \/ found' = found
         \/ Top.field = NoField /\ found' = found \cup {[value |-> Top.id, bindings |-> Top.bindings]},
         \A n \in Region : Match(Key(Top), n) =>
           \A m : m \in From(n) <=> \E i \in ToSet(ids) : m = Node(i, n.calls, f),
         ~incomplete' =>
           /\ ~incomplete
           /\ \A n \in Region : Match(Key(Top), n) =>
                ~CannotSee(n) /\ (n.field = NoField => n.id \in {o.value : o \in found'})
  PROVE  PlainInv'
<1>1. /\ Turn /\ graph' = graph /\ asked' = asked /\ seen' = seen \cup {Key(Top)}
      /\ Top.bindings \in Frames /\ Top.depth + 1 \in Nat
      /\ graph \in Graphs /\ asked.question \in Questions /\ asked.start \in Nat
  BY Visited DEF Asking
<1>2. PICK added : added = Spread(ids, Top.bindings, Top.depth + 1, f)
  OBVIOUS
<1>3. /\ added \in Seq(BoundItem)
      /\ \A x \in ToSet(added) : Key(x).id \in ToSet(ids) /\ Key(x).bindings = Top.bindings /\ Key(x).field = f
      /\ \A i \in ToSet(ids) : \E x \in ToSet(added) :
           Key(x).id = i /\ Key(x).bindings = Top.bindings /\ Key(x).field = f
  <2>1. Adds(added, ids, Top.bindings, f)
    BY <1>1, <1>2, ItemsAdded
  <2> QED
    BY <2>1 DEF Adds
<1>4. ASSUME NEW n \in Region, Match(Key(Top), n), NEW i \in ToSet(ids), NEW x,
             Key(x).id = i, Key(x).bindings = Top.bindings, Key(x).field = f
      PROVE  Node(i, n.calls, f) \in Region /\ Match(Key(x), Node(i, n.calls, f))
  <2>1. PICK m : m = Node(i, n.calls, f)
    OBVIOUS
  <2>2. m \in From(n) /\ m.id = i /\ m.calls = n.calls /\ m.field = f
    BY <1>4, <2>1 DEF Node
  <2>3. m \in Region /\ Carried(n) \subseteq Carried(m)
    BY <1>1, <2>2, RegionTyped, CarriedGrows
  <2>4. Agree(Binding(n.calls), Top.bindings) /\ DOMAIN Top.bindings \subseteq Carried(n)
    BY <1>4, Visited
  <2> QED
    BY <1>4, <2>1, <2>2, <2>3, <2>4 DEF Match, Fits
<1>5. PICK n0 \in Region : Match(Key(Top), n0)
  BY Visited
<1>6. \A x \in ToSet(added) : \E n \in Region : Match(Key(x), n)
  BY <1>3, <1>4, <1>5
<1>7. ASSUME NEW n \in Region, Match(Key(Top), n), NEW m \in From(n)
      PROVE  Covered(m, {Key(x) : x \in ToSet(added)})
  <2>1. PICK i \in ToSet(ids) : m = Node(i, n.calls, f)
    BY <1>7
  <2>2. PICK x \in ToSet(added) : Key(x).id = i /\ Key(x).bindings = Top.bindings /\ Key(x).field = f
    BY <1>3
  <2>3. Match(Key(x), m)
    BY <1>4, <1>7, <2>1, <2>2
  <2> QED
    BY <2>3 DEF Covered, StandsFor, Match
<1>8. ~incomplete' =>
        /\ ~incomplete
        /\ \A n \in Region : Match(Key(Top), n) =>
             Settled(n, {o.value : o \in found'}, {Key(x) : x \in ToSet(added)})
  <2> SUFFICES ASSUME ~incomplete', NEW n \in Region, Match(Key(Top), n)
               PROVE  /\ ~incomplete
                      /\ Settled(n, {o.value : o \in found'}, {Key(x) : x \in ToSet(added)})
    <3>1. \E n \in Region : Match(Key(Top), n)
      BY Visited
    <3> QED
      BY <3>1
  <2>1. PICK reported : reported = {o.value : o \in found'}
    OBVIOUS
  <2>2. PICK new : new = {Key(x) : x \in ToSet(added)}
    OBVIOUS
  <2>3. ~incomplete /\ ~CannotSee(n) /\ (n.field = NoField => n.id \in reported)
    BY <2>1
  <2>4. \A m \in From(n) : Covered(m, new)
    BY <1>7, <2>2
  <2>5. Settled(n, reported, new)
    BY <2>3, <2>4 DEF Settled
  <2> QED
    BY <2>1, <2>2, <2>3, <2>5
<1>9. pending' = Rest \o added
  BY <1>2 DEF Spread
<1> QED
  BY <1>1, <1>3, <1>6, <1>8, <1>9, FlowTurn

\* A turn that adds nothing.
LEMMA FlowEnds ==
  ASSUME Asking, PlainInv, NEW cost, Visit(cost), pending' = Rest,
         \/ found' = found
         \/ Top.field = NoField /\ found' = found \cup {[value |-> Top.id, bindings |-> Top.bindings]},
         ~incomplete' =>
           /\ ~incomplete
           /\ \A n \in Region : Match(Key(Top), n) =>
                From(n) = {} /\ ~CannotSee(n) /\ (n.field = NoField => n.id \in {o.value : o \in found'})
  PROVE  PlainInv'
<1>1. /\ Turn /\ graph' = graph /\ asked' = asked /\ seen' = seen \cup {Key(Top)}
      /\ Rest \in Seq(BoundItem)
  BY Visited
<1>2. PICK added \in Seq(BoundItem) : added = <<>>
  <2>1. <<>> \in Seq(BoundItem)
    OBVIOUS
  <2> QED
    BY <2>1
<1>3. pending' = Rest \o added /\ ToSet(added) = {}
  BY <1>1, <1>2 DEF ToSet
<1>4. \A x \in ToSet(added) : \E n \in Region : Match(Key(x), n)
  BY <1>3
<1>5. ~incomplete' =>
        /\ ~incomplete
        /\ \A n \in Region : Match(Key(Top), n) =>
             Settled(n, {o.value : o \in found'}, {Key(x) : x \in ToSet(added)})
  <2>1. \A n, ids, keys : (From(n) = {} /\ ~CannotSee(n) /\ (n.field = NoField => n.id \in ids)) => Settled(n, ids, keys)
    BY DEF Settled
  <2> QED
    BY <2>1
<1> QED
  BY <1>1, <1>3, <1>4, <1>5, FlowTurn

PlaceIn(s, p) == LET I == {j \in 1..Len(s) : s[j] = p} IN IF I # {} THEN Min(I) ELSE 0

\* The place of a parameter in its helper.
LEMMA PlaceOfParameter ==
  ASSUME graph \in Graphs, InOnePlace, NEW f \in DOMAIN Functions, NEW s, s = Functions[f].parameters,
         NEW i \in DOMAIN s, NEW p, p = s[i]
  PROVE  PlaceIn(s, p) = i /\ Contains(s, p)
<1>1. s \in Seq(Nat)
  BY GraphTyped
<1>2. DOMAIN s = 1..Len(s) /\ i \in DOMAIN s /\ i \in Nat
  BY <1>1
<1>3. \A j \in DOMAIN s : s[j] = p => i = j
  BY <1>2 DEF InOnePlace
<1>4. {j \in 1..Len(s) : s[j] = p} = {i}
  BY <1>2, <1>3
<1>5. (CHOOSE x \in {i} : \A y \in {i} : x <= y) = i
  BY <1>2
<1>6. PlaceIn(s, p) = i
  BY <1>4, <1>5 DEF PlaceIn, Min
<1>7. Contains(s, p)
  BY <1>2 DEF Contains
<1> QED
  BY <1>6, <1>7

\* The frame of a call.
LEMMA FrameOpened ==
  ASSUME graph \in Graphs, Applied, InOnePlace, NEW c \in LocalCalls, NEW b \in Frames
  PROVE  Frame(Values[c].target, Values[c], b) = Opened(c, b)
<1>1. PICK f \in DOMAIN Functions : f = Values[c].target
  BY DEF LocalCalls
<1>2. PICK P : P = Functions[f].parameters
  OBVIOUS
<1>3. PICK inputs : inputs = Values[c].inputs
  OBVIOUS
<1>4. P = Parameters(c) /\ P \in Seq(Nat) /\ inputs \in Seq(Nat) /\ Len(inputs) >= Len(P)
  BY <1>1, <1>2, <1>3, ArgsTyped DEF Parameters, Applied
<1>5. SubSeq(P, 1, Lesser(Len(P), Len(inputs))) = P
  <2>1. Lesser(Len(P), Len(inputs)) = Len(P)
    BY <1>4 DEF Lesser
  <2>2. PICK s : s = SubSeq(P, 1, Len(P))
    OBVIOUS
  <2>3. s \in Seq(Nat) /\ Len(s) = Len(P) /\ \A i \in 1..Len(P) : s[i] = P[i]
    BY <1>4, <2>2
  <2>4. s = P
    BY <1>4, <2>3, SeqEqual
  <2> QED
    BY <2>1, <2>2, <2>4
<1>6. Given(c) = ToSet(P) /\ \A p \in Given(c) : Args(c, p) = {Own(c, p)}
  BY <1>4, ArgsOne
<1>7. ASSUME NEW p \in ToSet(P)
      PROVE  Contains(P, p) /\ inputs[SelectInSeq(P, LAMBDA q : q = p)] = Own(c, p)
  <2>1. PICK i \in DOMAIN P : P[i] = p
    BY DEF ToSet
  <2>2. PlaceIn(P, p) = i /\ Contains(P, p)
    BY <1>2, <2>1, PlaceOfParameter
  <2>6. SelectInSeq(P, LAMBDA q : q = p) = PlaceIn(P, p)
    BY DEF SelectInSeq, PlaceIn
  <2>3. i \in DOMAIN inputs
    BY <1>4
  <2>4. inputs[i] \in Args(c, p)
    BY <1>3, <1>4, <2>1, <2>3 DEF Args
  <2>5. inputs[i] = Own(c, p)
    BY <1>6, <2>4
  <2> QED
    BY <2>2, <2>5, <2>6
<1>8. \A p : Contains(P, p) => p \in ToSet(P)
  BY <1>4 DEF Contains, ToSet
<1>9. PICK fr : fr = Frame(Values[c].target, Values[c], b)
  OBVIOUS
<1>10. fr = [p \in DOMAIN b \cup ToSet(P) |->
               IF ~Contains(P, p) THEN b[p]
               ELSE IF inputs[SelectInSeq(P, LAMBDA q : q = p)] \in DOMAIN b
                    THEN b[inputs[SelectInSeq(P, LAMBDA q : q = p)]]
                    ELSE inputs[SelectInSeq(P, LAMBDA q : q = p)]]
  BY <1>1, <1>2, <1>3, <1>5, <1>9 DEF Frame
<1>11. fr = [p \in DOMAIN b \cup Given(c) |->
               IF p \notin Given(c) THEN b[p] ELSE IF Own(c, p) \in DOMAIN b THEN b[Own(c, p)] ELSE Own(c, p)]
  <2>1. DOMAIN fr = DOMAIN b \cup Given(c)
    BY <1>6, <1>10
  <2>2. ASSUME NEW p \in DOMAIN b \cup Given(c)
        PROVE  fr[p] = IF p \notin Given(c) THEN b[p]
                       ELSE IF Own(c, p) \in DOMAIN b THEN b[Own(c, p)] ELSE Own(c, p)
    <3>1. CASE p \in Given(c)
      <4>1. PICK a : a = inputs[SelectInSeq(P, LAMBDA q : q = p)]
        OBVIOUS
      <4>2. Contains(P, p) /\ a = Own(c, p)
        BY <1>6, <1>7, <3>1, <4>1
      <4>3. fr[p] = IF ~Contains(P, p) THEN b[p] ELSE IF a \in DOMAIN b THEN b[a] ELSE a
        BY <1>6, <1>10, <2>2, <4>1
      <4> QED
        BY <3>1, <4>2, <4>3
    <3>2. CASE p \notin Given(c)
      <4>1. ~Contains(P, p)
        BY <1>6, <1>8, <3>2
      <4> QED
        BY <1>6, <1>10, <2>2, <3>2, <4>1
    <3> QED
      BY <3>1, <3>2
  <2>3. fr = [p \in DOMAIN fr |-> fr[p]]
    BY <1>10
  <2> QED
    BY <2>1, <2>2, <2>3
<1> QED
  BY <1>9, <1>11 DEF Opened

\* What the callers pass for a parameter.
LEMMA ActualsAre ==
  ASSUME graph \in Graphs, Applied, InOnePlace
  PROVE  Actuals \in Seq(Nat) /\ \A i : i \in ToSet(Actuals) <=> \E c \in LocalCalls : i \in Args(c, Top.id)
<1>1. PICK H : H = Helpers
  OBVIOUS
<1>2. IsFiniteSet(H) /\ H \subseteq DOMAIN Functions /\ IsFiniteSet(DOMAIN Functions)
  <2>1. Helpers \in SUBSET DOMAIN Functions
    BY DEF Helpers
  <2>2. IsFiniteSet(DOMAIN Functions)
    BY GraphTyped
  <2> QED
    BY <1>1, <2>1, <2>2, FS_Subset
<1>3. PICK hs : hs = SetToSeq(H)
  OBVIOUS
<1>4. hs \in Seq(H) /\ ToSet(hs) = H
  BY <1>2, <1>3, ListsAll
<1>5. Len(Values) \in Nat /\ DOMAIN Values = 1..Len(Values)
  BY GraphTyped
<1>6. ASSUME NEW f \in H, NEW c \in DOMAIN Values
      PROVE  /\ Passed(f, c) \in Seq(Nat)
             /\ \A i : i \in ToSet(Passed(f, c)) <=> c \in LocalCalls /\ Values[c].target = f /\ i \in Args(c, Top.id)
  <2>1. f \in DOMAIN Functions /\ Contains(Functions[f].parameters, Top.id)
    BY <1>1, <1>2, <1>6 DEF Helpers
  <2>2. PICK P : P = Functions[f].parameters
    OBVIOUS
  <2>3. P \in Seq(Nat)
    BY <2>1, <2>2, GraphTyped
  <2>4. PICK k \in DOMAIN P : P[k] = Top.id
    BY <2>1, <2>2, <2>3 DEF Contains
  <2>5. Position(f) = k
    <3>1. PlaceIn(P, Top.id) = k
      BY <2>1, <2>2, <2>4, PlaceOfParameter
    <3> QED
      BY <2>2, <3>1 DEF Position, SelectInSeq, PlaceIn
  <2>6. PICK inputs : inputs = Values[c].inputs
    OBVIOUS
  <2>7. inputs \in Seq(Nat)
    BY <2>6, GraphTyped
  <2>8. CASE Values[c].kind = "call" /\ Values[c].target = f
    <3>1. c \in LocalCalls /\ Parameters(c) = P
      BY <1>6, <2>1, <2>2, <2>8 DEF LocalCalls, Parameters
    <3>2. k \in DOMAIN inputs
      <4>1. Len(inputs) >= Len(P)
        BY <2>6, <3>1 DEF Applied
      <4> QED
        BY <2>3, <2>7, <4>1
    <3>3. Passed(f, c) = <<inputs[k]>>
      BY <2>5, <2>6, <2>8, <3>2 DEF Passed
    <3>4. Args(c, Top.id) = {inputs[k]}
      <4>1. Top.id \in Given(c)
        <5>1. Top.id \in ToSet(P)
          BY <2>4 DEF ToSet
        <5> QED
          BY <3>1, <5>1, ArgsOne
      <4>2. inputs[k] \in Args(c, Top.id)
        BY <2>4, <2>6, <3>1, <3>2 DEF Args
      <4>3. Args(c, Top.id) = {Own(c, Top.id)}
        BY <3>1, <4>1, ArgsOne
      <4> QED
        BY <4>2, <4>3
    <3>5. inputs[k] \in Nat
      BY <2>7, <3>2
    <3>6. ToSet(<<inputs[k]>>) = {inputs[k]}
      BY DEF ToSet
    <3> QED
      BY <2>8, <3>1, <3>3, <3>4, <3>5, <3>6
  <2>9. CASE ~(Values[c].kind = "call" /\ Values[c].target = f)
    <3>1. Passed(f, c) = <<>>
      BY <2>9 DEF Passed
    <3>2. ~(c \in LocalCalls /\ Values[c].target = f)
      BY <2>9 DEF LocalCalls
    <3>3. ToSet(<<>>) = {} /\ <<>> \in Seq(Nat)
      BY DEF ToSet
    <3> QED
      BY <3>1, <3>2, <3>3
  <2> QED
    BY <2>8, <2>9
<1>7. PICK row : row = [h \in DOMAIN hs |-> [c \in DOMAIN Values |-> Passed(hs[h], c)]]
  OBVIOUS
<1>8. PICK rows : rows = [h \in DOMAIN hs |-> FlattenSeq(row[h])]
  OBVIOUS
<1>9. ASSUME NEW h \in DOMAIN hs
      PROVE  /\ rows[h] \in Seq(Nat)
             /\ \A i : i \in ToSet(rows[h]) <=>
                  \E c \in LocalCalls : Values[c].target = hs[h] /\ i \in Args(c, Top.id)
  <2>1. hs[h] \in H
    BY <1>4
  <2>2. PICK r : r = row[h]
    OBVIOUS
  <2>3. r = [c \in DOMAIN Values |-> Passed(hs[h], c)]
    BY <1>7, <2>2
  <2>4. r \in Seq(Seq(Nat)) /\ DOMAIN r = DOMAIN Values
    <3>1. \A c \in DOMAIN Values : r[c] \in Seq(Nat)
      BY <1>6, <2>1, <2>3
    <3>2. r \in [1..Len(Values) -> Seq(Nat)]
      BY <1>5, <2>3, <3>1
    <3> QED
      BY <1>5, <2>3, <3>2
  <2>5. /\ FlattenSeq(r) \in Seq(Nat)
        /\ ToSet(FlattenSeq(r)) = UNION {ToSet(r[i]) : i \in DOMAIN r}
    BY <2>4, Flattened
  <2>6. \A i : i \in ToSet(FlattenSeq(r)) <=> \E c \in DOMAIN Values : i \in ToSet(Passed(hs[h], c))
    BY <2>3, <2>4, <2>5
  <2>7. LocalCalls \subseteq DOMAIN Values
    BY DEF LocalCalls
  <2> QED
    BY <1>6, <1>8, <2>1, <2>2, <2>5, <2>6, <2>7
<1>10. rows \in Seq(Seq(Nat)) /\ DOMAIN rows = DOMAIN hs
  <2>1. Len(hs) \in Nat /\ DOMAIN hs = 1..Len(hs)
    BY <1>4
  <2>2. rows \in [1..Len(hs) -> Seq(Nat)]
    BY <1>8, <1>9, <2>1
  <2> QED
    BY <1>8, <2>1, <2>2
<1>11. /\ FlattenSeq(rows) \in Seq(Nat)
       /\ ToSet(FlattenSeq(rows)) = UNION {ToSet(rows[h]) : h \in DOMAIN rows}
  BY <1>10, Flattened
<1>12. Actuals = FlattenSeq(rows)
  <2>1. rows = [h \in DOMAIN hs |-> FlattenSeq([c \in DOMAIN Values |-> Passed(hs[h], c)])]
    BY <1>7, <1>8
  <2> QED
    BY <1>1, <1>3, <2>1 DEF Actuals
<1>13. ASSUME NEW i, NEW c \in LocalCalls, i \in Args(c, Top.id)
       PROVE  \E h \in DOMAIN hs : i \in ToSet(rows[h])
  <2>1. PICK f \in DOMAIN Functions : f = Values[c].target
    BY DEF LocalCalls
  <2>2. Top.id \in ToSet(Parameters(c))
    BY <1>13, ArgsOne
  <2>3. Contains(Functions[f].parameters, Top.id)
    <3>1. Functions[f].parameters \in Seq(Nat)
      BY GraphTyped
    <3> QED
      BY <2>1, <2>2, <3>1 DEF Contains, Parameters, ToSet
  <2>4. f \in H
    BY <1>1, <2>3 DEF Helpers
  <2>5. PICK h \in DOMAIN hs : hs[h] = f
    BY <1>4, <2>4 DEF ToSet
  <2> QED
    BY <1>9, <1>13, <2>1, <2>5
<1> QED
  BY <1>9, <1>10, <1>11, <1>12, <1>13

\* What is noted.
LEMMA NotedFound ==
  ASSUME Note
  PROVE  /\ \/ found' = found
            \/ Top.field = NoField /\ found' = found \cup {[value |-> Top.id, bindings |-> Top.bindings]}
         /\ Top.field = NoField => Top.id \in {o.value : o \in found'}
<1>1. CASE Top.field = NoField
  <2>1. PICK o : o = [value |-> Top.id, bindings |-> Top.bindings]
    OBVIOUS
  <2>2. found' = found \cup {o} /\ o.value = Top.id
    BY <1>1, <2>1 DEF Note
  <2> QED
    BY <1>1, <2>1, <2>2
<1>2. CASE Top.field # NoField
  BY <1>2 DEF Note
<1> QED
  BY <1>1, <1>2

\* A field of an object.
LEMMA ProjectFieldKeeps ==
  ASSUME Asking, PlainInv, ProjectField
  PROVE  PlainInv'
<1> DEFINE ids == Projected(Value, Top.field)
<1>1. /\ Visit(0) /\ Top.id \in DOMAIN Values /\ Value.kind \in {"object", "keyword"} /\ Top.field # NoField
      /\ pending' = Rest \o [i \in DOMAIN ids |-> Item(ids[i], Top.bindings, Top.depth + 1, NoField)]
      /\ found' = found /\ incomplete' = incomplete /\ Value = Values[Top.id]
  BY DEF ProjectField, Walks, answer, Value
<1>2. graph \in Graphs /\ NoField \in Fields
  BY DEF Asking, Fields
<1>3. \A f \in DOMAIN Value.fields : Value.fields[f] \in Nat
  BY <1>1, <1>2, GraphTyped
<1>4. /\ ids \in Seq(Nat)
      /\ \A i : i \in ToSet(ids) <=> Top.field \in DOMAIN Value.fields /\ i = Value.fields[Top.field]
  <2>1. CASE Top.field \in DOMAIN Value.fields
    <3>1. ids = <<Value.fields[Top.field]>>
      BY <2>1 DEF Projected
    <3>2. ToSet(ids) = {Value.fields[Top.field]}
      BY <3>1 DEF ToSet
    <3> QED
      BY <1>3, <2>1, <3>1, <3>2
  <2>2. CASE Top.field \notin DOMAIN Value.fields
    <3>1. ids = <<>>
      BY <2>2 DEF Projected
    <3>2. ToSet(ids) = {}
      BY <3>1 DEF ToSet
    <3> QED
      BY <2>2, <3>1, <3>2
  <2> QED
    BY <2>1, <2>2
<1> HIDE DEF ids
<1>5. \A n \in Region : Match(Key(Top), n) => n.id = Top.id /\ n.field = Top.field
  BY <1>1, Visited
<1>6. ASSUME NEW n \in Region, Match(Key(Top), n)
      PROVE  \A m : m \in From(n) <=> \E i \in ToSet(ids) : m = Node(i, n.calls, NoField)
  <2>1. n.id = Top.id /\ n.field = Top.field
    BY <1>5, <1>6
  <2>2. \A m : m \in From(n) <=> /\ Top.field \in DOMAIN Value.fields
                                 /\ m = Node(Value.fields[Top.field], n.calls, NoField)
    BY <1>1, <2>1, FromByKind
  <2> QED
    BY <1>4, <2>2
<1>7. ASSUME NEW n \in Region, Match(Key(Top), n) PROVE ~CannotSee(n) /\ n.field # NoField
  BY <1>1, <1>5, <1>7 DEF CannotSee
<1> QED
  BY <1>1, <1>2, <1>4, <1>6, <1>7, FlowFollows

\* The end of a way.
LEMMA LeafKeeps ==
  ASSUME Asking, PlainInv, Leaf
  PROVE  PlainInv'
<1>1. /\ Visit(0) /\ Note /\ Top.id \in DOMAIN Values /\ pending' = Rest /\ incomplete' = incomplete
      /\ Values[Top.id].kind \in {"literal", "member"} \/ (Values[Top.id].kind = "keyword" /\ Top.field = NoField)
  BY DEF Leaf, Walks, Value
<1>2. ASSUME NEW n \in Region, Match(Key(Top), n)
      PROVE  From(n) = {} /\ ~CannotSee(n) /\ (n.field = NoField => n.id \in {o.value : o \in found'})
  <2>1. n.id = Top.id /\ n.field = Top.field
    BY <1>1, <1>2, Visited
  <2>2. From(n) = {}
    BY <1>1, <2>1, FromByKind
  <2>3. ~CannotSee(n)
    BY <1>1, <2>1 DEF CannotSee
  <2> QED
    BY <1>1, <2>1, <2>2, <2>3, NotedFound
<1> QED
  BY <1>1, <1>2, NotedFound, FlowEnds

\* A value that cannot be followed.
LEMMA OpaqueKeeps ==
  ASSUME Asking, PlainInv, Unknown \/ Dangling \/ CallTooWide \/ (CallLibrary /\ Top.field # NoField)
  PROVE  PlainInv'
<1>1. Visit(0) /\ pending' = Rest /\ incomplete'
  BY DEF Unknown, Dangling, CallTooWide, CallLibrary, Opaque
<1>2. Note \/ found' = found
  BY DEF Unknown, Dangling, CallTooWide, CallLibrary
<1>3. \/ found' = found
      \/ Top.field = NoField /\ found' = found \cup {[value |-> Top.id, bindings |-> Top.bindings]}
  BY <1>2, NotedFound
<1> QED
  BY <1>1, <1>3, FlowEnds

\* A value put together of others.
LEMMA CombineKeeps ==
  ASSUME Asking, PlainInv, Combine
  PROVE  PlainInv'
<1>0. graph \in Graphs
  BY DEF Asking
<1>1. /\ Visit(0) /\ Note /\ Top.id \in DOMAIN Values /\ incomplete' = incomplete /\ Value = Values[Top.id]
      /\ \/ Value.kind \in Composite /\ pending' = Follow(Value.inputs)
         \/ /\ Value.kind = "object" /\ Top.field = NoField
            /\ pending' = Follow(SetToSeq({Value.fields[f] : f \in DOMAIN Value.fields}))
  BY DEF Combine, Walks, Value
<1>2. /\ Value.inputs \in Seq(Nat) /\ IsFiniteSet(DOMAIN Value.fields)
      /\ \A f \in DOMAIN Value.fields : Value.fields[f] \in Nat
  BY <1>0, <1>1, GraphTyped
<1>3. \E ids \in Seq(Nat) :
        /\ pending' = Follow(ids)
        /\ \A n \in Region : (n.id = Top.id /\ n.field = Top.field) =>
             \A m : m \in From(n) <=> \E i \in ToSet(ids) : m = Node(i, n.calls, Top.field)
  <2>1. CASE Value.kind \in Composite /\ pending' = Follow(Value.inputs)
    <3>1. ASSUME NEW n \in Region, n.id = Top.id, n.field = Top.field
          PROVE  \A m : m \in From(n) <=> \E i \in ToSet(Value.inputs) : m = Node(i, n.calls, Top.field)
      BY <1>1, <2>1, <3>1, FromByKind DEF Composite
    <3> QED
      BY <1>2, <2>1, <3>1
  <2>2. CASE /\ Value.kind = "object" /\ Top.field = NoField
             /\ pending' = Follow(SetToSeq({Value.fields[f] : f \in DOMAIN Value.fields}))
    <3>1. PICK E : E = {Value.fields[f] : f \in DOMAIN Value.fields}
      OBVIOUS
    <3>2. IsFiniteSet(E) /\ E \subseteq Nat
      <4>1. PICK fields : fields = Value.fields
        OBVIOUS
      <4>2. IsFiniteSet(DOMAIN fields) /\ E = {fields[f] : f \in DOMAIN fields}
        BY <1>2, <3>1, <4>1
      <4> QED
        BY <1>2, <3>1, <4>2, ImageFinite
    <3>3. PICK ids : ids = SetToSeq(E)
      OBVIOUS
    <3>4. ids \in Seq(E) /\ ToSet(ids) = E
      BY <3>2, <3>3, ListsAll
    <3>5. ids \in Seq(Nat)
      <4>1. Len(ids) \in Nat /\ ids \in [1..Len(ids) -> E]
        BY <3>4
      <4>2. ids \in [1..Len(ids) -> Nat]
        BY <3>2, <4>1
      <4> QED
        BY <4>1, <4>2
    <3>6. ASSUME NEW n \in Region, n.id = Top.id, n.field = Top.field
          PROVE  \A m : m \in From(n) <=> \E i \in ToSet(ids) : m = Node(i, n.calls, Top.field)
      <4>1. n.id \in DOMAIN Values /\ Values[n.id].kind = "object" /\ n.field = NoField
        BY <1>1, <2>2, <3>6
      <4>2. \A m : m \in From(n) <=> \E f \in DOMAIN Values[n.id].fields :
                                         m = Node(Values[n.id].fields[f], n.calls, n.field)
        BY <4>1, FromByKind
      <4>3. E = {Values[n.id].fields[f] : f \in DOMAIN Values[n.id].fields}
        BY <1>1, <3>1, <3>6
      <4> QED
        BY <3>4, <3>6, <4>2, <4>3
    <3>7. pending' = Follow(ids)
      BY <2>2, <3>1, <3>3
    <3> QED
      BY <3>5, <3>6, <3>7
  <2> QED
    BY <1>1, <2>1, <2>2
<1>4. PICK ids \in Seq(Nat) :
        /\ pending' = Follow(ids)
        /\ \A n \in Region : (n.id = Top.id /\ n.field = Top.field) =>
             \A m : m \in From(n) <=> \E i \in ToSet(ids) : m = Node(i, n.calls, Top.field)
  BY <1>3
<1>5. pending' = Rest \o [i \in DOMAIN ids |-> Item(ids[i], Top.bindings, Top.depth + 1, Top.field)]
  BY <1>4 DEF Follow
<1>6. ASSUME NEW n \in Region, Match(Key(Top), n)
      PROVE  /\ \A m : m \in From(n) <=> \E i \in ToSet(ids) : m = Node(i, n.calls, Top.field)
             /\ ~CannotSee(n) /\ (n.field = NoField => n.id \in {o.value : o \in found'})
  <2>1. n.id = Top.id /\ n.field = Top.field
    BY <1>1, <1>6, Visited
  <2>2. ~CannotSee(n)
    BY <1>1, <2>1 DEF CannotSee, Composite
  <2> QED
    BY <1>1, <1>4, <2>1, <2>2, NotedFound
<1>7. Top.field \in Fields
  BY <1>1, Visited
<1>8. \/ found' = found
      \/ Top.field = NoField /\ found' = found \cup {[value |-> Top.id, bindings |-> Top.bindings]}
  BY <1>1, NotedFound
<1>9. \A n \in Region : Match(Key(Top), n) =>
        \A m : m \in From(n) <=> \E i \in ToSet(ids) : m = Node(i, n.calls, Top.field)
  BY <1>6
<1>10. ~incomplete' =>
         /\ ~incomplete
         /\ \A n \in Region : Match(Key(Top), n) =>
              ~CannotSee(n) /\ (n.field = NoField => n.id \in {o.value : o \in found'})
  BY <1>1, <1>6
<1> QED
  BY <1>1, <1>5, <1>7, <1>8, <1>9, <1>10, FlowFollows

\* A parameter of no call.
LEMMA FreeParameterKeeps ==
  ASSUME Asking, PlainInv, FreeParameter
  PROVE  PlainInv'
<1>0. graph \in Graphs /\ Applied /\ InOnePlace
  BY DEF Asking, Regular
<1>1. /\ Visit(Looking) /\ Note /\ Top.id \in DOMAIN Values /\ incomplete' = incomplete
      /\ Values[Top.id].kind = "parameter" /\ Top.id \notin DOMAIN Top.bindings
      /\ pending' = Rest \o [i \in DOMAIN Actuals |-> Item(Actuals[i], Top.bindings, Top.depth + 1, Top.field)]
  BY DEF FreeParameter, Walks, Value, Follow
<1>2. PICK ids \in Seq(Nat) : ids = Actuals
  BY <1>0, ActualsAre
<1>3. \A i : i \in ToSet(ids) <=> \E c \in LocalCalls : i \in Args(c, Top.id)
  BY <1>0, <1>2, ActualsAre
<1>4. ASSUME NEW n \in Region, Match(Key(Top), n)
      PROVE  /\ \A m : m \in From(n) <=> \E i \in ToSet(ids) : m = Node(i, n.calls, Top.field)
             /\ ~CannotSee(n) /\ (n.field = NoField => n.id \in {o.value : o \in found'})
  <2>1. n.id = Top.id /\ n.field = Top.field /\ n.calls \in Stacks /\ Agree(Binding(n.calls), Top.bindings)
    BY <1>1, <1>4, Visited
  <2>2. ~CannotSee(n)
    BY <1>1, <2>1 DEF CannotSee
  <2>3. CASE n.calls = <<>>
    <3>1. \A m : m \in From(n) <=> \E c \in LocalCalls : \E i \in Args(c, Top.id) : m = Node(i, n.calls, Top.field)
      BY <1>1, <2>1, <2>3, FromByKind
    <3> QED
      BY <1>1, <1>3, <2>1, <2>2, <3>1, NotedFound
  <2>4. CASE n.calls # <<>>
    <3>1. Top.id \notin Owned
      <4> SUFFICES ASSUME Top.id \in Owned PROVE FALSE
        OBVIOUS
      <4>1. Top.id \in Read(n)
        BY <2>1 DEF Read
      <4>2. Top.id \in DOMAIN Binding(n.calls)
        BY <2>4, <4>1, ReadBound
      <4> QED
        BY <1>1, <2>1, <4>2 DEF Agree
    <3>2. ASSUME NEW c \in LocalCalls PROVE Args(c, Top.id) = {}
      BY <1>0, <3>1, ArgsOne
    <3>3. Head(n.calls) \in LocalCalls
      BY <1>0, <2>1, <2>4, FrameBelow
    <3>4. \A m : m \in From(n) <=> \E i \in Args(Head(n.calls), Top.id) : m = Node(i, Tail(n.calls), Top.field)
      BY <1>1, <2>1, <2>4, FromByKind
    <3>5. From(n) = {} /\ ToSet(ids) = {}
      BY <1>3, <3>2, <3>3, <3>4
    <3> QED
      BY <1>1, <2>1, <2>2, <3>5, NotedFound
  <2> QED
    BY <2>3, <2>4
<1>5. pending' = Rest \o [i \in DOMAIN ids |-> Item(ids[i], Top.bindings, Top.depth + 1, Top.field)]
  BY <1>1, <1>2
<1>7. Top.field \in Fields
  BY <1>1, Visited
<1>8. \/ found' = found
      \/ Top.field = NoField /\ found' = found \cup {[value |-> Top.id, bindings |-> Top.bindings]}
  BY <1>1, NotedFound
<1>9. \A n \in Region : Match(Key(Top), n) =>
        \A m : m \in From(n) <=> \E i \in ToSet(ids) : m = Node(i, n.calls, Top.field)
  BY <1>4
<1>10. ~incomplete' =>
         /\ ~incomplete
         /\ \A n \in Region : Match(Key(Top), n) =>
              ~CannotSee(n) /\ (n.field = NoField => n.id \in {o.value : o \in found'})
  BY <1>1, <1>4
<1> QED
  BY <1>1, <1>5, <1>7, <1>8, <1>9, <1>10, FlowFollows

\* A parameter a frame binds.
LEMMA BoundParameterKeeps ==
  ASSUME Asking, PlainInv, BoundParameter
  PROVE  PlainInv'
<1>0. graph \in Graphs /\ Applied /\ InOnePlace
  BY DEF Asking, Regular
<1> DEFINE ids == <<Top.bindings[Top.id]>>
<1>1. /\ Visit(0) /\ Note /\ Top.id \in DOMAIN Values /\ incomplete' = incomplete
      /\ Values[Top.id].kind = "parameter" /\ Top.id \in DOMAIN Top.bindings
      /\ pending' = Rest \o [i \in DOMAIN ids |-> Item(ids[i], Top.bindings, Top.depth + 1, Top.field)]
  BY DEF BoundParameter, Walks, Value, Follow
<1>2. /\ Turn /\ graph' = graph /\ asked' = asked /\ seen' = seen \cup {Key(Top)}
      /\ Top.bindings \in Frames /\ Top.depth + 1 \in Nat /\ Top.field \in Fields
  BY <1>1, Visited
<1>3. ids \in Seq(Nat) /\ ToSet(ids) = {Top.bindings[Top.id]}
  <2>1. Top.bindings[Top.id] \in Mentioned
    BY <1>1, <1>2 DEF Frames
  <2>2. Top.bindings[Top.id] \in Nat
    BY <1>0, <2>1, MentionedFinite
  <2> QED
    BY <2>2 DEF ToSet
<1> HIDE DEF ids
<1>4. PICK added : added = Spread(ids, Top.bindings, Top.depth + 1, Top.field)
  OBVIOUS
<1>5. /\ added \in Seq(BoundItem)
      /\ \A x \in ToSet(added) : Key(x).id \in ToSet(ids) /\ Key(x).bindings = Top.bindings /\ Key(x).field = Top.field
      /\ \A i \in ToSet(ids) : \E x \in ToSet(added) :
           Key(x).id = i /\ Key(x).bindings = Top.bindings /\ Key(x).field = Top.field
  <2>1. Adds(added, ids, Top.bindings, Top.field)
    BY <1>2, <1>3, <1>4, ItemsAdded
  <2> QED
    BY <2>1 DEF Adds
<1>6. ASSUME NEW n \in Region, Match(Key(Top), n)
      PROVE  /\ n.id = Top.id /\ n.field = Top.field /\ n.calls # <<>> /\ n.id \in Owned
             /\ n.id \in DOMAIN Binding(n.calls) /\ Binding(n.calls)[n.id] = Top.bindings[Top.id]
             /\ Agree(Binding(n.calls), Top.bindings) /\ DOMAIN Top.bindings \subseteq Carried(n)
  <2>1. /\ n.id = Top.id /\ n.field = Top.field
        /\ Agree(Binding(n.calls), Top.bindings) /\ DOMAIN Top.bindings \subseteq Carried(n)
    BY <1>1, <1>6, Visited
  <2>2. n.id \in Owned
    BY <1>1, <1>2, <2>1 DEF Frames
  <2>3. n.id \in Read(n)
    BY <2>2 DEF Read
  <2>4. n.calls # <<>> /\ n.id \in DOMAIN Binding(n.calls)
    BY <1>1, <2>1, <2>3, ReadBound
  <2> QED
    BY <2>1, <2>2, <2>4 DEF Agree
<1>7. ASSUME NEW x \in ToSet(added) PROVE \E n \in Region : Match(Key(x), n)
  <2>1. PICK n \in Region : Match(Key(Top), n)
    BY <1>1, Visited
  <2>2. /\ n.field = Top.field /\ n.id \in DOMAIN Binding(n.calls)
        /\ Binding(n.calls)[n.id] = Top.bindings[Top.id]
        /\ Agree(Binding(n.calls), Top.bindings) /\ DOMAIN Top.bindings \subseteq Carried(n)
    BY <1>6, <2>1
  <2>3. PICK m \in Region : /\ m.id = Binding(n.calls)[n.id] /\ m.field = n.field
                            /\ Agree(Binding(m.calls), Binding(n.calls)) /\ Carried(n) \subseteq Carried(m)
    BY <2>2, LeadsToBound
  <2>4. Agree(Binding(m.calls), Top.bindings)
    BY <2>2, <2>3 DEF Agree
  <2>5. Key(x).id = Top.bindings[Top.id] /\ Key(x).bindings = Top.bindings /\ Key(x).field = Top.field
    BY <1>3, <1>5
  <2> QED
    BY <2>2, <2>3, <2>4, <2>5 DEF Match, Fits
<1>8. ASSUME NEW n \in Region, Match(Key(Top), n)
      PROVE  Settled(n, {o.value : o \in found'}, {Key(x) : x \in ToSet(added)})
  <2>1. /\ n.id = Top.id /\ n.field = Top.field /\ n.calls # <<>> /\ n.id \in Owned
        /\ n.id \in DOMAIN Binding(n.calls) /\ Binding(n.calls)[n.id] = Top.bindings[Top.id]
        /\ Agree(Binding(n.calls), Top.bindings) /\ DOMAIN Top.bindings \subseteq Carried(n)
    BY <1>6, <1>8
  <2>2. PICK m : m = Node(Own(Head(n.calls), n.id), Tail(n.calls), n.field)
    OBVIOUS
  <2>3. /\ From(n) = {m} /\ m \in Region /\ m.field = n.field
        /\ Agree(Binding(m.calls), Binding(n.calls)) /\ Carried(n) \subseteq Carried(m)
        /\ Binding(n.calls)[n.id] = IF m.id \in DOMAIN Binding(m.calls) THEN Binding(m.calls)[m.id] ELSE m.id
    BY <2>1, <2>2, BackFromBound
  <2>4. PICK x \in ToSet(added) :
          Key(x).id = Top.bindings[Top.id] /\ Key(x).bindings = Top.bindings /\ Key(x).field = Top.field
    BY <1>3, <1>5
  <2>5. Agree(Binding(m.calls), Top.bindings)
    BY <2>1, <2>3 DEF Agree
  <2>6. StandsFor(Key(x), m)
    BY <2>1, <2>3, <2>4, <2>5 DEF StandsFor, Fits
  <2>7. \A y \in From(n) : Covered(y, {Key(z) : z \in ToSet(added)})
    BY <2>3, <2>4, <2>6 DEF Covered
  <2>8. ~CannotSee(n)
    BY <1>1, <2>1 DEF CannotSee
  <2>9. n.field = NoField => n.id \in {o.value : o \in found'}
    BY <1>1, <2>1, NotedFound
  <2> QED
    BY <2>7, <2>8, <2>9 DEF Settled
<1>9. pending' = Rest \o added
  BY <1>1, <1>4 DEF Spread
<1>10. \/ found' = found
       \/ Top.field = NoField /\ found' = found \cup {[value |-> Top.id, bindings |-> Top.bindings]}
  BY <1>1, NotedFound
<1> QED
  BY <1>1, <1>2, <1>5, <1>7, <1>8, <1>9, <1>10, FlowTurn

\* A call of a local helper.
LEMMA CallHelperKeeps ==
  ASSUME Asking, PlainInv, CallHelper
  PROVE  PlainInv'
<1>0. graph \in Graphs /\ asked.question \in Questions /\ asked.start \in Nat /\ Applied /\ InOnePlace
      /\ Plain(StartNodes, asked.bindings)
  BY DEF Asking, Regular
<1>1. PICK c \in LocalCalls : c = Top.id
  BY DEF CallHelper, Local, Walks, Value, LocalCalls
<1>2. PICK frame : frame = Opened(c, Top.bindings)
  OBVIOUS
<1>3. PICK returns : returns = Functions[Values[c].target].returns
  OBVIOUS
<1>4. /\ Visit(0) /\ Note
      /\ \/ /\ pending' = Rest \o [i \in DOMAIN returns |-> Item(returns[i], frame, Top.depth + 1, Top.field)]
            /\ incomplete' = incomplete
         \/ incomplete' /\ pending' = pending
  <2>1. Visit(0) /\ Note
    BY DEF CallHelper
  <2>2. Top.bindings \in Frames
    BY <2>1, Visited
  <2>3. Frame(Value.target, Value, Top.bindings) = frame
    BY <1>0, <1>1, <1>2, <2>2, FrameOpened DEF Value
  <2>4. Functions[Value.target].returns = returns
    BY <1>1, <1>3 DEF Value
  <2> QED
    BY <2>1, <2>3, <2>4 DEF CallHelper
<1>5. /\ Turn /\ graph' = graph /\ asked' = asked /\ seen' = seen \cup {Key(Top)} /\ pending # <<>>
      /\ Top.bindings \in Frames /\ Top.depth + 1 \in Nat /\ Top.field \in Fields
  BY <1>4, Visited
<1>6. \/ found' = found
      \/ Top.field = NoField /\ found' = found \cup {[value |-> Top.id, bindings |-> Top.bindings]}
  BY <1>4, NotedFound
<1>7. CASE incomplete' /\ pending' = pending
  BY <1>5, <1>6, <1>7, FlowCut
<1>8. CASE /\ pending' = Rest \o [i \in DOMAIN returns |-> Item(returns[i], frame, Top.depth + 1, Top.field)]
           /\ incomplete' = incomplete
  <2> DEFINE b == Top.bindings
  <2>1. /\ frame \in Frames /\ DOMAIN frame = DOMAIN b \cup Given(c)
        /\ \A p \in DOMAIN b \ Given(c) : frame[p] = b[p]
        /\ \A p \in Given(c) : frame[p] = IF Own(c, p) \in DOMAIN b THEN b[Own(c, p)] ELSE Own(c, p)
    BY <1>0, <1>2, <1>5, OpenedTyped
  <2>2. returns \in Seq(Nat)
    BY <1>0, <1>1, <1>3, GraphTyped DEF LocalCalls
  <2>3. PICK added : added = Spread(returns, frame, Top.depth + 1, Top.field)
    OBVIOUS
  <2>4. /\ added \in Seq(BoundItem)
        /\ \A x \in ToSet(added) : Key(x).id \in ToSet(returns) /\ Key(x).bindings = frame /\ Key(x).field = Top.field
        /\ \A i \in ToSet(returns) : \E x \in ToSet(added) :
             Key(x).id = i /\ Key(x).bindings = frame /\ Key(x).field = Top.field
    <3>1. Adds(added, returns, frame, Top.field)
      BY <1>5, <2>1, <2>2, <2>3, ItemsAdded
    <3> QED
      BY <3>1 DEF Adds
  <2>5. ASSUME NEW n \in Region, Match(Key(Top), n)
        PROVE  /\ n.id = c /\ n.field = Top.field
               /\ \A m : m \in From(n) <=> \E r \in ToSet(returns) : m = Node(r, <<c>> \o n.calls, Top.field)
               /\ \A r \in ToSet(returns) : \A k :
                    (k.id = r /\ k.bindings = frame /\ k.field = Top.field) => Match(k, Node(r, <<c>> \o n.calls, Top.field))
    <3>1. /\ n.id = c /\ n.field = Top.field /\ n.calls \in Stacks
          /\ Agree(Binding(n.calls), b) /\ DOMAIN b \subseteq Carried(n)
      BY <1>1, <1>4, <2>5, Visited
    <3>2. Values[c].target \notin Active(n)
      BY <1>0, <1>1, <3>1 DEF Plain, Region
    <3>3. c \in DOMAIN Values
      BY DEF LocalCalls
    <3>4. \A m : m \in From(n) <=> \E r \in ToSet(returns) : m = Node(r, <<c>> \o n.calls, Top.field)
      BY <1>1, <1>3, <3>1, <3>2, <3>3, FromByKind
    <3>5. PICK B \in Frames : B = Binding(n.calls)
      BY <1>0, <3>1, BindingSteps DEF Stacks
    <3>6. Binding(<<c>> \o n.calls) = Opened(c, B)
      BY <1>0, <3>1, <3>5, BindingSteps DEF Stacks
    <3>7. PICK over : over = Opened(c, B)
      OBVIOUS
    <3>8. /\ DOMAIN over = DOMAIN B \cup Given(c)
          /\ \A p \in DOMAIN B \ Given(c) : over[p] = B[p]
          /\ \A p \in Given(c) : over[p] = IF Own(c, p) \in DOMAIN B THEN B[Own(c, p)] ELSE Own(c, p)
      BY <1>0, <3>5, <3>7, OpenedTyped
    <3>9. ASSUME NEW p \in Given(c), Own(c, p) \in DOMAIN b PROVE Own(c, p) \in DOMAIN B
      <4>1. Own(c, p) \in ToSet(Values[c].inputs)
        BY <1>0, ArgsOne
      <4>2. Own(c, p) \in Owned
        BY <1>5, <3>9 DEF Frames
      <4>3. Own(c, p) \in Read(n)
        BY <3>1, <4>1, <4>2 DEF Read
      <4>4. n.calls # <<>>
        BY <3>1, <3>9, <4>3, ReadBound
      <4> QED
        BY <3>5, <4>3, <4>4, ReadBound
    <3>10. Agree(over, frame)
      <4> SUFFICES ASSUME NEW p \in DOMAIN over PROVE p \in DOMAIN frame /\ frame[p] = over[p]
        BY DEF Agree
      <4>1. \A q \in DOMAIN B : q \in DOMAIN b /\ b[q] = B[q]
        BY <3>1, <3>5 DEF Agree
      <4>2. p \in DOMAIN frame
        BY <2>1, <3>8, <4>1
      <4>3. CASE p \in Given(c)
        <5>1. PICK a : a = Own(c, p)
          OBVIOUS
        <5>2. frame[p] = IF a \in DOMAIN b THEN b[a] ELSE a
          BY <2>1, <4>3, <5>1
        <5>3. over[p] = IF a \in DOMAIN B THEN B[a] ELSE a
          BY <3>8, <4>3, <5>1
        <5>4. a \in DOMAIN b => a \in DOMAIN B
          BY <3>9, <4>3, <5>1
        <5> HIDE DEF b
        <5> QED
          BY <4>1, <4>2, <5>2, <5>3, <5>4
      <4>4. CASE p \notin Given(c)
        BY <2>1, <3>8, <4>1, <4>2, <4>4
      <4> QED
        BY <4>3, <4>4
    <3>11. ASSUME NEW r \in ToSet(returns), NEW k, k.id = r, k.bindings = frame, k.field = Top.field
           PROVE  Match(k, Node(r, <<c>> \o n.calls, Top.field))
      <4>1. PICK m : m = Node(r, <<c>> \o n.calls, Top.field)
        OBVIOUS
      <4>2. m \in From(n) /\ m.id = r /\ m.calls = <<c>> \o n.calls /\ m.field = Top.field
        BY <3>4, <4>1 DEF Node
      <4>3. Carried(n) \subseteq Carried(m) /\ ToSet(Parameters(c)) \subseteq Carried(m)
        BY <1>0, <3>1, <4>2, CarriedGrows
      <4>4. DOMAIN frame \subseteq Carried(m)
        <5>1. Given(c) = ToSet(Parameters(c))
          BY <1>0, ArgsOne
        <5> QED
          BY <2>1, <3>1, <4>3, <5>1
      <4>5. Binding(m.calls) = over
        BY <3>6, <3>7, <4>2
      <4> QED
        BY <3>10, <3>11, <4>1, <4>2, <4>4, <4>5 DEF Match, Fits
    <3> QED
      BY <3>1, <3>4, <3>11
  <2>6. ASSUME NEW x \in ToSet(added) PROVE \E n \in Region : Match(Key(x), n)
    <3>1. PICK n \in Region : Match(Key(Top), n)
      BY <1>4, Visited
    <3>2. PICK r \in ToSet(returns) : Key(x).id = r /\ Key(x).bindings = frame /\ Key(x).field = Top.field
      BY <2>4
    <3>3. PICK m : m = Node(r, <<c>> \o n.calls, Top.field)
      OBVIOUS
    <3>4. m \in From(n) /\ Match(Key(x), m)
      BY <2>5, <3>1, <3>2, <3>3
    <3>5. m \in Region
      BY <1>0, <3>4, RegionTyped
    <3> QED
      BY <3>4, <3>5
  <2>7. ASSUME NEW n \in Region, Match(Key(Top), n)
        PROVE  Settled(n, {o.value : o \in found'}, {Key(x) : x \in ToSet(added)})
    <3>1. ASSUME NEW m \in From(n) PROVE Covered(m, {Key(x) : x \in ToSet(added)})
      <4>1. PICK r \in ToSet(returns) : m = Node(r, <<c>> \o n.calls, Top.field)
        BY <2>5, <2>7
      <4>2. PICK x \in ToSet(added) : Key(x).id = r /\ Key(x).bindings = frame /\ Key(x).field = Top.field
        BY <2>4
      <4>3. Match(Key(x), m)
        BY <2>5, <2>7, <4>1, <4>2
      <4> QED
        BY <4>3 DEF Covered, StandsFor, Match
    <3>2. n.id = c /\ n.field = Top.field
      BY <2>5, <2>7
    <3>3. ~CannotSee(n)
      BY <3>2 DEF CannotSee, LocalCalls
    <3>4. n.field = NoField => n.id \in {o.value : o \in found'}
      BY <1>1, <1>4, <3>2, NotedFound
    <3> QED
      BY <3>1, <3>3, <3>4 DEF Settled
  <2>8. pending' = Rest \o added
    BY <1>8, <2>3 DEF Spread
  <2> QED
    BY <1>5, <1>6, <1>8, <2>4, <2>6, <2>7, <2>8, FlowTurn
<1> QED
  BY <1>4, <1>7, <1>8

\* A library call, of which the caller's models say something.
LEMMA CallLibraryKeeps ==
  ASSUME Asking, PlainInv, CallLibrary, Top.field = NoField
  PROVE  PlainInv'
<1>0. graph \in Graphs
  BY DEF Asking
<1>1. /\ Visit(0) /\ Note /\ Top.id \in DOMAIN Values /\ Values[Top.id].kind = "call"
      /\ Top.id \notin LocalCalls /\ Values[Top.id].target \notin DOMAIN Functions
      /\ incomplete' = (incomplete \/ Models = {}) /\ pending' = Follow(SetToSeq(Modelled))
  BY DEF CallLibrary, Walks, Local, Value, LocalCalls, Opaque
<1>2. /\ Values[Top.id].inputs \in Seq(Nat) /\ Values[Top.id].receiver \in Nat
  BY <1>0, <1>1, GraphTyped
<1>3. Modelled = ModelledInputs(Values[Top.id])
  <2>1. \A i : i \in Modelled <=> i \in ModelledInputs(Values[Top.id])
    BY DEF Modelled, Models, ModelledInputs, Value
  <2> QED
    BY <2>1
<1>4. IsFiniteSet(Modelled) /\ Modelled \subseteq Nat
  <2>1. PICK inputs : inputs = Values[Top.id].inputs
    OBVIOUS
  <2>2. IsFiniteSet(ToSet(inputs)) /\ ToSet(inputs) \subseteq Nat
    BY <1>2, <2>1, ElementsFinite
  <2>3. IsFiniteSet(ToSet(inputs) \cup {Values[Top.id].receiver})
    BY <2>2, FS_AddElement
  <2>4. Modelled \in SUBSET (ToSet(inputs) \cup {Values[Top.id].receiver})
    BY <2>1 DEF Modelled, Value, ToSet
  <2> QED
    BY <1>2, <2>2, <2>3, <2>4, FS_Subset
<1>5. PICK M : M = Modelled
  OBVIOUS
<1>6. PICK ids : ids = SetToSeq(M)
  OBVIOUS
<1>7. ids \in Seq(M) /\ ToSet(ids) = M
  BY <1>4, <1>5, <1>6, ListsAll
<1>8. ids \in Seq(Nat)
  <2>1. Len(ids) \in Nat /\ ids \in [1..Len(ids) -> M]
    BY <1>7
  <2>2. ids \in [1..Len(ids) -> Nat]
    BY <1>4, <1>5, <2>1
  <2> QED
    BY <2>1, <2>2
<1>9. ASSUME NEW n \in Region, Match(Key(Top), n)
      PROVE  /\ \A m : m \in From(n) <=> \E i \in ToSet(ids) : m = Node(i, n.calls, Top.field)
             /\ n.field = NoField => n.id \in {o.value : o \in found'}
             /\ Models # {} => ~CannotSee(n)
  <2>1. n.id = Top.id /\ n.field = Top.field
    BY <1>1, <1>9, Visited
  <2>2. n.id \in DOMAIN Values /\ Values[n.id].kind = "call" /\ n.field = NoField /\ n.id \notin LocalCalls
    BY <1>1, <2>1
  <2>3. \A m : m \in From(n) <=> \E i \in ModelledInputs(Values[n.id]) : m = Node(i, n.calls, n.field)
    BY <2>2, FromByKind
  <2>4. ToSet(ids) = ModelledInputs(Values[n.id])
    BY <1>3, <1>5, <1>7, <2>1
  <2>5. Models # {} => ~CannotSee(n)
    BY <2>1, <2>2 DEF CannotSee, Models, Value
  <2>6. n.field = NoField => n.id \in {o.value : o \in found'}
    BY <1>1, <2>1, NotedFound
  <2>7. \A m : m \in From(n) <=> \E i \in ToSet(ids) : m = Node(i, n.calls, Top.field)
    BY <2>1, <2>3, <2>4
  <2> QED
    BY <2>5, <2>6, <2>7
<1>10. pending' = Rest \o [i \in DOMAIN ids |-> Item(ids[i], Top.bindings, Top.depth + 1, Top.field)]
  BY <1>1, <1>5, <1>6 DEF Follow
<1>11. Top.field \in Fields
  BY <1>1, Visited
<1>12. \/ found' = found
       \/ Top.field = NoField /\ found' = found \cup {[value |-> Top.id, bindings |-> Top.bindings]}
  BY <1>1, NotedFound
<1>13. \A n \in Region : Match(Key(Top), n) =>
         \A m : m \in From(n) <=> \E i \in ToSet(ids) : m = Node(i, n.calls, Top.field)
  BY <1>9
<1>14. ~incomplete' =>
         /\ ~incomplete
         /\ \A n \in Region : Match(Key(Top), n) =>
              ~CannotSee(n) /\ (n.field = NoField => n.id \in {o.value : o \in found'})
  BY <1>1, <1>9
<1> QED
  BY <1>1, <1>8, <1>10, <1>11, <1>12, <1>13, <1>14, FlowFollows

-----------------------------------------------------------------------------
(* Every step of a walk.                                                   *)

\* A walk that has just begun.
Starting ==
  /\ graph \in Graphs /\ asked.question \in Questions /\ asked.start \in Nat /\ Regular
  /\ asked.bindings \in Frames /\ seen = {} /\ found = {}
  /\ \E f \in Fields :
       /\ pending = <<Item(asked.start, asked.bindings, 0, f)>>
       /\ StartNodes # {}
       /\ \A n \in StartNodes : n.id = asked.start /\ n.field = f /\ Agree(Binding(n.calls), asked.bindings)

\* It is at its start.
LEMMA StartIsPlain == Starting => PlainInv
<1> SUFFICES ASSUME Starting PROVE PlainInv
  OBVIOUS
<1>1. PICK f \in Fields :
        /\ pending = <<Item(asked.start, asked.bindings, 0, f)>> /\ StartNodes # {}
        /\ \A n \in StartNodes : n.id = asked.start /\ n.field = f /\ Agree(Binding(n.calls), asked.bindings)
  BY DEF Starting
<1>2. graph \in Graphs /\ asked.question \in Questions /\ asked.start \in Nat /\ Regular
      /\ asked.bindings \in Frames /\ seen = {} /\ found = {}
  BY DEF Starting
<1>3. DOMAIN asked.bindings \subseteq Owned
  BY <1>2 DEF Frames
<1>4. PICK x : x = Item(asked.start, asked.bindings, 0, f)
  OBVIOUS
<1>5. x \in BoundItem /\ Key(x).id = asked.start /\ Key(x).bindings = asked.bindings /\ Key(x).field = f
  BY <1>2, <1>4 DEF BoundItem, Item, Key
<1>6. pending = <<x>> /\ pending \in Seq(BoundItem) /\ ToSet(pending) = {x}
  BY <1>1, <1>4, <1>5 DEF ToSet
<1>7. WalkKeys = {Key(x)}
  BY <1>2, <1>6 DEF WalkKeys
<1>8. StartNodes \subseteq Region
  BY <1>2, RegionTyped
<1>9. \A n \in StartNodes : Match(Key(x), n)
  BY <1>1, <1>5 DEF Match, Fits, Carried
<1>10. WalkSound
  BY <1>1, <1>2, <1>7, <1>8, <1>9 DEF WalkSound
<1>11. WalkWhole
  BY <1>2, <1>7, <1>9 DEF WalkWhole, Covered, StandsFor, Match
<1> QED
  BY <1>2, <1>3, <1>6, <1>10, <1>11 DEF PlainInv

\* Nothing is bound at first.
LEMMA UnboundIsFrame == Unbound \in Frames
<1>1. Unbound \in [{} -> Mentioned]
  BY DEF Unbound
<1> QED
  BY <1>1 DEF Frames

\* A first walk starts at its question.
LEMMA FlowInitInv == FlowInit => FlowInv
<1> SUFFICES ASSUME FlowInit PROVE FlowInv
  OBVIOUS
<1>1. PICK q \in Questions : asked = [question |-> q, start |-> q.start, of |-> 0, bindings |-> Unbound, again |-> FALSE]
  BY DEF FlowInit
<1>2. /\ graph \in Graphs /\ asked.question = q /\ asked.start = q.start /\ asked.bindings = Unbound
      /\ ~asked.again /\ asked.of = 0 /\ q.start \in Nat
      /\ pending = <<Item(asked.start, Unbound, 0, asked.question.field)>>
      /\ seen = {} /\ found = {} /\ ~incomplete /\ ~done
  BY <1>1, GraphsAssumption DEF FlowInit
<1>3. ASSUME Regular PROVE PlainInv
  <2>1. StartNodes = {FirstNode} /\ asked.question.field \in Fields
    BY <1>2 DEF StartNodes, Fields
  <2>2. FirstNode.id = q.start /\ FirstNode.field = asked.question.field /\ FirstNode.calls = <<>>
    BY <1>2 DEF FirstNode, Node
  <2>3. Binding(<<>>) = <<>> /\ DOMAIN Binding(<<>>) = {}
    BY <1>2, <1>3, BindingSteps DEF Regular
  <2>4. Agree(Binding(FirstNode.calls), Unbound)
    BY <2>2, <2>3 DEF Agree
  <2>5. Starting
    BY <1>2, <1>3, <2>1, <2>2, <2>4, UnboundIsFrame DEF Starting
  <2> QED
    BY <2>5, StartIsPlain
<1> QED
  BY <1>1, <1>2, <1>3 DEF FlowInv, Missing

\* A further walk starts where an origin's argument is.
LEMMA AskArgumentKeeps == FlowInv /\ AskArgument => FlowInv'
<1> SUFFICES ASSUME FlowInv, AskArgument PROVE FlowInv'
  OBVIOUS
<1>1. Origins /\ ~asked.again /\ graph' = graph
  BY DEF AskArgument, MayAskAgain, Origins
<1>2. /\ graph \in Graphs /\ asked.question \in Questions
      /\ asked = [question |-> asked.question, start |-> asked.question.start, of |-> 0,
                  bindings |-> Unbound, again |-> FALSE]
  BY <1>1 DEF FlowInv
<1>3. PICK o \in found : \E i \in DOMAIN Values[o.value].inputs :
        LET start == Values[o.value].inputs[i]
        IN  /\ asked' = [asked EXCEPT !.start = start, !.of = o.value, !.bindings = o.bindings, !.again = TRUE]
            /\ pending' = <<Item(start, BindingsOf(o), 0, NoField)>>
  BY DEF AskArgument
<1>4. PICK i \in DOMAIN Values[o.value].inputs :
        /\ asked' = [asked EXCEPT !.start = Values[o.value].inputs[i], !.of = o.value, !.bindings = o.bindings, !.again = TRUE]
        /\ pending' = <<Item(Values[o.value].inputs[i], BindingsOf(o), 0, NoField)>>
  BY <1>3
<1>5. PICK start : start = Values[o.value].inputs[i]
  OBVIOUS
<1>6. /\ asked'.question = asked.question /\ asked'.start = start /\ asked'.of = o.value
      /\ asked'.bindings = o.bindings /\ asked'.again
      /\ pending' = <<Item(start, o.bindings, 0, NoField)>>
  BY <1>2, <1>4, <1>5 DEF BindingsOf
<1>7. seen' = {} /\ found' = {} /\ ~done'
  BY DEF AskArgument
<1>8. o.value \in DOMAIN Values /\ o.value # 0 /\ start \in Nat
  <2>1. o.value \in DOMAIN Values
    BY <1>1 DEF FlowInv
  <2>2. Len(Values) \in Nat /\ DOMAIN Values = 1..Len(Values) /\ Values[o.value].inputs \in Seq(Nat)
    BY <1>2, <2>1, GraphTyped
  <2> QED
    BY <1>5, <2>1, <2>2
<1>9. /\ Fields' = Fields /\ FirstNode' = FirstNode /\ Owned' = Owned /\ Frames' = Frames
      /\ Applied' = Applied /\ InOnePlace' = InOnePlace
      /\ \A s : Binding(s)' = Binding(s)
      /\ Origin({FirstNode})' = Origin({FirstNode})
      /\ Plain({FirstNode}, Unbound)' = Plain({FirstNode}, Unbound)
  BY <1>1, <1>6, GraphStill
<1>10. ASSUME Regular' PROVE PlainInv'
  <2>1. StartNodes = {FirstNode} /\ asked.bindings = Unbound
    BY <1>1, <1>2 DEF StartNodes
  <2>2. Regular
    BY <1>9, <1>10, <2>1 DEF Regular
  <2>3. PlainInv
    BY <1>1, <2>2 DEF FlowInv, Missing
  <2>4. PICK k \in seen : k.id = o.value /\ k.bindings = o.bindings /\ k.field = NoField
    BY <2>3 DEF PlainInv, WalkSound
  <2>5. k \in BoundKey /\ k \in WalkKeys
    BY <2>3, <2>4 DEF PlainInv, WalkKeys
  <2>6. PICK n \in Region : Match(k, n)
    BY <2>3, <2>5 DEF PlainInv, WalkSound
  <2>7. n \in Origin({FirstNode}) /\ n.id = o.value /\ n.field = NoField /\ Agree(Binding(n.calls), o.bindings)
    BY <2>1, <2>4, <2>6 DEF Match, Fits, Region
  <2>8. StartNodes' = {Node(start, m.calls, NoField) :
                         m \in {m \in Origin({FirstNode}) : /\ m.id = o.value /\ m.field = NoField
                                                          /\ Agree(Binding(m.calls), o.bindings)}}
    <3>1. \A m : Agree(Binding(m.calls), asked.bindings)' <=> Agree(Binding(m.calls), o.bindings)
      BY <1>6, <1>9 DEF Agree
    <3> QED
      BY <1>6, <1>9, <3>1 DEF StartNodes, Node
  <2>9. StartNodes' # {}
    BY <2>7, <2>8
  <2>10. ASSUME NEW m \in StartNodes'
         PROVE  m.id = start /\ m.field = NoField /\ Agree(Binding(m.calls), asked.bindings)'
    <3>1. PICK x \in Origin({FirstNode}) : Agree(Binding(x.calls), o.bindings) /\ m = Node(start, x.calls, NoField)
      BY <2>8
    <3>2. m.id = start /\ m.field = NoField /\ Agree(Binding(m.calls), o.bindings)
      BY <3>1 DEF Node
    <3> QED
      BY <1>6, <1>9, <3>2 DEF Agree
  <2>11. o.bindings \in Frames /\ NoField \in Fields
    BY <2>4, <2>5 DEF BoundKey, Fields
  <2>12. Item(start, o.bindings, 0, NoField) = Item(asked.start, asked.bindings, 0, NoField)'
    BY <1>6 DEF Item
  <2>13. Starting'
    BY <1>1, <1>2, <1>6, <1>7, <1>8, <1>9, <1>10, <2>9, <2>10, <2>11, <2>12 DEF Starting
  <2> QED
    BY <2>13, StartIsPlain, PTL
<1> QED
  BY <1>1, <1>2, <1>6, <1>7, <1>8, <1>10 DEF FlowInv, Missing

\* What has been seen is not walked again.
LEMMA SeenAgainKeeps ==
  ASSUME Asking, PlainInv, SeenAgain
  PROVE  PlainInv'
<1>1. /\ Key(Top) \in seen /\ pending # <<>> /\ pending' = Rest /\ seen' = seen /\ graph' = graph /\ asked' = asked
      /\ found' = found /\ incomplete' = incomplete
  BY DEF SeenAgain, InBudget, Turn, answer
<1>2. pending \in Seq(BoundItem) /\ seen \subseteq BoundKey
  BY DEF PlainInv
<1>3. Rest \in Seq(BoundItem) /\ ToSet(pending) = {Top} \cup ToSet(Rest)
  BY <1>1, <1>2, StackTop DEF Rest, Top
<1>4. WalkKeys' = WalkKeys
  <2>1. \A x : Key(x)' = Key(x)
    BY DEF Key
  <2>2. WalkKeys' = seen \cup {Key(x) : x \in ToSet(Rest)}
    BY <1>1, <2>1 DEF WalkKeys
  <2>3. {Key(x) : x \in {Top} \cup ToSet(Rest)} = {Key(Top)} \cup {Key(x) : x \in ToSet(Rest)}
    OBVIOUS
  <2> QED
    BY <1>1, <1>3, <2>2, <2>3 DEF WalkKeys
<1> QED
  BY <1>1, <1>2, <1>3, <1>4, FlowMoved

\* Nothing is walked.
LEMMA StillKeeps ==
  ASSUME Asking, PlainInv, graph' = graph, asked' = asked, pending' = pending, seen' = seen, found' = found,
         incomplete' = incomplete
  PROVE  PlainInv'
<1>1. WalkKeys' = WalkKeys
  <2>1. \A x : Key(x)' = Key(x)
    BY DEF Key
  <2> QED
    BY <2>1 DEF WalkKeys
<1>2. pending \in Seq(BoundItem) /\ seen \subseteq BoundKey
  BY DEF PlainInv
<1> QED
  BY <1>1, <1>2, FlowMoved

\* A budget that is spent ends the walk.
LEMMA CutKeeps ==
  ASSUME Asking, PlainInv, \/ Exhausted \/ FreeParameterOut
  PROVE  PlainInv'
<1>1. pending # <<>> /\ graph' = graph /\ asked' = asked /\ incomplete' /\ pending' = pending
  BY DEF Exhausted, FreeParameterOut, Visit, InBudget, Turn
<1>2. CASE Exhausted
  <2>1. seen' = seen /\ found' = found
    BY <1>2 DEF Exhausted
  <2> QED
    BY <1>1, <2>1, FlowCut
<1>3. CASE FreeParameterOut
  <2>1. seen' = seen \cup {Key(Top)} /\ Note
    BY <1>3 DEF FreeParameterOut, Visit
  <2>2. \/ found' = found
        \/ Top.field = NoField /\ found' = found \cup {[value |-> Top.id, bindings |-> Top.bindings]}
    BY <2>1, NotedFound
  <2>3. Key(Top) \in seen' /\ seen' \in {seen, seen \cup {Key(Top)}}
    BY <2>1
  <2> QED
    BY <1>1, <2>2, <2>3, FlowCut
<1> QED
  BY <1>2, <1>3

\* A turn of a regular walk.
LEMMA PlainKeeps ==
  ASSUME Asking, PlainInv,
         \/ Exhausted \/ SeenAgain \/ Dangling \/ Finish \/ Walk \/ UNCHANGED vars
  PROVE  PlainInv'
<1>1. CASE Exhausted \/ FreeParameterOut
  BY <1>1, CutKeeps
<1>2. CASE SeenAgain
  BY <1>2, SeenAgainKeeps
<1>3. CASE Unknown \/ Dangling \/ CallTooWide \/ (CallLibrary /\ Top.field # NoField)
  BY <1>3, OpaqueKeeps
<1>4. CASE Finish \/ UNCHANGED vars
  <2>1. /\ graph' = graph /\ asked' = asked /\ pending' = pending /\ seen' = seen /\ found' = found
        /\ incomplete' = incomplete
    BY <1>4 DEF Finish, vars, answer
  <2> QED
    BY <2>1, StillKeeps
<1>5. CASE ProjectField
  BY <1>5, ProjectFieldKeeps
<1>6. CASE Leaf
  BY <1>6, LeafKeeps
<1>7. CASE Combine
  BY <1>7, CombineKeeps
<1>8. CASE BoundParameter
  BY <1>8, BoundParameterKeeps
<1>9. CASE FreeParameter
  BY <1>9, FreeParameterKeeps
<1>10. CASE CallHelper
  BY <1>10, CallHelperKeeps
<1>11. CASE CallLibrary /\ Top.field = NoField
  BY <1>11, CallLibraryKeeps
<1> QED
  BY <1>1, <1>2, <1>3, <1>4, <1>5, <1>6, <1>7, <1>8, <1>9, <1>10, <1>11 DEF Walk

\* What a turn does to the rest of the walk.
LEMMA WalkTurns ==
  ASSUME Origins, \/ Exhausted \/ SeenAgain \/ Dangling \/ Finish \/ Walk
  PROVE  /\ ~done /\ graph' = graph /\ asked' = asked
         /\ \A o \in found' : o \in found \/ o.value \in DOMAIN Values
         /\ (done' /\ ~incomplete') => pending' = <<>>
<1>1. ASSUME Note, Top.id \in DOMAIN Values
      PROVE  \A o \in found' : o \in found \/ o.value \in DOMAIN Values
  BY <1>1 DEF Note
<1>2. CASE Exhausted
  BY <1>2 DEF Exhausted, Turn
<1>3. CASE SeenAgain
  BY <1>3 DEF SeenAgain, InBudget, Turn, answer
<1>4. CASE Dangling
  BY <1>4 DEF Dangling, Visit, InBudget, Turn
<1>5. CASE Finish
  BY <1>5 DEF Finish, answer
<1>6. CASE ProjectField
  BY <1>6 DEF ProjectField, Visit, InBudget, Turn, answer
<1>7. CASE Leaf
  <2>1. Note /\ Top.id \in DOMAIN Values
    BY <1>7 DEF Leaf, Walks
  <2> QED
    BY <1>1, <1>7, <2>1 DEF Leaf, Visit, InBudget, Turn
<1>8. CASE Unknown
  <2>1. Note /\ Top.id \in DOMAIN Values
    BY <1>8 DEF Unknown, Walks
  <2> QED
    BY <1>1, <1>8, <2>1 DEF Unknown, Visit, InBudget, Turn
<1>9. CASE Combine
  <2>1. Note /\ Top.id \in DOMAIN Values
    BY <1>9 DEF Combine, Walks
  <2> QED
    BY <1>1, <1>9, <2>1 DEF Combine, Visit, InBudget, Turn
<1>10. CASE BoundParameter
  <2>1. Note /\ Top.id \in DOMAIN Values
    BY <1>10 DEF BoundParameter, Walks
  <2> QED
    BY <1>1, <1>10, <2>1 DEF BoundParameter, Visit, InBudget, Turn
<1>11. CASE FreeParameter
  <2>1. Note /\ Top.id \in DOMAIN Values
    BY <1>11 DEF FreeParameter, Walks
  <2> QED
    BY <1>1, <1>11, <2>1 DEF FreeParameter, Visit, InBudget, Turn
<1>12. CASE FreeParameterOut
  <2>1. Note /\ Top.id \in DOMAIN Values
    BY <1>12 DEF FreeParameterOut, Walks
  <2> QED
    BY <1>1, <1>12, <2>1 DEF FreeParameterOut, Visit, InBudget, Turn
<1>13. CASE CallTooWide
  <2>1. Note /\ Top.id \in DOMAIN Values
    BY <1>13 DEF CallTooWide, Local, Walks
  <2> QED
    BY <1>1, <1>13, <2>1 DEF CallTooWide, Visit, InBudget, Turn
<1>14. CASE CallHelper
  <2>1. Note /\ Top.id \in DOMAIN Values
    BY <1>14 DEF CallHelper, Local, Walks
  <2>2. ~done /\ graph' = graph /\ asked' = asked
    BY <1>14 DEF CallHelper, Visit, InBudget, Turn
  <2>3. (done' /\ ~incomplete') => FALSE
    BY <1>14, <2>2 DEF CallHelper
  <2> QED
    BY <1>1, <2>1, <2>2, <2>3
<1>15. CASE CallLibrary
  <2>1. Note /\ Top.id \in DOMAIN Values
    BY <1>15 DEF CallLibrary, Walks
  <2>2. ~done /\ graph' = graph /\ asked' = asked /\ done' = done
    BY <1>15 DEF CallLibrary, Visit, InBudget, Turn
  <2> QED
    BY <1>1, <2>1, <2>2
<1> QED
  BY <1>2, <1>3, <1>4, <1>5, <1>6, <1>7, <1>8, <1>9, <1>10, <1>11, <1>12, <1>13, <1>14, <1>15 DEF Walk

\* Of a question that is not about origins no origins are walked.
LEMMA OtherQuestions ==
  ASSUME ~Origins, [FlowNext]_vars
  PROVE  graph' = graph /\ asked' = asked
<1>1. ~Walk
  BY DEF Walk, ProjectField, Leaf, Unknown, Combine, BoundParameter, FreeParameter, FreeParameterOut,
         CallTooWide, CallHelper, CallLibrary, Local, Walks, Origins
<1>2. ~AskArgument /\ ~AskMissingArgument
  BY DEF AskArgument, AskMissingArgument, MayAskAgain, Origins
<1>3. CASE Exhausted \/ SeenAgain \/ Dangling \/ Finish
  BY <1>3 DEF Exhausted, SeenAgain, Dangling, Finish, Visit
<1>4. CASE Complete \/ ChooseWhole \/ CompleteField \/ Unproven
  BY <1>4 DEF Complete, ChooseWhole, CompleteField, Unproven, Visit
<1>5. CASE UNCHANGED vars
  BY <1>5 DEF vars
<1> QED
  BY <1>1, <1>2, <1>3, <1>4, <1>5 DEF FlowNext

\* An argument there is not has no origins.
LEMMA AskMissingKeeps == FlowInv /\ AskMissingArgument => FlowInv'
<1> SUFFICES ASSUME FlowInv, AskMissingArgument PROVE FlowInv'
  OBVIOUS
<1>1. /\ Origins /\ ~asked.again /\ graph' = graph /\ asked' = [asked EXCEPT !.again = TRUE]
      /\ found' = {} /\ incomplete' /\ done /\ done' = done
  BY DEF AskMissingArgument, MayAskAgain, Origins
<1>2. /\ graph \in Graphs /\ asked.question \in Questions /\ asked.start \in Nat
      /\ asked = [question |-> asked.question, start |-> asked.question.start, of |-> 0,
                  bindings |-> Unbound, again |-> FALSE]
  BY <1>1 DEF FlowInv
<1>3. asked'.question = asked.question /\ asked'.start = asked.start /\ asked'.of = 0 /\ asked'.again = TRUE
  BY <1>1, <1>2
<1>4. Missing'
  BY <1>3 DEF Missing
<1> QED
  BY <1>1, <1>2, <1>3, <1>4 DEF FlowInv

\* Every step keeps what is known of a walk.
LEMMA FlowKeeps == FlowInv /\ [FlowNext]_vars => FlowInv'
<1> SUFFICES ASSUME FlowInv, [FlowNext]_vars PROVE FlowInv'
  OBVIOUS
<1>1. CASE AskArgument
  BY <1>1, AskArgumentKeeps
<1>2. CASE AskMissingArgument
  BY <1>2, AskMissingKeeps
<1>3. CASE ~Origins
  <2>1. graph' = graph /\ asked' = asked
    BY <1>3, OtherQuestions
  <2>2. ~Origins'
    BY <1>3, <2>1 DEF Origins
  <2> QED
    BY <2>1, <2>2 DEF FlowInv
<1>4. CASE Origins /\ (Exhausted \/ SeenAgain \/ Dangling \/ Finish \/ Walk)
  <2>1. /\ ~done /\ graph' = graph /\ asked' = asked
        /\ \A o \in found' : o \in found \/ o.value \in DOMAIN Values
        /\ (done' /\ ~incomplete') => pending' = <<>>
    BY <1>4, WalkTurns
  <2>2. Regular' = Regular /\ Missing' = Missing /\ Values' = Values
    BY <2>1, FlowStill
  <2>3. ~Missing
    BY <1>4, <2>1 DEF FlowInv
  <2>4. ASSUME Regular PROVE PlainInv'
    <3>1. PlainInv
      BY <1>4, <2>3, <2>4 DEF FlowInv
    <3>2. Asking
      BY <2>4, <3>1 DEF FlowInv, PlainInv, Asking
    <3> QED
      BY <1>4, <3>1, <3>2, PlainKeeps
  <2>5. \A o \in found' : o.value \in DOMAIN Values'
    BY <1>4, <2>1, <2>2 DEF FlowInv
  <2>6. ~asked'.again => asked' = [question |-> asked'.question, start |-> asked'.question.start, of |-> 0,
                                   bindings |-> Unbound, again |-> FALSE]
    BY <1>4, <2>1 DEF FlowInv
  <2>7. graph' \in Graphs /\ asked'.question \in Questions /\ asked'.start \in Nat
    BY <2>1 DEF FlowInv
  <2>8. Unbound' = Unbound
    BY DEF Unbound
  <2> QED
    BY <2>1, <2>2, <2>3, <2>4, <2>5, <2>6, <2>7, <2>8 DEF FlowInv
<1>5. CASE Origins /\ UNCHANGED vars
  <2>1. /\ graph' = graph /\ asked' = asked /\ pending' = pending /\ seen' = seen /\ found' = found
        /\ incomplete' = incomplete /\ done' = done
    BY <1>5 DEF vars, answer
  <2>2. Regular' = Regular /\ Missing' = Missing /\ Values' = Values /\ Origins' = Origins
    BY <2>1, FlowStill
  <2>4. ASSUME Regular, ~Missing PROVE PlainInv'
    <3>1. PlainInv
      BY <1>5, <2>4 DEF FlowInv
    <3>2. Asking
      BY <2>4, <3>1 DEF FlowInv, PlainInv, Asking
    <3> QED
      BY <1>5, <3>1, <3>2, PlainKeeps
  <2>5. \A o \in found' : o.value \in DOMAIN Values'
    BY <1>5, <2>1, <2>2 DEF FlowInv
  <2>6. ~asked'.again => asked' = [question |-> asked'.question, start |-> asked'.question.start, of |-> 0,
                                   bindings |-> Unbound, again |-> FALSE]
    BY <1>5, <2>1 DEF FlowInv
  <2>7. graph' \in Graphs /\ asked'.question \in Questions /\ asked'.start \in Nat
    BY <2>1 DEF FlowInv
  <2>8. Missing => done' /\ incomplete' /\ found' = {}
    BY <1>5, <2>1 DEF FlowInv
  <2>9. (done' /\ ~incomplete') => pending' = <<>>
    BY <1>5, <2>1 DEF FlowInv
  <2>10. Unbound' = Unbound
    BY DEF Unbound
  <2> QED
    BY <2>2, <2>4, <2>5, <2>6, <2>7, <2>8, <2>9, <2>10 DEF FlowInv
<1>6. CASE Origins /\ (Complete \/ ChooseWhole \/ CompleteField \/ Unproven)
  BY <1>6 DEF Complete, ChooseWhole, CompleteField, Unproven, Completes, Origins
<1> QED
  BY <1>1, <1>2, <1>3, <1>4, <1>5, <1>6 DEF FlowNext

\* What a frame binds are parameters.
LEMMA BoundIsParameter ==
  ASSUME Asking, NEW n \in Region, n.id \in DOMAIN Binding(n.calls)
  PROVE  /\ n.calls # <<>> /\ n.id \in Owned /\ n.id \in DOMAIN Values /\ Values[n.id].kind = "parameter"
<1>1. Applied /\ InOnePlace /\ graph \in Graphs /\ asked.question \in Questions /\ asked.start \in Nat
  BY DEF Asking, Regular
<1>2. n.calls \in Seq(LocalCalls)
  BY <1>1, RegionTyped DEF Stacks
<1>3. Binding(n.calls) \in Frames
  BY <1>1, <1>2, BindingSteps
<1>4. n.id \in Owned
  BY <1>3 DEF Frames
<1>5. n.calls # <<>>
  BY <1>1, BindingSteps
<1> QED
  BY <1>1, <1>4, <1>5 DEF InOnePlace, Owned, ToSet

\* A walk that is over has covered all that leads to its start.
LEMMA AllCovered ==
  ASSUME Asking, PlainInv, ~incomplete, pending = <<>>
  PROVE  \A n \in Region : Covered(n, seen)
<1> DEFINE T == {n \in Region : Covered(n, seen)}
<1>1. graph \in Graphs /\ asked.question \in Questions /\ asked.start \in Nat
  BY DEF Asking
<1>2. WalkKeys = seen
  BY DEF WalkKeys, ToSet
<1>3. PICK ids : ids = {o.value : o \in found}
  OBVIOUS
<1>4. /\ \A n \in StartNodes : Covered(n, seen)
      /\ \A k \in seen : \A n \in Region : Match(k, n) => Settled(n, ids, seen)
  BY <1>2, <1>3 DEF PlainInv, WalkWhole
<1>5. StartNodes \subseteq T
  BY <1>1, <1>4, RegionTyped
<1>6. ASSUME NEW n \in T PROVE From(n) \subseteq T
  <2>1. n \in Region /\ From(n) \subseteq Region
    BY <1>1, RegionTyped
  <2>2. PICK k \in seen : StandsFor(k, n)
    BY DEF Covered
  <2>3. CASE k.id = n.id
    <3>1. Settled(n, ids, seen)
      BY <1>4, <2>1, <2>2, <2>3 DEF Match, StandsFor
    <3>2. \A m \in From(n) : Covered(m, seen)
      BY <3>1 DEF Settled
    <3> QED
      BY <2>1, <3>2
  <2>4. CASE k.id # n.id
    <3>1. n.id \in DOMAIN Binding(n.calls) /\ k.id = Binding(n.calls)[n.id] /\ Fits(k, n)
      BY <2>2, <2>4 DEF StandsFor
    <3>2. n.calls # <<>> /\ n.id \in Owned
      BY <2>1, <3>1, BoundIsParameter
    <3>3. PICK m : m = Node(Own(Head(n.calls), n.id), Tail(n.calls), n.field)
      OBVIOUS
    <3>4. /\ From(n) = {m} /\ m.field = n.field
          /\ Agree(Binding(m.calls), Binding(n.calls)) /\ Carried(n) \subseteq Carried(m)
          /\ Binding(n.calls)[n.id] = IF m.id \in DOMAIN Binding(m.calls) THEN Binding(m.calls)[m.id] ELSE m.id
      BY <2>1, <3>2, <3>3, BackFromBound
    <3>5. Fits(k, m)
      BY <3>1, <3>4 DEF Fits, Agree
    <3>6. StandsFor(k, m)
      BY <3>1, <3>4, <3>5 DEF StandsFor
    <3>7. Covered(m, seen)
      BY <3>6 DEF Covered
    <3> QED
      BY <2>1, <3>4, <3>7
  <2> QED
    BY <2>3, <2>4
<1>7. Region \subseteq T
  <2>1. \A n \in T \cap Region : From(n) \subseteq T
    BY <1>6
  <2> HIDE DEF T
  <2> QED
    BY <1>1, <1>5, <2>1, RegionTyped
<1> QED
  BY <1>7

\* Nothing is reported that does not lead to the start: what a walk of a regular
\* graph finds matches, call by call, what an invocation passes on (the bindings
\* that walk, src/src/output/flow.rs, carries from frame to frame).
THEOREM ContextsStayApart == FlowSpec => []ContextsKeptApartIfRegular
<1>1. FlowInv => ContextsKeptApartIfRegular
  <2> SUFFICES ASSUME FlowInv, Origins, Regular, NEW v \in Reported PROVE v \in Ids(Region)
    BY DEF ContextsKeptApartIfRegular, Region
  <2>1. PICK o \in found : v = o.value
    BY DEF Reported, Present
  <2>2. v \in DOMAIN Values /\ Values[v].kind # "parameter"
    BY DEF Reported, Present
  <2>3. PlainInv
    BY <2>1 DEF FlowInv
  <2>4. PICK k \in seen : k.id = v /\ k.field = NoField
    BY <2>1, <2>3 DEF PlainInv, WalkSound
  <2>5. PICK n \in Region : Match(k, n)
    BY <2>3, <2>4 DEF PlainInv, WalkSound, WalkKeys
  <2>6. n.id = v /\ n.field = NoField
    BY <2>4, <2>5 DEF Match, Fits
  <2> QED
    BY <2>2, <2>6 DEF Ids, Present
<1> QED
  BY <1>1, FlowInitInv, FlowKeeps, PTL DEF FlowSpec

\* An answer that is not marked incomplete has every origin there is and met
\* nothing it cannot see through (FlowOrigins::incomplete, src/src/output/flow.rs).
THEOREM CompleteAnswersAreWhole == FlowSpec => []CompleteMeansAll
<1>1. FlowInv => CompleteMeansAll
  <2> SUFFICES ASSUME FlowInv, Origins, Regular, done, ~incomplete
               PROVE  Ids(Region) \subseteq Reported /\ ~\E n \in Region : CannotSee(n)
    BY DEF CompleteMeansAll, Region
  <2>1. PlainInv /\ pending = <<>>
    BY DEF FlowInv
  <2>2. Asking
    BY <2>1 DEF FlowInv, PlainInv, Asking
  <2>3. WalkKeys = seen
    BY <2>1 DEF WalkKeys, ToSet
  <2>4. PICK ids : ids = {o.value : o \in found}
    OBVIOUS
  <2>5. ASSUME NEW n \in Region
        PROVE  /\ ~CannotSee(n)
               /\ n.field = NoField => n.id \in ids \/ Values[n.id].kind = "parameter"
    <3>1. PICK k \in seen : StandsFor(k, n)
      BY <2>1, <2>2, AllCovered DEF Covered
    <3>2. CASE k.id = n.id
      <4>1. Match(k, n)
        BY <3>1, <3>2 DEF Match, StandsFor
      <4>2. Settled(n, ids, seen)
        BY <2>1, <2>3, <2>4, <4>1 DEF PlainInv, WalkWhole
      <4> QED
        BY <4>2 DEF Settled
    <3>3. CASE k.id # n.id
      <4>1. n.id \in DOMAIN Binding(n.calls)
        BY <3>1, <3>3 DEF StandsFor
      <4>2. n.id \in DOMAIN Values /\ Values[n.id].kind = "parameter"
        BY <2>2, <4>1, BoundIsParameter
      <4> QED
        BY <4>2 DEF CannotSee
    <3> QED
      BY <3>2, <3>3
  <2>6. Ids(Region) \subseteq Reported
    <3> SUFFICES ASSUME NEW v \in Ids(Region) PROVE v \in Reported
      OBVIOUS
    <3>1. v \in DOMAIN Values /\ Values[v].kind # "parameter"
      BY DEF Ids, Present
    <3>2. PICK n \in Region : n.field = NoField /\ n.id = v
      BY DEF Ids, Present
    <3>3. v \in ids
      BY <2>5, <3>1, <3>2
    <3> QED
      BY <2>4, <3>1, <3>3 DEF Reported, Present
  <2> QED
    BY <2>5, <2>6
<1> QED
  BY <1>1, FlowInitInv, FlowKeeps, PTL DEF FlowSpec
=============================================================================
