---------------------------- MODULE FlowWalkProps ----------------------------
(***************************************************************************)
(* What a walk promises, against the values an invocation of the helpers   *)
(* can really pass on: reachability over pairs of a value and the calls it *)
(* is evaluated under, innermost first.                                    *)
(***************************************************************************)
EXTENDS FlowWalk, Reach

Fields == {asked.question.field, NoField}
Node(id, calls, field) == [id |-> id, calls |-> calls, field |-> field]

\* A call of a local helper, its parameters, and what it passes for one of them.
LocalCalls == {c \in DOMAIN Values : Values[c].kind = "call" /\ Values[c].target \in DOMAIN Functions}
Parameters(c) == Functions[Values[c].target].parameters
Args(c, p) == {Values[c].inputs[i] : i \in {j \in DOMAIN Parameters(c) \cap DOMAIN Values[c].inputs : Parameters(c)[j] = p}}
Active(n) == {Values[n.calls[i]].target : i \in DOMAIN n.calls}
ModelledInputs(v) ==
  LET models == {m \in Transfers : m.call = v.target}
  IN  (UNION {{v.inputs[i] : i \in m.arguments \cap DOMAIN v.inputs} : m \in models})
        \cup {v.receiver : m \in {n \in models : n.receiver /\ v.receiver # 0}}

\* Where one step of data flow leads back to.  A helper that is active is not
\* entered again.
From(n) ==
  IF n.id \notin DOMAIN Values THEN {} ELSE
  LET v == Values[n.id]
      Same(ids) == {Node(i, n.calls, n.field) : i \in ids}
  IN  CASE v.kind \in {"object", "keyword"} /\ n.field # NoField ->
             {Node(v.fields[n.field], n.calls, NoField) : f \in {n.field} \cap DOMAIN v.fields}
        [] v.kind = "object" /\ n.field = NoField -> Same({v.fields[f] : f \in DOMAIN v.fields})
        [] v.kind \in {"merge", "concat", "alternative"} -> Same(ToSet(v.inputs))
        [] v.kind = "parameter" ->
             IF n.calls # <<>>
             THEN {Node(i, Tail(n.calls), n.field) : i \in Args(Head(n.calls), n.id)}
             ELSE {Node(i, <<>>, n.field) : i \in UNION {Args(c, n.id) : c \in LocalCalls}}
        [] n.id \in LocalCalls ->
             IF v.target \in Active(n) THEN {}
             ELSE {Node(r, <<n.id>> \o n.calls, n.field) : r \in ToSet(Functions[v.target].returns)}
        [] v.kind = "call" /\ n.field = NoField /\ n.id \notin LocalCalls -> Same(ModelledInputs(v))
        [] OTHER -> {}

\* Everything that leads to a set of nodes.
Under == [id : Nat, calls : Seq(LocalCalls), field : Fields]
Origin(nodes) == Reached([n \in Under |-> From(n)], nodes)

\* The bindings a stack of calls leaves, outermost call first: a call binds each
\* parameter to its argument, or to what that is bound to.
Given(c) == {p \in ToSet(Parameters(c)) : Args(c, p) # {}}
Own(c, p) == CHOOSE a \in Args(c, p) : TRUE
Opened(c, old) ==
  [p \in DOMAIN old \cup Given(c) |->
     IF p \notin Given(c) THEN old[p] ELSE IF Own(c, p) \in DOMAIN old THEN old[Own(c, p)] ELSE Own(c, p)]
Binding(calls) ==
  LET after[k \in 0..Len(calls)] ==
        IF k = 0 THEN <<>> ELSE Opened(calls[Len(calls) + 1 - k], after[k - 1])
  IN  after[Len(calls)]

FirstNode == Node(asked.question.start, <<>>, asked.question.field)
\* A second walk starts in the calls that led to the origin it is asked of; a
\* frame may hold more than its own calls bind.
Agree(some, all) == \A p \in DOMAIN some : p \in DOMAIN all /\ all[p] = some[p]
StartNodes ==
  IF ~asked.again THEN {FirstNode}
  ELSE {Node(asked.start, n.calls, NoField) :
          n \in {m \in Origin({FirstNode}) : /\ m.id = asked.of /\ m.field = NoField
                                            /\ Agree(Binding(m.calls), asked.bindings)}}
\* Origins are compared but for parameters, which a binding may skip.
Present(ids) == {v \in ids \cap DOMAIN Values : Values[v].kind # "parameter"}
Ids(nodes) == Present({n.id : n \in {m \in nodes : m.field = NoField}})
Reported == Present({o.value : o \in found})

\* What no walk can see through: a missing value, an unmodelled one, a library
\* call without a model, or with one when its shape is asked for.
CannotSee(n) ==
  \/ n.id \notin DOMAIN Values
  \/ Values[n.id].kind = "unknown"
  \/ /\ Values[n.id].kind = "call" /\ Values[n.id].target \notin DOMAIN Functions
     /\ \/ n.field # NoField
        \/ ~\E m \in Transfers : m.call = Values[n.id].target

Origins == asked.question.mode = "origins"

\* origins and field_origins: "Contextual parameter substitution prevents
\* callers of an identity helper from contaminating each other's return
\* values" (src/src/output/flow.rs:447): whatever was cut short, no value is
\* reported that does not lead to the start through matching calls.
ContextsKeptApart == (Origins /\ done) => Reported \subseteq Ids(Origin(StartNodes))

\* The same of the graphs it holds for: every call gives its helper all of its
\* arguments, a parameter has one place, no helper is entered twice, and what is
\* read is a parameter of the helper entered last or, outside of every call, of
\* one that no call was entered of on the way.
Applied == \A c \in LocalCalls : Len(Values[c].inputs) >= Len(Parameters(c))
InOnePlace ==
  \A f, g \in DOMAIN Functions :
    \A i \in DOMAIN Functions[f].parameters, j \in DOMAIN Functions[g].parameters :
      LET p == Functions[f].parameters[i]
      IN  /\ p \in DOMAIN Values /\ Values[p].kind = "parameter"
          /\ p = Functions[g].parameters[j] => f = g /\ i = j
Owned == UNION {ToSet(Functions[f].parameters) : f \in DOMAIN Functions}
Read(n) == Owned \cap ({n.id} \cup IF n.id \in LocalCalls THEN ToSet(Values[n.id].inputs) ELSE {})
Plain(nodes, bound) ==
  \A n \in Origin(nodes) :
    /\ n.id \in LocalCalls => Values[n.id].target \notin Active(n)
    /\ n.calls # <<>> => Read(n) \subseteq ToSet(Parameters(Head(n.calls)))
    /\ n.calls = <<>> =>
         /\ Read(n) \cap DOMAIN bound = {}
         /\ \A m \in Origin(nodes) : (m.id \in LocalCalls /\ n \in Origin({m}))
                                      => Read(n) \cap ToSet(Parameters(m.id)) = {}
Regular == Applied /\ InOnePlace /\ Plain({FirstNode}, Unbound) /\ Plain(StartNodes, asked.bindings)
ContextsKeptApartIfRegular ==
  (Origins /\ done /\ Regular) => Reported \subseteq Ids(Origin(StartNodes))

\* An answer that is not marked incomplete left nothing out and met nothing it
\* could not see through (FlowOrigins::incomplete).
CompleteMeansAll ==
  (Origins /\ done /\ ~incomplete /\ Regular) =>
    /\ Ids(Origin(StartNodes)) \subseteq Reported
    /\ ~\E n \in Origin(StartNodes) : CannotSee(n)

\* complete_values reports only whole values the start can be, and all of them
\* when its answer is not marked incomplete: no operand of a concatenation, no
\* other field of an object.
WholeFrom(n) ==
  IF n.id \notin DOMAIN Values THEN {} ELSE
  LET v == Values[n.id]
  IN  IF n.field = NoField /\ v.scalar THEN {}
      ELSE CASE v.kind = "alternative" -> {Node(i, <<>>, n.field) : i \in ToSet(v.inputs)}
             [] v.kind \in {"object", "keyword"} /\ n.field # NoField ->
                  {Node(v.fields[n.field], <<>>, NoField) : f \in {n.field} \cap DOMAIN v.fields}
             [] OTHER -> {}
WholeNodes == Reached([n \in Under |-> WholeFrom(n)], {FirstNode})
IsWhole(n) == n.id \in DOMAIN Values /\ n.field = NoField /\ Values[n.id].scalar
IsChoice(n) == n.id \in DOMAIN Values /\ (Values[n.id].kind = "alternative"
                 \/ (n.field # NoField /\ Values[n.id].kind \in {"object", "keyword"}))
CompleteValuesProven ==
  asked.question.mode = "complete" =>
    /\ {o.value : o \in found} \subseteq {n.id : n \in {m \in WholeNodes : IsWhole(m)}}
    /\ (done /\ ~incomplete) =>
         /\ \A n \in WholeNodes : IsWhole(n) \/ IsChoice(n)
         /\ {n.id : n \in {m \in WholeNodes : IsWhole(m)}} \subseteq {o.value : o \in found}
=============================================================================
