------------------------------ MODULE FlowWalk ------------------------------
(***************************************************************************)
(* Walks over the value-flow graph of one file: origins, field_origins,    *)
(* argument_origins and complete_values of src/src/output/flow.rs.  Each   *)
(* is a worklist loop with a set of what was seen and several budgets; one *)
(* action here is one turn of the loop.                                    *)
(*                                                                         *)
(* A value is a record [kind, scalar, target, inputs, receiver, fields];   *)
(* scalar tells whether it carries a string, number, boolean or null.      *)
(***************************************************************************)
EXTENDS Naturals, Sequences, SequencesExt, FiniteSets, FiniteSetsExt, Folds

CONSTANTS
  Graphs,            \* [values, functions]: the graphs that may be asked
  Questions,         \* [mode, start, field, budget]: what may be asked of them
  Transfers,         \* the caller's models of library calls: [call, arguments, receiver]
  NoField,           \* no field is asked for
  StepLimit, DepthLimit, FrameBindingLimit, FrameEntryLimit

ASSUME LimitsAssumption ==
  {StepLimit, DepthLimit, FrameBindingLimit, FrameEntryLimit} \subseteq Nat
ASSUME GraphsAssumption ==
  /\ \A q \in Questions : q.start \in Nat
  /\ \A g \in Graphs : g.values \in Seq(ToSet(g.values)) /\ IsFiniteSet(DOMAIN g.functions)
  /\ \A g \in Graphs : \A v \in ToSet(g.values) :
       /\ v.inputs \in Seq(Nat) /\ v.receiver \in Nat
       /\ IsFiniteSet(DOMAIN v.fields) /\ \A f \in DOMAIN v.fields : v.fields[f] \in Nat
  /\ \A g \in Graphs : \A f \in DOMAIN g.functions :
       g.functions[f].parameters \in Seq(Nat) /\ g.functions[f].returns \in Seq(Nat)

VARIABLES
  graph,       \* the Flow
  asked,       \* the question, with the bindings it starts in
  pending,     \* the worklist, a stack of [id, bindings, depth, field]
  seen,        \* its [id, bindings, field] so far
  left,        \* steps left
  frameEntries,\* bindings left to create
  found,       \* out.values: [value, bindings]
  incomplete,  \* out.incomplete
  done         \* the call has returned

answer == <<found, incomplete>>
budgets == <<left, frameEntries>>
vars == <<graph, asked, pending, seen, budgets, answer, done>>

Composite == {"merge", "concat", "alternative"}
Kind == Composite \cup {"literal", "parameter", "call", "member", "object", "keyword", "unknown"}
Unbound == <<>>   \* the bindings of no frame
Lesser(m, n) == IF m < n THEN m ELSE n
Values == graph.values
Functions == graph.functions

Item(id, bindings, depth, field) == [id |-> id, bindings |-> bindings, depth |-> depth, field |-> field]

FlowInit ==
  /\ graph \in Graphs
  /\ asked \in {[question |-> q, start |-> q.start, of |-> 0, bindings |-> Unbound, again |-> FALSE] : q \in Questions}
  /\ pending = <<Item(asked.start, Unbound, 0, asked.question.field)>>
  /\ seen = {} /\ left = Lesser(asked.question.budget, StepLimit)
  /\ frameEntries = FrameEntryLimit
  /\ found = {} /\ incomplete = FALSE /\ done = FALSE

-----------------------------------------------------------------------------
(* The head of either loop *)

Top == Last(pending)
Rest == Front(pending)
Value == Values[Top.id]
\* Mutant: a value is walked once, whatever the invocation it is reached in.
KeyOfValue(item) == [id |-> item.id, field |-> item.field]
Key(item) == [id |-> item.id, bindings |-> item.bindings, field |-> item.field]

Turn == ~done /\ pending # <<>>
InBudget == Turn /\ left > 0 /\ Top.depth <= DepthLimit

Exhausted ==
  /\ Turn /\ (left = 0 \/ Top.depth > DepthLimit)
  /\ incomplete' = TRUE /\ done' = TRUE
  /\ UNCHANGED <<graph, asked, pending, seen, budgets, found>>

SeenAgain ==
  /\ InBudget /\ Key(Top) \in seen
  /\ left' = left - 1
  /\ pending' = Rest
  /\ UNCHANGED <<graph, asked, seen, frameEntries, answer, done>>

\* The item is new; cost is what the turn spends besides its step.
Visit(cost) ==
  /\ InBudget /\ Key(Top) \notin seen
  /\ seen' = seen \cup {Key(Top)}
  /\ left' = left - 1 - cost
  /\ UNCHANGED <<graph, asked>>

Dangling ==
  /\ Visit(0) /\ Top.id \notin DOMAIN Values
  /\ pending' = Rest
  /\ incomplete' = TRUE
  /\ UNCHANGED <<frameEntries, found, done>>

Finish ==
  /\ ~done /\ pending = <<>>
  /\ done' = TRUE
  /\ UNCHANGED <<graph, asked, pending, seen, budgets, answer>>

-----------------------------------------------------------------------------
(* walk *)

Walks(kinds) == asked.question.mode = "origins" /\ Top.id \in DOMAIN Values /\ Value.kind \in kinds

\* Without a field the value is an origin; with one it is only on the way.
Note == found' = IF Top.field = NoField
                 THEN found \cup {[value |-> Top.id, bindings |-> Top.bindings]} ELSE found

Follow(ids) == Rest \o [i \in DOMAIN ids |-> Item(ids[i], Top.bindings, Top.depth + 1, Top.field)]

\* An object's field is walked without a field; the others never are.
Projected(value, field) == IF field \in DOMAIN value.fields THEN <<value.fields[field]>> ELSE <<>>
ProjectField ==
  /\ Visit(0) /\ Walks({"object", "keyword"}) /\ Top.field # NoField
  /\ LET ids == Projected(Value, Top.field)
     IN  pending' = Rest \o [i \in DOMAIN ids |-> Item(ids[i], Top.bindings, Top.depth + 1, NoField)]
  /\ UNCHANGED <<frameEntries, answer, done>>

\* Literals and member reads end the walk; a literal has no fields.  Keyword
\* arguments are reached by name only.
Leaf ==
  /\ Visit(0)
  /\ Walks({"literal", "member"}) \/ (Walks({"keyword"}) /\ Top.field = NoField)
  /\ Note
  /\ pending' = Rest
  /\ UNCHANGED <<frameEntries, incomplete, done>>

Unknown ==
  /\ Visit(0) /\ Walks({"unknown"})
  /\ Note
  /\ incomplete' = TRUE
  /\ pending' = Rest
  /\ UNCHANGED <<frameEntries, done>>

Combine ==
  /\ Visit(0)
  /\ \/ Walks(Composite) /\ pending' = Follow(Value.inputs)
     \/ /\ Walks({"object"}) /\ Top.field = NoField
        /\ pending' = Follow(SetToSeq({Value.fields[f] : f \in DOMAIN Value.fields}))
  /\ Note
  /\ UNCHANGED <<frameEntries, incomplete, done>>

BoundParameter ==
  /\ Visit(0) /\ Walks({"parameter"}) /\ Top.id \in DOMAIN Top.bindings
  /\ Note
  /\ pending' = Follow(<<Top.bindings[Top.id]>>)
  /\ UNCHANGED <<frameEntries, incomplete, done>>

\* An unbound parameter takes every caller's argument; looking through the
\* functions and the calls costs steps.
Helpers == {f \in DOMAIN Functions : Contains(Functions[f].parameters, Top.id)}
Position(f) == SelectInSeq(Functions[f].parameters, LAMBDA p : p = Top.id)
Looking == MapThenFoldSet(+, 0,
             LAMBDA f : 1 + Len(Functions[f].parameters) + (IF f \in Helpers THEN Len(Values) ELSE 0),
             LAMBDA S : CHOOSE f \in S : TRUE, DOMAIN Functions)
Passed(f, c) ==
  IF Values[c].kind = "call" /\ Values[c].target = f /\ Position(f) \in DOMAIN Values[c].inputs
  THEN <<Values[c].inputs[Position(f)]>> ELSE <<>>
Actuals == FlattenSeq([n \in DOMAIN SetToSeq(Helpers) |->
             FlattenSeq([c \in DOMAIN Values |-> Passed(SetToSeq(Helpers)[n], c)])])
FreeParameter ==
  /\ InBudget /\ Walks({"parameter"}) /\ Top.id \notin DOMAIN Top.bindings
  /\ Looking <= left - 1
  /\ Visit(Looking)
  /\ Note
  /\ pending' = Follow(Actuals)
  /\ UNCHANGED <<frameEntries, incomplete, done>>
FreeParameterOut ==
  /\ InBudget /\ Walks({"parameter"}) /\ Top.id \notin DOMAIN Top.bindings
  /\ Looking > left - 1
  /\ Visit(0)
  /\ Note
  /\ incomplete' = TRUE /\ done' = TRUE
  /\ UNCHANGED <<pending, frameEntries>>

\* A local helper's returns are walked in a frame of their own: the caller's
\* bindings and the parameters, each bound to its argument or to what that
\* parameter of the caller is bound to.
Frame(f, value, bindings) ==
  LET params == SubSeq(Functions[f].parameters, 1,
                       Lesser(Len(Functions[f].parameters), Len(value.inputs)))
      Actual(p) == value.inputs[SelectInSeq(params, LAMBDA q : q = p)]
  IN  [p \in DOMAIN bindings \cup ToSet(params) |->
         IF ~Contains(params, p) THEN bindings[p]
         ELSE IF Actual(p) \in DOMAIN bindings THEN bindings[Actual(p)] ELSE Actual(p)]
Local == Walks({"call"}) /\ Value.target \in DOMAIN Functions
TooWide == Cardinality(DOMAIN Top.bindings) + Len(Functions[Value.target].parameters) > FrameBindingLimit

CallTooWide ==
  /\ Visit(0) /\ Local /\ TooWide
  /\ Note
  /\ incomplete' = TRUE
  /\ pending' = Rest
  /\ UNCHANGED <<frameEntries, done>>
CallHelper ==
  /\ Visit(0) /\ Local /\ ~TooWide
  /\ Note
  /\ LET frame == Frame(Value.target, Value, Top.bindings)
         returns == Functions[Value.target].returns
         size == Cardinality(DOMAIN frame)
     IN  \/ /\ size <= frameEntries
            /\ frameEntries' = frameEntries - size
            /\ pending' = Rest \o [i \in DOMAIN returns |->
                            Item(returns[i], frame, Top.depth + 1, Top.field)]
            /\ UNCHANGED <<incomplete, done>>
         \/ /\ size > frameEntries
            /\ incomplete' = TRUE /\ done' = TRUE
            /\ UNCHANGED <<pending, frameEntries>>

\* A library call is opaque but for what the caller's models say of it; what
\* shape it returns they do not say.
Models == {m \in Transfers : m.call = Value.target}
Modelled == UNION {{Value.inputs[i] : i \in m.arguments \cap DOMAIN Value.inputs}
                     \cup (IF m.receiver /\ Value.receiver # 0 THEN {Value.receiver} ELSE {}) : m \in Models}
Opaque == Top.field # NoField \/ Models = {}
CallLibrary ==
  /\ Visit(0) /\ Walks({"call"}) /\ ~Local
  /\ Note
  /\ incomplete' = (incomplete \/ Opaque)
  /\ pending' = IF Top.field # NoField THEN Rest ELSE Follow(SetToSeq(Modelled))
  /\ UNCHANGED <<frameEntries, done>>

Walk ==
  \/ ProjectField \/ Leaf \/ Unknown \/ Combine \/ BoundParameter
  \/ FreeParameter \/ FreeParameterOut \/ CallTooWide \/ CallHelper \/ CallLibrary

\* argument_origins: a walk of one argument of an origin found, in its bindings.
\* Mutant: a fresh walk, in no invocation.
FreshBindings(origin) == Unbound
BindingsOf(origin) == origin.bindings
MayAskAgain == done /\ asked.question.mode = "origins" /\ ~asked.again
AskArgument ==
  /\ MayAskAgain
  /\ \E o \in found : \E i \in DOMAIN Values[o.value].inputs :
       LET start == Values[o.value].inputs[i]
       IN  /\ asked' = [asked EXCEPT !.start = start, !.of = o.value, !.bindings = o.bindings, !.again = TRUE]
           /\ pending' = <<Item(start, BindingsOf(o), 0, NoField)>>
  /\ seen' = {} /\ left' = Lesser(asked.question.budget, StepLimit)
  /\ frameEntries' = FrameEntryLimit
  /\ found' = {} /\ incomplete' = FALSE /\ done' = FALSE
  /\ UNCHANGED graph
AskMissingArgument ==
  /\ MayAskAgain /\ found # {}
  /\ asked' = [asked EXCEPT !.again = TRUE]
  /\ found' = {} /\ incomplete' = TRUE
  /\ UNCHANGED <<graph, pending, seen, budgets, done>>

-----------------------------------------------------------------------------
(* complete_values *)

Completes == asked.question.mode = "complete" /\ Top.id \in DOMAIN Values
Proven == Top.field = NoField /\ Value.scalar

Complete ==
  /\ Visit(0) /\ Completes /\ Proven
  /\ found' = found \cup {[value |-> Top.id, bindings |-> Unbound]}
  /\ pending' = Rest
  /\ UNCHANGED <<frameEntries, incomplete, done>>

\* Mutant: a merge is taken for a choice of whole values.
Chosen == {"alternative", "merge"}
Whole == {"alternative"}
ChooseWhole ==
  /\ Visit(0) /\ Completes /\ ~Proven /\ Value.kind \in Whole
  /\ IF Len(Value.inputs) + Len(Rest) > left - 1
     THEN /\ incomplete' = TRUE /\ done' = TRUE /\ UNCHANGED pending
     ELSE /\ pending' = Follow(Value.inputs) /\ UNCHANGED <<incomplete, done>>
  /\ UNCHANGED <<frameEntries, found>>

CompleteField ==
  /\ Visit(0) /\ Completes /\ ~Proven
  /\ Value.kind \in {"object", "keyword"} /\ Top.field # NoField
  /\ LET ids == Projected(Value, Top.field)
     IN  pending' = Rest \o [i \in DOMAIN ids |-> Item(ids[i], Unbound, Top.depth + 1, NoField)]
  /\ UNCHANGED <<frameEntries, answer, done>>

Unproven ==
  /\ Visit(0) /\ Completes /\ ~Proven /\ Value.kind \notin Whole
  /\ Value.kind \notin {"object", "keyword"} \/ Top.field = NoField
  /\ incomplete' = TRUE
  /\ pending' = Rest
  /\ UNCHANGED <<frameEntries, found, done>>

FlowNext ==
  \/ Exhausted \/ SeenAgain \/ Dangling \/ Finish
  \/ Walk \/ AskArgument \/ AskMissingArgument
  \/ Complete \/ ChooseWhole \/ CompleteField \/ Unproven

FlowSpec == FlowInit /\ [][FlowNext]_vars
=============================================================================
