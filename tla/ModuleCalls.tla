---------------------------- MODULE ModuleCalls ----------------------------
(***************************************************************************)
(* Calls through imported names, and what module code does with temporary  *)
(* files, in the module scope of a Python source: the Collector of         *)
(* src/src/formats/source/python_module_calls.rs.  One action is one       *)
(* statement, at the offset `pos`.                                         *)
(*                                                                         *)
(* A call [form "call", head, method, file, code, walrus, inner] is        *)
(* head(...), or head.method(...).  `file` is the name whose `.name` its   *)
(* command interpolates, `code` the bytes literal it is given; `walrus`    *)
(* and `inner` are a name its arguments assign and whether they hold a     *)
(* call.  A dotted tail is part of what an import stands for.              *)
(* `runs` of another expression, a definition or an assignment: it runs    *)
(* code out of sight, holding a call without being one (`f(h) or 0`, a     *)
(* default argument, the body of a class, the right side `f(h) + 1`).      *)
(***************************************************************************)
EXTENDS NestedParses, Sequences, SequencesExt, FiniteSets

CONSTANTS
  Name,           \* module-scope names
  Target,         \* what an import may stand for
  Statements,     \* the statements a module may be made of
  Absent,         \* no method, file, code, walrus or right side
  StatementLimits, \* values of MAX_STATEMENTS
  MaxCalls, MaxTemporaries, MaxEvents, MaxWritten,
  MaxModule       \* bound: statements in a module

ASSUME CallsAssumption ==
  /\ IsFiniteSet(Name) /\ {"launcher", "tempfile"} \subseteq Target
  /\ Absent \notin Name \cup Target \cup {"rebound", "opaque-call", "control-flow", "try"}
  /\ StatementLimits \cup {MaxCalls, MaxTemporaries, MaxEvents, MaxWritten, MaxModule} \subseteq Nat
  /\ \A s \in Statements :
       /\ s.kind = "import" => s.alias \in Name \cup {Absent} /\ s.target \in Target
       /\ s.kind = "definition" => s.name \in Name
       /\ s.kind = "call" => s.call # Absent
       /\ s.kind = "assign" => s.left \in Seq(Name)
       /\ s.kind \in {"definition", "assign", "other"} => s.runs \in BOOLEAN
       /\ \A c \in IF s.kind = "call" THEN {s.call} ELSE IF s.kind = "assign" THEN {s.right} ELSE {} :
            c # Absent => c.head \in Name /\ c.file \in Name \cup {Absent} /\ c.inner \in BOOLEAN

VARIABLES
  pos,            \* offset of the next statement
  trying,         \* inside the body of a try statement
  bindings,       \* name to what was imported as it
  temporaries,    \* name to [pos, trigger, events]
  calls,          \* [resolved, pos, trigger]
  files,          \* finished temporaries, with what ended them
  budget,         \* statements left
  nested,         \* its NestedParses
  reading,        \* "skipped" (too large), "parse_error" or "yes"
  analysis        \* what emit says of itself, or <<>>
collector == <<pos, trying, bindings, temporaries, calls, files, budget, nested, reading, analysis>>
records == <<bindings, temporaries, files>>

CallsInit ==
  /\ pos = 1 /\ trying = FALSE
  /\ bindings = <<>> /\ temporaries = <<>> /\ calls = <<>> /\ files = <<>>
  /\ budget \in StatementLimits /\ nested = FullAllowance
  /\ reading \in {"yes", "skipped", "parse_error"} /\ analysis = <<>>

Trigger == IF trying THEN "module_try" ELSE "module"

-----------------------------------------------------------------------------
(* Bindings and tracked files *)

Without(f, names) == [n \in DOMAIN f \ names |-> f[n]]
With(f, name, value) == [n \in DOMAIN f \cup {name} |-> IF n = name THEN value ELSE f[n]]

Limited(s, max) == SubSeq(s, 1, IF Len(s) > max THEN max ELSE Len(s))

\* finish: the facts of `names`, after those there are and while there is room.
Finished(facts, tracked, names, reason) ==
  LET list == SetToSeq(names \cap DOMAIN tracked)
  IN  Limited(facts \o [i \in DOMAIN list |-> [tracked[list[i]] EXCEPT !.ended = reason]], MaxTemporaries)
\* end: `names` are tracked no more.
Ends(names, reason) ==
  /\ temporaries' = Without(temporaries, names)
  /\ files' = Finished(files, temporaries, names, reason)

\* A statement of a module that is analysed, within its budget, at either depth.
Running == reading = "yes" /\ analysis = <<>> /\ pos <= MaxModule
Statement(s, kind) ==
  /\ Running /\ budget > 0
  /\ s.kind = kind
  /\ pos' = pos + 1 /\ budget' = budget - 1
  /\ UNCHANGED <<reading, analysis>>

-----------------------------------------------------------------------------
(* Calls *)

Resolved(c) == IF c.head \in DOMAIN bindings THEN bindings[c.head] ELSE Absent

\* observe: a call through an import.
Observe(c) ==
  calls' = IF Len(calls) < MaxCalls /\ Resolved(c) # Absent
           THEN Append(calls, [resolved |-> Resolved(c), pos |-> pos, trigger |-> Trigger]) ELSE calls

\* The literal a write to a tracked file gives is parsed if it is not too large
\* and the allowance covers it.  (What URLs it finds there is not modelled.)
IsMethod(c) == c.method # Absent /\ c.head \in DOMAIN temporaries
Parses(c) == IsMethod(c) /\ c.method = "write" /\ c.code # Absent /\ c.code <= MaxWritten
Ask(c) == nested' = IF Parses(c) THEN Asked(nested, c.code) ELSE nested

Recorded(tracked, name, event) ==
  IF Len(tracked[name].events) < MaxEvents
  THEN [tracked EXCEPT ![name].events = Append(@, event)] ELSE tracked

\* A launch of a tracked file; what is neither that nor a method of one is opaque
\* code that may use any.
IsLaunch(c) ==
  ~IsMethod(c) /\ c.method = Absent /\ Resolved(c) = "launcher" /\ c.file \in DOMAIN temporaries
\* Mutant: only a call that is given a file can use it.
NamedOnly(c) == ~IsMethod(c) /\ ~IsLaunch(c) /\ c.file \in DOMAIN temporaries
UsesAny(c) == ~IsMethod(c) /\ ~IsLaunch(c)

\* The tracked files and the facts after a call.
AfterCall(c) ==
  IF UsesAny(c) THEN <<>>
  ELSE IF IsMethod(c) THEN Recorded(temporaries, c.head, [event |-> c.method, pos |-> pos])
  ELSE IF IsLaunch(c) THEN Recorded(temporaries, c.file, [event |-> "launch", pos |-> pos])
  ELSE temporaries
FilesAfterCall(c) == IF UsesAny(c) THEN Finished(files, temporaries, DOMAIN temporaries, "opaque-call") ELSE files

CallStatement(s) ==
  /\ Statement(s, "call")
  /\ Observe(s.call) /\ Ask(s.call)
  /\ temporaries' = AfterCall(s.call) /\ files' = FilesAfterCall(s.call)
  /\ UNCHANGED <<trying, bindings>>

-----------------------------------------------------------------------------
(* The other statements *)

\* Mutant: a name keeps what was imported as it.
KeptBinding(name) == bindings
Rebound(name) == Without(bindings, {name})

\* An import binds its alias, a wildcard nothing.
Import(s) ==
  /\ Statement(s, "import")
  /\ bindings' = IF s.alias = Absent THEN bindings ELSE With(bindings, s.alias, s.target)
  /\ Ends(DOMAIN bindings', "rebound")
  /\ UNCHANGED <<trying, calls, nested>>

\* Default arguments and the body of a class are not looked at.
Definition(s) ==
  /\ Statement(s, "definition")
  /\ bindings' = Rebound(s.name)
  /\ Ends({s.name}, "rebound")
  /\ UNCHANGED <<trying, calls, nested>>

\* The right side of an assignment makes a file, or is a call like any other;
\* of a chain `a = b = ...` it is neither.
Makes(s) == s.right # Absent /\ Len(s.left) = 1 /\ s.right.method = Absent /\ Resolved(s.right) = "tempfile"
Calling(s) == s.right # Absent /\ Len(s.left) <= 1 /\ ~Makes(s)
Right(s) == IF Calling(s) THEN Observe(s.right) /\ Ask(s.right) ELSE UNCHANGED <<calls, nested>>
AfterRight(s) == IF Calling(s) THEN AfterCall(s.right) ELSE temporaries
FilesAfterRight(s) == IF Calling(s) THEN FilesAfterCall(s.right) ELSE files

\* To a name: the first of a chain is the only one looked at.
AssignName(s) ==
  /\ Statement(s, "assign") /\ s.left # <<>>
  /\ Right(s)
  /\ LET name == Head(s.left)
         new == [pos |-> pos, trigger |-> Trigger, events |-> <<>>, ended |-> Absent]
     IN  /\ temporaries' = IF Makes(s) THEN With(AfterRight(s), name, new) ELSE Without(AfterRight(s), {name})
         /\ files' = Finished(FilesAfterRight(s), AfterRight(s), {name}, "rebound")
         /\ bindings' = Rebound(name)
  /\ UNCHANGED trying
\* To a tuple, a member or an item, or augmented: nothing is known after it.
AssignOther(s) ==
  /\ Statement(s, "assign") /\ s.left = <<>>
  /\ Right(s)
  /\ bindings' = <<>> /\ temporaries' = <<>>
  /\ files' = Finished(FilesAfterRight(s), AfterRight(s), DOMAIN AfterRight(s), "rebound")
  /\ UNCHANGED trying
Augmented(s) ==
  /\ Statement(s, "augmented")
  /\ bindings' = <<>>
  /\ Ends(DOMAIN temporaries, "rebound")
  /\ UNCHANGED <<trying, calls, nested>>

\* Comments, and expressions that are neither calls nor assignments: a call they
\* hold ends nothing.
Inert(s) ==
  /\ Statement(s, "other")
  /\ UNCHANGED <<trying, records, calls, nested>>

\* A branch, a loop, a delete, a try inside a try.
ControlFlow(s) ==
  /\ \/ Statement(s, "control")
     \/ Statement(s, "try") /\ trying
  /\ bindings' = <<>>
  /\ Ends(DOMAIN temporaries, "control-flow")
  /\ UNCHANGED <<trying, calls, nested>>

\* The body of a try starts from what is known, and leaves nothing known.
EnterTry(s) ==
  /\ Statement(s, "try") /\ ~trying
  /\ trying' = TRUE
  /\ UNCHANGED <<records, calls, nested>>
LeaveTry ==
  /\ analysis = <<>> /\ trying
  /\ trying' = FALSE
  /\ bindings' = <<>>
  /\ Ends(DOMAIN temporaries, "try")
  /\ UNCHANGED <<pos, calls, budget, nested, reading, analysis>>

\* Past the budget statements are not looked at.
PastBudget(s) ==
  /\ Running /\ budget = 0
  /\ pos' = pos + 1
  /\ UNCHANGED <<trying, records, calls, budget, nested, reading, analysis>>

EmitCalls ==
  /\ analysis = <<>> /\ ~trying
  /\ temporaries' = <<>>
  /\ files' = Finished(files, temporaries, DOMAIN temporaries, Absent)
  /\ analysis' = [parseError |-> reading = "parse_error",
                  truncated |-> reading = "skipped" \/ budget = 0 \/ nested.limited]
  /\ UNCHANGED <<pos, trying, bindings, calls, budget, nested, reading>>

Interpret(s) ==
  \/ CallStatement(s) \/ Import(s) \/ Definition(s) \/ AssignName(s) \/ AssignOther(s)
  \/ Augmented(s) \/ Inert(s) \/ ControlFlow(s) \/ EnterTry(s) \/ PastBudget(s)
=============================================================================
