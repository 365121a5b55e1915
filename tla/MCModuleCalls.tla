---------------------------- MODULE MCModuleCalls ----------------------------
(***************************************************************************)
(* Modules of a few statements over the names h, s and t.                  *)
(***************************************************************************)
EXTENDS ModuleCallsProps

Bare(head) == [form |-> "call", head |-> head, method |-> Absent, file |-> Absent,
                  code |-> Absent, walrus |-> Absent, inner |-> FALSE]
MethodOf(head, name, code) == [Bare(head) EXCEPT !.method = name, !.code = code]
On(head, file) == [Bare(head) EXCEPT !.file = file]
CallOnly(c) == [kind |-> "call", call |-> c]
Assign(left, right) == [kind |-> "assign", left |-> left, right |-> right, runs |-> FALSE]
Plainly(kind) == [kind |-> kind, runs |-> FALSE]
ImportAs(alias, target) == [kind |-> "import", alias |-> alias, target |-> target]
Define(name) == [kind |-> "definition", name |-> name, runs |-> FALSE]

PlainStatements ==
  {ImportAs("s", "launcher"), ImportAs("t", "tempfile"), ImportAs("h", "other"), Define("s"), Define("h"),
   Assign(<<"h">>, Bare("t")), Assign(<<"s">>, Absent), Assign(<<"t">>, Bare("h")), Assign(<<>>, Absent),
   Assign(<<>>, On("s", "h")), Assign(<<"g">>, Bare("t")),
   Plainly("augmented"), Plainly("other"), Plainly("control"), Plainly("try")}
  \cup {CallOnly(c) : c \in {MethodOf("h", "write", 1), MethodOf("h", "write", 3), MethodOf("h", "close", Absent),
                             MethodOf("g", "write", 2), On("s", "h"), Bare("s"), Bare("g")}}
HiddenStatements ==
  {ImportAs(Absent, "other"), Assign(<<"h", "s">>, Absent), [Plainly("other") EXCEPT !.runs = TRUE],
   [Define("g") EXCEPT !.runs = TRUE], [Assign(<<"g">>, Absent) EXCEPT !.runs = TRUE],
   CallOnly([Bare("h") EXCEPT !.walrus = "s"]), CallOnly([MethodOf("h", "write", Absent) EXCEPT !.inner = TRUE])}
SmallStatements == PlainStatements \cup HiddenStatements

=============================================================================
