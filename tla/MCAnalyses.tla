---------------------------- MODULE MCAnalyses ----------------------------
(***************************************************************************)
(* Analyses of one file or artifact that share no state: the walks over a  *)
(* value-flow graph (MCFlowWalk), the FIFO relations of a shell script     *)
(* (MCShellFifo), the calls of a Python module (MCModuleCalls), the scan   *)
(* of a pickle and the walk of the Cargo targets.  Each behaviour runs one *)
(* of them; the others have nothing to do.                                 *)
(***************************************************************************)
EXTENDS MCFlowWalk, MCShellFifo, MCModuleCalls, PickleProps, CargoWalkProps, TLC

-----------------------------------------------------------------------------
(* Pickles over two names, one of them also written with an escape, and a  *)
(* third that compat turns the first into.                                 *)

Texts == {"b", "x", "?"}
Sizes == [t \in Texts |-> IF t = "b" THEN 1 ELSE 2]
Identifiers == {"b", "x", "c"}
Unescaped == [t \in Texts |-> IF t = "?" THEN "b" ELSE t]
RenamedGlobals == <<"x", "x">> :> <<"c", "c">>
RenamedModules == [t \in {"b"} |-> "c"]
SmallOpcodes ==
  {o \in Opcode : CASE o.op = "text" -> o.line <=> o.text = "?"
                    [] o.op = "unread" -> o.text = "b"
                    [] o.op = "global" -> o.module = "b" /\ o.attr = "x"
                    [] o.op = "drop" -> o.count = 2
                    [] o.op = "inst" -> o.module = "x" /\ o.attr = "x"
                    [] o.op = "replace" -> o.count = 2
                    [] o.op = "put" -> o.index = 1
                    [] OTHER -> TRUE}

-----------------------------------------------------------------------------
(* A package with a library, a program, a build script and a tool, and the *)
(* package p beside it; some of the files are not there.                   *)

Mod(name) == [name |-> name, inline |-> <<>>, path |-> NoPath]
ModIn(name, dir) == [Mod(name) EXCEPT !.inline = <<dir>>]
ModAt(name, path) == [Mod(name) EXCEPT !.path = path]
Member(modules, kind) == [modules |-> modules, events |-> {kind}]

Lib == <<"src", "lib">>
Sources(lib, a, tool) ==
  Lib :> Member(lib, "e1") @@ <<"src", "main">> :> Member(<<Mod("a")>>, "e2")
    @@ <<"src", "a">> :> Member(a, "e3") @@ <<"src", "b">> :> Member(<<Mod("a")>>, "e4")
    @@ <<"src", "a", "b">> :> Member(<<>>, "e5") @@ <<"src", "bin", "tool">> :> Member(tool, "e6")
    @@ <<"src", "a", "mod">> :> Member(<<Mod("b")>>, "e7")
    @@ <<"build">> :> Member(<<ModAt("x", <<"p", "src", "lib">>)>>, "e8")
    @@ <<"src", "bin", "b">> :> Member(<<>>, "e9")
    @@ <<"p", "src", "lib">> :> Member(<<ModAt("y", <<"..", "..", "src", "a">>), ModAt("z", <<"..", "c">>)>>, "e10")
    @@ <<"p", "c">> :> Member(<<>>, "e11") @@ <<"examples", "c", "main">> :> Member(<<>>, "e12")
Bin == [directory |-> <<"src", "bin">>, phase |-> "runtime", bin |-> TRUE, discovery |-> TRUE, declared |-> <<>>]
Example == [Bin EXCEPT !.directory = <<"examples">>, !.bin = FALSE]
Declares(name, path) == [name |-> name, path |-> path]
Manifest(at_, lib, bins) ==
  [at |-> at_, package |-> "n", build |-> [off |-> FALSE, disabled |-> FALSE, path |-> NoPath],
   lib |-> lib, macro |-> FALSE, kinds |-> <<[Bin EXCEPT !.declared = bins], Example>>]
Nested == [Manifest(<<"p">>, NoPath, <<Declares("n", NoPath)>>) EXCEPT !.macro = TRUE, !.build.off = TRUE]

SmallArtifacts ==
  {[files |-> [p \in DOMAIN all \ gone |-> all[p]],
    manifests |-> <<Manifest(<<>>, libPath, bins), Nested>>] :
     all \in {Sources(lib, a, tool) : lib \in {<<Mod("a"), Mod("b")>>, <<Mod("gone"), ModAt("a", <<"b">>)>>},
                a \in {<<Mod("b")>>, <<ModIn("b", "a"), ModAt("d", <<"a", "b">>), ModAt("e", <<"a", "b">>)>>}, tool \in {<<Mod("b")>>, <<>>}},
     gone \in {{}, {<<"src", "a", "mod">>}, {<<"src", "a">>, <<"src", "a", "b">>}},
     libPath \in {NoPath, <<"src", "b">>},
     bins \in {<<>>, <<Declares("n", NoPath), Declares("tool", NoPath), Declares("q", Lib)>>}}

-----------------------------------------------------------------------------
FlowIdle ==
  /\ graph = [values |-> <<>>, functions |-> <<>>]
  /\ asked = [question |-> [mode |-> "none"]] /\ pending = <<>> /\ seen = {}
  /\ left = 0 /\ frameEntries = 0 /\ found = {} /\ incomplete = FALSE /\ done = TRUE
PickleIdle ==
  /\ offset = 0 /\ protocol = 0 /\ stack = <<>> /\ memo = <<>> /\ resolved = {} /\ admitted = 0
  /\ streamsLeft = 1 /\ named = {} /\ scanning = "ended"
  /\ LoadInit
CargoIdle ==
  /\ artifact = [files |-> <<>>, manifests |-> <<>>]
  /\ queue = <<>> /\ taken = {} /\ target = NoPath /\ unvisited = <<>>
  /\ members = {} /\ events = {} /\ missing = {}
  /\ visitsLeft = 0 /\ targets = {} /\ truncated = FALSE

ShellIdle ==
  /\ script = <<>> /\ step = 1 /\ loops = <<>> /\ fifos = <<>> /\ functions = {}
  /\ limited = FALSE /\ allowance = FullAllowance /\ unparsed = {}
  /\ emitted = [limited |-> FALSE, fifos |-> <<>>, loops |-> {}]
CallsIdle ==
  /\ pos = 1 /\ trying = FALSE /\ bindings = <<>> /\ temporaries = <<>>
  /\ calls = <<>> /\ files = <<>> /\ budget = 0
  /\ nested = FullAllowance /\ reading = "skipped"
  /\ analysis = [parseError |-> FALSE, truncated |-> TRUE]
  /\ InterpreterInit

Init ==
  \/ FlowInit /\ PickleIdle /\ CargoIdle /\ ShellIdle /\ CallsIdle
  \/ FlowIdle /\ PickleAndPython /\ CargoIdle /\ ShellIdle /\ CallsIdle
  \/ FlowIdle /\ PickleIdle /\ CargoInit /\ ShellIdle /\ CallsIdle
  \/ FlowIdle /\ PickleIdle /\ CargoIdle /\ ShellInit /\ CallsIdle
  \/ FlowIdle /\ PickleIdle /\ CargoIdle /\ ShellIdle /\ CallsAndInterpreter
Next ==
  \/ FlowNext /\ UNCHANGED <<scan, python, cargo, shell, collector, interpreter>>
  \/ (\E o \in Pickles : Step(o)) /\ UNCHANGED <<vars, cargo, shell, collector, interpreter>>
  \/ CargoNext /\ UNCHANGED <<vars, scan, python, shell, collector, interpreter>>
  \/ ShellNext /\ UNCHANGED <<vars, scan, python, cargo, collector, interpreter>>
  \/ CallsNext /\ UNCHANGED <<vars, scan, python, cargo, shell>>
all == <<vars, scan, python, cargo, shell, collector, interpreter>>
Spec == Init /\ [][Next]_all
=============================================================================
