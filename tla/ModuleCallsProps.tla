-------------------------- MODULE ModuleCallsProps --------------------------
(***************************************************************************)
(* The collector beside the interpreter whose module it reads: what the    *)
(* names are bound to when a statement runs, and all that happens to the   *)
(* files it makes.  A branch or a wildcard import may rebind any name; a   *)
(* call of anything unknown may use any file.                              *)
(***************************************************************************)
EXTENDS ModuleCalls

VARIABLES
  namespace, \* what each name is bound to: [to], a Target, "file" or "unknown", and [file]
  denoted,   \* for the offset of each call, what its name was bound to
  history,   \* for the offset each file was made at, what happened to it
  plain      \* no statement so far rebinds a name or calls out of sight
interpreter == <<namespace, denoted, history, plain>>

Anything == [to |-> "unknown", file |-> 0]
InterpreterInit ==
  /\ namespace = [n \in Name |-> Anything]
  /\ denoted = <<>> /\ history = <<>> /\ plain = TRUE

Imported(target) == [to |-> target, file |-> 0]
File(at) == [to |-> "file", file |-> at]
Made == DOMAIN history
IsFile(name) == name # Absent /\ namespace[name].to = "file"

\* Out of sight: a wildcard import, a name assigned past the first, a name
\* assigned or a call made among the arguments, code run by what is no call.
CallOf(s) == IF s.kind = "call" THEN s.call ELSE IF s.kind = "assign" THEN s.right ELSE Absent
Runs(s) == s.kind \in {"definition", "assign", "other"} /\ s.runs
Hidden(s) ==
  \/ s.kind = "import" /\ s.alias = Absent
  \/ s.kind = "assign" /\ Len(s.left) > 1
  \/ Runs(s)
  \/ CallOf(s) # Absent /\ (CallOf(s).walrus # Absent \/ CallOf(s).inner)

\* What one call does: its arguments first, then the call itself.
Touch(past, ats, event) == [at \in DOMAIN past |-> IF at \in ats THEN Append(past[at], event) ELSE past[at]]
Unseen == [event |-> "unseen", pos |-> pos]
AfterArguments(c) == IF c.inner THEN Touch(history, Made, Unseen) ELSE history
Denotes(c) == namespace[c.head].to
Effect(c) ==
  LET past == AfterArguments(c)
      At(name) == namespace[name].file
  IN  IF c.method # Absent /\ IsFile(c.head)
      THEN Touch(past, {At(c.head)}, [event |-> c.method, pos |-> pos])
      ELSE IF c.method = Absent /\ Denotes(c) = "launcher" /\ IsFile(c.file)
      THEN Touch(past, {At(c.file)}, [event |-> "launch", pos |-> pos])
      ELSE Touch(past, Made, Unseen)

\* Any one name may be rebound, or none: enough for any claim about one name.
Shaken(space) == {space} \cup {[space EXCEPT ![n] = Anything] : n \in Name}
Rebind(space, names, value) == [n \in Name |-> IF n \in names THEN value ELSE space[n]]

\* Branches, augmented assignments and what runs out of sight may use any file;
\* they, targets that are no name and wildcard imports may rebind any name.
MayUse(s) == s.kind \in {"control", "augmented"} \/ Runs(s)
MayRebind(s) ==
  MayUse(s) \/ (s.kind = "assign" /\ s.left = <<>>) \/ (s.kind = "import" /\ s.alias = Absent)

\* Executed whole, whether the collector reads it or not.
Execute(s) ==
  LET c == CallOf(s)
      assigned == IF c # Absent /\ c.walrus # Absent THEN Rebind(namespace, {c.walrus}, Anything) ELSE namespace
      makes == c # Absent /\ c.method = Absent /\ Denotes(c) = "tempfile" /\ s.kind = "assign" /\ s.left # <<>>
      past == IF c = Absent THEN history ELSE IF makes THEN AfterArguments(c) ELSE Effect(c)
      bound == CASE s.kind = "import" /\ s.alias # Absent -> Rebind(namespace, {s.alias}, Imported(s.target))
                 [] s.kind = "definition" -> Rebind(namespace, {s.name}, Anything)
                 [] s.kind = "assign" /\ s.left # <<>> ->
                      Rebind(assigned, ToSet(s.left), IF makes THEN File(pos) ELSE Anything)
                 [] OTHER -> assigned
  IN  /\ denoted' = IF c = Absent THEN denoted
                    ELSE [at \in DOMAIN denoted \cup {pos} |-> IF at = pos THEN Denotes(c) ELSE denoted[at]]
      /\ history' = IF makes THEN [at \in Made \cup {pos} |-> IF at = pos THEN <<>> ELSE past[at]]
                    ELSE IF MayUse(s) THEN Touch(past, Made, Unseen) ELSE past
      /\ plain' = (plain /\ ~Hidden(s))
      /\ namespace' \in IF MayRebind(s) THEN Shaken(bound) ELSE {bound}

CallsAndInterpreter == CallsInit /\ InterpreterInit
CallsStep(s) == Interpret(s) /\ Execute(s)
CallsEnd == (LeaveTry \/ EmitCalls) /\ UNCHANGED interpreter
CallsNext == CallsEnd \/ \E s \in Statements : CallsStep(s)
CallsSpec == CallsAndInterpreter /\ [][CallsNext]_<<collector, interpreter>>

-----------------------------------------------------------------------------
\* Every call reported goes to what its name is bound to when it runs: "any
\* statement that could rebind a name ends what is known about it"
\* (src/src/formats/source/python_module_calls.rs:7).
CallsAsBound == \A i \in DOMAIN calls : denoted[calls[i].pos] = calls[i].resolved

\* The same, of modules whose names are assigned where the collector looks.
CallsAsBoundIfPlain == plain => CallsAsBound

\* A file's events are what happened to it first, up to the first use that is
\* not seen; all that happened, if it lasted to the end of a module that was
\* read whole: "until something could have touched it unseen"
\* (python_module_calls.rs:47-48).  This is said of plain modules only: the
\* collector does not look into `f(h) or 0`, `x = f(h) + 1`, default arguments
\* and class bodies (python_module_calls.rs:510, :593), nor at what the
\* arguments of a file's own method run, and a file they use goes on being
\* tracked.
Facts == ToSet(files) \cup {temporaries[n] : n \in DOMAIN temporaries}
FilesUntilUnseen ==
  plain => \A f \in Facts :
    /\ f.pos \in Made /\ IsPrefix(f.events, history[f.pos])
    /\ (analysis # <<>> /\ ~analysis.truncated /\ f.ended = Absent /\ Len(f.events) < MaxEvents) =>
         f.events = history[f.pos]
=============================================================================
