---------------------------- MODULE PickleProps ----------------------------
(***************************************************************************)
(* The scanner beside the machine it stands in for: Python's own           *)
(* unpickler, which keeps a stack of stacks where the scanner keeps one    *)
(* with marks in it, and fails where the scanner carries on.               *)
(***************************************************************************)
EXTENDS PickleScan

CONSTANT
  Decoded          \* Decoded[t]: a UNICODE line t with its escapes decoded (raw-unicode-escape)

\* A line with an escape holds a backslash, which no name does.
ASSUME DecodedAssumption ==
  /\ Decoded \in [Text -> Text]
  /\ \A t \in Text : Decoded[t] # t =>
       /\ t \notin Ident /\ t \notin DOMAIN ImportMapping
       /\ \A g \in DOMAIN NameMapping : t # g[1] /\ t # g[2]

VARIABLES
  frames,     \* Unpickler.stack on top of Unpickler.metastack, innermost last
  pyMemo,     \* Unpickler.memo
  pyProtocol, \* Unpickler.proto
  imported,   \* find_class was called with operands known from the pickle
  excused,    \* of those, the ones the scan says it does not name
  alive       \* no opcode has raised so far, and none was a PERSID
python == <<frames, pyMemo, pyProtocol, imported, excused, alive>>

Frame0 == <<>>
LoadInit ==
  /\ frames = <<Frame0>> /\ pyMemo = <<>> /\ pyProtocol = 0
  /\ imported = {} /\ excused = {} /\ alive = TRUE

Here == Last(frames)
Outer == Front(frames)
Keep(n) == SubSeq(Here, 1, Len(Here) - n)

PyFindClass(m, a) ==
  IF pyProtocol < 3 /\ <<m, a>> \in DOMAIN NameMapping THEN NameMapping[<<m, a>>]
  ELSE IF pyProtocol < 3 /\ m \in DOMAIN ImportMapping THEN <<ImportMapping[m], a>> ELSE <<m, a>>

\* What an opcode needs of the stacks, or it raises.  PERSID raises, unless a
\* subclass has a persistent_load; such an unpickler goes on after its line.
Loads(o) ==
  CASE o.op = "proto" -> o.to <= 5
    [] o.op = "persid" -> FALSE
    [] o.op = "stackglobal" -> Len(Here) >= 2
    [] o.op \in {"dup", "put", "memoize", "stop"} -> Here # <<>>
    [] o.op = "pop" -> Here # <<>> \/ Len(frames) > 1
    [] o.op \in {"popmark", "collect", "inst"} -> Len(frames) > 1
    [] o.op = "batch" -> Len(frames) > 1 /\ Last(Outer) # <<>>
    [] o.op = "get" -> o.index \in DOMAIN pyMemo
    [] o.op = "drop" -> Len(Here) > o.count
    [] o.op = "replace" -> Len(Here) >= o.count
    [] OTHER -> TRUE

\* The stacks after it, with the same inert values.
FramesAfter(o) ==
  LET With(v) == Append(Outer, Append(Here, v))
  IN  CASE o.op = "mark" -> Append(frames, Frame0)
        [] o.op = "text" -> With(Operand(o.text, o.line))
        [] o.op = "unread" -> With(Unread(o.text))
        [] o.op = "push" -> With(Other)
        [] o.op = "global" -> With(Global(o.module, o.attr))
        [] o.op = "dup" -> With(Last(Here))
        [] o.op = "get" -> With(pyMemo[o.index])
        [] o.op = "pop" -> IF Here # <<>> THEN Append(Outer, Keep(1)) ELSE Outer
        [] o.op \in {"popmark", "batch"} -> Outer
        [] o.op \in {"collect", "inst"} -> Append(Front(Outer), Append(Last(Outer), Other))
        [] o.op = "drop" -> Append(Outer, Keep(o.count))
        [] o.op = "replace" -> Append(Outer, Append(Keep(o.count), Other))
        [] o.op = "stackglobal" ->
             LET m == Here[Len(Here) - 1] a == Last(Here)
             IN  Append(Outer, Append(Keep(2), IF m.kind = "text" /\ a.kind = "text"
                                               THEN Global(m.text, a.text) ELSE Other))
        [] OTHER -> frames

\* What it imports, as far as the pickle tells: any string is an operand.
Spells(v) == v.kind \in {"text", "unread"}
Reads(v) == IF v.kind = "text" /\ v.line THEN Decoded[v.text] ELSE v.text
Imports(o) ==
  CASE o.op \in {"global", "inst"} -> {PyFindClass(o.module, o.attr)}
    [] o.op = "stackglobal" ->
         LET m == Here[Len(Here) - 1] a == Last(Here)
         IN  IF Spells(m) /\ Spells(a) THEN {PyFindClass(Reads(m), Reads(a))} ELSE {}
    [] OTHER -> {}

\* Operands the scan does not read, or reads as they are written where Python
\* decodes an escape; taken before (after another PROTO they may import another
\* name); or past the cap.
Excused(o) ==
  /\ o.op = "stackglobal" /\ Operands # <<>>
  /\ \/ ~Resolves
     \/ Reads(Operands[1]) # Operands[1].text \/ Reads(Operands[2]) # Operands[2].text
     \/ Pair \in resolved
     \/ AdmittedWith(Operands[1].text, Operands[2].text) > OperandCap

Raise == alive' = FALSE /\ UNCHANGED <<frames, pyMemo, pyProtocol, imported, excused>>
Load(o) ==
  IF ~alive THEN UNCHANGED python
  ELSE IF ~Loads(o) THEN Raise
  ELSE IF o.op = "stop" /\ streamsLeft > 1
  THEN \* the next pickle has an unpickler of its own
       /\ frames' = <<Frame0>> /\ pyMemo' = <<>> /\ pyProtocol' = 0
       /\ UNCHANGED <<imported, excused, alive>>
  ELSE /\ frames' = FramesAfter(o)
       /\ pyMemo' = CASE o.op = "put" -> [i \in DOMAIN pyMemo \cup {o.index} |->
                                            IF i = o.index THEN Last(Here) ELSE pyMemo[i]]
                      [] o.op = "memoize" ->
                           LET new == Cardinality(DOMAIN pyMemo)
                           IN  [i \in DOMAIN pyMemo \cup {new} |-> IF i = new THEN Last(Here) ELSE pyMemo[i]]
                      [] OTHER -> pyMemo
       /\ pyProtocol' = IF o.op = "proto" THEN o.to ELSE pyProtocol
       /\ imported' = imported \cup Imports(o)
       /\ excused' = IF Excused(o) THEN excused \cup Imports(o) ELSE excused
       /\ UNCHANGED alive

PickleAndPython == PickleInit /\ LoadInit
\* Up to the opcode that raises: what is named later was never imported.  And up
\* to a PERSID: after one, the scan and an unpickler with a persistent_load read
\* other opcodes.
Step(o) == alive /\ Scan(o) /\ Load(o)
BothSpec == PickleAndPython /\ [][\E o \in Pickles : Step(o)]_<<scan, python>>

Named(g) == g[1] \in Ident /\ g[2] \in Ident

\* The scanner's stack is the unpickler's, laid flat with a mark between two
\* frames, and so it takes the operands the unpickler takes.
Flat ==
  LET flat[i \in DOMAIN frames] ==
        IF i = 1 THEN frames[1] ELSE Append(flat[i - 1], Mark) \o frames[i]
  IN  flat[Len(frames)]
StacksAgree == alive => stack = Flat /\ memo = pyMemo

\* The scan names what the pickle imports, however the operands reached the
\* stack, through marks, copies and the memo, and while the unpickler runs
\* names nothing else (pickle.rs:10-12, "statically resolved STACK_GLOBAL
\* operands, as Python imports them").  Left out are operands past their
\* pickle's cap; operands taken again under another protocol, which are recorded
\* as first imported; operands UNICODE writes with escapes, which the scan takes
\* undecoded (pickle.rs:262-266); strings it does not read; and all that follows
\* a PERSID, whose line it walks as opcodes (ops.rs:52-74).
GlobalsAsImported ==
  /\ StacksAgree
  /\ {g \in imported \ excused : Named(g)} \subseteq named
  /\ alive => named \subseteq imported
=============================================================================
