----------------------------- MODULE PickleScan -----------------------------
(***************************************************************************)
(* The inert pickle machine of src/src/formats/pickle.rs: it walks the     *)
(* opcodes of a pickle, keeps a stack, its marks and a memo without        *)
(* importing or building anything, and names the globals the pickle would  *)
(* import.  Opcodes with one effect on the stack are one class here: the   *)
(* scalar and empty container opcodes are Push, TUPLE, LIST, DICT,         *)
(* FROZENSET and OBJ are Collect, and so on.  A "text" is a string opcode   *)
(* the scanner takes its operand from, `line` if it is UNICODE, whose line *)
(* is taken as it is written.  An "unread" string is one to Python only:   *)
(* the 8-bit strings of Python 2, and a line that is not UTF-8.            *)
(***************************************************************************)
EXTENDS Naturals, Sequences, SequencesExt, FiniteSets

CONSTANTS
  Text,            \* operands of the string opcodes, as they are written
  Pickles,         \* the opcodes a pickle may be made of
  Size,            \* Size[t]: bytes of t
  Ident,           \* the texts of Python identifier shape
  NameMapping,     \* compat's renamed globals: <<module, attr>> to <<module, attr>>
  ImportMapping,   \* compat's renamed modules
  MemoIndex,       \* memo indexes an opcode may name
  OperandCap,      \* MAX_BYTES_SCANNED, as it bounds the operands admitted
  Streams,         \* streams_left may start at: 1, or 5 for a torch container
  MaxOpcodes, MaxStack  \* bounds: the length of the scan, and of its stack

VARIABLES
  offset,      \* of the next opcode
  protocol,    \* the last PROTO operand, 0 before one
  stack,       \* PickleStack::values
  memo,        \* PickleStack::memo
  resolved,    \* PickleStack::resolved
  admitted,    \* PickleStack::resolved_bytes
  streamsLeft, \* pickles still to be read
  named,       \* the globals found, <<module, attr>>
  scanning     \* "opcode", "header" (the next must be PROTO 2) or "ended"

machine == <<stack, memo, resolved, admitted>>
scan == <<offset, protocol, machine, streamsLeft, named, scanning>>

Other == [kind |-> "other"]
Mark == [kind |-> "mark"]
Operand(t, line) == [kind |-> "text", at |-> offset, text |-> t, line |-> line]
Unread(t) == [kind |-> "unread", text |-> t]  \* StackValue::Other; the scan does not look at its text
Global(m, a) == [kind |-> "global", module |-> m, attr |-> a]

Opcode ==
  [op : {"mark", "pop", "popmark", "dup", "memoize", "stackglobal", "push",
         "persid", "collect", "batch", "stop", "none"}]
    \cup [op : {"proto"}, to : {2, 4, 6}] \cup [op : {"text"}, text : Text, line : BOOLEAN]
    \cup [op : {"unread"}, text : Text]
    \cup [op : {"global", "inst"}, module : Text, attr : Text]
    \cup [op : {"put", "get"}, index : MemoIndex]
    \cup [op : {"drop"}, count : {1, 2}] \cup [op : {"replace"}, count : {1, 2, 3}]

ASSUME PickleAssumption ==
  /\ Pickles \subseteq Opcode /\ MemoIndex \subseteq Nat
  /\ Size \in [Text -> Nat] /\ OperandCap \in Nat /\ Streams \subseteq Nat \ {0}

PickleInit ==
  /\ offset = 0 /\ protocol = 0
  /\ stack = <<>> /\ memo = <<>> /\ resolved = {} /\ admitted = 0
  /\ streamsLeft \in Streams
  /\ named = {} /\ scanning = "opcode"

-----------------------------------------------------------------------------
(* PickleStack *)

Popped(s, n) == SubSeq(s, 1, IF Len(s) > n THEN Len(s) - n ELSE 0)
\* Mutant: marks are values like any other.
ThroughBottom(s) == <<>>
\* pop_through_mark: up to and with the last mark, or all there is.
ThroughMark(s) == SubSeq(s, 1, SelectLastInSeq(s, LAMBDA v : v = Mark) - 1)
MemoPut(i) == memo' = IF stack = <<>> THEN memo
                      ELSE [j \in DOMAIN memo \cup {i} |-> IF j = i THEN Last(stack) ELSE memo[j]]

\* compat::find_class, for the protocol declared last.
FindClass(m, a) ==
  IF protocol >= 3 THEN <<m, a>>
  ELSE IF <<m, a>> \in DOMAIN NameMapping THEN NameMapping[<<m, a>>]
  ELSE <<IF m \in DOMAIN ImportMapping THEN ImportMapping[m] ELSE m, a>>
Record(m, a) ==
  LET g == FindClass(m, a)
  IN  named' = IF g[1] \in Ident /\ g[2] \in Ident THEN named \cup {g} ELSE named

-----------------------------------------------------------------------------
(* One opcode: apply_side_effects, inside the loop of extract *)

\* It moves the scan on.  What may follow the STOP of one stream of several is
\* PROTO 2 only; an opcode beyond protocol 5 ends the scan unapplied.
Decodes(o, name) ==
  /\ scanning # "ended" /\ offset < MaxOpcodes
  /\ o.op = name
  /\ scanning = "header" => o.op = "proto" /\ o.to = 2
  /\ offset' = offset + 1
Applies(o, name) ==
  /\ Decodes(o, name) /\ scanning' = "opcode"
  /\ UNCHANGED streamsLeft

\* What most opcodes leave alone of the machine.
Beside == <<memo, resolved, admitted>>
ToStack(o, name, s) ==
  /\ Applies(o, name)
  /\ Len(s) <= MaxStack /\ stack' = s
  /\ UNCHANGED <<protocol, named, Beside>>

Proto(o) ==
  /\ Applies(o, "proto") /\ o.to <= 5
  /\ protocol' = o.to
  /\ UNCHANGED <<machine, named>>
BadProto(o) ==
  /\ Decodes(o, "proto") /\ o.to > 5
  /\ scanning' = "ended"
  /\ UNCHANGED <<protocol, machine, streamsLeft, named>>

GlobalOpcode(o) ==
  /\ Applies(o, "global")
  /\ Record(o.module, o.attr)
  /\ Len(stack) < MaxStack /\ stack' = Append(stack, Global(o.module, o.attr))
  /\ UNCHANGED <<protocol, Beside>>
Inst(o) ==
  /\ Applies(o, "inst")
  /\ Record(o.module, o.attr)
  /\ stack' = Append(ThroughMark(stack), Other)
  /\ UNCHANGED <<protocol, Beside>>

PushText(o) == ToStack(o, "text", Append(stack, Operand(o.text, o.line)))
PushUnread(o) == ToStack(o, "unread", Append(stack, Unread(o.text)))
\* PERSID's line is not read: the opcodes that follow are the text of the line.
Persid(o) == ToStack(o, "persid", Append(stack, Other))
PushMark(o) == ToStack(o, "mark", Append(stack, Mark))
Push(o) == ToStack(o, "push", Append(stack, Other))
Pop(o) == ToStack(o, "pop", Popped(stack, 1))
PopMark(o) == ToStack(o, "popmark", ThroughMark(stack))
Dup(o) == ToStack(o, "dup", IF stack = <<>> THEN stack ELSE Append(stack, Last(stack)))
Collect(o) == ToStack(o, "collect", Append(ThroughMark(stack), Other))
Batch(o) == ToStack(o, "batch", ThroughMark(stack))
Drop(o) == ToStack(o, "drop", Popped(stack, o.count))
Replace(o) == ToStack(o, "replace", Append(Popped(stack, o.count), Other))
NoEffect(o) == ToStack(o, "none", stack)

Get(o) == ToStack(o, "get", Append(stack, IF o.index \in DOMAIN memo THEN memo[o.index] ELSE Other))
Put(o) ==
  /\ Applies(o, "put") /\ MemoPut(o.index)
  /\ UNCHANGED <<protocol, stack, resolved, admitted, named>>
Memoize(o) ==
  /\ Applies(o, "memoize") /\ MemoPut(Cardinality(DOMAIN memo))
  /\ UNCHANGED <<protocol, stack, resolved, admitted, named>>

\* STACK_GLOBAL takes the two values on top.  A pair of operands is recorded
\* once, and none once the operands admitted come to more than the cap.
Operands == LET n == Len(stack) IN IF n < 2 THEN <<>> ELSE <<stack[n - 1], stack[n]>>
IsText(v) == v.kind = "text"
Resolves == Operands # <<>> /\ IsText(Operands[1]) /\ IsText(Operands[2])
Pair == <<Operands[1].at, Operands[2].at>>
AdmittedWith(m, a) == IF Pair \in resolved THEN admitted ELSE admitted + Size[m] + Size[a]
AdmitGlobal(m, a) == Pair \notin resolved /\ AdmittedWith(m, a) <= OperandCap

StackGlobal(o) ==
  /\ Applies(o, "stackglobal") /\ Resolves
  /\ LET m == Operands[1].text
         a == Operands[2].text
     IN  /\ stack' = Append(Popped(stack, 2), Global(m, a))
         /\ resolved' = resolved \cup {Pair}
         /\ admitted' = AdmittedWith(m, a)
         /\ IF AdmitGlobal(m, a) THEN Record(m, a) ELSE UNCHANGED named
  /\ UNCHANGED <<protocol, memo>>
StackGlobalUnknown(o) ==
  ~Resolves /\ ToStack(o, "stackglobal", Append(Popped(stack, 2), Other))

\* STOP ends the stream; only a torch container has another, with a stack of
\* its own.
Stop(o) ==
  /\ Decodes(o, "stop")
  /\ streamsLeft' = streamsLeft - 1
  /\ scanning' = IF streamsLeft = 1 THEN "ended" ELSE "header"
  /\ IF streamsLeft = 1 THEN UNCHANGED machine
     ELSE stack' = <<>> /\ memo' = <<>> /\ resolved' = {} /\ admitted' = 0
  /\ UNCHANGED <<protocol, named>>

Scan(o) ==
  \/ Proto(o) \/ BadProto(o) \/ GlobalOpcode(o) \/ Inst(o)
  \/ PushText(o) \/ PushUnread(o) \/ Persid(o) \/ PushMark(o) \/ Push(o) \/ Pop(o) \/ PopMark(o) \/ Dup(o)
  \/ Collect(o) \/ Batch(o) \/ Drop(o) \/ Replace(o) \/ NoEffect(o)
  \/ Get(o) \/ Put(o) \/ Memoize(o)
  \/ StackGlobal(o) \/ StackGlobalUnknown(o) \/ Stop(o)

PickleSpec == PickleInit /\ [][\E o \in Pickles : Scan(o)]_scan
=============================================================================
