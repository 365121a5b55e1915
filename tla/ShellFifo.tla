----------------------------- MODULE ShellFifo -----------------------------
(***************************************************************************)
(* The FIFO relations of a shell script, src/src/formats/source/           *)
(* shell_fifo.rs: the shared walk hands the collector one node after       *)
(* another; emit writes what it kept.                                      *)
(*                                                                         *)
(* A node is a function definition [kind, name], a feedback loop [kind,    *)
(* loop], a mkfifo [kind, paths] or a literal `sh -c` [kind, body, size].  *)
(* A loop is [fifo, interpreter, client].                                  *)
(***************************************************************************)
EXTENDS NestedParses, Sequences, SequencesExt, FiniteSets

CONSTANTS
  Scripts,        \* sequences of nodes, in the order of the walk
  MaxFacts,       \* MAX_FACTS
  MaxBodyBytes,   \* MAX_BODY_BYTES
  NotCreated      \* the script does not create the FIFO

ASSUME ShellAssumption ==
  /\ MaxFacts \in Nat /\ MaxBodyBytes \in Nat
  /\ \A s \in Scripts :
       /\ s \in Seq(ToSet(s))
       /\ \A i \in DOMAIN s :
            /\ s[i].kind = "mkfifo" => s[i].paths \in Seq(ToSet(s[i].paths))
            /\ s[i].kind = "sh" => s[i].body \in Seq(ToSet(s[i].body)) /\ s[i].size \in Nat

VARIABLES
  script,
  step,           \* the node being entered
  loops,          \* [loop, offset], the offset a place <<node>> or <<node, statement>>
  fifos,          \* FIFO path to the node of the first mkfifo creating it
  functions,
  limited,        \* loops were dropped
  allowance,      \* nested
  unparsed,       \* history: the bodies whose parse was cut short
  emitted         \* [limited, fifos, loops], or <<>>
shell == <<script, step, loops, fifos, functions, limited, allowance, unparsed, emitted>>

ShellInit ==
  /\ script \in Scripts /\ step = 1
  /\ loops = <<>> /\ fifos = <<>> /\ functions = {}
  /\ limited = FALSE /\ allowance = FullAllowance
  /\ unparsed = {} /\ emitted = <<>>

Entering(kind) == step <= Len(script) /\ script[step].kind = kind /\ step' = step + 1
ShellNode == script[step]

EnterFunction ==
  /\ Entering("function")
  /\ functions' = functions \cup {ShellNode.name}
  /\ UNCHANGED <<script, loops, fifos, limited, allowance, unparsed, emitted>>

\* push, of one loop after another: the ones past the limit are dropped.
Overflows(found) == Len(loops) + Len(found) > MaxFacts
PushLoops(found) ==
  /\ loops' = IF Overflows(found) THEN SubSeq(loops \o found, 1, MaxFacts) ELSE loops \o found
  /\ limited' = (limited \/ Overflows(found))

EnterLoop ==
  /\ Entering("loop")
  /\ PushLoops(<<[loop |-> ShellNode.loop, offset |-> <<step>>]>>)
  /\ UNCHANGED <<script, fifos, functions, allowance, unparsed, emitted>>

\* The first mkfifo of a path counts, while there is room for another path.
Created(known, path) ==
  IF Cardinality(DOMAIN known) < MaxFacts
  THEN [p \in DOMAIN known \cup {path} |-> IF p \in DOMAIN known THEN known[p] ELSE step] ELSE known
EnterMkfifo ==
  /\ Entering("mkfifo")
  /\ fifos' = FoldLeft(Created, fifos, ShellNode.paths)
  /\ UNCHANGED <<script, loops, functions, limited, allowance, unparsed, emitted>>

\* A literal body is parsed under the allowance; its parse may be cut short.
EnterBody ==
  /\ Entering("sh") /\ ShellNode.size <= MaxBodyBytes
  /\ allowance' = Asked(allowance, ShellNode.size)
  /\ \/ /\ Covers(allowance, ShellNode.size)
        /\ PushLoops([i \in DOMAIN ShellNode.body |-> [loop |-> ShellNode.body[i], offset |-> <<step, i>>]])
        /\ UNCHANGED unparsed
     \/ /\ Covers(allowance, ShellNode.size)
        /\ unparsed' = unparsed \cup {step}
        /\ UNCHANGED <<loops, limited>>
     \/ /\ ~Covers(allowance, ShellNode.size)
        /\ UNCHANGED <<loops, limited, unparsed>>
  /\ UNCHANGED <<script, fifos, functions, emitted>>

\* literal_body: a longer argument is no body, and nothing says that it was not read.
SkipBody ==
  /\ Entering("sh") /\ ShellNode.size > MaxBodyBytes
  /\ UNCHANGED <<script, loops, fifos, functions, limited, allowance, unparsed, emitted>>

\* A function named like the shell or the client replaces it, wherever it is
\* defined.
Shadowed(loop) == loop.interpreter \in functions \/ loop.client \in functions
CreatedAt(loop) == IF loop.fifo \in DOMAIN fifos THEN fifos[loop.fifo] ELSE NotCreated
Emit ==
  /\ step > Len(script) /\ emitted = <<>>
  /\ emitted' =
       [limited |-> limited \/ allowance.limited,
        fifos |-> fifos,
        loops |-> {[loop |-> l.loop, offset |-> l.offset, created |-> CreatedAt(l.loop)] :
                     l \in {k \in ToSet(loops) : ~Shadowed(k.loop)}}]
  /\ UNCHANGED <<script, step, loops, fifos, functions, limited, allowance, unparsed>>

ShellNext == EnterFunction \/ EnterLoop \/ EnterMkfifo \/ EnterBody \/ SkipBody \/ Emit
ShellSpec == ShellInit /\ [][ShellNext]_shell
=============================================================================
