---------------------------- MODULE MCShellFifo ----------------------------
(***************************************************************************)
(* Every script of up to four of these nodes: two loops, direct or in      *)
(* literal bodies, one of them too long to be read, the creation of their  *)
(* FIFOs, and functions named like the programs of one of them.            *)
(***************************************************************************)
EXTENDS ShellFifoProps

Loop(fifo, interpreter, client) == [fifo |-> fifo, interpreter |-> interpreter, client |-> client]
ShNc == Loop("f", "sh", "nc")
BashNcat == Loop("g", "bash", "ncat")
Direct(loop) == [kind |-> "loop", loop |-> loop]
Creating(paths) == [kind |-> "mkfifo", paths |-> paths]
Body(loops_, size) == [kind |-> "sh", body |-> loops_, size |-> size]
Function(name) == [kind |-> "function", name |-> name]

SmallNodes ==
  {Direct(ShNc), Direct(BashNcat), Creating(<<"f">>), Creating(<<"g", "h">>), Creating(<<"h", "f", "g">>),
   Body(<<ShNc>>, 1), Body(<<BashNcat, ShNc>>, 2), Body(<<BashNcat>>, 3),
   Function("sh"), Function("ncat")}
SmallScripts == UNION {[1..n -> SmallNodes] : n \in 0..4}
=============================================================================
