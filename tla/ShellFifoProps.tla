--------------------------- MODULE ShellFifoProps ---------------------------
(***************************************************************************)
(* The relations of a script, read off the whole script at once.           *)
(***************************************************************************)
EXTENDS ShellFifo

Nodes(kind) == {i \in DOMAIN script : script[i].kind = kind}
Defined == {script[i].name : i \in Nodes("function")}
Creators(path) == {i \in Nodes("mkfifo") : Contains(script[i].paths, path)}
Paths == UNION {ToSet(script[i].paths) : i \in Nodes("mkfifo")}
Overlong == {i \in Nodes("sh") : script[i].size > MaxBodyBytes}
SearchedLoops ==
  {[loop |-> script[i].loop, offset |-> <<i>>] : i \in Nodes("loop")}
    \cup UNION {{[loop |-> script[i].body[j], offset |-> <<i, j>>] : j \in DOMAIN script[i].body} :
                  i \in Nodes("sh") \ Overlong}
Programs(found) == {l \in found : {l.loop.interpreter, l.loop.client} \cap Defined = {}}

\* Every loop a script reports is one it has, through programs no function of
\* the script stands for, defined before it or after; and all of them are
\* reported unless fifo_limited says that a budget cut the analysis short,
\* the parse of their body was cut short, or their body is longer than
\* MAX_BODY_BYTES: nothing says that such a body was not read, although
\* shell_fifo.rs:3-4 has each loop reported "wherever it is written".  A loop is related to the first
\* mkfifo of its FIFO (Collector::emit).  More paths than the limit leave
\* creations out and do not set fifo_limited; this is said of the others.
RelationsWholeOrLimited ==
  emitted # <<>> =>
    LET reported == {[loop |-> l.loop, offset |-> l.offset] : l \in emitted.loops}
        parsed == {l \in SearchedLoops : l.offset[1] \notin unparsed}
    IN  /\ reported \subseteq Programs(parsed)
        /\ ~emitted.limited => reported = Programs(parsed)
        /\ Cardinality(Paths) <= MaxFacts =>
             \A l \in emitted.loops :
               IF l.loop.fifo \notin Paths THEN l.created = NotCreated
               ELSE l.created \in Creators(l.loop.fifo) /\ \A i \in Creators(l.loop.fifo) : l.created <= i
=============================================================================
