---------------------------- MODULE SourceParse ----------------------------
(***************************************************************************)
(* One source parse: TreeCache::parse in src/src/formats/source/parse.rs.  *)
(* tree-sitter works on the input, calling back to read the next bytes and *)
(* to report progress; the progress callback abandons the parse when a     *)
(* budget counted in work runs out (polls, lexer bytes, polls in error     *)
(* recovery), when the caller cancels, or when the wall-clock backstop     *)
(* passes.  A C file that parses badly is parsed again as C++.             *)
(*                                                                         *)
(* What tree-sitter does with the bytes is fixed for the behaviour         *)
(* (input): for each grammar, what each progress poll reports, how many    *)
(* bytes the lexer fetches before it, and the tree it ends with.  When the *)
(* clock passes the deadline and when the caller cancels is not.           *)
(***************************************************************************)
EXTENDS Integers, Sequences, FiniteSetsExt

CONSTANTS
  FileTypes,    \* the types considered, of "c", "objc" and "other"
  Cancellable,  \* whether the caller gave a cancellation flag
  Budget,       \* parse_work_budget of this input, in polls
  FetchBudget,  \* lexer_fetch_budget of this input
  RecoveryCap,  \* ERROR_RECOVERY_POLL_CAP
  EofFloor,     \* EOF_RECOVERY_FLOOR
  Fetches,      \* for each type, what the lexer may fetch between two polls
  OwnTrees,     \* for each type, the trees its grammar may end with
  CppTrees,     \* trees the C++ grammar may end with
  MaxPolls      \* bound: the longest parse considered

\* A tree: the extent of its errors, whether it holds C++ syntax outside them,
\* and whether its anonymous runs cost more than ANONYMOUS_RUN_COST_CAP.
Tree == [errors : Nat, cpp : BOOLEAN, costly : BOOLEAN]

ASSUME ConstantsTyped ==
  /\ FileTypes \subseteq {"c", "objc", "other"}
  /\ Cancellable \in BOOLEAN
  /\ {Budget, FetchBudget, RecoveryCap, EofFloor, MaxPolls} \subseteq Nat
  /\ Fetches \in [FileTypes -> SUBSET Nat]
  /\ OwnTrees \in [FileTypes -> SUBSET Tree] /\ CppTrees \subseteq Tree

VARIABLES
  input,      \* the file's type, and what tree-sitter does with its bytes
  pc,         \* where the call is
  grammar,    \* the grammar being parsed with: "own" or "cpp"
  polls,      \* polls counted by this parse
  fetched,    \* bytes the lexer fetched in this parse
  recovery,   \* the RecoveryWatch of this parse
  stop,       \* why the callbacks gave up on this parse, or "none"
  late,       \* whether this parse's deadline has passed
  cancelled,  \* the caller's flag
  ended       \* ended[g]: how the parse with grammar g ended

vars == <<input, pc, grammar, polls, fetched, recovery, stop, late, cancelled,
          ended>>

Grammar == {"own", "cpp"}
NotRun == [kind |-> "notrun"]
Unavailable(why) == [kind |-> "unavailable", why |-> why]
Parsed(t) == [kind |-> "parsed", tree |-> t]

\* error_recovery_cap: C and Objective-C are exempt, their C++ parse is not.
Capped(type, g) == g = "cpp" \/ type = "other"

\* Reports of n polls, the input's end being reached at poll e (n + 1: never);
\* recovery is only looked at where it is capped.
Reports(type, g) ==
  UNION {{[p \in 1..n |-> [recovering |-> c.r[p], end |-> p >= c.e, fetch |-> c.f[p]]] :
            c \in [r : [1..n -> IF Capped(type, g) THEN BOOLEAN ELSE {FALSE}],
                   e : IF Capped(type, g) THEN 1..(n + 1) ELSE {n + 1},
                   f : [1..n -> Fetches[type]]]} : n \in 0..MaxPolls}
Script(type, g) ==
  [report : Reports(type, g), tail : Fetches[type],
   tree : IF g = "own" THEN OwnTrees[type] ELSE CppTrees]
Input(type) ==
  [type : {type}, guard : BOOLEAN, own : Script(type, "own"),
   cpp : IF type = "c" THEN Script(type, "cpp") ELSE {NotRun}]

NewWatch == [run |-> 0, reached |-> -1, end |-> 0]

Init ==
  /\ input \in UNION {Input(type) : type \in FileTypes}
  /\ pc = "start" /\ grammar = "own"
  /\ polls = 0 /\ fetched = 0 /\ recovery = NewWatch /\ stop = "none"
  /\ late = FALSE /\ cancelled = FALSE
  /\ ended = [g \in Grammar |-> NotRun]

Stops == {"none", "cancelled", "budget", "lexer", "error_recovery",
          "eof_recovery", "backstop"}
Why == (Stops \ {"none"}) \cup {"guard", "runs"}
Outcome == {NotRun} \cup {Unavailable(w) : w \in Why}
             \cup {Parsed(t) : t \in CppTrees \cup UNION {OwnTrees[type] : type \in FileTypes}}

Current == input[grammar]
Segments == Len(Current.report)

\* The call goes on to the next grammar, or ends: the C file that parsed badly
\* gets a second parse unless the caller has cancelled.
Bad(o) == o.kind = "unavailable" \/ (o.kind = "parsed" /\ o.tree.errors > 0)
TriesCpp(o) == input.type = "c" /\ ~cancelled /\ Bad(o)

End(o) ==
  /\ ended' = [ended EXCEPT ![grammar] = o]
  /\ IF grammar = "own" /\ TriesCpp(o)
     THEN pc' = "start" /\ grammar' = "cpp"
     ELSE pc' = "done" /\ UNCHANGED grammar

-----------------------------------------------------------------------------

\* parse_with_config: refused by the size and scanner guards.
Refuse ==
  /\ pc = "start" /\ input.guard
  /\ End(Unavailable("guard"))
  /\ UNCHANGED <<input, polls, fetched, recovery, stop, late, cancelled>>

\* parse_with_config: a new deadline, counters and watch, and the parse begins;
\* set_language has dropped whatever parse the thread's parser was left in.
Start ==
  /\ pc = "start" /\ ~input.guard
  /\ pc' = "read"
  /\ polls' = 0 /\ fetched' = 0 /\ recovery' = NewWatch /\ stop' = "none"
  /\ late' = FALSE
  /\ UNCHANGED <<input, grammar, cancelled, ended>>

\* The read callback, up to the next poll or the end of the parse.  Past the
\* fetch budget the lexer sees the end of input, and the parse may finish on it
\* before it polls again.
Read ==
  /\ pc = "read"
  /\ LET n == IF polls < Segments THEN Current.report[polls + 1].fetch ELSE Current.tail
     IN  /\ fetched' = fetched + n
         /\ stop' = IF fetched + n > FetchBudget THEN "lexer" ELSE stop
         /\ pc' \in IF fetched + n > FetchBudget THEN {"poll", "finish"}
                    ELSE IF polls < Segments THEN {"poll"} ELSE {"finish"}
  /\ UNCHANGED <<input, grammar, polls, recovery, late, cancelled, ended>>

\* Mutant: recovery before the end does not have to be consecutive.
WatchAll(w, poll, report) ==
  LET at == IF report.end /\ w.reached < 0 THEN [w EXCEPT !.reached = poll - 1] ELSE w
      one == IF report.recovering THEN 1 ELSE 0
  IN  IF at.reached >= 0 THEN [at EXCEPT !.end = @ + one] ELSE [at EXCEPT !.run = @ + one]

\* RecoveryWatch::poll, the counting.
Watch(w, poll, report) ==
  LET at == IF report.end /\ w.reached < 0 THEN [w EXCEPT !.reached = poll - 1] ELSE w
  IN  IF at.reached >= 0
      THEN [at EXCEPT !.end = @ + (IF report.recovering THEN 1 ELSE 0)]
      ELSE [at EXCEPT !.run = IF report.recovering THEN @ + 1 ELSE 0]

\* RecoveryWatch::poll, the verdict.
Verdict(w) ==
  IF w.reached >= 0
  THEN IF w.end > (IF w.reached > EofFloor THEN w.reached ELSE EofFloor)
       THEN "eof_recovery" ELSE "none"
  ELSE IF w.run > RecoveryCap THEN "error_recovery" ELSE "none"

\* The progress callback breaks: tree-sitter gives no tree.
Break(why) == stop' = why /\ End(Unavailable(why))

PollLexer ==
  /\ pc = "poll" /\ stop = "lexer"
  /\ Break("lexer")
  /\ UNCHANGED <<input, polls, fetched, recovery, late, cancelled>>

PollCancelled ==
  /\ pc = "poll" /\ stop # "lexer" /\ cancelled
  /\ Break("cancelled")
  /\ UNCHANGED <<input, polls, fetched, recovery, late, cancelled>>

PollBudget ==
  /\ pc = "poll" /\ stop # "lexer" /\ ~cancelled
  /\ polls + 1 > Budget
  /\ polls' = polls + 1
  /\ Break("budget")
  /\ UNCHANGED <<input, fetched, recovery, late, cancelled>>

\* Within the budget: the watch is asked, then the clock.
Poll ==
  /\ pc = "poll" /\ stop # "lexer" /\ ~cancelled
  /\ polls + 1 <= Budget
  /\ polls' = polls + 1
  /\ LET w == Watch(recovery, polls + 1, Current.report[polls + 1])
         why == IF Capped(input.type, grammar) THEN Verdict(w) ELSE "none"
     IN  /\ recovery' = IF Capped(input.type, grammar) THEN w ELSE recovery
         /\ IF why # "none" THEN Break(why)
            ELSE IF late THEN Break("backstop")
            ELSE pc' = "read" /\ UNCHANGED <<stop, grammar, ended>>
  /\ UNCHANGED <<input, fetched, late, cancelled>>

\* Mutant: a tree is a tree.
AnyTree(why) == TRUE
\* A tree that finished past the lexer budget was cut short at a false end.
TreeUsable(why) == why # "lexer"

\* tree-sitter returns a tree.
Finish ==
  /\ pc = "finish"
  /\ LET t == Current.tree
     IN  \E o \in {IF ~TreeUsable(stop) THEN Unavailable("lexer")
                   ELSE IF t.costly THEN Unavailable("runs") ELSE Parsed(t)} : End(o)
  /\ UNCHANGED <<input, polls, fetched, recovery, stop, late, cancelled>>

-----------------------------------------------------------------------------

\* SOURCE_PARSE_WALL_BACKSTOP passes.
TimeUp ==
  /\ pc \in {"read", "poll", "finish"} /\ ~late
  /\ late' = TRUE
  /\ UNCHANGED <<input, pc, grammar, polls, fetched, recovery, stop, cancelled,
                 ended>>

\* The caller raises its flag.
Cancel ==
  /\ Cancellable /\ ~cancelled /\ pc # "done"
  /\ cancelled' = TRUE
  /\ UNCHANGED <<input, pc, grammar, polls, fetched, recovery, stop, late,
                 ended>>

Next ==
  \/ Refuse \/ Start \/ Read \/ Finish
  \/ PollLexer \/ PollCancelled \/ PollBudget \/ Poll
  \/ TimeUp \/ Cancel

Spec == Init /\ [][Next]_vars
\* The C++ parse is taken when it finds C++ syntax and fewer errors.
TakesCpp(own, cpp) ==
  /\ cpp.kind = "parsed" /\ cpp.tree.cpp
  /\ own.kind = "parsed" => cpp.tree.errors < own.tree.errors

\* What the call returns.
Choose(own, cpp) == IF TakesCpp(own, cpp) THEN cpp ELSE own
Returned == Choose(ended["own"], ended["cpp"])
\* TreeSitterDiagnostic::is_transient.
Transient(o) == o.kind = "unavailable" /\ o.why \in {"cancelled", "backstop"}
=============================================================================
