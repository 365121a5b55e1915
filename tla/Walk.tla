-------------------------------- MODULE Walk --------------------------------
(***************************************************************************)
(* The command line's run over its paths: main, run, sorted_entries and    *)
(* analyze_one in src/src/bin/filefacts/main.rs, and the read_input of     *)
(* src/src/lib.rs that reads each file, while other programs remove,       *)
(* replace, grow and truncate what is being walked.                        *)
(*                                                                         *)
(* A path is the sequence of its components.  A directory entry names an   *)
(* inode, which an open file keeps when the entry is replaced.             *)
(***************************************************************************)
EXTENDS Naturals, Sequences, FiniteSets, SequencesExt

CONSTANTS
  Args,       \* the paths given, in order
  Tree,       \* every path there may be below them, and they
  Kinds,      \* what a leaf may be at the start: kinds of file, "link" being a
              \* link to a regular file and "dirlink" one to a directory
  MaxBytes,   \* MAX_INPUT_BYTES
  MaxSize,    \* bound: the largest file
  MaxChanges  \* bound: changes other programs make

\* What is between an argument and a path below it is in the tree too.
ASSUME ConstantsTyped ==
  /\ Tree \subseteq Seq(Nat) /\ IsFiniteSet(Tree) /\ Args \in Seq(Tree) /\ Args # <<>>
  /\ \A p \in Tree : (\E a \in ToSet(Args) : IsStrictPrefix(a, p)) => Front(p) \in Tree
  /\ Kinds \subseteq {"file", "dir", "link", "dirlink", "fifo"}
  /\ {MaxBytes, MaxSize, MaxChanges} \subseteq Nat

VARIABLES
  \* the file system
  inode,     \* the inodes made so far, each [kind, size]
  entry,     \* the inode a path names, 0 when it names none
  changes,   \* how many changes there were
  \* the program
  pc,        \* where it is
  arg,       \* the argument it is at
  stack,     \* the listings of the directories being walked, innermost last
  path,      \* the path being listed or analysed
  ok,        \* run's ok
  result,    \* main's result: "ok", "failed", "broken" or "unwritable"
  handle,    \* the inode open, 0 when none
  got,       \* the bytes read of it
  status,    \* the exit status
  buffer,    \* what the BufWriter holds
  \* what can be seen from outside
  out,       \* what reached standard output: [path, whole]
  reported,  \* paths reported on standard error, with what went wrong
  span,      \* history: the sizes the open inode has had while open
  touched    \* history: paths changed since the start

disk == <<inode, entry, changes, touched>>
main == <<arg, stack, path, ok, result, status>>
reading == <<handle, got, span>>
output == <<buffer, out>>
vars == <<disk, pc, main, reading, output, reported>>

Location == {"args", "list", "entries", "open", "stat", "read", "emit", "flush", "exit"}
Regular == "file"
Running == 255  \* no exit status yet
Listing == Seq([path : Tree, kind : {Regular, "dir", "link", "dirlink", "fifo"}])

Children(d) == {p \in Tree : Len(p) = Len(d) + 1 /\ Front(p) = d}
Kind(p) == IF entry[p] = 0 THEN "gone" ELSE inode[entry[p]].kind

\* What is_dir and read_dir, which follow links, take for a directory.
Directory == {"dir", "dirlink"}
\* The arguments that are below no other.
Outer == {a \in ToSet(Args) : \A b \in ToSet(Args) : ~IsStrictPrefix(b, a)}

\* A file system made of the directories of the tree and some leaves; an
\* argument may be a link to its directory.
Node(kind) == [kind : {kind}, size : IF kind = Regular THEN {1, MaxSize} ELSE {1}]
Leaf == {p \in Tree : Children(p) = {}}
Init ==
  /\ \E leaf \in [Leaf -> UNION {Node(kind) : kind \in Kinds}], linked \in SUBSET Outer :
       LET order == SetToSeq(Tree)
       IN  /\ inode = [i \in DOMAIN order |-> IF order[i] \in Leaf THEN leaf[order[i]]
                                              ELSE [kind |-> IF order[i] \in linked THEN "dirlink" ELSE "dir",
                                                    size |-> 1]]
           /\ entry = [p \in Tree |-> CHOOSE i \in DOMAIN order : order[i] = p]
  /\ changes = 0 /\ touched = {}
  /\ pc = "args" /\ arg = 1 /\ stack = <<>> /\ path = Args[1]
  /\ ok = TRUE /\ result = "ok" /\ status = Running
  /\ handle = 0 /\ got = 0 /\ span = {}
  /\ buffer = <<>> /\ out = <<>> /\ reported = {}

-----------------------------------------------------------------------------
(* main's loop over the arguments, and its end *)

\* An argument that is a directory, or a link to one, is walked; any other is
\* analysed.
Begin ==
  /\ pc = "args" /\ arg <= Len(Args)
  /\ path' = Args[arg]
  /\ ok' = TRUE
  /\ pc' = IF Kind(Args[arg]) \in Directory THEN "list" ELSE "open"
  /\ UNCHANGED <<disk, arg, stack, result, status, reading, output, reported>>

\* run's return: result = result.map(|all| all && ok).
\* Mutant: the last argument decides.
ReturnedLast(fine) ==
  /\ result' = IF fine THEN "ok" ELSE "failed"
  /\ arg' = arg + 1
  /\ pc' = "args"
Returned(fine) ==
  /\ result' = IF fine THEN result ELSE "failed"
  /\ arg' = arg + 1
  /\ pc' = "args"

ExitCode(r) == IF r \in {"ok", "broken"} THEN 0 ELSE 1
Exit ==
  /\ pc = "args" /\ arg > Len(Args)
  /\ status' = ExitCode(result)
  /\ \E flushed \in BOOLEAN : out' = IF flushed THEN out \o buffer ELSE out
  /\ buffer' = <<>>
  /\ pc' = "exit"
  /\ UNCHANGED <<disk, arg, stack, path, ok, result, reading, reported>>

-----------------------------------------------------------------------------
(* run: the walk of one directory *)

Report(p, what) == reported' = reported \cup {[path |-> p, what |-> what]}

\* Path's order compares component by component.
Before(p, q) ==
  \/ IsStrictPrefix(p, q)
  \/ \E i \in 1..Len(p) : /\ i <= Len(q) /\ p[i] < q[i]
                          /\ SubSeq(p, 1, i - 1) = SubSeq(q, 1, i - 1)
\* Mutant: the listing is kept in the order the file system gave.
Unsorted(entries) == entries
Sorted(entries) ==
  CHOOSE s \in SetToSeqs(ToSet(entries)) :
    \A i, j \in DOMAIN s : i < j => Before(s[i].path, s[j].path)

\* sorted_entries: the directory cannot be read, or some of its entries cannot.
ListFails ==
  /\ pc = "list"
  /\ Report(path, "dir")
  /\ ok' = FALSE
  /\ stack' = Append(stack, <<>>)
  /\ pc' = "entries"
  /\ UNCHANGED <<disk, arg, path, result, status, reading, output>>

\* Mutant: an entry that cannot be read is skipped in silence.
SkipUnread(unread) == UNCHANGED <<ok, reported>>
NoteUnread(unread) ==
  /\ ok' = (ok /\ unread = {})
  /\ reported' = reported \cup {[path |-> p, what |-> "entry"] : p \in unread}

List ==
  /\ pc = "list" /\ Kind(path) \in Directory
  /\ LET present == {p \in Children(path) : entry[p] # 0}
     IN  \E unread \in SUBSET present :
           \E order \in SetToSeqs(present \ unread) :
             /\ stack' = Append(stack, Sorted([i \in DOMAIN order |->
                           [path |-> order[i], kind |-> Kind(order[i])]]))
             /\ NoteUnread(unread)
  /\ pc' = "entries"
  /\ UNCHANGED <<disk, arg, path, result, status, reading, output>>

\* The end of a listing; of the outermost, and so of the walk.
Pop ==
  /\ pc = "entries" /\ stack # <<>> /\ Last(stack) = <<>>
  /\ stack' = Front(stack)
  /\ IF Len(stack) = 1 THEN Returned(ok) ELSE UNCHANGED <<result, arg, pc>>
  /\ UNCHANGED <<disk, path, ok, status, reading, output, reported>>

\* The next entry, by the kind it had when the directory was listed: a link,
\* whatever it leads to, is passed over.
Descend(kind) == IF kind = "dir" THEN "list" ELSE IF kind = Regular THEN "open" ELSE "entries"
Step ==
  /\ pc = "entries" /\ stack # <<>> /\ Last(stack) # <<>>
  /\ LET next == Head(Last(stack))
     IN  /\ path' = next.path
         /\ pc' = Descend(next.kind)
  /\ stack' = Append(Front(stack), Tail(Last(stack)))
  /\ UNCHANGED <<disk, arg, ok, result, status, reading, output, reported>>

-----------------------------------------------------------------------------
(* analyze_one, and the read_input it calls *)

\* Ok(false) and Ok(true), to run or, for an argument that is no directory, to main.
Back(fine) ==
  /\ ok' = (ok /\ fine)
  /\ IF stack = <<>> THEN Returned(fine) ELSE pc' = "entries" /\ UNCHANGED <<result, arg>>
  /\ UNCHANGED <<stack, path, status>>
Refuse(what) ==
  /\ Report(path, what)
  /\ Back(FALSE)
  /\ handle' = 0 /\ got' = 0 /\ span' = {}
  /\ UNCHANGED <<disk, output>>

\* Mutant: opened without O_NONBLOCK, a FIFO has no writer to wait for.
Blocking(p) == Kind(p) # "fifo"
NonBlocking(p) == TRUE
OpenFails == pc = "open" /\ NonBlocking(path) /\ Refuse("open")
Open ==
  /\ pc = "open" /\ entry[path] # 0 /\ NonBlocking(path)
  /\ handle' = entry[path]
  /\ span' = {inode[entry[path]].size}
  /\ pc' = "stat"
  /\ UNCHANGED <<disk, main, got, output, reported>>

\* What is open, not what the path names now, must be a regular file; a link
\* names one outside the tree.
Stat ==
  /\ pc = "stat"
  /\ IF inode[handle].kind \notin {Regular, "link"} THEN Refuse("kind")
     ELSE IF inode[handle].size > MaxBytes THEN Refuse("large")
     ELSE pc' = "read" /\ UNCHANGED <<disk, main, reading, output, reported>>

\* read_to_end through take, which lets through one byte over the cap.
\* Mutant: takes only what the cap allows, so that nothing is ever over it.
TakeCap == MaxBytes
Take == MaxBytes + 1
Read ==
  /\ pc = "read" /\ got < Take /\ got < inode[handle].size
  /\ got' = got + 1
  /\ UNCHANGED <<disk, pc, main, handle, span, output, reported>>
ReadFails == pc \in {"stat", "read"} /\ Refuse("read")
ReadEnds ==
  /\ pc = "read" /\ (got >= Take \/ got >= inode[handle].size)
  /\ IF got > MaxBytes THEN Refuse("large")
     ELSE pc' = "emit" /\ UNCHANGED <<disk, main, reading, output, reported>>

\* The views written, whole; then the flush that makes them visible.
Emit ==
  /\ pc = "emit"
  /\ buffer' = Append(buffer, [path |-> path, whole |-> TRUE])
  /\ pc' = "flush"
  /\ UNCHANGED <<disk, main, reading, out, reported>>
Flush ==
  /\ pc = "flush"
  /\ out' = out \o buffer /\ buffer' = <<>>
  /\ Back(TRUE)
  /\ handle' = 0 /\ got' = 0 /\ span' = {}
  /\ UNCHANGED <<disk, reported>>

\* Data that does not serialise: JSON may have been written up to there.
Unserialised ==
  /\ pc = "emit"
  /\ \E begun \in BOOLEAN :
       buffer' = IF begun THEN Append(buffer, [path |-> path, whole |-> FALSE]) ELSE buffer
  /\ Report(path, "data")
  /\ Back(FALSE)
  /\ handle' = 0 /\ got' = 0 /\ span' = {}
  /\ UNCHANGED <<disk, out>>

\* Output that cannot be written ends the walk and main's loop.
OutputFails ==
  /\ pc \in {"emit", "flush"}
  /\ result' \in {"broken", "unwritable"}
  /\ stack' = <<>>
  /\ pc' = "args" /\ arg' = Len(Args) + 1
  /\ handle' = 0 /\ got' = 0 /\ span' = {}
  /\ UNCHANGED <<disk, path, ok, status, output, reported>>

-----------------------------------------------------------------------------
(* Other programs *)

Changes(p) == changes < MaxChanges /\ changes' = changes + 1 /\ touched' = touched \cup {p}

Unlink(p) ==
  /\ Changes(p) /\ entry[p] # 0
  /\ entry' = [entry EXCEPT ![p] = 0]
  /\ UNCHANGED <<inode, span>>
Replace(p) ==
  /\ Changes(p)
  /\ \E node \in UNION {Node(kind) : kind \in Kinds \cup {"dir"}} : inode' = Append(inode, node)
  /\ entry' = [entry EXCEPT ![p] = Len(inode')]
  /\ UNCHANGED span
Resize(p) ==
  /\ Changes(p) /\ Kind(p) = Regular
  /\ \E size \in 0..MaxSize :
       /\ inode' = [inode EXCEPT ![entry[p]].size = size]
       /\ span' = IF handle = entry[p] THEN span \cup {size} ELSE span
  /\ UNCHANGED entry
World ==
  /\ pc # "exit"
  /\ \E p \in Leaf : Unlink(p) \/ Replace(p) \/ Resize(p)
  /\ UNCHANGED <<pc, main, handle, got, output, reported>>

Program ==
  \/ Begin \/ Exit \/ ListFails \/ List \/ Pop \/ Step
  \/ OpenFails \/ Open \/ Stat \/ Read \/ ReadFails \/ ReadEnds
  \/ Emit \/ Flush \/ Unserialised \/ OutputFails

Next == Program \/ World
\* The program runs until it is done; others are bounded and owe nothing.
Spec == Init /\ [][Next]_vars /\ WF_vars(Program)
=============================================================================
