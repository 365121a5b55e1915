------------------------------ MODULE CargoWalk ------------------------------
(***************************************************************************)
(* cargo_source_context of src/src/package_context.rs: the targets of the  *)
(* Cargo manifests in one artifact, and the module files each reaches, on  *)
(* one budget of visits.  One action is one turn of a loop.                *)
(*                                                                         *)
(* A path is the sequence of its segments, a file's without the extension; *)
(* a member is [modules, events], a module declaration [name, inline,      *)
(* path], a manifest [at, build, lib, library, kinds].                     *)
(***************************************************************************)
EXTENDS Naturals, Sequences, SequencesExt, FiniteSets

CONSTANTS
  Artifacts,   \* [files, manifests]: the members, by path, and what Cargo reads
  NoPath,      \* no `path` is given, or a reference resolves to nothing
  VisitLimits  \* values of max_cargo_visits

\* Member paths are logical: they name a file and have no ".." of their own.
LogicalPaths == Seq(STRING)
ASSUME CargoAssumption ==
  /\ {"..", "build", "Cargo", "lib", "main", "mod", "src"} \subseteq STRING
  /\ NoPath \notin LogicalPaths /\ VisitLimits \subseteq Nat
  /\ \A a \in Artifacts :
       /\ IsFiniteSet(DOMAIN a.files) /\ a.manifests \in Seq(ToSet(a.manifests))
       /\ \A p \in DOMAIN a.files :
            /\ p \in LogicalPaths \ {<<>>} /\ ".." \notin ToSet(p)
            /\ a.files[p].modules \in Seq(ToSet(a.files[p].modules))
            /\ \A m \in ToSet(a.files[p].modules) :
                 m.name \in STRING /\ m.inline \in LogicalPaths /\ m.path \in LogicalPaths \cup {NoPath}
       /\ \A m \in ToSet(a.manifests) :
            /\ m.at \in LogicalPaths /\ {m.lib, m.build.path} \subseteq LogicalPaths \cup {NoPath}
            /\ m.kinds \in Seq(ToSet(m.kinds))
            /\ \A k \in ToSet(m.kinds) :
                 /\ k.directory \in LogicalPaths /\ k.declared \in Seq(ToSet(k.declared))
                 /\ \A t \in ToSet(k.declared) : t.name \in STRING /\ t.path \in LogicalPaths \cup {NoPath}

VARIABLES
  artifact,
  queue,       \* entries not looked at yet: [at, entry, phase]
  taken,       \* entry points a manifest has a target for: [at, entry]
  target,      \* the target being walked, or NoPath
  unvisited,   \* its worklist, a stack of paths
  members, events, missing,  \* what it reached, and the declarations it could not follow
  visitsLeft,  \* `remaining`, of all targets together
  targets,     \* the result
  truncated
reach == <<target, unvisited, members, events, missing>>
cargo == <<artifact, queue, taken, reach, visitsLeft, targets, truncated>>

-----------------------------------------------------------------------------
(* Paths *)

\* join_relative: nothing for an absolute reference, or one above the root.
JoinRelative(dir, spec) ==
  LET joined[i \in 0..Len(spec)] ==
        IF i = 0 THEN dir
        ELSE LET d == joined[i - 1]
             IN  IF d = NoPath \/ (spec[i] = ".." /\ d = <<>>) THEN NoPath
                 ELSE IF spec[i] = ".." THEN Front(d) ELSE Append(d, spec[i])
  IN  joined[Len(spec)]

\* resolve: against the directory of a file, within its manifest's directory.
Resolve(file, spec, boundary) ==
  LET inside == Front(SubSeq(file, Len(boundary) + 1, Len(file)))
      joined == JoinRelative(inside, spec)
  IN  IF joined = NoPath THEN NoPath ELSE boundary \o joined

Files == DOMAIN artifact.files

-----------------------------------------------------------------------------
(* The entry points of a manifest, in the order they are tried *)

Entry(m, path, phase) == <<[at |-> m.at, entry |-> path, phase |-> phase]>>

BuildEntry(m) ==
  IF m.build.off \/ m.build.disabled THEN <<>>
  ELSE Entry(m, IF m.build.path = NoPath THEN <<"build">> ELSE m.build.path, "build")
LibEntry(m) ==
  Entry(m, IF m.lib = NoPath THEN <<"src", "lib">> ELSE m.lib,
        IF m.macro THEN "proc-macro" ELSE "runtime")

\* declared_targets: a `path`, or where Cargo looks for the `name`.
Declared(m, kind) ==
  FlattenSeq([i \in DOMAIN kind.declared |->
    LET t == kind.declared[i]
    IN  IF t.path # NoPath THEN Entry(m, t.path, kind.phase)
        ELSE IF kind.bin /\ t.name = m.package THEN Entry(m, <<"src", "main">>, kind.phase)
        ELSE Entry(m, Append(kind.directory, t.name), kind.phase)
               \o Entry(m, kind.directory \o <<t.name, "main">>, kind.phase)])

\* discovered_targets: `<name>` and `<name>/main` in the kind's directory.
Discovered(m, kind) ==
  LET dir == m.at \o kind.directory
      names == {SubSeq(p, Len(dir) + 1, Len(p)) : p \in {q \in Files : IsStrictPrefix(dir, q)}}
      found == {n \in names : Len(n) = 1 \/ (Len(n) = 2 /\ n[2] = "main")}
  IN  IF ~kind.discovery THEN <<>>
      ELSE FlattenSeq(SetToSeq({Entry(m, kind.directory \o n, kind.phase) : n \in found}))

EntriesOf(m) ==
  BuildEntry(m) \o LibEntry(m) \o Entry(m, <<"src", "main">>, "runtime")
    \o FlattenSeq([i \in DOMAIN m.kinds |-> Declared(m, m.kinds[i]) \o Discovered(m, m.kinds[i])])

CargoInit ==
  /\ artifact \in Artifacts
  /\ queue = FlattenSeq([i \in DOMAIN artifact.manifests |-> EntriesOf(artifact.manifests[i])])
  /\ taken = {} /\ target = NoPath /\ unvisited = <<>>
  /\ members = {} /\ events = {} /\ missing = {}
  /\ visitsLeft \in VisitLimits
  /\ targets = {} /\ truncated = FALSE

-----------------------------------------------------------------------------
(* The walk *)

Goal(e) == Resolve(Append(e.at, "Cargo"), e.entry, e.at)
Fresh(e) == Goal(e) \in Files /\ [at |-> e.at, entry |-> Goal(e)] \notin taken

NextEntry ==
  /\ target = NoPath /\ queue # <<>>
  /\ queue' = Tail(queue)
  /\ LET e == Head(queue)
     IN  IF Fresh(e)
         THEN /\ taken' = taken \cup {[at |-> e.at, entry |-> Goal(e)]}
              /\ target' = [e EXCEPT !.entry = Goal(e)]
              /\ unvisited' = <<Goal(e)>>
         ELSE UNCHANGED <<taken, target, unvisited>>
  /\ UNCHANGED <<artifact, members, events, missing, visitsLeft, targets, truncated>>

\* The target is reported as far as it was walked.
Close(reached, seenEvents, unresolved) ==
  /\ targets' = targets \cup {[at |-> target.at, entry |-> target.entry, phase |-> target.phase,
                               members |-> reached, events |-> seenEvents, unresolved |-> unresolved]}
  /\ target' = NoPath /\ unvisited' = <<>>
  /\ members' = {} /\ events' = {} /\ missing' = {}

Walked ==
  /\ target # NoPath /\ unvisited = <<>>
  /\ Close(members, events, missing)
  /\ UNCHANGED <<artifact, queue, taken, visitsLeft, truncated>>

Spent ==
  /\ target # NoPath /\ unvisited # <<>> /\ visitsLeft = 0
  /\ truncated' = TRUE
  /\ Close(members, events, missing)
  /\ UNCHANGED <<artifact, queue, taken, visitsLeft>>

Path == Last(unvisited)
Popping == target # NoPath /\ unvisited # <<>> /\ visitsLeft > 0

VisitAgain ==
  /\ Popping /\ Path \in members
  /\ unvisited' = Front(unvisited)
  /\ visitsLeft' = visitsLeft - 1
  /\ UNCHANGED <<artifact, queue, taken, target, members, events, missing, targets, truncated>>

\* Where a declared module may be: a file's own directory holds its children,
\* unless it is the entry or a lib, main or mod.
\* Mutant: an entry that is none of the three has a directory of its own too.
DirByName == IF Last(Path) \in {"lib", "main", "mod"} THEN <<>> ELSE <<Last(Path)>>
ModuleDir == IF Path = target.entry \/ Last(Path) \in {"lib", "main", "mod"} THEN <<>> ELSE <<Last(Path)>>
Candidates(module) ==
  LET own == ModuleDir \o module.inline
      specs == IF module.path # NoPath THEN {module.inline \o module.path}
               ELSE {Append(own, module.name), own \o <<module.name, "mod">>}
  IN  {Resolve(Path, s, target.at) : s \in specs} \cap Files

\* A declaration with one candidate is followed; any other is reported and
\* costs a visit.
Modules == artifact.files[Path].modules
Unique(module) == Cardinality(Candidates(module)) = 1
Followed(upTo) ==
  FlattenSeq([i \in 1..upTo |-> IF ~Unique(Modules[i]) THEN <<>>
                                ELSE <<CHOOSE c \in Candidates(Modules[i]) : TRUE>>])
Unresolved(upTo) ==
  {[file |-> Path, module |-> Modules[i].name] : i \in {j \in 1..upTo : ~Unique(Modules[j])}}
Cost(upTo) == Cardinality({j \in 1..upTo : ~Unique(Modules[j])})

VisitFile ==
  /\ Popping /\ Path \notin members
  /\ Cost(Len(Modules)) <= visitsLeft - 1
  /\ members' = members \cup {Path}
  /\ events' = events \cup artifact.files[Path].events
  /\ missing' = missing \cup Unresolved(Len(Modules))
  /\ unvisited' = Front(unvisited) \o Followed(Len(Modules))
  /\ visitsLeft' = visitsLeft - 1 - Cost(Len(Modules))
  /\ UNCHANGED <<artifact, queue, taken, target, targets, truncated>>

\* The budget ends at a declaration that cannot be followed.
VisitSpent ==
  /\ Popping /\ Path \notin members
  /\ Cost(Len(Modules)) > visitsLeft - 1
  /\ \E upTo \in 0..Len(Modules) - 1 :
       /\ Cost(upTo) = visitsLeft - 1 /\ ~Unique(Modules[upTo + 1])
       /\ Close(members \cup {Path}, events \cup artifact.files[Path].events, missing \cup Unresolved(upTo))
  /\ truncated' = TRUE /\ visitsLeft' = 0
  /\ UNCHANGED <<artifact, queue, taken>>

CargoNext == NextEntry \/ Walked \/ Spent \/ VisitAgain \/ VisitFile \/ VisitSpent
CargoSpec == CargoInit /\ [][CargoNext]_cargo
=============================================================================
