--------------------------- MODULE CargoWalkProps ---------------------------
(***************************************************************************)
(* What the targets of an artifact are: the files their entry points reach *)
(* as rustc finds them, said of the whole artifact and without a worklist. *)
(***************************************************************************)
EXTENDS CargoWalk, Reach

\* A path with its ".."s taken out, unless one goes above the root.
Ups(p) == {i \in DOMAIN p : p[i] = ".."}
FirstUp(p) == CHOOSE i \in Ups(p) : \A j \in Ups(p) : i <= j
OneLess(p, i) == SubSeq(p, 1, i - 2) \o SubSeq(p, i + 1, Len(p))
Reduced(path) ==
  LET less[p \in LogicalPaths] == IF Ups(p) = {} THEN p
                           ELSE IF FirstUp(p) = 1 THEN NoPath ELSE less[OneLess(p, FirstUp(p))]
  IN  less[path]

\* A file as rustc loads it.  It `owns` its directory if it is the root of the
\* crate, a mod.rs or named by a #[path]; the modules of any other, whatever its
\* name, lie in a directory of that name.
Loaded(f, owns) == [file |-> f, owns |-> owns]

\* Where rustc looks for a module declared in n.  An inline module is a directory
\* below the file's; a #[path] outside of one starts at the directory the file is in.
Sought(at, n, module) ==
  LET here == SubSeq(Front(n.file), Len(at) + 1, Len(n.file) - 1)
      own == (IF n.owns THEN here ELSE Append(here, Last(n.file))) \o module.inline
  IN  IF module.path = NoPath
      THEN {Loaded(own \o <<module.name>>, FALSE), Loaded(own \o <<module.name, "mod">>, TRUE)}
      ELSE {Loaded((IF module.inline = <<>> THEN here ELSE own) \o module.path, TRUE)}
Inside(asked) == {a \in asked : Reduced(a.file) # NoPath}
Means(at, n, module) ==
  {g \in {Loaded(at \o Reduced(a.file), a.owns) : a \in Inside(Sought(at, n, module))} : g.file \in Files}

FilesOf(ns) == {n.file : n \in ns}
OneFile(ns) == Cardinality(FilesOf(ns)) = 1
Declarations(f) == {artifact.files[f].modules[i] : i \in DOMAIN artifact.files[f].modules}
Children(at, n) == UNION {Means(at, n, m) : m \in {d \in Declarations(n.file) : OneFile(Means(at, n, d))}}
Crate(at, e) == Reached([n \in [file : Files, owns : BOOLEAN] |-> Children(at, n)], {Loaded(e, TRUE)})
Lost(at, crate) ==
  UNION {{[file |-> n.file, module |-> m.name] :
            m \in {d \in Declarations(n.file) : ~OneFile(Means(at, n, d))}} : n \in crate}

\* The code has a file's name and not how it was loaded.  Its rule is rustc's
\* unless a file with modules of its own was loaded by #[path], or is a lib.rs
\* or main.rs that is no root, or has a #[path] inside an inline module.
NamesTell(e, crate) ==
  \A n \in crate : \A m \in Declarations(n.file) :
    /\ n.owns <=> n.file = e \/ Last(n.file) \in {"lib", "main", "mod"}
    /\ m.path # NoPath /\ m.inline # <<>> => n.owns

\* A target names files below its manifest and their events, and no entry point
\* has two.  Where names tell how files were loaded, it reaches the files of
\* its crate and no other, and names the declarations it could not follow; all
\* of them, unless the result says that the visits ran out, by whichever target
\* they were spent (CargoSourceContext::truncated, "coverage is incomplete - not
\* clean").  A module outside the manifest's directory counts as one that cannot
\* be followed (resolve, "kept within boundary").
CratesWholeOrTruncated ==
  \A t \in targets :
    LET crate == Crate(t.at, t.entry)
    IN  /\ \A f \in t.members : IsPrefix(t.at, f)
        /\ t.events = UNION {artifact.files[f].events : f \in t.members}
        /\ \A u \in targets : (u.at = t.at /\ u.entry = t.entry) => u = t
        /\ NamesTell(t.entry, crate) =>
             /\ t.members \subseteq FilesOf(crate) /\ t.unresolved \subseteq Lost(t.at, crate)
             /\ ~truncated => t.members = FilesOf(crate) /\ t.unresolved = Lost(t.at, crate)
=============================================================================
