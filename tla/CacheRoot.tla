----------------------------- MODULE CacheRoot ------------------------------
(***************************************************************************)
(* Which directory the disk cache works in: resolve_root, root_under,      *)
(* write_tag, is_tagged and prune_old_versions in src/src/cache.rs.        *)
(*                                                                         *)
(* Processes share one path, {base}/filefacts.  It may be missing, made by *)
(* this cache (mkdir, then a tag file created and written), made by an     *)
(* older build without a tag, or be a directory of somebody else's, which  *)
(* may carry a cache directory tag of its own.  The host's directory is    *)
(* resolved on every open; the per-user default once per process, which    *)
(* also adopts an untagged directory.                                      *)
(*                                                                         *)
(* A process may die between any two steps, and the user may empty the     *)
(* cache directory at any time.                                            *)
(***************************************************************************)
EXTENDS Naturals

CONSTANTS
  Proc,       \* processes using this root
  Modes,      \* "default" and "host": whose directory the root lies in
  MaxClears   \* bound: how often the user deletes the root

ASSUME ModesAssumption == Modes \subseteq {"default", "host"} /\ MaxClears \in Nat

VARIABLES
  mode,     \* whose directory the root lies in
  root,     \* what stands at the path
  pc,       \* pc[p]: where p's open is
  memo,     \* memo[p]: what default_root's OnceLock holds in p
  created,  \* created[p]: whether p's mkdir made the root
  handle,   \* handle[p]: whether the tag file p has open is still the root's
  sweep,    \* sweep[p]: where p's sweep thread is
  cleared,  \* history: whether the root was deleted after p's open resolved it,
            \* and after p's sweep was given it
  clears    \* how often the user has deleted the root

vars == <<mode, root, pc, memo, created, handle, sweep, cleared, clears>>

\* made: by nobody, by this cache's mkdir, by a store's create_dir_all, by a
\* build predating the tag, or by somebody else.  trusted: what trusted_dir
\* says of it.  tag: its CACHEDIR.TAG, which is "partial" without the standard
\* signature, whoever wrote it.  touched: the processes that wrote or deleted
\* something in it.
Root == [made : {"nobody", "mkdir", "store", "before", "other"}, trusted : BOOLEAN,
         tag : {"none", "partial", "signed"}, touched : SUBSET Proc]
New(maker, trusted) ==
  [made |-> maker, trusted |-> trusted, tag |-> "none", touched |-> {}]
Missing == New("nobody", FALSE)
\* Somebody else's directory, with or without a tag.
Others(trusted) == {[New("other", trusted) EXCEPT !.tag = t] : t \in {"none", "partial", "signed"}}
Exists == root.made # "nobody"
\* The root once p has written to it or deleted from it.
TouchedBy(r, p) == [r EXCEPT !.touched = @ \cup {p}]

Adopt == mode = "default"
IsTagged == Exists /\ root.tag = "signed"
Trusted == Exists /\ root.trusted

TypeOK ==
  /\ mode \in Modes
  /\ root \in Root
  /\ pc \in [Proc -> {"idle", "mkdir", "check", "tag", "write", "tagged", "untagged", "load", "store"}]
  /\ memo \in [Proc -> {"unset", "on", "off"}]
  /\ mode = "host" => \A p \in Proc : memo[p] = "unset"
  /\ created \in [Proc -> BOOLEAN] /\ handle \in [Proc -> BOOLEAN]
  /\ sweep \in [Proc -> {"none", "prune", "remove", "scan", "delete"}]
  /\ cleared \in [Proc -> [open : BOOLEAN, sweep : BOOLEAN]]
  /\ clears \in 0..MaxClears

Init ==
  /\ mode \in Modes
  /\ root \in {Missing, [New("mkdir", TRUE) EXCEPT !.tag = "signed"]} \cup
               UNION {IF mode = "default" THEN {New("before", t)} ELSE Others(t) : t \in BOOLEAN}
  /\ pc = [p \in Proc |-> "idle"]
  /\ memo = [p \in Proc |-> "unset"]
  /\ created = [p \in Proc |-> FALSE]
  /\ handle = [p \in Proc |-> FALSE]
  /\ sweep = [p \in Proc |-> "none"]
  /\ cleared = [p \in Proc |-> [open |-> FALSE, sweep |-> FALSE]]
  /\ clears = 0

Goto(p, next) == pc' = [pc EXCEPT ![p] = next]

-----------------------------------------------------------------------------
(* Resolving the root.                                                     *)

\* resolve_root: the OnceLock answers, or root_under starts.
Resolve(p) ==
  /\ pc[p] = "idle" /\ memo[p] # "off"
  /\ Goto(p, IF memo[p] = "on" THEN "load" ELSE "mkdir")
  /\ cleared' = [cleared EXCEPT ![p].open = @ /\ memo[p] = "on"]
  /\ UNCHANGED <<mode, root, memo, created, handle, sweep, clears>>

\* Mutant: a directory that was already there counts as created.
MadeAnyway(p) == TRUE
\* DirBuilder::create tells who made the directory.
Made(p) == ~Exists

\* DirBuilder::create, private to the user whatever the umask.
Mkdir(p) ==
  /\ pc[p] = "mkdir"
  /\ created' = [created EXCEPT ![p] = Made(p)]
  /\ root' = IF Exists THEN root ELSE New("mkdir", TRUE)
  /\ Goto(p, "check")
  /\ UNCHANGED <<mode, memo, handle, sweep, cleared, clears>>

\* root_under gives None: the cache is off for this open, and for a process
\* using the default root from then on.
Off(p) ==
  /\ Goto(p, "idle")
  /\ memo' = [memo EXCEPT ![p] = IF mode = "default" THEN "off" ELSE @]

MkdirFails(p) ==
  /\ pc[p] = "mkdir" /\ ~Exists
  /\ Off(p)
  /\ UNCHANGED <<mode, root, created, handle, sweep, cleared, clears>>

\* Mutant: the directory's owner and mode are not looked at.
PassAny == Exists
\* trusted_dir on the root.
Passes == Trusted

Check(p) ==
  /\ pc[p] = "check"
  /\ IF Passes
     THEN Goto(p, IF created[p] \/ Adopt THEN "tag" ELSE "untagged") /\ UNCHANGED memo
     ELSE Off(p)
  /\ UNCHANGED <<mode, root, created, handle, sweep, cleared, clears>>

\* Mutant: the tag is created over one that is there.
AnyTagFile == Exists
\* create_new finds no file at the tag's path.
NoTagFile == Exists /\ root.tag = "none"

\* write_tag: create_new gives an empty file, or finds one there, or fails.
CreateTag(p) ==
  /\ pc[p] = "tag"
  /\ \/ /\ NoTagFile
        /\ root' = TouchedBy([root EXCEPT !.tag = "partial"], p)
        /\ handle' = [handle EXCEPT ![p] = TRUE]
        /\ Goto(p, "write")
     \/ Exists /\ ~NoTagFile /\ Goto(p, "tagged") /\ UNCHANGED <<root, handle>>
     \/ Goto(p, "untagged") /\ UNCHANGED <<root, handle>>
  /\ UNCHANGED <<mode, memo, created, sweep, cleared, clears>>

\* write_tag: the signature is written to the file that was created, or not.
WriteTag(p) ==
  /\ pc[p] = "write"
  /\ \/ /\ root' = IF handle[p] THEN [root EXCEPT !.tag = "signed"] ELSE root
        /\ Goto(p, "tagged")
     \/ Goto(p, "untagged") /\ UNCHANGED root
  /\ handle' = [handle EXCEPT ![p] = FALSE]
  /\ UNCHANGED <<mode, memo, created, sweep, cleared, clears>>

\* is_tagged, whatever write_tag did.
Verify(p) ==
  /\ pc[p] \in {"tagged", "untagged"}
  /\ IF IsTagged
     THEN /\ Goto(p, "load")
          /\ memo' = [memo EXCEPT ![p] = IF mode = "default" THEN "on" ELSE @]
     ELSE Off(p)
  /\ UNCHANGED <<mode, root, created, handle, sweep, cleared, clears>>

-----------------------------------------------------------------------------
(* Using it.                                                               *)

\* load_capped: a hit ends the open, a miss goes on to a store.
Load(p) ==
  /\ pc[p] = "load"
  /\ pc' \in {[pc EXCEPT ![p] = n] : n \in {"idle", "store"}}
  /\ UNCHANGED <<mode, root, memo, created, handle, sweep, cleared, clears>>

\* spawn_sweep, unless the claim shows one running.
Spawn(p) ==
  IF sweep[p] # "none" THEN UNCHANGED <<sweep, cleared>>
  ELSE /\ sweep' = [sweep EXCEPT ![p] = "prune"]
       /\ cleared' = [cleared EXCEPT ![p].sweep = cleared[p].open]

\* store_at_path: create_dir_all makes what is missing, as the umask has it.
Store(p) ==
  /\ pc[p] = "store"
  /\ \/ \E private \in BOOLEAN :
          root' = TouchedBy(IF Exists THEN root ELSE New("store", private), p)
     \/ UNCHANGED root
  /\ Goto(p, "idle")
  /\ Spawn(p) \/ UNCHANGED <<sweep, cleared>>
  /\ UNCHANGED <<mode, memo, created, handle, clears>>

\* cleanup and cleanup_in: a sweep of the root that was resolved.
Cleanup(p) ==
  /\ pc[p] = "load"
  /\ Goto(p, "idle")
  /\ Spawn(p)
  /\ UNCHANGED <<mode, root, memo, created, handle, clears>>

\* prune_old_versions looks at the tag again.
Prune(p) ==
  /\ sweep[p] = "prune"
  /\ sweep' = [sweep EXCEPT ![p] = IF IsTagged THEN "remove" ELSE "scan"]
  /\ UNCHANGED <<mode, root, pc, memo, created, handle, cleared, clears>>

\* remove_dir_all of the superseded versions.
RemoveOld(p) ==
  /\ sweep[p] = "remove"
  /\ root' = IF Exists THEN TouchedBy(root, p) ELSE root
  /\ sweep' = [sweep EXCEPT ![p] = "scan"]
  /\ UNCHANGED <<mode, pc, memo, created, handle, cleared, clears>>

\* Sweep::run starts by checking who may change the version directory.
Scan(p) ==
  /\ sweep[p] = "scan"
  /\ sweep' \in {[sweep EXCEPT ![p] = "none"],
                 [sweep EXCEPT ![p] = IF Passes THEN "delete" ELSE "none"]}
  /\ UNCHANGED <<mode, root, pc, memo, created, handle, cleared, clears>>

\* Sweep::run deletes entries, orphans, and writes its marker.
Delete(p) ==
  /\ sweep[p] = "delete"
  /\ root' = IF Exists THEN TouchedBy(root, p) ELSE root
  /\ sweep' = [sweep EXCEPT ![p] = "none"]
  /\ UNCHANGED <<mode, pc, memo, created, handle, cleared, clears>>

-----------------------------------------------------------------------------
(* The world around it.                                                    *)

Crash(p) ==
  /\ pc' = [pc EXCEPT ![p] = "idle"]
  /\ memo' = [memo EXCEPT ![p] = "unset"]
  /\ handle' = [handle EXCEPT ![p] = FALSE]
  /\ sweep' = [sweep EXCEPT ![p] = "none"]
  /\ created' = [created EXCEPT ![p] = FALSE]
  /\ UNCHANGED <<mode, root, cleared, clears>>

\* The user empties the cache directory.
Clear ==
  /\ clears < MaxClears /\ Exists
  /\ clears' = clears + 1
  /\ root' = Missing
  /\ handle' = [p \in Proc |-> FALSE]
  /\ cleared' = [p \in Proc |-> [open |-> TRUE, sweep |-> TRUE]]
  /\ UNCHANGED <<mode, pc, memo, created, sweep>>

\* The host makes a directory of that name for itself, tagged as one of its own
\* caches or not.
HostMakes ==
  /\ mode = "host" /\ ~Exists
  /\ \E t \in BOOLEAN : root' \in Others(t)
  /\ UNCHANGED <<mode, pc, memo, created, handle, sweep, cleared, clears>>

Next ==
  \/ \E p \in Proc :
       \/ Resolve(p) \/ Mkdir(p) \/ MkdirFails(p) \/ Check(p)
       \/ CreateTag(p) \/ WriteTag(p) \/ Verify(p)
       \/ Load(p) \/ Store(p) \/ Cleanup(p)
       \/ Prune(p) \/ RemoveOld(p) \/ Scan(p) \/ Delete(p) \/ Crash(p)
  \/ Clear \/ HostMakes

Spec == Init /\ [][Next]_vars
=============================================================================
