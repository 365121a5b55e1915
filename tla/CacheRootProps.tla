-------------------------- MODULE CacheRootProps ---------------------------
(***************************************************************************)
(* The cache reads, writes and deletes in directories of its own only.     *)
(***************************************************************************)
EXTENDS CacheRoot

\* The cache uses, prunes and sweeps only a root that carries its tag and that
\* no other user can change (cache.rs:193), unless the root was deleted after
\* it was resolved: other processes creating, tagging, storing and dying in it
\* never take that away.
UsesOnlyTagged ==
  \A p \in Proc :
    /\ (pc[p] \in {"load", "store"} /\ ~cleared[p].open) => IsTagged /\ Trusted
    /\ (sweep[p] # "none" /\ ~cleared[p].sweep) => IsTagged /\ Trusted

\* No open and no sweep writes to or deletes from a directory that somebody else
\* made and that carries no tag, whatever happened to other processes' roots
\* (cache.rs:25: "it leaves alone a `filefacts` directory it did not tag").  Two
\* cases are the code's: the root was deleted after this very open resolved it,
\* or after this sweep was given it; and a directory with the standard tag of
\* another program is taken for the cache's own, is_tagged asking for no more.
HostsLeftAlone ==
  [][\A p \in Proc :
       (root'.made = "other" /\ p \in root'.touched \ root.touched) =>
         \/ root.tag = "signed"
         \/ IF pc'[p] # pc[p] THEN cleared[p].open ELSE cleared[p].sweep]_vars

\* A tag once written is there as long as the root is: no other process's
\* write_tag empties it, so a root that was usable stays usable.
TagLasts == [][(IsTagged /\ root'.made = root.made) => IsTagged']_vars
=============================================================================
