--------------------------- MODULE CohortManifest ---------------------------
(***************************************************************************)
(* What a recovery cohort is made of (nia_recovery.py): bytes, the         *)
(* manifest that lists them, and the structural check every reader makes   *)
(* of a manifest before it uses one.                                       *)
(*                                                                         *)
(* A digest is the bytes it was taken of: SHA-256 is taken not to collide. *)
(* A path is the sequence of its names; names are numbers, so that paths   *)
(* can be ordered: name by name, where the code compares whole strings.    *)
(***************************************************************************)
EXTENDS Integers, Sequences, FiniteSets

CONSTANT Chunk      \* CHUNK: bytes of every chunk of a file but its last

ASSUME ChunkAssumption == Chunk \in Nat \ {0}

\* A run of bytes: which ones, and how many.
Bytes == [tag : STRING, len : Nat]

Kinds == {"managed-file", "catalog", "checkpoint", "journal", "audit"}

\* The chunks a file of so many bytes is cut into, and the length of the i-th.
ChunkCount(size) == (size + Chunk - 1) \div Chunk
ChunkLength(size, i) == IF size - (i - 1) * Chunk < Chunk THEN size - (i - 1) * Chunk ELSE Chunk

\* The directories a path goes through.
Ancestors(path) == {SubSeq(path, 1, n) : n \in 1 .. Len(path) - 1}

\* The order of paths as strings.
PathBefore(p, q) ==
    \/ Len(p) < Len(q) /\ p = SubSeq(q, 1, Len(p))
    \/ \E i \in 1 .. Len(p) :
         /\ i <= Len(q)
         /\ SubSeq(p, 1, i - 1) = SubSeq(q, 1, i - 1)
         /\ p[i] < q[i]

\* Listed once each and in order.
Sorted(paths) == \A i \in 1 .. Len(paths) - 1 : PathBefore(paths[i], paths[i + 1])

PathsOf(entries) == [i \in DOMAIN entries |-> entries[i].path]
PathSet(entries) == {entries[i].path : i \in DOMAIN entries}

\* validate_manifest: a manifest a reader goes on with.
ValidManifest(m) ==
    LET files == PathSet(m.objects)
        dirs  == PathSet(m.directories)
        OfKind(path, kind) == \E i \in DOMAIN m.objects :
                                m.objects[i].path = path /\ m.objects[i].kind = kind
    IN  /\ m.generation >= 1 /\ m.trust_epoch >= 1
        /\ m.objects # <<>>
        /\ Sorted(PathsOf(m.directories)) /\ Sorted(PathsOf(m.objects))
        /\ \A i \in DOMAIN m.objects :
             /\ m.objects[i].kind \in Kinds
             /\ Len(m.objects[i].chunks) = ChunkCount(m.objects[i].size)
        /\ files \cap dirs = {}
        /\ \A p \in files \cup dirs : Ancestors(p) \subseteq dirs
        /\ OfKind(m.catalog_path, "catalog")
        /\ OfKind(m.checkpoint_path, "checkpoint")
        /\ \E i \in DOMAIN m.objects : m.objects[i].kind = "journal"
=============================================================================
