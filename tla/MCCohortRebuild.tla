-------------------------- MODULE MCCohortRebuild --------------------------
(***************************************************************************)
(* Small instance of CohortRebuild: a cohort of three files in two         *)
(* directories, one of them in two chunks and one empty, that shares a     *)
(* chunk with itself and with a second cohort; two replicas that hold      *)
(* a mixture of good, bad and unreadable copies.                           *)
(***************************************************************************)
EXTENDS CohortRebuild

c1 == [tag |-> "c1", len |-> 2]
c2 == [tag |-> "c2", len |-> 1]
x  == [tag |-> "x", len |-> 1]
y  == [tag |-> "y", len |-> 2]

\* The first replica may hold anything where a chunk should be, the second the
\* chunk or one kind of bad bytes.
MCMedia ==
    {<<a, b>> : a \in {f \in [{c1, c2} -> {c1, c2, x, y, Unreadable}] : f[c1] # c2 /\ f[c2] # c1},
                b \in {f \in [{c1, c2} -> {c1, c2, x}] : f[c1] # c2 /\ f[c2] # c1}}

File(path, kind, size, chunks) ==
    [path |-> path, kind |-> kind, attributes |-> "a", size |-> size,
     sha256 |-> chunks, chunks |-> chunks]

Cohort ==
    [node |-> "n1", cohort |-> "c", generation |-> 2, trust_epoch |-> 1, pending |-> {},
     catalog_path |-> <<1, 1>>, checkpoint_path |-> <<1, 2>>, root_attributes |-> "a",
     directories |-> <<[path |-> <<1>>, attributes |-> "a"]>>,
     objects |-> <<File(<<1, 1>>, "catalog", 3, <<c1, c2>>), File(<<1, 2>>, "checkpoint", 0, <<>>),
                   File(<<2>>, "journal", 2, <<c1>>)>>]

MCManifests ==
    [cohort |-> Cohort,
     wrong  |-> [Cohort EXCEPT !.objects[3].sha256 = <<c2>>],
     below  |-> [Cohort EXCEPT !.objects[3].path = <<1, 2, 1>>]]
=============================================================================
