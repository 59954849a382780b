--------------------------- MODULE MCCohortSource ---------------------------
(***************************************************************************)
(* Small instance of CohortSource: three files, one of them in a directory *)
(* and of two chunks, in trees that are as anchored or differ in one       *)
(* place.                                                                  *)
(***************************************************************************)
EXTENDS CohortSource

a == [tag |-> "a", len |-> 1]
b == [tag |-> "b", len |-> 1]

Plain == [mode |-> 1, xattrs |-> 1]
Marked == [mode |-> 1, xattrs |-> 2]
Opened == [mode |-> 2, xattrs |-> 1]

Object1(path, kind, chunks) ==
    [path |-> path, kind |-> kind, attributes |-> Plain, size |-> Len(chunks),
     sha256 |-> chunks, chunks |-> chunks]

MCAnchored ==
    [node |-> "n1", cohort |-> "c", generation |-> 1, trust_epoch |-> 1, pending |-> {},
     catalog_path |-> <<1, 1>>, checkpoint_path |-> <<2>>, root_attributes |-> Plain,
     directories |-> <<[path |-> <<1>>, attributes |-> Plain]>>,
     objects |-> <<Object1(<<1, 1>>, "catalog", <<a, a>>), Object1(<<2>>, "checkpoint", <<>>),
                   Object1(<<3>>, "journal", <<a>>)>>]

MCContents   == {a, b}
MCAttributes == {Plain, Marked, Opened}
MCSpare      == {<<1, 2>>, <<4>>}

FileOf(data) == [data |-> data, attr |-> Plain]

Exactly ==
    [files |-> [p \in {<<1, 1>>, <<2>>, <<3>>} |->
                  CASE p = <<1, 1>> -> FileOf(<<a, a>>) [] p = <<2>> -> FileOf(<<>>) [] OTHER -> FileOf(<<a>>)],
     dirs  |-> [d \in {<<>>, <<1>>} |-> Plain]]

With(t, p, f) == [t EXCEPT !.files = [q \in DOMAIN @ \cup {p} |-> IF q = p THEN f ELSE @[q]]]
Without(t, p) == [t EXCEPT !.files = [q \in DOMAIN @ \ {p} |-> @[q]]]
AndDir(t, d)  == [t EXCEPT !.dirs = [e \in DOMAIN @ \cup {d} |-> IF e = d THEN Plain ELSE @[e]]]

MCTrees == {
    Exactly, With(Exactly, <<1, 1>>, FileOf(<<a, b>>)), Without(Exactly, <<3>>),
    With(Exactly, <<1, 2>>, FileOf(<<a>>)), AndDir(Exactly, <<4>>),
    [Exactly EXCEPT !.dirs[<<1>>] = Marked], [Exactly EXCEPT !.files[<<3>>].attr = Marked],
    [Exactly EXCEPT !.files[<<3>>].attr = Opened] }
=============================================================================
