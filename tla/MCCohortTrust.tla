--------------------------- MODULE MCCohortTrust ---------------------------
(***************************************************************************)
(* Small instance of CohortTrust: policies of three keys, up to three      *)
(* signatures, two replicas.                                               *)
(***************************************************************************)
EXTENDS CohortTrust

File(path, kind, size) ==
    [path |-> path, kind |-> kind, attributes |-> "a", size |-> size,
     sha256 |-> <<>>, chunks |-> [i \in 1 .. ChunkCount(size) |-> [tag |-> "x", len |-> 1]]]

\* Two files in a directory, one beside it, in order.
Content ==
    [node |-> "n1", cohort |-> "c", generation |-> 2, trust_epoch |-> 1, pending |-> {"r"},
     catalog_path |-> <<1, 1>>, checkpoint_path |-> <<1, 2>>, root_attributes |-> "a",
     directories |-> <<[path |-> <<1>>, attributes |-> "a"]>>,
     objects |-> <<File(<<1, 1>>, "catalog", 2), File(<<1, 2>>, "checkpoint", 0),
                   File(<<2>>, "journal", 1)>>]
Good == [content |-> Content, canonical |-> TRUE]

\* Manifests no reader may go on with.
MCManifests ==
    [good    |-> Good,
     spaced  |-> [Good EXCEPT !.canonical = FALSE],
     settled |-> [Good EXCEPT !.content.pending = {}],
     old     |-> [Good EXCEPT !.content.generation = 1],
     bare    |-> [Good EXCEPT !.content.directories = <<>>],
     short   |-> [Good EXCEPT !.content.objects[1].size = 3],
     clash   |-> [Good EXCEPT !.content.objects[3].path = <<1>>],
     below   |-> [Good EXCEPT !.content.objects[3].path = <<1, 2, 1>>],
     lost    |-> [Good EXCEPT !.content.objects[3].kind = "audit"]]
Digests == DOMAIN MCManifests

AnchorOf(m) ==
    [node |-> "n1", generation |-> 2, trust_epoch |-> 1, manifest |-> m,
     pending |-> {"r"}, issued |-> 3, expires |-> 6]

Key(i, p, d, r, rev) ==
    [id |-> i, public_key |-> p, domain |-> d, role |-> r, revoked |-> rev]

TrustOf(keys, threshold) ==
    [node |-> "n1", trust_epoch |-> 1, min_generation |-> 2, threshold |-> threshold,
     max_anchor_lifetime |-> 3, keys |-> keys]

Ids     == {<<"k1", "k2", "k3">>, <<"k1", "k2", "k2">>}
Holders == {<<"p1", "p2", "p3">>, <<"p1", "p2", "p2">>}
Domains == {<<"d1", "d2", "d3">>, <<"d1", "d2", "d1">>}
RoleSets == {<<"recovery", "witness", "witness">>, <<"recovery", "recovery", "witness">>,
          <<"witness", "witness", "witness">>}
Revoked == {<<FALSE, FALSE, FALSE>>, <<FALSE, TRUE, FALSE>>, <<FALSE, FALSE, TRUE>>}

Policies == {TrustOf([n \in 1 .. 3 |-> Key(i[n], p[n], d[n], r[n], v[n])], t) :
               i \in Ids, p \in Holders, d \in Domains, r \in RoleSets, v \in Revoked, t \in 2 .. 3}

\* Who signed what, under which name: each holder over this anchor or another,
\* a forgery, and a key the policy does not list.
SignaturesOver(a) ==
    {[key |-> "k1", by |-> "p1", over |-> a], [key |-> "k2", by |-> "p2", over |-> a],
     [key |-> "k3", by |-> "p2", over |-> a], [key |-> "k3", by |-> "p3", over |-> a],
     [key |-> "k1", by |-> "p1", over |-> [a EXCEPT !.generation = 1]],
     [key |-> "k4", by |-> "p4", over |-> a]}

Request(a, sigs, t, pin, now, explicit, copies) ==
    [envelope |-> [anchor |-> a, signatures |-> sigs], trust |-> t, pinned |-> pin,
     now |-> now, explicit |-> explicit, copies |-> copies]

Plain == TrustOf(<<Key("k1", "p1", "d1", "recovery", FALSE), Key("k2", "p2", "d2", "witness", FALSE)>>, 2)
Signed(a) == <<[key |-> "k1", by |-> "p1", over |-> a], [key |-> "k2", by |-> "p2", over |-> a]>>

\* Every policy with every list of up to three signatures.
Counting ==
    LET a == AnchorOf("good") IN
    {Request(a, s, t, a, 4, "good", <<Unreadable>>) :
       s \in UNION {[1 .. n -> SignaturesOver(a)] : n \in 2 .. 3}, t \in Policies}

\* A good policy and signatures, with every wrong anchor, pin, time or copy.
Choosing ==
    LET g == AnchorOf("good") IN
    {Request(a, Signed(a), t, IF pinned THEN a ELSE AnchorOf("old"), now, explicit, <<c1, c2>>) :
       a \in {g, [g EXCEPT !.generation = 3], [g EXCEPT !.trust_epoch = 2],
              [g EXCEPT !.node = "n2"], [g EXCEPT !.expires = 7]} \cup {AnchorOf(m) : m \in Digests},
       t \in {Plain, [Plain EXCEPT !.min_generation = 3]},
       pinned \in BOOLEAN, now \in {2, 3, 5, 6},
       explicit \in {Unreadable, "good"},
       c1 \in {Unreadable} \cup Digests, c2 \in {Unreadable, "good"}}

MCRequests == Counting \cup Choosing
=============================================================================
