-------------------------- MODULE MCControlLatch --------------------------
(***************************************************************************)
(* A small instance of ControlLatch.                                       *)
(***************************************************************************)
EXTENDS ControlLatch, TLC

MCIds == {"a", "b", "c"}

\* Two operators of different domains, and security in the first one's.
MCSigners == {"op1", "op2", "sec1"}
MCDuty    == [op1 |-> "operations", op2 |-> "operations", sec1 |-> "security"]
MCDomain  == [op1 |-> 1, op2 |-> 2, sec1 |-> 1]

\* One signature; two of the same domain; two that may release the latch.
MCBundles == {{"op1"}, {"op1", "sec1"}, {"op2", "sec1"}}

OfferOf(id, epoch, mode, receipt, ttl) ==
    [id |-> id, epoch |-> epoch, mode |-> mode, receipt |-> receipt, ttl |-> ttl]

\* The first quarantine; a release that may expire; a hold without a receipt,
\* and one in the epoch of the quarantine; a quarantine under an identity that
\* may be used already.
MCOffers == {
    OfferOf("a", 1, "quarantined", FALSE, 9),
    OfferOf("b", 2, "running", TRUE, 1),
    OfferOf("c", 2, "held", FALSE, 9),
    OfferOf("c", 1, "held", TRUE, 9),
    OfferOf("b", 3, "quarantined", FALSE, 9) }

ProcSymmetry == Permutations(Procs)
=============================================================================
