------------------------- MODULE MCReceiverReplay -------------------------
(***************************************************************************)
(* Every log of up to MaxLength records over a few requests.               *)
(***************************************************************************)
EXTENDS ReceiverReplay

MCIds == {"a", "b", "c"}
MCWorks == {"w"}

R(id, epoch, token, seq) ==
    [id |-> id, work |-> "w", action |-> "apply", epoch |-> epoch,
     token |-> token, seq |-> seq, rev |-> 1, boot |-> 1, deadline |-> 9]

\* Three of one fence, two of which share the identity; one whose epoch alone
\* is higher; the first number of a higher token, and one of a lower epoch.
MCRequests == {R("a", 1, 1, 1), R("b", 1, 1, 2), R("b", 1, 1, 3),
               R("c", 2, 1, 1), R("a", 2, 2, 1), R("c", 1, 3, 1)}
=============================================================================
