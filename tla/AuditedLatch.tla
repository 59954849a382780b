--------------------------- MODULE AuditedLatch ---------------------------
(***************************************************************************)
(* What controlctl promises of the latch: one history of changes, that     *)
(* starts in quarantine and is only ever extended, one change at a time,   *)
(* by a request never applied before; and an operator who was told that a  *)
(* change is made sees it undone by nothing but a later change.            *)
(***************************************************************************)
EXTENDS ControlModes

VARIABLES
    hist,     \* the changes on stable storage
    told      \* the latest state that a submitter was told of

vars == <<hist, told>>

Init == hist = <<>> /\ told = <<>>

\* One more change, by a request that was not applied before.
Extend ==
    /\ hist' # <<>>
    /\ hist' = Append(hist, Last(hist'))
    /\ Last(hist') \in Change
    /\ Follows(hist, Last(hist'))
    /\ \A i \in 1..Len(hist) : hist[i].id # Last(hist').id

Next ==
    /\ Extend \/ hist' = hist
    /\ told' \in {told, hist'}

Spec == Init /\ [][Next]_vars
===========================================================================
