-------------------------- MODULE DurableHistory --------------------------
(***************************************************************************)
(* What the receiver promises of its ledger: one history of records that   *)
(* is only ever extended, in which every request is begun at most once and *)
(* an unresolved request gives way to nothing but a recovery of the same   *)
(* work; and effects that belong to the request the history leaves open.   *)
(***************************************************************************)
EXTENDS RequestReplay, SequencesExt

CONSTANT FirstSerial

VARIABLES
    hist,     \* the records on stable storage
    done      \* the requests that had an effect

vars == <<hist, done>>

IsBegun(h, i) == h[i].kind = "begun"

\* Each request identity is begun once.
OnceEach(h) ==
    \A i, j \in 1..Len(h) :
        i # j /\ IsBegun(h, i) /\ IsBegun(h, j) => h[i].req.id # h[j].req.id

\* A request that follows an unresolved one recovers the same work.
Recovers(h) ==
    \A i \in 1..Len(h) - 1 :
        Unresolved(h[i]) /\ IsBegun(h, i + 1)
            => h[i + 1].req.action \in RecoveryActions /\ h[i + 1].req.work = h[i].req.work

Lawful(h) == Replays(h) /\ OnceEach(h) /\ Recovers(h)

Init == hist = <<Genesis(FirstSerial)>> /\ done = {}

\* Several records may reach the disk with one fsync.
Extend ==
    /\ IsStrictPrefix(hist, hist')
    /\ Lawful(hist')
    /\ done' = done

Act(r) ==
    /\ hist[Len(hist)].kind = "begun"
    /\ hist[Len(hist)].req = r
    /\ done' = done \union {r}
    /\ hist' = hist

Next == Extend \/ \E r \in Requests : Act(r)

Spec == Init /\ [][Next]_vars
=============================================================================
