---------------------------- MODULE MCProofGuard ----------------------------
(***************************************************************************)
(* A small instance of ProofGuard: job 1 is run by run_command on a        *)
(* machine with strangers, and jobs 2 and 3 are started by hand and        *)
(* contend for the lock.                                                   *)
(***************************************************************************)
EXTENDS ProofGuard

Started == {j \in Jobs : runner[j].pc # "start"}

\* Either is a behaviour of its own: with strangers besides two proofs, three
\* PIDs would leave none for the tools.
Company ==
    \/ Started \subseteq {1}
    \/ Started \in {{2}, {2, 3}} /\ \A p \in Pids : proc[p].role # "other"

\* Only these two can leave it, and of neither is any fairness assumed.
MCNext ==
    \/ \E p \in Pids : Fork(p) \/ Exit(p) \/ ToolReaps(p) \/ Die(p)
    \/ Stranger /\ Company'
    \/ \E j \in Jobs : Shoot(j) \/ GuardStep(j) \/ RunnerStep(j)
    \/ \E j \in Jobs : StartGuard(j) /\ Company'
    \/ Tick

MCSpec == Init /\ [][MCNext]_vars /\ Fairness
=============================================================================
