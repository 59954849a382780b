-------------------------- MODULE MCRequestLedger --------------------------
(***************************************************************************)
(* Small instances of RequestLedger: the one of the finding, and one in    *)
(* which every behaviour keeps to one of three scenarios.                  *)
(***************************************************************************)
EXTENDS RequestLedger, TLC

\* A request of the first boot, the first policy and no deadline that passes.
Req(id, work, action, seq) ==
    [id |-> id, work |-> work, action |-> action, epoch |-> 1, token |-> 1,
     seq |-> seq, rev |-> 1, boot |-> 1, deadline |-> 9]

OnBoot(r, b)  == [r EXCEPT !.boot = b]
Until(r, t)   == [r EXCEPT !.deadline = t]
Under(r, pol) == [r EXCEPT !.epoch = pol.epoch, !.token = pol.token, !.rev = pol.serial]

\* A policy, its successor under the same fence, and one with a new fence.
Policy1 == [serial |-> 1, epoch |-> 1, token |-> 1]
Policy2 == [serial |-> 2, epoch |-> 1, token |-> 1]
Policy3 == [serial |-> 3, epoch |-> 1, token |-> 2]

OnePolicy == {Policy1}
Rotation  == {Policy1, Policy2, Policy3}

ProcSymmetry == Permutations(Procs)

MCIds == {"a", "b", "c", "d", "e", "f", "g"}
MCWorks == {"w", "x"}

Apply == Req("a", "w", "apply", 1)

\* Crashes, torn tails and reboots on one fence: new work; a recovery and
\* repairs of it, one after a reboot; a repair of other work; identities that
\* come back with other content.
CrashRequests == {
    Apply,
    Req("b", "w", "recover", 2),
    Req("b", "x", "repair", 2),
    Req("c", "w", "repair", 2),
    OnBoot(Req("d", "w", "repair", 2), 2),
    Req("a", "w", "reconcile", 3) }

\* New work and the repair of its torn record.
CasRequests == { Apply, Req("c", "w", "repair", 2), Req("c", "w", "repair", 1) }

\* Two processes while the policy is rotated: new work and its recovery under
\* each fence, and recoveries signed for the first policy and delivered late,
\* one of them for the boot after a power loss that may bring that policy back.
RaceRequests == {
    Apply,
    Under(Req("b", "w", "recover", 2), Policy2),
    Req("c", "w", "recover", 3),
    OnBoot(Req("c", "w", "recover", 3), 2),
    Under(Req("d", "w", "recover", 1), Policy3),
    Under(Req("e", "x", "apply", 1), Policy3) }

\* As little room as new work can start in: one request, recoveries of it
\* one after another, a repair with a deadline, and unrelated new work.
RoomRequests == {
    Apply, Req("b", "w", "recover", 2), Req("c", "w", "reconcile", 3),
    Req("d", "w", "recover", 4), Until(Req("f", "w", "repair", 2), 1),
    Req("g", "x", "prepare", 2) }

AllRequests == CrashRequests \union RaceRequests \union RoomRequests
-----------------------------------------------------------------------------

\* The requests there is a trace of, and how many processes are at work.
Seen ==
    ({session[p].req : p \in Procs} \union {f.req : f \in files}
        \union {journal[i].req : i \in 1..Len(journal)}) \ {NoRequest}

Alone == \A p, q \in Procs : session[p] # Closed /\ session[q] # Closed => p = q

\* Bounds of the scenarios, beside those of the configuration.
Crash == Seen \subseteq CrashRequests /\ Alone /\ policy = Policy1 /\ now = 0
Race  == Seen \subseteq RaceRequests /\ faults <= 1 /\ now = 0
Room  == /\ Seen \subseteq RoomRequests /\ Alone /\ policy = Policy1 /\ boot = 1
         /\ now > 0 => faults <= 1

Within == Crash \/ Race \/ Room

\* A session that goes on, Observe and PolicyLapse cannot leave a scenario.
MCNext ==
    \/ \E p \in Procs :
        \/ Step(p)
        \/ Start(p) /\ Within'
        \/ TearRecord(p) /\ Within'
        \/ Fail(p) /\ Within'
    \/ Observe
    \/ PolicyLapse
    \/ PowerLoss /\ Within'
    \/ Tick /\ Within'
    \/ \E q \in Policies : RotatePolicy(q) /\ Within'

MCSpec == Init /\ [][MCNext]_vars
=============================================================================
