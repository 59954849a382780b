---------------------------- MODULE StopBarrier ----------------------------
(***************************************************************************)
(* MC_Stop_Barrier: before a change, every member of an inventory has to   *)
(* be drained, by the word of its own agent, or isolated, by the word of   *)
(* an independent fence observer.  Reports are signed and stamped with the *)
(* receiver's clock; they are lost, repeated, delayed and reordered.  When *)
(* all members are accounted for, the barrier is sealed, and it may be     *)
(* used as long as it is Usable.                                           *)
(*                                                                         *)
(* Around it: members that dispatch effects, stop, restart, and are        *)
(* reopened by somebody; a receiver that reboots, with its clock going     *)
(* back; and the policies, each for one boot of the receiver and one       *)
(* incarnation of each member.                                             *)
(***************************************************************************)
EXTENDS Integers, Sequences, FiniteSets

CONSTANTS
    Members,      \* (node, resource) pairs of the inventory
    Paths,        \* Required_Isolation_Paths
    MaximumAge,
    Lifetimes,    \* of reports: Expires_At - Observed_At
    MaxTime,      \* bound: the receiver's clock
    MaxReports,   \* bound: reports made
    MaxPolicies,  \* bound: barriers authorized
    MaxReboots,   \* bound: of the receiver
    MaxRestarts,  \* bound: of members, all together
    MaxRegressions \* bound: queues and paths opened again

ASSUME BarrierAssumption ==
    /\ IsFiniteSet(Members) /\ Paths # {} /\ MaximumAge \in Nat \ {0} /\ Lifetimes \subseteq Nat \ {0}
    /\ {MaxTime, MaxReports, MaxPolicies, MaxReboots, MaxRestarts, MaxRegressions} \subseteq Nat

VARIABLES
    member,    \* [boot, closed, latch, busy, isolated, retired]
    boot, now, \* of the receiver
    policies,  \* barriers authorized so far; the last one is the current policy
    state,     \* the State of the barrier
    sent,      \* reports made, in order: any of them may arrive at any time, or never
    heard,     \* history: reports of this barrier that arrived while they were fresh
    lastQuiet, \* history: when the member was last quiet, as <<boot, now>>
    reopened,  \* history: members whose queue or path was opened again
    count      \* bounds: [restarts, regressions]

vars == <<member, boot, now, policies, state, sent, heard, lastQuiet, reopened, count>>

\* A receipt that is still awaited.  Proof is the number of the report that it is
\* the digest of.
Awaited == [current |-> "awaiting", node |-> 0, fence |-> 0, observed |-> 0, expires |-> 0, proof |-> 0]

NoState == [policy |-> 0, current |-> "collecting", last |-> 0,
            members |-> [k \in Members |-> Awaited]]

\* Nothing of the member has any effect any more, for the moment.
Quiet(m) == (m.closed /\ ~m.busy) \/ Paths \subseteq m.isolated

Init ==
    /\ member = [k \in Members |-> [boot |-> 1, closed |-> FALSE, latch |-> FALSE, busy |-> FALSE,
                                    isolated |-> {}, retired |-> FALSE]]
    /\ boot = 1 /\ now = 1
    /\ policies = <<>> /\ state = NoState
    /\ sent = <<>> /\ heard = {}
    /\ lastQuiet = [k \in Members |-> <<0, 0>>]
    /\ reopened = {}
    /\ count = [restarts |-> 0, regressions |-> 0]

-----------------------------------------------------------------------------
(* MC_Time_Guard and MC_Stop_Barrier, as predicates                        *)

\* MC_Time_Guard.Fresh
Fresh(stamp, at, instant) ==
    /\ stamp.boot = at
    /\ stamp.observed <= instant /\ stamp.expires > instant /\ stamp.expires > stamp.observed
    /\ stamp.expires - stamp.observed <= MaximumAge
    /\ instant - stamp.observed <= MaximumAge

ValidReceipt(r, current, last) ==
    /\ r.current = "awaiting" => r = Awaited
    /\ r.current = "acknowledged" => r.node > 0
    /\ r.current = "isolated" => r.fence > 0
    /\ r.current = "uncertain" => current = "blocked"
    /\ r.current # "awaiting" => /\ r.proof > 0 /\ r.expires > r.observed /\ r.observed <= last
                                 /\ r.node > 0 \/ r.fence > 0
    /\ current = "sealed" => r.current \in {"acknowledged", "isolated"}

Valid(s) == s.policy > 0 /\ \A k \in Members : ValidReceipt(s.members[k], s.current, s.last)

\* What Ready asks of each receipt at instant t.
Stands(r, t) ==
    /\ r.current \in {"acknowledged", "isolated"}
    /\ r.observed <= t /\ r.expires > t
    /\ r.expires - r.observed <= MaximumAge /\ t - r.observed <= MaximumAge

\* Fault: a state is not compared with the policy it was made for.
ReadyForAny(p, s, t) ==
    /\ Valid(s) /\ s.current # "blocked"
    /\ t >= s.last
    /\ \A k \in Members : Stands(s.members[k], t)

Ready(p, s, t) ==
    /\ Valid(s) /\ s.current # "blocked"
    /\ s.policy = p
    /\ t >= s.last
    /\ \A k \in Members : Stands(s.members[k], t)

Usable(p, s, t) == s.current = "sealed" /\ Ready(p, s, t)

-----------------------------------------------------------------------------
(* The receiver                                                            *)

Current == Len(policies)

\* A policy that was authorized in this boot: no other one is used.
InForce == Current > 0 /\ policies[Current].boot = boot

\* Whoever authorizes a barrier names the boots of the receiver and of the members.
Authorize ==
    /\ Current < MaxPolicies
    /\ policies' = Append(policies, [boot |-> boot, of |-> [k \in Members |-> member[k].boot]])
    /\ UNCHANGED <<member, boot, now, state, sent, heard, lastQuiet, reopened, count>>

\* Initialize, once for each policy.
Initialize ==
    /\ InForce /\ state.policy # Current
    /\ state' = [NoState EXCEPT !.policy = Current]
    /\ heard' = {}
    /\ UNCHANGED <<member, boot, now, policies, sent, lastQuiet, reopened, count>>

\* Report i is one for this barrier, and may be considered at all.
Admissible(i) ==
    LET e == sent[i]
    IN  /\ InForce /\ state.policy = Current /\ Valid(state)
        /\ e.policy = Current
        /\ e.subject = policies[Current].of[e.member]
        /\ now >= state.last
        /\ Fresh(e.stamp, policies[Current].boot, now)

\* The receipt that report i makes of r.
Receipt(r, i) ==
    LET e == sent[i]
    IN  [r EXCEPT ![e.source] = i, !.proof = i,
                  !.observed = e.stamp.observed, !.expires = e.stamp.expires,
                  !.current = CASE ~e.clean -> "uncertain"
                                [] e.clean /\ e.source = "node"  -> "acknowledged"
                                [] e.clean /\ e.source = "fence" -> "isolated"]

\* Fault: reports of one instant count as one.
ContinuesLater(r, i) ==
    /\ sent[i].stamp.observed > r.observed
    /\ i > r[sent[i].source]
    /\ sent[i].clean /\ sent[i].source = "node" => r.current # "isolated"

\* Report i comes after what is known of its member: not before it by the clock,
\* later in its own channel, and not a node's own word against its isolation.
Continues(r, i) ==
    /\ sent[i].stamp.observed >= r.observed
    /\ i > r[sent[i].source]
    /\ sent[i].clean /\ sent[i].source = "node" => r.current # "isolated"

\* Observe, of a report whose signature verified.
Observe(i) ==
    LET k == sent[i].member
    IN  /\ Admissible(i)
        /\ heard' = heard \cup {i}
        /\ IF state.current # "blocked" /\ Continues(state.members[k], i)
           THEN state' = [state EXCEPT !.members[k] = Receipt(@, i), !.last = now,
                                       !.current = IF sent[i].clean THEN @ ELSE "blocked"]
           ELSE UNCHANGED state
        /\ UNCHANGED <<member, boot, now, policies, sent, lastQuiet, reopened, count>>

Seal ==
    /\ InForce
    /\ state.current = "collecting" /\ Ready(Current, state, now)
    /\ state' = [state EXCEPT !.current = "sealed", !.last = now]
    /\ UNCHANGED <<member, boot, now, policies, sent, heard, lastQuiet, reopened, count>>

\* Time passes, and quiet members are quiet then too.
Tick ==
    /\ now < MaxTime /\ now' = now + 1
    /\ lastQuiet' = [k \in Members |-> IF Quiet(member[k]) THEN <<boot, now + 1>> ELSE lastQuiet[k]]
    /\ UNCHANGED <<member, boot, policies, state, sent, heard, reopened, count>>

\* State and policies are on disk; the clock begins anywhere.
Reboot ==
    /\ boot <= MaxReboots /\ boot' = boot + 1
    /\ now' \in 1..MaxTime
    /\ lastQuiet' = [k \in Members |-> IF Quiet(member[k]) THEN <<boot', now'>> ELSE lastQuiet[k]]
    /\ UNCHANGED <<member, policies, state, sent, heard, reopened, count>>

-----------------------------------------------------------------------------
(* The members, and who watches them                                       *)

Becomes(k, m) ==
    /\ member' = [member EXCEPT ![k] = m]
    /\ lastQuiet' = IF Quiet(m) THEN [lastQuiet EXCEPT ![k] = <<boot, now>>] ELSE lastQuiet
    /\ UNCHANGED <<boot, now, policies, state, sent, heard>>

Dispatch(k) ==
    /\ ~member[k].closed /\ ~member[k].busy
    /\ Becomes(k, [member[k] EXCEPT !.busy = TRUE])
    /\ UNCHANGED <<reopened, count>>

Complete(k) ==
    /\ member[k].busy
    /\ Becomes(k, [member[k] EXCEPT !.busy = FALSE])
    /\ UNCHANGED <<reopened, count>>

CloseQueue(k) ==
    /\ ~member[k].closed
    /\ Becomes(k, [member[k] EXCEPT !.closed = TRUE])
    /\ UNCHANGED <<reopened, count>>

Latch(k) ==
    /\ member[k].closed /\ ~member[k].latch
    /\ Becomes(k, [member[k] EXCEPT !.latch = TRUE])
    /\ UNCHANGED <<reopened, count>>

Isolate(k, path) ==
    /\ path \notin member[k].isolated
    /\ Becomes(k, [member[k] EXCEPT !.isolated = @ \cup {path}])
    /\ UNCHANGED <<reopened, count>>

Retire(k) ==
    /\ Paths \subseteq member[k].isolated /\ ~member[k].retired
    /\ Becomes(k, [member[k] EXCEPT !.retired = TRUE])
    /\ UNCHANGED <<reopened, count>>

\* A new incarnation: its queue is closed only by the durable latch, and its paths
\* are cut only if it was retired for good.
Restart(k) ==
    /\ count.restarts < MaxRestarts
    /\ Becomes(k, [member[k] EXCEPT !.boot = @ + 1, !.closed = member[k].latch, !.busy = FALSE,
                                    !.isolated = IF member[k].retired THEN @ ELSE {}])
    /\ count' = [count EXCEPT !.restarts = @ + 1]
    /\ UNCHANGED reopened

\* Somebody opens the queue again, or a path.
Reopen(k) ==
    /\ count.regressions < MaxRegressions
    /\ \/ /\ member[k].closed
          /\ Becomes(k, [member[k] EXCEPT !.closed = FALSE, !.latch = FALSE])
       \/ \E path \in member[k].isolated : Becomes(k, [member[k] EXCEPT !.isolated = @ \ {path}, !.retired = FALSE])
    /\ reopened' = reopened \cup {k}
    /\ count' = [count EXCEPT !.regressions = @ + 1]

\* Fault: a queue that is closed and empty counts, whatever a restart makes of it.
DrainedUnlatched(m) == m.closed /\ ~m.busy

\* What Observe asks of a node agent's report: the queue is closed and the latch
\* durable, nothing is in flight or unknown, and all that was dispatched is complete.
Drained(m) == m.latch /\ m.closed /\ ~m.busy

\* What it asks of a fence observer's: all paths are cut, and for good.
Fenced(m) == m.retired /\ Paths \subseteq m.isolated

\* A report on member k under the current policy, of what it is like now.  Its place
\* in `sent' is its sequence number.
Report(k, source, lifetime) ==
    /\ InForce /\ Len(sent) < MaxReports
    /\ sent' = Append(sent,
           [member |-> k, source |-> source, policy |-> Current, subject |-> member[k].boot,
            stamp |-> [boot |-> boot, observed |-> now, expires |-> now + lifetime],
            clean |-> IF source = "node" THEN Drained(member[k]) ELSE Fenced(member[k])])
    /\ UNCHANGED <<member, boot, now, policies, state, heard, lastQuiet, reopened, count>>

-----------------------------------------------------------------------------

Next ==
    \/ Authorize \/ Initialize \/ Seal \/ Tick \/ Reboot
    \/ \E i \in DOMAIN sent : Observe(i)
    \/ \E k \in Members :
         \/ Dispatch(k) \/ Complete(k) \/ CloseQueue(k) \/ Latch(k) \/ Retire(k) \/ Restart(k) \/ Reopen(k)
         \/ \E path \in Paths : Isolate(k, path)
         \/ \E lifetime \in Lifetimes : Report(k, "node", lifetime) \/ Report(k, "fence", lifetime)

Spec == Init /\ [][Next]_vars

-----------------------------------------------------------------------------

CanUse == InForce /\ Usable(Current, state, now)

\* MC_Stop_Barrier.Valid: what Observe promises of the state, under any order of
\* reports.
StateValid == state.policy > 0 => Valid(state)

\* When the barrier can be used, each member that nobody has reopened has no effect
\* any more: no effect was under way when it was reported stopped, and neither its
\* restart nor a policy of another boot or incarnation has brought it back since.
UsableMeansQuiet == CanUse => \A k \in Members \ reopened : Quiet(member[k])

\* Also a member that somebody did reopen was quiet less than MaximumAge ago, on
\* the clock of this boot, whatever reports are lost or come late.
UsableWasQuiet ==
    CanUse => \A k \in Members : lastQuiet[k][1] = boot /\ now - lastQuiet[k][2] < MaximumAge

\* docs/stop-barrier.ja.md, a negative observation that is right in its signature,
\* generation and time invalidates a seal: in whatever order reports arrive, none
\* that says a member is not stopped has arrived fresh and been made after both what
\* its receipt stands on and the last report taken from the same source.
NegativeRevokes ==
    CanUse => \A i \in heard :
        LET r == state.members[sent[i].member]
        IN  sent[i].clean \/ i < r.proof \/ i < r[sent[i].source]
=============================================================================
