----------------------------- MODULE ProofGuard -----------------------------
(***************************************************************************)
(* The processes of a proof run: run_command (run-engineering-checks.py)   *)
(* starts proof-guard.py in a session of its own, supervise starts the     *)
(* tool in another, and the tool forks solvers, some into process groups   *)
(* of their own.  Several jobs contend for the lock in /tmp.  Processes    *)
(* exit, are orphaned, adopted by the subreaper, killed and reaped; a PID  *)
(* that was reaped is given to whoever forks next, strangers included; the *)
(* guard itself may be shot by the kernel or the user.                     *)
(*                                                                         *)
(* Time is counted in the guard's sampling interval: guard and runner each *)
(* look once and sleep until the next Tick.                                *)
(***************************************************************************)
EXTENDS Integers, FiniteSets

CONSTANTS
    Jobs,       \* proof runs, each a guard and whoever started it
    Watched,    \* those that run_command started; the others a shell did
    Pids,       \* PIDs there are
    Strangers,  \* whether other programs run on the machine
    Seconds,    \* supervise's wall-time limit
    Timeout,    \* run_command's time limit
    Cleanup,    \* how long stop_children tries
    Grace,      \* termination_grace: from SIGTERM to SIGKILL
    Patience    \* how long the runner waits for a killed child

ASSUME JobsAssumption == Watched \subseteq Jobs
ASSUME PidsAssumption == Pids \subseteq Nat \ {0} /\ IsFiniteSet(Pids)
ASSUME TimesAssumption ==
    /\ {Seconds, Timeout, Cleanup, Grace, Patience} \subseteq Nat \ {0}
    /\ Cleanup + 1 < Grace      \* 5 s and a sample against 6 s

Init0  == 0       \* the parent of orphans nobody else adopts
Runner == -1      \* the parent of guards
NoPid  == -2

VARIABLES
    proc,     \* the process table
    guard,    \* supervise, by job
    runner,   \* run_command, by job
    shot      \* jobs whose guard was killed by somebody else

vars == <<proc, guard, runner, shot>>

Free == [job |-> NoPid, role |-> "free", state |-> "none", parent |-> Init0, group |-> NoPid,
         killed |-> FALSE, term |-> FALSE, lock |-> FALSE, code |-> 0]

Process(j, role, parent, group) ==
    [Free EXCEPT !.job = j, !.role = role, !.state = "running", !.parent = parent, !.group = group]

Running(p) == proc[p].state = "running"
Zombie(p)  == proc[p].state = "zombie"

Init ==
    /\ proc = [p \in Pids |-> Free]
    /\ guard = [j \in Jobs |-> [pc |-> "none", pid |-> NoPid, child |-> NoPid, reason |-> "none", rc |-> NoPid,
                                todo |-> {}, left |-> 0, fd |-> FALSE, result |-> "not-run"]]
    /\ runner = [j \in Jobs |-> [pc |-> "start", left |-> 0, reason |-> "none", result |-> "not-run"]]
    /\ shot = {}

-----------------------------------------------------------------------------
(* The kernel                                                              *)

\* A new process gets the lowest free PID: reuse at once is the worst case.
FreePids == {p \in Pids : proc[p].role = "free" /\ \A q \in Pids : q < p => proc[q].role # "free"}

Children(p) == {c \in Pids : proc[c].role # "free" /\ proc[c].parent = p}

Guarding(j) == guard[j].pid # NoPid /\ guard[j].pc # "end"

\* Fault: a guard that never became a subreaper.
AdopterInit(j) == Init0

\* The subreaper an orphan of this job goes to: its guard while it lives.
Adopter(j) ==
    IF Guarding(j) /\ Running(guard[j].pid) THEN guard[j].pid ELSE Init0

\* Process p ends: its descriptors are closed and its children adopted; whoever
\* is init's child is reaped at once.
Ended(p, c) ==
    LET heir == IF proc[p].role = "guard" THEN Init0 ELSE Adopter(proc[p].job)
        adopted(q) == proc[q].role # "free" /\ proc[q].parent = p
    IN  [q \in Pids |->
           IF q = p
           THEN IF proc[p].parent = Init0 THEN Free
                ELSE [Free EXCEPT !.job = proc[p].job, !.role = proc[p].role, !.state = "zombie",
                        !.parent = proc[p].parent, !.code = IF proc[p].role = "tool" THEN 0 ELSE c]
           ELSE IF adopted(q)
           THEN IF heir = Init0 /\ Zombie(q) THEN Free ELSE [proc[q] EXCEPT !.parent = heir]
           ELSE proc[q]]

\* The flock on the lock file is held by everyone who has the descriptor.
LockedBy == {j \in Jobs : guard[j].fd \/ \E p \in Pids : proc[p].job = j /\ proc[p].lock}

Dying(p) == Running(p) /\ proc[p].killed

\* A signal reaches only processes that have not ended.
Killed(S) == [p \in Pids |-> IF p \in S /\ Running(p) THEN [proc[p] EXCEPT !.killed = TRUE] ELSE proc[p]]
Group(g)  == {p \in Pids : proc[p].role # "free" /\ proc[p].group = g}

Die(p) ==
    /\ Dying(p)
    /\ proc' = Ended(p, 9)
    /\ IF proc[p].role = "guard"
       THEN guard' = [guard EXCEPT ![proc[p].job] =
                        [@ EXCEPT !.pc = "end", !.fd = FALSE, !.child = NoPid, !.rc = NoPid, !.todo = {}, !.left = 0]]
       ELSE UNCHANGED guard
    /\ UNCHANGED <<runner, shot>>

-----------------------------------------------------------------------------
(* The tool and strangers                                                  *)

Tool(p) == proc[p].role \in {"leader", "tool"} /\ Running(p) /\ ~proc[p].killed

\* A solver: in its parent's group or in its own, with the inherited lock
\* descriptor or without.
Fork(p) ==
    /\ Tool(p)
    /\ \E c \in FreePids, own \in BOOLEAN, keeps \in BOOLEAN :
         proc' = [proc EXCEPT ![c] =
                    [Process(proc[p].job, "tool", p, IF own THEN c ELSE proc[p].group)
                       EXCEPT !.lock = keeps /\ proc[p].lock]]
    /\ UNCHANGED <<guard, runner, shot>>

Exit(p) ==
    /\ Tool(p)
    /\ \E c \in {0, 1} : proc' = Ended(p, c)
    /\ UNCHANGED <<guard, runner, shot>>

\* A tool waits for a child of its own.
ToolReaps(p) ==
    /\ Tool(p)
    /\ \E c \in Children(p) : Zombie(c) /\ proc' = [proc EXCEPT ![c] = Free]
    /\ UNCHANGED <<guard, runner, shot>>

\* A process that has nothing to do with any of this.
Stranger ==
    /\ Strangers
    /\ \/ \E c \in FreePids : proc' = [proc EXCEPT ![c] = Process(NoPid, "other", Init0, c)]
       \/ \E p \in Pids : proc[p].role = "other" /\ proc' = [proc EXCEPT ![p] = Free]
    /\ UNCHANGED <<guard, runner, shot>>

\* The kernel's OOM killer, or a user, sends the guard SIGKILL.
Shoot(j) ==
    /\ Guarding(j) /\ Running(guard[j].pid) /\ j \notin shot
    /\ shot' = shot \cup {j}
    /\ proc' = Killed({guard[j].pid})
    /\ UNCHANGED <<guard, runner>>

-----------------------------------------------------------------------------
(* supervise                                                               *)

\* The guard of job j gets to run, and is at pc.
At(j, pc) ==
    /\ guard[j].pc = pc /\ ~Dying(guard[j].pid)

GoOn(j, pc) == guard' = [guard EXCEPT ![j].pc = pc]

\* acquire_lock and the checks before the start.
Acquire(j) ==
    /\ At(j, "acquire")
    /\ \/ /\ LockedBy = {}
          /\ guard' = [guard EXCEPT ![j].pc = "spawn", ![j].fd = TRUE]
       \/ /\ LockedBy # {}
          /\ guard' = [guard EXCEPT ![j].pc = "release", ![j].reason = "not-started"]
    /\ UNCHANGED <<proc, runner, shot>>

NoMemory(j) ==
    /\ At(j, "spawn")
    /\ guard' = [guard EXCEPT ![j].pc = "release", ![j].reason = "not-started"]
    /\ UNCHANGED <<proc, runner, shot>>

\* Fault: the tool without the lock descriptor.
SpawnUnlocked(j) ==
    /\ At(j, "spawn")
    /\ \E c \in FreePids :
         /\ proc' = [proc EXCEPT ![c] = Process(j, "leader", guard[j].pid, c)]
         /\ guard' = [guard EXCEPT ![j].pc = "watch", ![j].child = c, ![j].left = Seconds]
    /\ UNCHANGED <<runner, shot>>

\* The tool in a new session, with the lock descriptor passed on.
Spawn(j) ==
    /\ At(j, "spawn")
    /\ \E c \in FreePids :
         /\ proc' = [proc EXCEPT ![c] = [Process(j, "leader", guard[j].pid, c) EXCEPT !.lock = TRUE]]
         /\ guard' = [guard EXCEPT ![j].pc = "watch", ![j].child = c, ![j].left = Seconds]
    /\ UNCHANGED <<runner, shot>>

\* Fault: poll() in place of waitid: an ended tool is reaped before its group is killed.
WatchReaping(j) ==
    /\ At(j, "watch")
    /\ IF Zombie(guard[j].child)
       THEN /\ proc' = [proc EXCEPT ![guard[j].child] = Free]
            /\ guard' = [guard EXCEPT ![j].pc = "killpg"]
       ELSE GoOn(j, "watching") /\ UNCHANGED proc
    /\ UNCHANGED <<runner, shot>>

\* One look: a signal first, then memory and time, and only then whether the
\* tool has exited; it is not reaped here.
Watch(j) ==
    /\ At(j, "watch")
    /\ LET over(reason) == guard' = [guard EXCEPT ![j].pc = "killpg", ![j].reason = reason, ![j].left = 0] IN
         IF proc[guard[j].pid].term \/ guard[j].left = 0 THEN over("stopped")
         ELSE \/ over("stopped")
              \/ Zombie(guard[j].child) /\ over("none")
              \/ ~Zombie(guard[j].child) /\ GoOn(j, "watching")
    /\ UNCHANGED <<proc, runner, shot>>

\* stop_children: SIGKILL to the tool's group, whose number its unreaped leader
\* keeps taken.
KillGroup(j) ==
    /\ At(j, "killpg")
    /\ proc' = Killed(Group(guard[j].child))
    /\ guard' = [guard EXCEPT ![j].pc = "list", ![j].left = Cleanup]
    /\ UNCHANGED <<runner, shot>>

\* One turn of its loop: list the children, ...
ListChildren(j) ==
    /\ At(j, "list")
    /\ guard' = [guard EXCEPT ![j].todo = Children(guard[j].pid) \ {guard[j].child}, ![j].pc = "sweep"]
    /\ UNCHANGED <<proc, runner, shot>>

\* ... kill each but the leader, and reap it if it has ended.
KillChild(j) ==
    /\ At(j, "sweep")
    /\ \E c \in guard[j].todo :
         /\ guard' = [guard EXCEPT ![j].todo = @ \ {c}]
         /\ proc' = IF Zombie(c) /\ proc[c].parent = guard[j].pid
                    THEN [proc EXCEPT ![c] = Free] ELSE Killed({c})
    /\ UNCHANGED <<runner, shot>>

\* Done when the ended leader is the only child left: it is reaped last.
ReapLeader(j) ==
    /\ At(j, "sweep") /\ guard[j].todo = {}
    /\ Zombie(guard[j].child) /\ Children(guard[j].pid) = {guard[j].child}
    /\ proc' = [proc EXCEPT ![guard[j].child] = Free]
    /\ guard' = [guard EXCEPT ![j].pc = "release", ![j].rc = proc[guard[j].child].code, ![j].left = 0]
    /\ UNCHANGED <<runner, shot>>

KeepSweeping(j) ==
    /\ At(j, "sweep") /\ guard[j].todo = {}
    /\ ~(Zombie(guard[j].child) /\ Children(guard[j].pid) = {guard[j].child})
    /\ guard' = IF guard[j].left = 0
                THEN [guard EXCEPT ![j].pc = "release", ![j].reason = "cleanup-failed"]
                ELSE [guard EXCEPT ![j].pc = "sweeping"]
    /\ UNCHANGED <<proc, runner, shot>>

\* The lock descriptor is closed, the verdict given, and the guard exits.
Release(j) ==
    /\ At(j, "release")
    /\ LET pass == guard[j].reason = "none" /\ guard[j].rc = 0 IN
         /\ guard' = [guard EXCEPT ![j] = [@ EXCEPT !.pc = "end", !.fd = FALSE, !.child = NoPid, !.rc = NoPid,
                         !.result = IF guard[j].child = NoPid THEN guard[j].result
                                    ELSE IF pass THEN "pass" ELSE "fail"]]
         /\ proc' = Ended(guard[j].pid, IF pass THEN 0 ELSE 1)
    /\ UNCHANGED <<runner, shot>>

GuardStep(j) ==
    \/ Acquire(j) \/ NoMemory(j) \/ Spawn(j) \/ Watch(j) \/ KillGroup(j)
    \/ ListChildren(j) \/ KillChild(j) \/ ReapLeader(j) \/ KeepSweeping(j) \/ Release(j)

-----------------------------------------------------------------------------
(* run_command                                                             *)

Does(j, pc) == runner' = [runner EXCEPT ![j].pc = pc]

StartGuard(j) ==
    /\ runner[j].pc = "start"
    /\ \E c \in FreePids :
         /\ proc' = [proc EXCEPT ![c] = Process(j, "guard", Runner, c)]
         /\ guard' = [guard EXCEPT ![j].pc = "acquire", ![j].pid = c]
    /\ runner' = IF j \in Watched THEN [runner EXCEPT ![j].pc = "read", ![j].left = Timeout]
                 ELSE [runner EXCEPT ![j].pc = "shell"]
    /\ UNCHANGED shot

\* Started by hand, through make: the shell only waits for it.
ShellWaits(j) ==
    /\ runner[j].pc = "shell" /\ Zombie(guard[j].pid)
    /\ proc' = [proc EXCEPT ![guard[j].pid] = Free]
    /\ runner' = [runner EXCEPT ![j].pc = "end"]
    /\ UNCHANGED <<guard, shot>>

\* The log pipe ends when nobody has it any more: every process of the job got
\* it from its parent.
Eof(j) == ~ \E p \in Pids : proc[p].job = j /\ Running(p)

\* The child has exited and its output has ended; or the time, or the room for
\* the log, is over.  The child is not reaped before its group was signalled.
ReadLog(j) ==
    /\ runner[j].pc = "read"
    /\ LET over(reason) == runner' = [runner EXCEPT ![j].pc = "term", ![j].reason = reason, ![j].left = 0] IN
         \/ Zombie(guard[j].pid) /\ Eof(j) /\ over("none")
         \/ (runner[j].left = 0 \/ ~Eof(j)) /\ over("stopped")
         \/ runner[j].left > 0 /\ ~(Zombie(guard[j].pid) /\ Eof(j)) /\ Does(j, "reading")
    /\ UNCHANGED <<proc, guard, shot>>

\* Fault: no grace between SIGTERM and SIGKILL.
TermAtOnce(j) ==
    /\ runner[j].pc = "term"
    /\ Does(j, "kill")
    /\ UNCHANGED <<proc, guard, shot>>

\* stop_owned_group: SIGTERM, the grace, SIGKILL, to the guard's own group.
\* Before supervise has its handlers in place SIGTERM ends it.
Term(j) ==
    /\ runner[j].pc = "term"
    /\ proc' = [p \in Pids |->
                  IF p \notin Group(guard[j].pid) \/ ~Running(p) THEN proc[p]
                  ELSE IF guard[j].pc \in {"acquire", "spawn"} THEN [proc[p] EXCEPT !.killed = TRUE]
                  ELSE [proc[p] EXCEPT !.term = TRUE]]
    /\ runner' = [runner EXCEPT ![j].pc = "grace", ![j].left = Grace]
    /\ UNCHANGED <<guard, shot>>

Kill(j) ==
    /\ runner[j].pc = "kill"
    /\ proc' = Killed(Group(guard[j].pid))
    /\ runner' = [runner EXCEPT ![j].pc = "wait", ![j].left = Patience]
    /\ UNCHANGED <<guard, shot>>

\* Fault: wait() without a timeout, for the output's end as well.
WaitForEof(j) ==
    /\ runner[j].pc = "wait"
    /\ IF Eof(j)
       THEN /\ proc' = [proc EXCEPT ![guard[j].pid] = Free]
            /\ runner' = [runner EXCEPT ![j].pc = "end", ![j].left = 0]
       ELSE Does(j, "waiting") /\ UNCHANGED proc
    /\ UNCHANGED <<guard, shot>>

Wait(j) ==
    /\ runner[j].pc = "wait"
    /\ \/ /\ Zombie(guard[j].pid)
          /\ proc' = [proc EXCEPT ![guard[j].pid] = Free]
          /\ runner' = [runner EXCEPT ![j].pc = "end", ![j].left = 0,
               ![j].result = IF runner[j].reason # "none" THEN "fail"
                             ELSE IF proc[guard[j].pid].code = 0 THEN "pass" ELSE "fail"]
       \/ /\ ~Zombie(guard[j].pid) /\ runner[j].left = 0
          /\ runner' = [runner EXCEPT ![j].pc = "end", ![j].result = "timeout"]
          /\ UNCHANGED proc
       \/ /\ ~Zombie(guard[j].pid) /\ runner[j].left > 0
          /\ Does(j, "waiting")
          /\ UNCHANGED proc
    /\ UNCHANGED <<guard, shot>>

RunnerStep(j) == ShellWaits(j) \/ ReadLog(j) \/ Term(j) \/ Kill(j) \/ Wait(j)

-----------------------------------------------------------------------------

\* Those who sleep, and where they wake up.
Asleep == [watching |-> "watch", sweeping |-> "list", reading |-> "read", waiting |-> "wait"]

Less(n) == IF n > 0 THEN n - 1 ELSE 0

\* Time passes when everyone who is awake has looked and gone to sleep again.
Tick ==
    /\ \A j \in Jobs : /\ guard[j].pc \notin {"watching", "sweeping", "none", "end"} => Dying(guard[j].pid)
                       /\ runner[j].pc \in {"reading", "waiting", "grace", "start", "shell", "end"}
    /\ \E j \in Jobs : runner[j].pc \notin {"start", "end"}
    /\ guard' = [j \in Jobs |->
         [guard[j] EXCEPT !.pc = IF @ \in DOMAIN Asleep THEN Asleep[@] ELSE @, !.left = Less(@)]]
    /\ runner' = [j \in Jobs |->
         [runner[j] EXCEPT !.left = Less(@),
                           !.pc = CASE @ \in DOMAIN Asleep                    -> Asleep[@]
                                    [] @ = "grace" /\ runner[j].left <= 1     -> "kill"
                                    [] OTHER                                  -> @]]
    /\ UNCHANGED <<proc, shot>>

Next ==
    \/ \E p \in Pids : Fork(p) \/ Exit(p) \/ ToolReaps(p) \/ Die(p)
    \/ Stranger
    \/ \E j \in Jobs : Shoot(j) \/ GuardStep(j) \/ StartGuard(j) \/ RunnerStep(j)
    \/ Tick

\* Guards, runners and the clock go on; a killed process ends.  Nothing is
\* assumed of the tool, and nobody is made to start a proof.
Fairness ==
    /\ \A j \in Jobs : WF_vars(GuardStep(j)) /\ WF_vars(RunnerStep(j))
    /\ \A p \in Pids : WF_vars(Die(p))
    /\ WF_vars(Tick)

Spec == Init /\ [][Next]_vars /\ Fairness

-----------------------------------------------------------------------------

\* Processes of the tool tree of job j that still run.
Tree(j) == {p \in Pids : proc[p].job = j /\ proc[p].role \in {"leader", "tool"} /\ Running(p)}

\* Whoever is left of a job after its guard gave up, or was shot.
Abandoned(j) == j \in shot \/ guard[j].reason = "cleanup-failed"

\* No two proofs run side by side: while the tool of one job runs, no process of
\* another job's tool does, except what a shot guard or a failed cleanup left
\* behind; and even then the two tools themselves never overlap, because the
\* lock descriptor they were given outlives the guard.
OneProof ==
    \A j, k \in Jobs : j # k =>
        /\ Tree(j) = {} \/ Tree(k) = {} \/ Abandoned(j) \/ Abandoned(k)
        /\ ~ \E p \in Tree(j), q \in Tree(k) : proc[p].role = "leader" /\ proc[q].role = "leader"

\* A run that passed, for the guard or for the runner, has left no process of
\* the tool running, in whatever group.
PassLeavesNothing ==
    \A j \in Jobs : guard[j].result = "pass" \/ runner[j].result = "pass" => Tree(j) = {}

\* Nobody else's process is ever killed, however PIDs are reused.
OnlyOwn == \A p \in Pids : proc[p].role = "other" => ~proc[p].killed /\ ~proc[p].term

\* By the time the runner sends SIGKILL a guard that had started the tool has
\* cleaned up and is gone, and nothing of the tool runs: the two deadlines never
\* leave a half-stopped tree to itself.
GraceIsEnough ==
    \A j \in Jobs : runner[j].pc = "kill" /\ ~Abandoned(j) =>
        (guard[j].pc = "end" \/ guard[j].child = NoPid) /\ Tree(j) = {}

\* Every run comes to an end, whatever the tool does and whoever is shot; and
\* then the lock is free again, with every process that had the descriptor, unless
\* the guard was shot or its cleanup failed.
RunsEnd ==
    \A j \in Jobs : runner[j].pc # "start" ~>
        runner[j].pc = "end" /\ (j \notin LockedBy \/ Abandoned(j))
=============================================================================
