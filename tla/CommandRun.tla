----------------------------- MODULE CommandRun -----------------------------
(***************************************************************************)
(* MC_Command.Run: a helper is started with its input and output in pipes  *)
(* and a deadline, its process group is killed when it is over, and what   *)
(* it said is returned.  From the fork on, with the two processes, a       *)
(* descendant of the helper that keeps its output open, the pipes, and the *)
(* clock; the parent may itself be killed at any time.                     *)
(*                                                                         *)
(* A pipe carries units that are counted.  kill(-pgid) takes a group as it *)
(* is at one moment, which is what the kernel's lock on its tasks gives.   *)
(* A process that was sent SIGKILL does nothing any more, and may still    *)
(* take any time to be gone.                                               *)
(***************************************************************************)
EXTENDS Integers

CONSTANTS
    InputLength,    \* units of Input
    MaxOutput,      \* Max_Output
    PipeRoom,       \* what a pipe holds
    Deadline,       \* of the invocation, on this clock
    Grace,          \* how long Terminate_Child waits
    MaxProduced     \* bound: units the helper and its descendant write

ASSUME CommandAssumption ==
    {InputLength, MaxOutput, Deadline, Grace, MaxProduced} \subseteq Nat /\ PipeRoom \in Nat \ {0}

VARIABLES
    run,    \* the parent in Run: [pc, inOpen, written, used, outOpen, polled, exited, state,
            \*                     complete, stopAt, status]
    leader, \* the child: [at, doomed, watched, code]
    other,  \* a descendant in its group: [at, out, doomed]
    pipe,   \* [in, out]: units in each
    made,   \* units written to the output so far
    now,
    hit     \* history: a signal was sent to a PID that was reaped

vars == <<run, leader, other, pipe, made, now, hit>>

\* The child was just forked; its input pipe is closed if there is nothing to send.
Init ==
    /\ run = [pc |-> "setup", inOpen |-> InputLength > 0, written |-> 0, used |-> 0, outOpen |-> TRUE,
              polled |-> FALSE, exited |-> FALSE, state |-> "not_started", complete |-> TRUE,
              stopAt |-> 0, status |-> "none"]
    /\ leader = [at |-> "born", doomed |-> FALSE, watched |-> FALSE, code |-> 0]
    /\ other = [at |-> "none", out |-> FALSE, doomed |-> FALSE]
    /\ pipe = [in |-> 0, out |-> 0] /\ made = 0
    /\ now = 0 /\ hit = FALSE

-----------------------------------------------------------------------------
(* Processes and pipes                                                     *)

Killed == 9

LeaderLives == leader.at \notin {"zombie", "reaped"}
InGroup == leader.at \in {"session", "helper", "zombie"}
OutputHeld == LeaderLives \/ (other.at = "alive" /\ other.out)

ChildStep == LeaderLives /\ ~leader.doomed /\ UNCHANGED <<run, now, hit>>

\* Fault: the parent may have died before the child asked to be told.
WatchUnchecked ==
    /\ ChildStep /\ leader.at = "born"
    /\ leader' = [leader EXCEPT !.watched = TRUE, !.at = "checked"]
    /\ UNCHANGED <<other, pipe, made>>

\* prctl(PR_SET_PDEATHSIG).
Watch ==
    /\ ChildStep /\ leader.at = "born"
    /\ leader' = [leader EXCEPT !.watched = TRUE, !.at = "watching"]
    /\ UNCHANGED <<other, pipe, made>>

\* Getppid: the parent is still there, or the child is gone with 126.
CheckParent ==
    /\ ChildStep /\ leader.at = "watching"
    /\ leader' = IF run.pc # "dead" THEN [leader EXCEPT !.at = "checked"]
                 ELSE [leader EXCEPT !.at = "zombie", !.code = 126]
    /\ UNCHANGED <<other, pipe, made>>

StartSession ==
    /\ ChildStep /\ leader.at = "checked"
    /\ leader' = [leader EXCEPT !.at = "session"]
    /\ UNCHANGED <<other, pipe, made>>

\* Execveat, or anything before it fails.
Execute ==
    /\ ChildStep /\ leader.at = "session"
    /\ leader' \in {[leader EXCEPT !.at = "helper"], [leader EXCEPT !.at = "zombie", !.code = 127]}
    /\ UNCHANGED <<other, pipe, made>>

HelperReads ==
    /\ ChildStep /\ leader.at = "helper" /\ pipe.in > 0
    /\ pipe' = [pipe EXCEPT !.in = @ - 1]
    /\ UNCHANGED <<leader, other, made>>

Writable == pipe.out < PipeRoom /\ made < MaxProduced

HelperWrites ==
    /\ ChildStep /\ leader.at = "helper" /\ Writable
    /\ pipe' = [pipe EXCEPT !.out = @ + 1] /\ made' = made + 1
    /\ UNCHANGED <<leader, other>>

HelperForks ==
    /\ ChildStep /\ leader.at = "helper" /\ other.at = "none"
    /\ other' = [at |-> "alive", out |-> TRUE, doomed |-> FALSE]
    /\ UNCHANGED <<leader, pipe, made>>

HelperExits(code) ==
    /\ ChildStep /\ leader.at = "helper"
    /\ leader' = [leader EXCEPT !.at = "zombie", !.code = code]
    /\ UNCHANGED <<other, pipe, made>>

OtherStep == other.at = "alive" /\ ~other.doomed /\ UNCHANGED <<run, leader, now, hit>>

OtherWrites ==
    /\ OtherStep /\ other.out /\ Writable
    /\ pipe' = [pipe EXCEPT !.out = @ + 1] /\ made' = made + 1
    /\ UNCHANGED other

OtherCloses ==
    /\ OtherStep /\ other.out /\ other' = [other EXCEPT !.out = FALSE]
    /\ UNCHANGED <<pipe, made>>

OtherExits ==
    /\ OtherStep /\ other' = [other EXCEPT !.at = "gone"]
    /\ UNCHANGED <<pipe, made>>

\* What was killed is gone at some time.
LeaderDies ==
    /\ leader.doomed /\ LeaderLives
    /\ leader' = [leader EXCEPT !.at = "zombie", !.code = Killed]
    /\ UNCHANGED <<run, other, pipe, made, now, hit>>

OtherDies ==
    /\ other.doomed /\ other.at = "alive" /\ other' = [other EXCEPT !.at = "gone"]
    /\ UNCHANGED <<run, leader, pipe, made, now, hit>>

Helper ==
    \/ Watch \/ CheckParent \/ StartSession \/ Execute
    \/ HelperReads \/ HelperWrites \/ HelperForks \/ HelperExits(0) \/ HelperExits(1)
    \/ OtherWrites \/ OtherCloses \/ OtherExits \/ LeaderDies \/ OtherDies

-----------------------------------------------------------------------------
(* Run                                                                     *)

Goto(pc) == run' = [run EXCEPT !.pc = pc]
Still == UNCHANGED <<leader, other, pipe, made, now, hit>>

\* Over to Terminate_Child, with this as the state so far.
Stop(state) == run' = [run EXCEPT !.pc = "kill", !.state = state]

\* Pidfd_Open and the flags of the pipes.
SetUp ==
    /\ run.pc = "setup"
    /\ Goto("poll") \/ Stop("unknown")
    /\ Still

\* The clock, and Poll: which may say that the child is gone, or nothing.
PollThem ==
    /\ run.pc = "poll"
    /\ IF now >= Deadline THEN Stop("timed_out")
       ELSE \/ \E gone \in {FALSE, leader.at = "zombie"} :
               run' = [run EXCEPT !.pc = "read", !.polled = gone]
            \/ Stop("unknown")
    /\ Still

\* Read, until there is nothing more for now, or too much.
ReadOutput ==
    /\ run.pc = "read"
    /\ \/ ~run.outOpen /\ Goto("write") /\ UNCHANGED pipe
       \/ /\ run.outOpen /\ pipe.out > 0 /\ pipe' = [pipe EXCEPT !.out = 0]
          /\ IF pipe.out > MaxOutput - run.used THEN Stop("output_limit")
             ELSE run' = [run EXCEPT !.used = @ + pipe.out]
       \/ /\ run.outOpen /\ pipe.out = 0
          /\ run' = [run EXCEPT !.pc = "write", !.outOpen = OutputHeld]
          /\ UNCHANGED pipe
    /\ UNCHANGED <<leader, other, made, now, hit>>

\* Write of the next unit, once.
Send ==
    /\ pipe.in < PipeRoom
    /\ pipe' = [pipe EXCEPT !.in = @ + 1]
    /\ run' = [run EXCEPT !.pc = "check", !.written = @ + 1, !.inOpen = run.written + 1 < InputLength]

\* Fault: the descriptor is left to block.
WriteAll ==
    /\ run.pc = "write"
    /\ \/ ~run.inOpen /\ Goto("check") /\ UNCHANGED pipe
       \/ run.inOpen /\ LeaderLives /\ Send
       \/ run.inOpen /\ ~LeaderLives /\ run' = [run EXCEPT !.pc = "check", !.inOpen = FALSE] /\ UNCHANGED pipe
    /\ UNCHANGED <<leader, other, made, now, hit>>

WriteInput ==
    /\ run.pc = "write"
    /\ \/ ~run.inOpen /\ Goto("check") /\ UNCHANGED pipe
       \/ run.inOpen /\ LeaderLives /\ Send
       \/ run.inOpen /\ LeaderLives /\ pipe.in = PipeRoom /\ Goto("check") /\ UNCHANGED pipe
       \/ run.inOpen /\ ~LeaderLives /\ run' = [run EXCEPT !.pc = "check", !.inOpen = FALSE] /\ UNCHANGED pipe
    /\ UNCHANGED <<leader, other, made, now, hit>>

\* What Poll said of the child; over if it is gone and the output has ended.
Check ==
    /\ run.pc = "check"
    /\ run' = [run EXCEPT !.exited = @ \/ run.polled,
                          !.pc = IF (run.exited \/ run.polled) /\ ~run.outOpen THEN "kill" ELSE "poll"]
    /\ Still

\* Fault: the leader is only killed as one of its group.
KillNobody ==
    /\ run.pc = "kill" /\ Goto("killpg")
    /\ Still

KillLeader ==
    /\ run.pc = "kill" /\ Goto("killpg")
    /\ leader' = [leader EXCEPT !.doomed = @ \/ LeaderLives]
    /\ hit' = (hit \/ leader.at = "reaped")
    /\ UNCHANGED <<other, pipe, made, now>>

\* No such group, if the child is not so far or is reaped.
KillGroup ==
    /\ run.pc = "killpg"
    /\ run' = [run EXCEPT !.pc = "wait", !.stopAt = now]
    /\ leader' = [leader EXCEPT !.doomed = @ \/ (LeaderLives /\ InGroup)]
    /\ other' = [other EXCEPT !.doomed = @ \/ other.at = "alive"]
    /\ hit' = (hit \/ leader.at = "reaped")
    /\ UNCHANGED <<pipe, made, now>>

Reap ==
    /\ leader.at = "zombie"
    /\ leader' = [leader EXCEPT !.at = "reaped"]
    /\ Goto("conclude")

\* Waitpid, for at most Grace.
Wait ==
    /\ run.pc = "wait"
    /\ \/ Reap
       \/ /\ now - run.stopAt >= Grace /\ leader.at # "zombie"
          /\ run' = [run EXCEPT !.pc = "conclude", !.complete = FALSE]
          /\ UNCHANGED leader
    /\ UNCHANGED <<other, pipe, made, now, hit>>

Answer(state) ==
    run' = [run EXCEPT !.pc = "ended", !.state = state,
                       !.status = IF state = "exited" /\ leader.code = 0 /\ run.written = InputLength
                                  THEN "ok" ELSE "not_ok"]

ByCode == IF leader.code = Killed THEN "signalled" ELSE "exited"

\* Fault: the child's own exit counts, even if it was about to be killed.
ConcludeByCode ==
    /\ run.pc = "conclude"
    /\ Answer(IF run.complete THEN ByCode ELSE "unknown")
    /\ Still

\* R.State and Status: as it was forced to end, or as the child ended.
Conclude ==
    /\ run.pc = "conclude"
    /\ Answer(IF ~run.complete THEN "unknown"
              ELSE IF run.state = "not_started" THEN ByCode ELSE run.state)
    /\ Still

Parent ==
    SetUp \/ PollThem \/ ReadOutput \/ WriteInput \/ Check \/ KillLeader \/ KillGroup \/ Wait \/ Conclude

\* SIGKILL to the parent: a child that watches for it gets it too.
ParentDies ==
    /\ run.pc \notin {"dead", "ended"} /\ Goto("dead")
    /\ leader' = [leader EXCEPT !.doomed = @ \/ (LeaderLives /\ leader.watched)]
    /\ UNCHANGED <<other, pipe, made, now, hit>>

\* Time beyond the deadline, and beyond Grace after that, makes no difference.
Tick ==
    /\ now < Deadline \/ (run.pc = "wait" /\ now < run.stopAt + Grace)
    /\ now' = now + 1
    /\ UNCHANGED <<run, leader, other, pipe, made, hit>>

Next == Parent \/ Helper \/ ParentDies \/ Tick

\* The scheduler runs a parent that can run, and time passes.
Spec == Init /\ [][Next]_vars /\ WF_vars(Parent) /\ WF_vars(Tick)

-----------------------------------------------------------------------------

\* An answer of OK means that the helper was given its whole input and ended with 0 of
\* its own accord, and that everything it and its descendants ever wrote was returned.
OkIsWhole ==
    run.status = "ok" => leader.code = 0 /\ run.written = InputLength /\ run.used = made

\* mc_command.ads, group cleanup: once Run has returned with anything but Unknown,
\* nobody of the group runs any more, or ever will; and on the way there no `reaped
\* PID/PGID', which `may be reused', was signalled.
GroupGone ==
    /\ run.pc = "ended" /\ run.state # "unknown" =>
           leader.at = "reaped" /\ (other.at = "alive" => other.doomed)
    /\ ~hit

\* mc_command.adb, `kill the command helper when its authorizing parent dies': no
\* helper is left running or is about to start, wherever in the fork it happens.
NoOrphan ==
    run.pc = "dead" /\ LeaderLives => leader.doomed \/ leader.at \in {"born", "watching"}

\* Run returns, whatever the helper does or does not do, even if it cannot be killed.
RunEnds == <>(run.pc \in {"ended", "dead"})

=============================================================================
