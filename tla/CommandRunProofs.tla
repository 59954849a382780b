-------------------------- MODULE CommandRunProofs --------------------------
(***************************************************************************)
(* Proofs about CommandRun, for every length of the input, every limit of  *)
(* the output, every size of a pipe, every deadline and grace.             *)
(*                                                                         *)
(*   Output     what was written is returned or still in the pipe, and an  *)
(*              output that has ended cannot begin again                   *)
(*   Ending     what Terminate_Child did by each step of the parent, and   *)
(*              that nothing of the group starts any more after it         *)
(*   Watched    a child that may start the helper watches its parent       *)
(***************************************************************************)
EXTENDS CommandRun, TLAPS

Running == {"setup", "poll", "read", "write", "check"}
Ending  == {"kill", "killpg", "wait", "conclude"}
Forced  == {"unknown", "timed_out", "output_limit"}
Starting == {"born", "watching", "checked", "session", "helper"}

Runs == [pc : Running \cup Ending \cup {"ended", "dead"}, inOpen : BOOLEAN, written : Nat, used : Nat,
         outOpen : BOOLEAN, polled : BOOLEAN, exited : BOOLEAN,
         state : {"not_started", "exited", "signalled"} \cup Forced,
         complete : BOOLEAN, stopAt : Nat, status : {"none", "ok", "not_ok"}]
Leaders == [at : Starting \cup {"zombie", "reaped"}, doomed : BOOLEAN, watched : BOOLEAN, code : Nat]
Others  == [at : {"none", "alive", "gone"}, out : BOOLEAN, doomed : BOOLEAN]
Pipes   == [in : Nat, out : Nat]

\* What the variables hold.
TypeOK ==
    /\ run \in Runs /\ leader \in Leaders /\ other \in Others /\ pipe \in Pipes
    /\ made \in Nat /\ now \in Nat /\ hit \in BOOLEAN

\* Unless the parent gave up on it, every unit that was written is returned or in the
\* pipe; once the parent has seen the end of the output, nobody can write any more.
Output ==
    /\ run.state \notin {"output_limit", "unknown"} => made = run.used + pipe.out
    /\ ~run.outOpen => ~OutputHeld /\ pipe.out = 0

\* Until Run returns the state is one that was forced, or none; and none only if the
\* output has ended.  An answer of OK is given when the helper cannot change any more.
Concluded ==
    /\ run.pc \notin {"ended", "dead"} => run.state \in {"not_started"} \cup Forced /\ run.status = "none"
    /\ run.pc \in Running => run.state = "not_started"
    /\ run.pc \in Ending /\ run.state = "not_started" => ~run.outOpen
    /\ run.status = "ok" => /\ run.pc = "ended" /\ run.state = "exited" /\ ~run.outOpen
                            /\ leader.code = 0 /\ run.written = InputLength
    /\ run.pc = "dead" => run.status = "none"

\* The child is reaped by Wait and nothing else; what was alive when the group was
\* killed is on its way out, and starts nothing.
Ended ==
    /\ leader.at = "reaped" => run.pc \in {"conclude", "ended", "dead"}
    /\ run.pc = "conclude" /\ run.complete => leader.at = "reaped"
    /\ run.pc = "ended" /\ run.state # "unknown" => leader.at = "reaped"
    /\ run.pc \in {"killpg", "wait", "conclude", "ended"} /\ LeaderLives => leader.doomed
    /\ run.pc \in {"wait", "conclude", "ended"} /\ other.at = "alive" => other.doomed
    /\ ~hit

\* Past prctl the child watches its parent; past Getppid, with a parent that is dead,
\* it has been told.
Watched ==
    /\ leader.at \in Starting \ {"born"} => leader.watched
    /\ run.pc = "dead" /\ leader.at \in {"checked", "session", "helper"} => leader.doomed

CommandInv == TypeOK /\ Output /\ Concluded /\ Ended /\ Watched

-----------------------------------------------------------------------------
(* The steps, one case each                                                *)

PollLate  == run.pc = "poll" /\ now >= Deadline /\ Stop("timed_out") /\ Still
PollFails == run.pc = "poll" /\ Stop("unknown") /\ Still
PollSays(gone) == run.pc = "poll" /\ run' = [run EXCEPT !.pc = "read", !.polled = gone] /\ Still

ReadClosed == run.pc = "read" /\ ~run.outOpen /\ Goto("write") /\ Still

ReadTooMuch ==
    /\ run.pc = "read" /\ run.outOpen /\ pipe' = [pipe EXCEPT !.out = 0] /\ Stop("output_limit")
    /\ UNCHANGED <<leader, other, made, now, hit>>

ReadSome ==
    /\ run.pc = "read" /\ run.outOpen /\ pipe' = [pipe EXCEPT !.out = 0]
    /\ run' = [run EXCEPT !.used = @ + pipe.out]
    /\ UNCHANGED <<leader, other, made, now, hit>>

ReadNone ==
    /\ run.pc = "read" /\ run.outOpen /\ pipe.out = 0
    /\ run' = [run EXCEPT !.pc = "write", !.outOpen = OutputHeld]
    /\ Still

WriteNothing == run.pc = "write" /\ Goto("check") /\ Still
WriteUnit    == run.pc = "write" /\ Send /\ UNCHANGED <<leader, other, made, now, hit>>
WriteBroken  == run.pc = "write" /\ run' = [run EXCEPT !.pc = "check", !.inOpen = FALSE] /\ Still

\* What Poll may say.
LEMMA PollCases == PollThem => PollLate \/ PollFails \/ \E gone \in BOOLEAN : PollSays(gone)
  BY DEF PollThem, PollLate, PollFails, PollSays

\* What there may be to read.
LEMMA ReadCases == ReadOutput => ReadClosed \/ ReadTooMuch \/ ReadSome \/ ReadNone
  BY DEF ReadOutput, ReadClosed, ReadTooMuch, ReadSome, ReadNone, Still

\* What may become of a unit of the input.
LEMMA WriteCases == WriteInput => WriteNothing \/ WriteUnit \/ WriteBroken
  BY DEF WriteInput, WriteNothing, WriteUnit, WriteBroken, Still

\* Every step is one of these.
LEMMA Steps ==
    ASSUME [Next]_vars
    PROVE  \/ SetUp \/ PollLate \/ PollFails \/ (\E gone \in BOOLEAN : PollSays(gone))
           \/ ReadClosed \/ ReadTooMuch \/ ReadSome \/ ReadNone
           \/ WriteNothing \/ WriteUnit \/ WriteBroken
           \/ Check \/ KillLeader \/ KillGroup \/ Wait \/ Conclude
           \/ Watch \/ CheckParent \/ StartSession \/ Execute
           \/ HelperReads \/ HelperWrites \/ HelperForks \/ HelperExits(0) \/ HelperExits(1)
           \/ OtherWrites \/ OtherCloses \/ OtherExits \/ LeaderDies \/ OtherDies
           \/ ParentDies \/ Tick \/ UNCHANGED vars
  BY PollCases, ReadCases, WriteCases, Zenon DEF Next, Parent, Helper

-----------------------------------------------------------------------------
(* Every step keeps each part                                              *)

\* Every step keeps the types.
LEMMA TypeStep == TypeOK /\ [Next]_vars => TypeOK'
<1> SUFFICES ASSUME TypeOK, [Next]_vars PROVE TypeOK'
  OBVIOUS
<1> USE DEF TypeOK, Running, Ending, Forced, Starting
<1>1. CASE SetUp
  BY <1>1 DEF SetUp, Goto, Stop, Still, Runs
<1>2. CASE PollLate \/ PollFails
  BY <1>2 DEF PollLate, PollFails, Stop, Still, Runs
<1>3. CASE \E gone \in BOOLEAN : PollSays(gone)
  BY <1>3 DEF PollSays, Still, Runs
<1>4. CASE ReadClosed
  BY <1>4 DEF ReadClosed, Goto, Still, Runs
<1>5. CASE ReadTooMuch
  BY <1>5 DEF ReadTooMuch, Stop, Runs, Pipes
<1>6. CASE ReadSome
  BY <1>6 DEF ReadSome, Runs, Pipes
<1>7. CASE ReadNone
  <2>1. OutputHeld \in BOOLEAN
    BY DEF OutputHeld
  <2> QED
    BY <1>7, <2>1 DEF ReadNone, Still, Runs
<1>8. CASE WriteNothing
  BY <1>8 DEF WriteNothing, Goto, Still, Runs
<1>9. CASE WriteUnit
  <2>1. (run.written + 1 < InputLength) \in BOOLEAN /\ run.written + 1 \in Nat
    BY DEF Runs
  <2>2. run' \in Runs
    BY <1>9, <2>1 DEF WriteUnit, Send, Runs
  <2> QED
    BY <1>9, <2>2 DEF WriteUnit, Send, Pipes
<1>10. CASE WriteBroken
  BY <1>10 DEF WriteBroken, Still, Runs
<1>11. CASE Check
  BY <1>11 DEF Check, Still, Runs
<1>12. CASE KillLeader
  BY <1>12 DEF KillLeader, Goto, Runs, Leaders
<1>13. CASE KillGroup
  BY <1>13 DEF KillGroup, Runs, Leaders, Others
<1>14. CASE Wait
  BY <1>14 DEF Wait, Reap, Goto, Runs, Leaders
<1>15. CASE Conclude
  BY <1>15 DEF Conclude, Answer, ByCode, Killed, Still, Runs
<1>16. CASE Watch
  BY <1>16 DEF Watch, ChildStep, Leaders
<1>17. CASE CheckParent
  BY <1>17 DEF CheckParent, ChildStep, Leaders
<1>18. CASE StartSession
  BY <1>18 DEF StartSession, ChildStep, Leaders
<1>19. CASE Execute
  <2>1. leader' = [leader EXCEPT !.at = "helper"] \/ leader' = [leader EXCEPT !.at = "zombie", !.code = 127]
    BY <1>19 DEF Execute
  <2>2. leader' \in Leaders
    <3>1. CASE leader' = [leader EXCEPT !.at = "helper"]
      BY <3>1 DEF Leaders
    <3>2. CASE leader' = [leader EXCEPT !.at = "zombie", !.code = 127]
      BY <3>2 DEF Leaders
    <3> QED
      BY <2>1, <3>1, <3>2
  <2> QED
    BY <1>19, <2>2 DEF Execute, ChildStep
<1>20. CASE HelperReads
  BY <1>20 DEF HelperReads, ChildStep, Pipes
<1>21. CASE HelperWrites
  BY <1>21 DEF HelperWrites, Writable, ChildStep, Pipes
<1>22. CASE HelperForks
  BY <1>22 DEF HelperForks, ChildStep, Others
<1>23. CASE HelperExits(0)
  BY <1>23 DEF HelperExits, ChildStep, Leaders
<1>24. CASE HelperExits(1)
  BY <1>24 DEF HelperExits, ChildStep, Leaders
<1>25. CASE OtherWrites
  BY <1>25 DEF OtherWrites, Writable, OtherStep, Pipes
<1>26. CASE OtherCloses \/ OtherExits
  BY <1>26 DEF OtherCloses, OtherExits, OtherStep, Others
<1>27. CASE LeaderDies
  BY <1>27 DEF LeaderDies, Killed, Leaders
<1>28. CASE OtherDies
  BY <1>28 DEF OtherDies, Others
<1>29. CASE ParentDies
  BY <1>29 DEF ParentDies, Goto, Runs, Leaders
<1>30. CASE Tick
  BY <1>30 DEF Tick
<1>31. CASE UNCHANGED vars
  BY <1>31 DEF vars
<1> QED
  BY <1>1, <1>2, <1>3, <1>4, <1>5, <1>6, <1>7, <1>8, <1>9, <1>10, <1>11,
     <1>12, <1>13, <1>14, <1>15, <1>16, <1>17, <1>18, <1>19, <1>20, <1>21, <1>22,
     <1>23, <1>24, <1>25, <1>26, <1>27, <1>28, <1>29, <1>30, <1>31, Steps, Zenon

\* Every step keeps account of the output.
LEMMA OutputStep == TypeOK /\ Output /\ Concluded /\ [Next]_vars => Output'
<1> SUFFICES ASSUME TypeOK, Output, Concluded, [Next]_vars PROVE Output'
  OBVIOUS
<1> USE DEF TypeOK, Runs, Leaders, Others, Pipes, Running, Ending, Forced, Starting, Output, OutputHeld, LeaderLives
<1>1. CASE SetUp
  BY <1>1 DEF SetUp, Goto, Stop, Still
<1>2. CASE PollLate \/ PollFails
  <2>1. CASE PollLate
    BY <2>1 DEF PollLate, Stop, Still, Concluded
  <2>2. CASE PollFails
    BY <2>2 DEF PollFails, Stop, Still, Concluded
  <2> QED
    BY <1>2, <2>1, <2>2
<1>3. CASE \E gone \in BOOLEAN : PollSays(gone)
  BY <1>3 DEF PollSays, Still
<1>4. CASE ReadClosed
  BY <1>4 DEF ReadClosed, Goto, Still
<1>5. CASE ReadTooMuch
  BY <1>5 DEF ReadTooMuch, Stop
<1>6. CASE ReadSome
  BY <1>6 DEF ReadSome
<1>7. CASE ReadNone
  BY <1>7 DEF ReadNone, Still
<1>8. CASE WriteNothing
  BY <1>8 DEF WriteNothing, Goto, Still
<1>9. CASE WriteUnit
  BY <1>9 DEF WriteUnit, Send
<1>10. CASE WriteBroken
  BY <1>10 DEF WriteBroken, Still
<1>11. CASE Check
  BY <1>11 DEF Check, Still
<1>12. CASE KillLeader
  BY <1>12 DEF KillLeader, Goto
<1>13. CASE KillGroup
  BY <1>13 DEF KillGroup
<1>14. CASE Wait
  BY <1>14 DEF Wait, Reap, Goto
<1>15. CASE Conclude
  BY <1>15 DEF Conclude, Answer, ByCode, Killed, Still
<1>16. CASE Watch
  BY <1>16 DEF Watch, ChildStep
<1>17. CASE CheckParent
  BY <1>17 DEF CheckParent, ChildStep
<1>18. CASE StartSession
  BY <1>18 DEF StartSession, ChildStep
<1>19. CASE Execute
  BY <1>19 DEF Execute, ChildStep
<1>20. CASE HelperReads
  BY <1>20 DEF HelperReads, ChildStep
<1>21. CASE HelperWrites
  BY <1>21 DEF HelperWrites, Writable, ChildStep
<1>22. CASE HelperForks
  BY <1>22 DEF HelperForks, ChildStep
<1>23. CASE HelperExits(0)
  BY <1>23 DEF HelperExits, ChildStep
<1>24. CASE HelperExits(1)
  BY <1>24 DEF HelperExits, ChildStep
<1>25. CASE OtherWrites
  BY <1>25 DEF OtherWrites, Writable, OtherStep
<1>26. CASE OtherCloses \/ OtherExits
  BY <1>26 DEF OtherCloses, OtherExits, OtherStep
<1>27. CASE LeaderDies
  BY <1>27 DEF LeaderDies, Killed
<1>28. CASE OtherDies
  BY <1>28 DEF OtherDies
<1>29. CASE ParentDies
  BY <1>29 DEF ParentDies, Goto
<1>30. CASE Tick
  BY <1>30 DEF Tick
<1>31. CASE UNCHANGED vars
  BY <1>31 DEF vars
<1> QED
  BY <1>1, <1>2, <1>3, <1>4, <1>5, <1>6, <1>7, <1>8, <1>9, <1>10, <1>11,
     <1>12, <1>13, <1>14, <1>15, <1>16, <1>17, <1>18, <1>19, <1>20, <1>21, <1>22,
     <1>23, <1>24, <1>25, <1>26, <1>27, <1>28, <1>29, <1>30, <1>31, Steps, Zenon

\* Every step keeps what the state and the answer of Run stand for.
LEMMA ConcludedStep == TypeOK /\ Output /\ Concluded /\ [Next]_vars => Concluded'
<1> SUFFICES ASSUME TypeOK, Output, Concluded, [Next]_vars PROVE Concluded'
  OBVIOUS
<1> USE DEF TypeOK, Runs, Leaders, Others, Pipes, Running, Ending, Forced, Starting, Output, OutputHeld, LeaderLives, Concluded
<1>1. CASE SetUp
  BY <1>1 DEF SetUp, Goto, Stop, Still
<1>2. CASE PollLate \/ PollFails
  <2>1. CASE PollLate
    BY <2>1 DEF PollLate, Stop, Still
  <2>2. CASE PollFails
    BY <2>2 DEF PollFails, Stop, Still
  <2> QED
    BY <1>2, <2>1, <2>2
<1>3. CASE \E gone \in BOOLEAN : PollSays(gone)
  BY <1>3 DEF PollSays, Still
<1>4. CASE ReadClosed
  BY <1>4 DEF ReadClosed, Goto, Still
<1>5. CASE ReadTooMuch
  BY <1>5 DEF ReadTooMuch, Stop
<1>6. CASE ReadSome
  BY <1>6 DEF ReadSome
<1>7. CASE ReadNone
  BY <1>7 DEF ReadNone, Still
<1>8. CASE WriteNothing
  BY <1>8 DEF WriteNothing, Goto, Still
<1>9. CASE WriteUnit
  BY <1>9 DEF WriteUnit, Send
<1>10. CASE WriteBroken
  BY <1>10 DEF WriteBroken, Still
<1>11. CASE Check
  BY <1>11 DEF Check, Still
<1>12. CASE KillLeader
  BY <1>12 DEF KillLeader, Goto
<1>13. CASE KillGroup
  BY <1>13 DEF KillGroup
<1>14. CASE Wait
  <2>1. CASE Reap
    BY <1>14, <2>1 DEF Wait, Reap, Goto
  <2>2. CASE run' = [run EXCEPT !.pc = "conclude", !.complete = FALSE] /\ UNCHANGED leader
    BY <1>14, <2>2 DEF Wait
  <2> QED
    BY <1>14, <2>1, <2>2 DEF Wait
<1>15. CASE Conclude
  BY <1>15 DEF Conclude, Answer, ByCode, Killed, Still
<1>16. CASE Watch
  BY <1>16 DEF Watch, ChildStep
<1>17. CASE CheckParent
  BY <1>17 DEF CheckParent, ChildStep
<1>18. CASE StartSession
  BY <1>18 DEF StartSession, ChildStep
<1>19. CASE Execute
  BY <1>19 DEF Execute, ChildStep
<1>20. CASE HelperReads
  BY <1>20 DEF HelperReads, ChildStep
<1>21. CASE HelperWrites
  BY <1>21 DEF HelperWrites, Writable, ChildStep
<1>22. CASE HelperForks
  BY <1>22 DEF HelperForks, ChildStep
<1>23. CASE HelperExits(0)
  BY <1>23 DEF HelperExits, ChildStep
<1>24. CASE HelperExits(1)
  BY <1>24 DEF HelperExits, ChildStep
<1>25. CASE OtherWrites
  BY <1>25 DEF OtherWrites, Writable, OtherStep
<1>26. CASE OtherCloses \/ OtherExits
  BY <1>26 DEF OtherCloses, OtherExits, OtherStep
<1>27. CASE LeaderDies
  BY <1>27 DEF LeaderDies, Killed
<1>28. CASE OtherDies
  BY <1>28 DEF OtherDies
<1>29. CASE ParentDies
  BY <1>29 DEF ParentDies, Goto
<1>30. CASE Tick
  BY <1>30 DEF Tick
<1>31. CASE UNCHANGED vars
  BY <1>31 DEF vars
<1> QED
  BY <1>1, <1>2, <1>3, <1>4, <1>5, <1>6, <1>7, <1>8, <1>9, <1>10, <1>11,
     <1>12, <1>13, <1>14, <1>15, <1>16, <1>17, <1>18, <1>19, <1>20, <1>21, <1>22,
     <1>23, <1>24, <1>25, <1>26, <1>27, <1>28, <1>29, <1>30, <1>31, Steps, Zenon

\* Every step keeps the order in which the group is ended.
LEMMA EndedStep == TypeOK /\ Concluded /\ Ended /\ [Next]_vars => Ended'
<1> SUFFICES ASSUME TypeOK, Concluded, Ended, [Next]_vars PROVE Ended'
  OBVIOUS
<1> USE DEF TypeOK, Runs, Leaders, Others, Pipes, Running, Ending, Forced, Starting, Concluded, Ended, LeaderLives, InGroup
<1>1. CASE SetUp
  <2>1. CASE Goto("poll")
    BY <1>1, <2>1 DEF SetUp, Goto, Still
  <2>2. CASE Stop("unknown")
    BY <1>1, <2>2 DEF SetUp, Stop, Still
  <2> QED
    BY <1>1, <2>1, <2>2 DEF SetUp
<1>2. CASE PollLate \/ PollFails
  <2>1. CASE PollLate
    BY <2>1 DEF PollLate, Stop, Still
  <2>2. CASE PollFails
    BY <2>2 DEF PollFails, Stop, Still
  <2> QED
    BY <1>2, <2>1, <2>2
<1>3. CASE \E gone \in BOOLEAN : PollSays(gone)
  BY <1>3 DEF PollSays, Still
<1>4. CASE ReadClosed
  BY <1>4 DEF ReadClosed, Goto, Still
<1>5. CASE ReadTooMuch
  BY <1>5 DEF ReadTooMuch, Stop
<1>6. CASE ReadSome
  BY <1>6 DEF ReadSome
<1>7. CASE ReadNone
  BY <1>7 DEF ReadNone, Still
<1>8. CASE WriteNothing
  BY <1>8 DEF WriteNothing, Goto, Still
<1>9. CASE WriteUnit
  BY <1>9 DEF WriteUnit, Send
<1>10. CASE WriteBroken
  BY <1>10 DEF WriteBroken, Still
<1>11. CASE Check
  BY <1>11 DEF Check, Still
<1>12. CASE KillLeader
  BY <1>12 DEF KillLeader, Goto
<1>13. CASE KillGroup
  BY <1>13 DEF KillGroup
<1>14. CASE Wait
  <2>1. CASE Reap
    BY <1>14, <2>1 DEF Wait, Reap, Goto
  <2>2. CASE run' = [run EXCEPT !.pc = "conclude", !.complete = FALSE] /\ UNCHANGED leader
    BY <1>14, <2>2 DEF Wait
  <2> QED
    BY <1>14, <2>1, <2>2 DEF Wait
<1>15. CASE Conclude
  BY <1>15 DEF Conclude, Answer, ByCode, Killed, Still
<1>16. CASE Watch
  BY <1>16 DEF Watch, ChildStep
<1>17. CASE CheckParent
  BY <1>17 DEF CheckParent, ChildStep
<1>18. CASE StartSession
  BY <1>18 DEF StartSession, ChildStep
<1>19. CASE Execute
  BY <1>19 DEF Execute, ChildStep
<1>20. CASE HelperReads
  BY <1>20 DEF HelperReads, ChildStep
<1>21. CASE HelperWrites
  BY <1>21 DEF HelperWrites, Writable, ChildStep
<1>22. CASE HelperForks
  BY <1>22 DEF HelperForks, ChildStep
<1>23. CASE HelperExits(0)
  BY <1>23 DEF HelperExits, ChildStep
<1>24. CASE HelperExits(1)
  BY <1>24 DEF HelperExits, ChildStep
<1>25. CASE OtherWrites
  BY <1>25 DEF OtherWrites, Writable, OtherStep
<1>26. CASE OtherCloses \/ OtherExits
  BY <1>26 DEF OtherCloses, OtherExits, OtherStep
<1>27. CASE LeaderDies
  BY <1>27 DEF LeaderDies, Killed
<1>28. CASE OtherDies
  BY <1>28 DEF OtherDies
<1>29. CASE ParentDies
  BY <1>29 DEF ParentDies, Goto
<1>30. CASE Tick
  BY <1>30 DEF Tick
<1>31. CASE UNCHANGED vars
  BY <1>31 DEF vars
<1> QED
  BY <1>1, <1>2, <1>3, <1>4, <1>5, <1>6, <1>7, <1>8, <1>9, <1>10, <1>11,
     <1>12, <1>13, <1>14, <1>15, <1>16, <1>17, <1>18, <1>19, <1>20, <1>21, <1>22,
     <1>23, <1>24, <1>25, <1>26, <1>27, <1>28, <1>29, <1>30, <1>31, Steps, Zenon

\* Every step keeps the child watching.
LEMMA WatchedStep == TypeOK /\ Watched /\ [Next]_vars => Watched'
<1> SUFFICES ASSUME TypeOK, Watched, [Next]_vars PROVE Watched'
  OBVIOUS
<1> USE DEF TypeOK, Runs, Leaders, Others, Pipes, Running, Ending, Forced, Starting, Watched, LeaderLives
<1>1. CASE SetUp
  BY <1>1 DEF SetUp, Goto, Stop, Still
<1>2. CASE PollLate \/ PollFails
  BY <1>2 DEF PollLate, PollFails, Stop, Still
<1>3. CASE \E gone \in BOOLEAN : PollSays(gone)
  BY <1>3 DEF PollSays, Still
<1>4. CASE ReadClosed
  BY <1>4 DEF ReadClosed, Goto, Still
<1>5. CASE ReadTooMuch
  BY <1>5 DEF ReadTooMuch, Stop
<1>6. CASE ReadSome
  BY <1>6 DEF ReadSome
<1>7. CASE ReadNone
  BY <1>7 DEF ReadNone, Still
<1>8. CASE WriteNothing
  BY <1>8 DEF WriteNothing, Goto, Still
<1>9. CASE WriteUnit
  BY <1>9 DEF WriteUnit, Send
<1>10. CASE WriteBroken
  BY <1>10 DEF WriteBroken, Still
<1>11. CASE Check
  BY <1>11 DEF Check, Still
<1>12. CASE KillLeader
  BY <1>12 DEF KillLeader, Goto
<1>13. CASE KillGroup
  BY <1>13 DEF KillGroup
<1>14. CASE Wait
  BY <1>14 DEF Wait, Reap, Goto
<1>15. CASE Conclude
  BY <1>15 DEF Conclude, Answer, ByCode, Killed, Still
<1>16. CASE Watch
  BY <1>16 DEF Watch, ChildStep
<1>17. CASE CheckParent
  BY <1>17 DEF CheckParent, ChildStep
<1>18. CASE StartSession
  BY <1>18 DEF StartSession, ChildStep
<1>19. CASE Execute
  BY <1>19 DEF Execute, ChildStep
<1>20. CASE HelperReads
  BY <1>20 DEF HelperReads, ChildStep
<1>21. CASE HelperWrites
  BY <1>21 DEF HelperWrites, Writable, ChildStep
<1>22. CASE HelperForks
  BY <1>22 DEF HelperForks, ChildStep
<1>23. CASE HelperExits(0)
  BY <1>23 DEF HelperExits, ChildStep
<1>24. CASE HelperExits(1)
  BY <1>24 DEF HelperExits, ChildStep
<1>25. CASE OtherWrites
  BY <1>25 DEF OtherWrites, Writable, OtherStep
<1>26. CASE OtherCloses \/ OtherExits
  BY <1>26 DEF OtherCloses, OtherExits, OtherStep
<1>27. CASE LeaderDies
  BY <1>27 DEF LeaderDies, Killed
<1>28. CASE OtherDies
  BY <1>28 DEF OtherDies
<1>29. CASE ParentDies
  BY <1>29 DEF ParentDies, Goto
<1>30. CASE Tick
  BY <1>30 DEF Tick
<1>31. CASE UNCHANGED vars
  BY <1>31 DEF vars
<1> QED
  BY <1>1, <1>2, <1>3, <1>4, <1>5, <1>6, <1>7, <1>8, <1>9, <1>10, <1>11,
     <1>12, <1>13, <1>14, <1>15, <1>16, <1>17, <1>18, <1>19, <1>20, <1>21, <1>22,
     <1>23, <1>24, <1>25, <1>26, <1>27, <1>28, <1>29, <1>30, <1>31, Steps, Zenon

-----------------------------------------------------------------------------
(* What holds in every state                                               *)

\* At the fork nothing was written, ended or killed.
LEMMA CommandInit == Init => CommandInv
<1> SUFFICES ASSUME Init PROVE CommandInv
  OBVIOUS
<1>1. TypeOK
  <2>1. (InputLength > 0) \in BOOLEAN
    BY CommandAssumption
  <2>2. run \in Runs
    BY <2>1 DEF Init, Runs, Running, Ending, Forced
  <2> QED
    BY <2>2 DEF Init, TypeOK, Leaders, Others, Pipes, Starting
<1>2. Output
  BY DEF Init, Output
<1>3. Concluded
  BY DEF Init, Concluded, Running, Ending, Forced
<1>4. Ended
  BY DEF Init, Ended
<1>5. Watched
  BY DEF Init, Watched, Starting
<1> QED
  BY <1>1, <1>2, <1>3, <1>4, <1>5 DEF CommandInv

\* The parts together are inductive.
LEMMA CommandNext == CommandInv /\ [Next]_vars => CommandInv'
  BY TypeStep, OutputStep, ConcludedStep, EndedStep, WatchedStep DEF CommandInv

\* The parts hold in every state.
LEMMA CommandAlways == Spec => []CommandInv
  BY CommandInit, CommandNext, PTL DEF Spec

\* An answer of OK is for a helper that had its whole input and ended with 0 by itself,
\* and with everything that was ever written to the output.
THEOREM CommandOkIsWhole == Spec => []OkIsWhole
<1>1. CommandInv => OkIsWhole
  BY DEF CommandInv, TypeOK, Runs, Pipes, Output, Concluded, OkIsWhole
<1> QED
  BY CommandAlways, <1>1, PTL

\* Once Run has returned, with anything but Unknown, the child is reaped and all of its
\* group is dead or dying; and no signal ever went to a PID that was reaped.
THEOREM CommandGroupGone == Spec => []GroupGone
<1>1. CommandInv => GroupGone
  BY DEF CommandInv, Ended, GroupGone
<1> QED
  BY CommandAlways, <1>1, PTL

\* Wherever the parent is killed, no helper is left running or about to start.
THEOREM CommandNoOrphan == Spec => []NoOrphan
<1>1. CommandInv => NoOrphan
  BY DEF CommandInv, TypeOK, Leaders, Starting, Watched, NoOrphan, LeaderLives
<1> QED
  BY CommandAlways, <1>1, PTL

=============================================================================
