------------------------- MODULE EngineeringProofs -------------------------
(***************************************************************************)
(* Proofs about EngineeringRun, for any repositories, sources, tests and   *)
(* number of source checks, and any number of edits; and about the proof   *)
(* guard it calls, for any number of jobs, PIDs and processes and any      *)
(* times in which the cleanup fits into the grace.                         *)
(*                                                                         *)
(*   Types     what the variables hold                                     *)
(*   Sources   what each subject says was so when it was read; what a      *)
(*             command saw besides is gone by the time of the second one   *)
(*   Claims    every command that is over left its record                  *)
(*                                                                         *)
(* and of the guards (GuardInv, last section)                              *)
(*                                                                         *)
(*   Table     what an entry of the process table may be                   *)
(*   Parents   whose child a process of a tool is; Rooted: no circle       *)
(*   Watches   what guard and runner stand for, and their PIDs with them   *)
(*   Swept     when nothing of the tool is left                            *)
(*   Locks     who has the lock                                            *)
(*   Hurries   how far a guard that was told to stop has come              *)
(***************************************************************************)
EXTENDS ProofGuard, EngineeringRun, SequenceTheorems, TLAPS

Says    == Contents \cup {Absent}
Results == {"pass", "fail", "not-run"}
Names   == {"identify", "source", "compile-all", "build", "test-build", "flow", "prove"} \cup Tiers
Begun   == {"validate", "due", "running", "after", "conclude"}

Opened  == [file : Files, of : Nat, data : Contents]
Walks   == [repo : 0 .. Len(Repos), todo : SUBSET Files, open : {NotOpen} \cup Opened,
            got : SUBSET (Files \X Contents)]
Options == [mode : {"source", "build", "proof"}, tool : BOOLEAN, observers : BOOLEAN]
Places  == [repo : 0 .. Len(Repos), command : Nat \ {0}]
Reports == [result : {None, "fail", "pass", "incomplete-or-failed"},
            ada : {"not-run", "requested-not-completed", "all-registered-tests-pass"},
            proof : {"not-run", "commands-passed", "failed-or-incomplete"}, written : BOOLEAN]

\* What the variables hold; a subject is only under way when one is taken, and the
\* report has a result only at the end.
RunTypeOK ==
    /\ tree \in [Files -> Says] /\ stamp \in [Files -> Nat]
    /\ former \in [Files -> SUBSET Says] /\ restored \subseteq Files
    /\ options \in Options /\ pc \in {"before", "publish", "end"} \cup Begun
    /\ walk \in Walks /\ (~Walking => walk = NoWalk)
    /\ before \subseteq Files \X Contents /\ after \subseteq Files \X Contents
    /\ at \in Places /\ (pc \in {"before", "validate"} => at = [repo |-> 0, command |-> 1])
    /\ checks \subseteq (0 .. Len(Repos)) \X Nat \X Results
    /\ saw \subseteq Files \X Says
    /\ report \in Reports /\ (report.result # None => pc \in {"publish", "end"})

-----------------------------------------------------------------------------
(* Sources                                                                 *)

\* The subject S says of file f that it holds c, or that it is not there.
Named(S, f, c) == IF c = Absent THEN \A x \in Contents : <<f, x>> \notin S ELSE <<f, c>> \in S

\* File f holds c, or once did.
Held(f, c) == c \in former[f] \cup {tree[f]}

\* Nobody put it back: a file does not hold again what it held before.
Fresh == \A f \in Files : f \notin restored => tree[f] \notin former[f]

Pending(f) == f \in walk.todo \/ (walk.open # NotOpen /\ walk.open.file = f)

\* A walk that will not find file f with content c: it has not found it so, nor is
\* it about to, as far as it has come.
Passes(f, c) ==
    /\ c # Absent => <<f, c>> \notin walk.got /\ ~(walk.open # NotOpen /\ walk.open.file = f /\ walk.open.data = c)
    /\ c = Absent => \A i \in 1 .. walk.repo : f \in Sources[Repos[i]] =>
                         Pending(f) \/ \E x \in Contents : <<f, x>> \in walk.got

\* What the first subject says was so.  (What it finds must be held.)
FirstSubject ==
    /\ pc = "before" => saw = {} /\ \A f \in Files, c \in Says : Held(f, c) \/ Passes(f, c)
    /\ pc \in Begun => \A f \in Files, c \in Says : Named(before, f, c) => Held(f, c)

\* A command saw of file f something else than c, which is what the first subject
\* says of it; and nobody put the file back.
Changed(f, c) ==
    /\ f \notin restored /\ Named(before, f, c)
    /\ \E x \in Says : x # c /\ <<f, x>> \in saw

\* Then c is gone, so the second subject cannot say the same, and the run does
\* not pass.
SecondSubject ==
    \A f \in Files, c \in Says : Changed(f, c) =>
        /\ pc \in Begun => c \in former[f]
        /\ pc = "after" => Passes(f, c)
        /\ pc = "conclude" => ~Named(after, f, c)
        /\ report.result # "pass"

SourcesInv == Fresh /\ FirstSubject /\ SecondSubject

-----------------------------------------------------------------------------
(* Claims                                                                  *)

Recorded(i, c) == \E r \in Results : <<i, c, r>> \in checks

\* Every command before the one that is due left its record, or the tools are not
\* there to be identified, or some record says that something did not pass.
Progress ==
    pc \in {"due", "running"} =>
        /\ pc = "running" => ~Through
        /\ at.repo > 0 => options.tool /\ options.mode # "source"
        /\ \A i \in 0 .. at.repo : \A c \in 1 .. Len(Commands(i)) :
             i < at.repo \/ c < at.command => Recorded(i, c) \/ ~AllPass \/ (i = 0 /\ c = 1 /\ ~options.tool)

\* What the mode of the run asks for is claimed.
ClaimOfMode ==
    /\ options.mode = "build" => report.ada = "all-registered-tests-pass"
    /\ options.mode = "proof" => report.proof = "commands-passed"

\* A claim was earned; once the commands are over, either it was made or some record
\* says why not.
ClaimsInv ==
    /\ Progress
    /\ report.ada = "all-registered-tests-pass" \/ report.proof = "commands-passed" =>
         \A i \in 0 .. Len(Repos) : Earned(i)
    /\ pc \in {"after", "conclude"} /\ AllPass => ClaimOfMode
    /\ report.result = "pass" => ClaimOfMode

-----------------------------------------------------------------------------
(* The steps, one case each                                                *)

\* A step of source_subject, and what it leaves alone.
WalkStep(w) == Walking /\ walk' = w /\ UNCHANGED <<sourceVars, options, at, checks, saw>>

\* A walk that comes upon a file removed or touched meanwhile ends the run.
WalkFails == WalkStep(NoWalk) /\ Fail /\ UNCHANGED <<before, after>>

OpenThere(f) ==
    /\ f \in walk.todo /\ walk.open = NotOpen /\ tree[f] # Absent
    /\ WalkStep([walk EXCEPT !.todo = @ \ {f}, !.open = [file |-> f, of |-> stamp[f], data |-> tree[f]]])
    /\ UNCHANGED <<before, after, pc, report>>

ReadWhole ==
    /\ walk.open # NotOpen
    /\ WalkStep([walk EXCEPT !.open = NotOpen, !.got = @ \cup {<<walk.open.file, walk.open.data>>}])
    /\ UNCHANGED <<before, after, pc, report>>

Walked == walk.todo = {} /\ walk.open = NotOpen /\ walk.repo = Len(Repos)

TakeFirst ==
    /\ Walked /\ WalkStep(NoWalk) /\ pc = "before" /\ before' = walk.got /\ pc' = "validate"
    /\ UNCHANGED <<after, report>>

TakeSecond ==
    /\ Walked /\ WalkStep(NoWalk) /\ pc = "after" /\ after' = walk.got /\ pc' = "conclude"
    /\ UNCHANGED <<before, report>>

\* What engineering.validate, the gate and the comparison of the subjects come to.
Same == UNCHANGED <<sourceVars, options, walk, before, after, saw>>

Valid        == pc = "validate" /\ pc' = "due" /\ checks' = checks \cup {<<0, 0, "pass">>} /\ Same /\ UNCHANGED <<at, report>>
Refused      == pc \in {"validate", "due", "conclude"} /\ Fail /\ Same /\ UNCHANGED <<at, checks>>
GateSource   == pc = "due" /\ options.mode = "source" /\ pc' = "after" /\ Same /\ UNCHANGED <<at, checks, report>>
GateToolless ==
    /\ pc = "due" /\ options.mode # "source"
    /\ checks' = checks \cup {<<i, 1, "not-run">> : i \in DOMAIN Repos}
    /\ report' = IF options.mode = "build" THEN [report EXCEPT !.ada = "requested-not-completed"]
                                           ELSE report
    /\ pc' = "after" /\ Same /\ UNCHANGED at
GateGoes ==
    /\ pc = "due" /\ Through /\ at.repo = 0 /\ options.mode # "source" /\ options.tool
    /\ at' = [repo |-> 1, command |-> 1] /\ Same /\ UNCHANGED <<pc, checks, report>>
Compared ==
    /\ pc = "conclude" /\ before = after
    /\ report' = [report EXCEPT !.result = IF AllPass THEN "pass" ELSE "incomplete-or-failed"]
    /\ pc' = "publish" /\ Same /\ UNCHANGED <<at, checks>>

\* What a walk may come to.
LEMMA WalkCases ==
    /\ \A f \in Files : OpenFile(f) => WalkFails \/ OpenThere(f)
    /\ ReadFile => WalkFails \/ ReadWhole
    /\ TakeSubject => TakeFirst \/ TakeSecond
  BY DEF OpenFile, ReadFile, TakeSubject, WalkFails, OpenThere, ReadWhole, TakeFirst, TakeSecond,
         WalkStep, Walked, sourceVars

\* What validation, the gate and the end may come to.
LEMMA GateCases ==
    /\ Validate => Refused \/ Valid
    /\ Gate => Refused \/ GateSource \/ GateGoes \/ GateToolless
    /\ Conclude => Refused \/ Compared
  BY DEF Validate, Gate, Conclude, Refused, Valid, GateSource, GateGoes, GateToolless, Compared, Same, sourceVars

\* Every step is one of these.
LEMMA RunSteps ==
    ASSUME [RunNext]_runVars
    PROVE  \/ (\E f \in Files : Look(f)) \/ (\E f \in Files, c \in Says : Edit(f, c))
           \/ List \/ WalkFails \/ (\E f \in Files : OpenThere(f)) \/ ReadWhole \/ TakeFirst \/ TakeSecond
           \/ Valid \/ Refused \/ Invoke \/ Skip \/ (\E result \in {"pass", "fail"} : Return(result))
           \/ GateSource \/ GateGoes \/ GateToolless \/ NextRepo \/ Claim
           \/ Compared \/ Publish \/ Interrupt \/ UNCHANGED runVars
  BY WalkCases, GateCases, Zenon DEF RunNext, Says

-----------------------------------------------------------------------------
(* Types                                                                   *)

\* The repositories are listed, and the path of a file belongs to one of them.
LEMMA InRepo ==
    /\ Len(Repos) \in Nat \ {0} /\ DOMAIN Repos = 1 .. Len(Repos)
    /\ \A i \in DOMAIN Repos : Repos[i] \in DOMAIN Sources /\ Sources[Repos[i]] \subseteq Files
    /\ \A f \in Files : \E i \in 1 .. Len(Repos) : f \in Sources[Repos[i]]
<1>1. Len(Repos) \in Nat \ {0} /\ DOMAIN Repos = 1 .. Len(Repos) /\ DOMAIN Sources = {Repos[i] : i \in DOMAIN Repos}
  BY ReposAssumption
<1>2. \A i \in DOMAIN Repos : Repos[i] \in DOMAIN Sources /\ Sources[Repos[i]] \subseteq Files
  BY <1>1 DEF Files
<1>3. ASSUME NEW f \in Files PROVE \E i \in 1 .. Len(Repos) : f \in Sources[Repos[i]]
  <2>1. PICK r \in DOMAIN Sources : f \in Sources[r]
    BY DEF Files
  <2>2. PICK i \in DOMAIN Repos : r = Repos[i]
    BY <1>1
  <2> QED
    BY <2>1, <2>2, <1>1
<1> QED
  BY <1>1, <1>2, <1>3

\* What is run first, and for each repository in each mode.
LEMMA CommandsAre ==
    /\ Commands(0) = <<"identify">> \o [c \in 1 .. SourceChecks |-> "source"]
    /\ \A i \in Nat \ {0} :
         /\ options.mode = "build" => Commands(i) = <<"compile-all", "build", "test-build">> \o Tests[Repos[i]]
         /\ options.mode = "proof" => Commands(i) = <<"flow", "prove">>
         /\ options.mode \notin {"build", "proof"} => Commands(i) = <<>>
<1>1. ~(0 > 0) /\ \A i \in Nat \ {0} : i # 0 /\ i > 0
  OBVIOUS
<1>2. "build" # "proof"
  OBVIOUS
<1> QED
  BY <1>1, <1>2, Zenon DEF Commands

\* What is written out is a sequence, and so is the same thing some times over.
LEMMA WrittenOut ==
    ASSUME NEW S, NEW x \in S, NEW y \in S, NEW z \in S, NEW n \in Nat
    PROVE  /\ <<>> \in Seq(S) /\ <<x>> \in Seq(S) /\ <<x, y>> \in Seq(S) /\ <<x, y, z>> \in Seq(S)
           /\ [c \in 1 .. n |-> x] \in Seq(S)
<1>1. <<>> \in Seq(S) /\ <<x>> \in Seq(S) /\ <<x, y>> \in Seq(S) /\ <<x, y, z>> \in Seq(S)
  OBVIOUS
<1>2. [c \in 1 .. n |-> x] \in Seq(S)
  OBVIOUS
<1> QED
  BY <1>1, <1>2

\* What is run in order is a sequence of names.
LEMMA CommandsType ==
    ASSUME NEW i \in 0 .. Len(Repos) PROVE Commands(i) \in Seq(Names)
<1> DEFINE sources == [c \in 1 .. SourceChecks |-> "source"]
<1>1. i > 0 => Tests[Repos[i]] \in Seq(Names)
  <2>1. i > 0 => Tests[Repos[i]] \in Seq(Tiers)
    BY ReposAssumption
  <2>2. Tiers \subseteq Names
    BY DEF Names
  <2> QED
    BY <2>1, <2>2
<1>2. sources \in Seq(Names)
  BY WrittenOut, BoundsAssumption, Zenon DEF Names
<1>3. /\ <<"identify">> \in Seq(Names) /\ <<"compile-all", "build", "test-build">> \in Seq(Names)
      /\ <<"flow", "prove">> \in Seq(Names) /\ <<>> \in Seq(Names)
  <2>1. 0 \in Nat
    OBVIOUS
  <2> QED
    BY <2>1, WrittenOut, Zenon DEF Names
<1>4. CASE i = 0
  <2>1. Commands(i) = <<"identify">> \o sources
    BY <1>4, CommandsAre
  <2> QED
    BY <2>1, <1>2, <1>3, ConcatProperties
<1>5. CASE i > 0 /\ options.mode = "build"
  <2>1. Commands(i) = <<"compile-all", "build", "test-build">> \o Tests[Repos[i]]
    BY <1>5, CommandsAre, InRepo
  <2> QED
    BY <2>1, <1>1, <1>3, <1>5, ConcatProperties
<1>6. CASE i > 0 /\ options.mode # "build"
  <2>1. Commands(i) = <<"flow", "prove">> \/ Commands(i) = <<>>
    BY <1>6, CommandsAre, InRepo
  <2> QED
    BY <2>1, <1>3
<1> QED
  BY <1>4, <1>5, <1>6, InRepo

\* The options of a run do not change, nor does what is run.
LEMMA OptionsKept == [RunNext]_runVars => options' = options /\ \A i : Commands(i)' = Commands(i)
<1> SUFFICES ASSUME [RunNext]_runVars PROVE options' = options
  BY DEF Commands
<1> QED
  BY DEF RunNext, runVars, sourceVars, Look, Edit, List, OpenFile, ReadFile, TakeSubject, Validate, Invoke,
         Skip, Gate, NextRepo, Claim, Return, Conclude, Publish, Interrupt

\* Which command is due after a result.
LEMMA ReturnCases ==
    ASSUME NEW result, Return(result)
    PROVE  \/ result # "pass" /\ at' = [at EXCEPT !.command = Len(Commands(at.repo)) + 1]
           \/ result # "pass" /\ Due \in {"flow", "prove"} /\ at' = [repo |-> Len(Repos), command |-> Len(Commands(at.repo)) + 1]
           \/ at' = [at EXCEPT !.command = @ + 1]
<1>1. ~("flow" \in {"compile-all", "build", "test-build"}) /\ ~("prove" \in {"compile-all", "build", "test-build"})
  OBVIOUS
<1> QED
  BY <1>1, Zenon DEF Return

\* Every step keeps the types.
LEMMA RunTypeStep == RunTypeOK /\ [RunNext]_runVars => RunTypeOK'
<1> SUFFICES ASSUME RunTypeOK, [RunNext]_runVars PROVE RunTypeOK'
  OBVIOUS
<1> USE DEF RunTypeOK, Walking, Begun
<1>1. CASE \E f \in Files : Look(f)
  <2>1. PICK f \in Files : Look(f)
    BY <1>1
  <2>2. saw' \subseteq Files \X Says
    BY <2>1 DEF Look
  <2> QED
    BY <2>1, <2>2 DEF Look, sourceVars
<1>2. CASE \E f \in Files, c \in Says : Edit(f, c)
  <2>1. PICK f \in Files, c \in Says : Edit(f, c)
    BY <1>2
  <2>2. tree' \in [Files -> Says] /\ stamp' \in [Files -> Nat]
    BY <2>1 DEF Edit
  <2>3. former' \in [Files -> SUBSET Says] /\ restored' \subseteq Files
    BY <2>1 DEF Edit
  <2> QED
    BY <2>1, <2>2, <2>3 DEF Edit
<1>3. CASE List
  <2>1. walk.repo + 1 \in 0 .. Len(Repos)
    BY <1>3, InRepo DEF List, Walks
  <2>2. {f \in Sources[Repos[walk.repo + 1]] : tree[f] # Absent} \subseteq Files
    BY <1>3, InRepo DEF List, Walks
  <2>3. walk' \in Walks
    BY <1>3, <2>1, <2>2 DEF List, Walks
  <2> QED
    BY <1>3, <2>3 DEF List, sourceVars
<1>4. NoWalk \in Walks
  BY InRepo DEF NoWalk, Walks
<1>5. CASE WalkFails
  <2>1. report' \in Reports /\ report'.result # None
    BY <1>5 DEF WalkFails, Fail, Reports, None
  <2> QED
    BY <1>4, <1>5, <2>1 DEF WalkFails, WalkStep, Fail, sourceVars
<1>6. CASE \E f \in Files : OpenThere(f)
  <2>1. PICK f \in Files : OpenThere(f)
    BY <1>6
  <2>2. [file |-> f, of |-> stamp[f], data |-> tree[f]] \in Opened
    BY <2>1 DEF OpenThere, Opened, Says
  <2>3. walk' \in Walks
    BY <2>1, <2>2 DEF OpenThere, WalkStep, Walks
  <2> QED
    BY <2>1, <2>3 DEF OpenThere, WalkStep, sourceVars
<1>7. CASE ReadWhole
  <2>1. <<walk.open.file, walk.open.data>> \in Files \X Contents
    BY <1>7 DEF ReadWhole, Walks, Opened
  <2>2. walk' \in Walks
    BY <1>7, <2>1 DEF ReadWhole, WalkStep, Walks
  <2> QED
    BY <1>7, <2>2 DEF ReadWhole, WalkStep, sourceVars
<1>8. CASE TakeFirst \/ TakeSecond
  <2>1. walk.got \subseteq Files \X Contents
    BY DEF Walks
  <2> QED
    BY <1>4, <1>8, <2>1 DEF TakeFirst, TakeSecond, WalkStep, sourceVars
<1>9. 0 \in 0 .. Len(Repos) /\ \A i \in DOMAIN Repos : i \in 0 .. Len(Repos)
  BY InRepo
<1>10. CASE Valid
  <2>1. checks' \subseteq (0 .. Len(Repos)) \X Nat \X Results
    BY <1>9, <1>10 DEF Valid, Results
  <2> QED
    BY <1>10, <2>1 DEF Valid, Same, sourceVars
<1>11. CASE Refused
  <2>1. report' \in Reports /\ report'.result # None
    BY <1>11 DEF Refused, Fail, Reports, None
  <2> QED
    BY <1>11, <2>1 DEF Refused, Fail, Same, sourceVars
<1>12. CASE Invoke
  BY <1>12 DEF Invoke, sourceVars
<1>13. at.command + 1 \in Nat \ {0} /\ \A r \in Results : <<at.repo, at.command, r>> \in (0 .. Len(Repos)) \X Nat \X Results
  BY DEF Places
<1>14. CASE Skip
  <2>1. at' \in Places
    BY <1>13, <1>14 DEF Skip, Places
  <2>2. checks' \subseteq (0 .. Len(Repos)) \X Nat \X Results
    BY <1>13, <1>14 DEF Skip, Record, Results
  <2> QED
    BY <1>14, <2>1, <2>2 DEF Skip, sourceVars
<1>15. CASE \E result \in {"pass", "fail"} : Return(result)
  <2>1. PICK result \in {"pass", "fail"} : Return(result)
    BY <1>15
  <2>2. Len(Commands(at.repo)) + 1 \in Nat \ {0}
    BY CommandsType DEF Places
  <2>3. Len(Repos) \in 0 .. Len(Repos)
    BY InRepo
  <2>4. at' \in Places
    <3>1. \/ at' = [at EXCEPT !.command = Len(Commands(at.repo)) + 1]
          \/ at' = [repo |-> Len(Repos), command |-> Len(Commands(at.repo)) + 1]
          \/ at' = [at EXCEPT !.command = @ + 1]
      BY <2>1, ReturnCases
    <3> DEFINE last == Len(Commands(at.repo)) + 1
    <3>2. last \in Nat \ {0}
      BY <2>2
    <3> HIDE DEF last
    <3>3. \/ at' = [at EXCEPT !.command = last]
          \/ at' = [repo |-> Len(Repos), command |-> last]
          \/ at' = [at EXCEPT !.command = @ + 1]
      BY <3>1 DEF last
    <3> QED
      BY <2>3, <3>2, <3>3, <1>13 DEF Places
  <2>5. checks' \subseteq (0 .. Len(Repos)) \X Nat \X Results
    BY <1>13, <2>1 DEF Return, Record, Results
  <2> QED
    BY <2>1, <2>4, <2>5 DEF Return, sourceVars
<1>16. CASE GateSource
  BY <1>16 DEF GateSource, Same, sourceVars
<1>17. CASE GateGoes
  <2>1. at' \in Places
    BY <1>17, InRepo DEF GateGoes, Places
  <2> QED
    BY <1>17, <2>1 DEF GateGoes, Same, sourceVars
<1>18. CASE GateToolless
  <2>1. checks' \subseteq (0 .. Len(Repos)) \X Nat \X Results
    BY <1>9, <1>18 DEF GateToolless, Results
  <2>2. report' \in Reports /\ report'.result = report.result
    BY <1>18 DEF GateToolless, Reports
  <2> QED
    BY <1>18, <2>1, <2>2 DEF GateToolless, Same, sourceVars
<1>19. CASE NextRepo
  <2>1. at' \in Places
    BY <1>19, InRepo DEF NextRepo, Places
  <2> QED
    BY <1>19, <2>1 DEF NextRepo, sourceVars
<1>20. CASE Claim
  <2>1. report' \in Reports /\ report'.result = report.result
    <3>1. PICK all \in BOOLEAN : all = AllPass
      BY DEF AllPass
    <3>2. report' = IF options.mode = "build"
                    THEN [report EXCEPT !.ada = IF all THEN "all-registered-tests-pass"
                                                ELSE "requested-not-completed"]
                    ELSE [report EXCEPT !.proof = IF all THEN "commands-passed"
                                                  ELSE "failed-or-incomplete"]
      BY <1>20, <3>1 DEF Claim
    <3> QED
      BY <3>2 DEF Reports
  <2> QED
    BY <1>20, <2>1 DEF Claim, sourceVars
<1>21. CASE Compared
  <2>1. report' \in Reports
    <3>1. PICK all \in BOOLEAN : all = AllPass
      BY DEF AllPass
    <3>2. report' = [report EXCEPT !.result = IF all THEN "pass" ELSE "incomplete-or-failed"]
      BY <1>21, <3>1 DEF Compared
    <3> QED
      BY <3>2 DEF Reports
  <2> QED
    BY <1>21, <2>1 DEF Compared, Same, sourceVars
<1>22. CASE Publish
  <2>1. report' \in Reports /\ report'.result = report.result
    BY <1>22 DEF Publish, Reports
  <2> QED
    BY <1>22, <2>1 DEF Publish, sourceVars
<1>23. CASE Interrupt
  BY <1>4, <1>23 DEF Interrupt, sourceVars
<1>24. CASE UNCHANGED runVars
  BY <1>24 DEF runVars
<1> QED
  BY <1>1, <1>2, <1>3, <1>5, <1>6, <1>7, <1>8, <1>10, <1>11, <1>12, <1>14, <1>15, <1>16, <1>17,
     <1>18, <1>19, <1>20, <1>21, <1>22, <1>23, <1>24, RunSteps, Zenon

-----------------------------------------------------------------------------
(* Claims                                                                  *)

\* A record that is there stays there, and what did not pass did not pass.
LEMMA RecordsStay ==
    ASSUME checks \subseteq checks'
    PROVE  /\ \A i, c : Recorded(i, c) => Recorded(i, c)'
           /\ ~AllPass => ~AllPass'
  BY DEF Recorded, AllPass

\* A record that nothing passed.
LEMMA NotPassed ==
    ASSUME NEW i, NEW c, NEW r, r # "pass", <<i, c, r>> \in checks
    PROVE  ~AllPass
<1>1. <<i, c, r>>[3] = r
  OBVIOUS
<1> QED
  BY <1>1 DEF AllPass

\* When all is recorded and passed, all is earned.
LEMMA AllEarned ==
    ASSUME AllPass, NEW i, \A c \in 1 .. Len(Commands(i)) : Recorded(i, c)
    PROVE  Earned(i)
<1> SUFFICES ASSUME NEW c \in 1 .. Len(Commands(i)) PROVE <<i, c, "pass">> \in checks
  BY DEF Earned
<1>1. PICK r \in Results : <<i, c, r>> \in checks
  BY DEF Recorded
<1>2. r = "pass"
  BY <1>1, NotPassed
<1> QED
  BY <1>1, <1>2

\* What was done before the command that is due, as long as nothing is recorded otherwise.
Behind(i, c) == Recorded(i, c) \/ ~AllPass \/ (i = 0 /\ c = 1 /\ ~options.tool)

\* Progress, for one command.
LEMMA ProgressOf ==
    ASSUME Progress, pc \in {"due", "running"}, at \in Places
    PROVE  /\ pc = "running" => ~Through
           /\ at.repo > 0 => options.tool /\ options.mode # "source"
           /\ \A i \in 0 .. at.repo : \A c \in 1 .. Len(Commands(i)) : i < at.repo \/ c < at.command => Behind(i, c)
  BY DEF Progress, Behind

\* What is behind stays behind.
LEMMA BehindStays ==
    ASSUME checks \subseteq checks', options' = options, NEW i, NEW c, Behind(i, c)
    PROVE  Behind(i, c)'
  BY RecordsStay DEF Behind

\* First of all the tools are identified; then the sources are checked.
LEMMA SourceCommands ==
    ASSUME NEW c \in 1 .. Len(Commands(0)) PROVE Commands(0)[c] = IF c = 1 THEN "identify" ELSE "source"
<1> DEFINE sources == [x \in 1 .. SourceChecks |-> "source"]
<1>1. sources \in Seq(Names) /\ Len(sources) = SourceChecks /\ SourceChecks \in Nat
  <2>1. sources \in Seq(Names)
    BY WrittenOut, BoundsAssumption, Zenon DEF Names
  <2> QED
    BY <2>1, BoundsAssumption
<1>2. <<"identify">> \in Seq(Names)
  <2>1. 0 \in Nat
    OBVIOUS
  <2> QED
    BY <2>1, WrittenOut, Zenon DEF Names
<1>3. Commands(0) = <<"identify">> \o sources
  BY CommandsAre
<1>4. \A x \in 1 .. SourceChecks : sources[x] = "source"
  OBVIOUS
<1> HIDE DEF sources
<1>5. Len(<<"identify">>) = 1 /\ <<"identify">>[1] = "identify"
  OBVIOUS
<1>6. Len(Commands(0)) = 1 + SourceChecks
  BY <1>1, <1>2, <1>3, <1>5, ConcatProperties
<1>7. c > 1 => (<<"identify">> \o sources)[c] = sources[c - 1]
  BY <1>1, <1>2, <1>5, <1>6, ConcatProperties
<1>8. (<<"identify">> \o sources)[1] = "identify"
  BY <1>1, <1>2, <1>5, ConcatProperties
<1> QED
  BY <1>1, <1>3, <1>4, <1>6, <1>7, <1>8

\* Only the tools are identified, and first of all.
LEMMA Identify ==
    ASSUME NEW i \in 0 .. Len(Repos), NEW c \in 1 .. Len(Commands(i)), Commands(i)[c] = "identify",
           i > 0 => options.tool, ~options.tool
    PROVE  i = 0 /\ c = 1
<1>1. i = 0
  BY InRepo
<1> QED
  BY <1>1, SourceCommands

\* A step that comes to another command has left a record of the one before.
LEMMA ProgressStep == RunTypeOK /\ Progress /\ [RunNext]_runVars => Progress'
<1> SUFFICES ASSUME RunTypeOK, Progress, [RunNext]_runVars, pc' \in {"due", "running"}
             PROVE  /\ pc' = "running" => ~Through'
                    /\ at'.repo > 0 => options.tool /\ options.mode # "source"
                    /\ \A i \in 0 .. at'.repo : \A c \in 1 .. Len(Commands(i)) :
                         i < at'.repo \/ c < at'.command => Behind(i, c)'
  BY OptionsKept DEF Progress, Behind
<1> DEFINE Aim == /\ at'.repo > 0 => options.tool /\ options.mode # "source"
                  /\ \A i \in 0 .. at'.repo : \A c \in 1 .. Len(Commands(i)) :
                       i < at'.repo \/ c < at'.command => Behind(i, c)'
<1>1. options' = options /\ at \in Places /\ pc \in {"before", "publish", "end"} \cup Begun
  BY OptionsKept DEF RunTypeOK
<1>2. \A i \in 0 .. Len(Repos) : Len(Commands(i)) \in Nat
  BY CommandsType
<1>2a. pc' = "running" => ~Through'
  <2>1. \A i : Commands(i)' = Commands(i)
    BY OptionsKept
  <2>2. CASE at' = at /\ pc = "running"
    BY <1>1, <2>1, <2>2, ProgressOf DEF Through
  <2>3. CASE Invoke
    BY <2>1, <2>3 DEF Invoke, Through
  <2>4. CASE Skip \/ (\E result \in {"pass", "fail"} : Return(result)) \/ GateGoes \/ NextRepo
    BY <2>4 DEF Skip, Return, GateGoes, NextRepo
  <2>5. CASE (\E f \in Files : Look(f)) \/ (\E f \in Files, c \in Says : Edit(f, c)) \/ UNCHANGED runVars
    BY <2>2, <2>5 DEF Look, Edit, runVars
  <2>6. CASE List \/ (\E f \in Files : OpenThere(f)) \/ ReadWhole
    BY <2>6 DEF List, OpenThere, ReadWhole, WalkStep, Walking
  <2>7. CASE \/ WalkFails \/ TakeFirst \/ TakeSecond \/ Valid \/ Refused \/ GateSource \/ GateToolless
             \/ Claim \/ Compared \/ Publish \/ Interrupt
    BY <2>7 DEF WalkFails, TakeFirst, TakeSecond, Valid, Refused, Fail, GateSource, GateToolless, Claim, Compared,
                Publish, Interrupt
  <2> QED
    BY <2>2, <2>3, <2>4, <2>5, <2>6, <2>7, RunSteps, Zenon
<1>3. ASSUME pc \in {"due", "running"}, at' = at, checks' = checks PROVE Aim
  <2>1. \A i, c : Behind(i, c) => Behind(i, c)'
    BY <1>1, <1>3, BehindStays
  <2> QED
    BY <1>1, <1>3, <2>1, ProgressOf
<1>4. ASSUME pc \in {"due", "running"}, at' = [at EXCEPT !.command = @ + 1], checks \subseteq checks',
             \A i, c : i = at.repo /\ c = at.command /\ c \in 1 .. Len(Commands(i)) => Behind(i, c)'
      PROVE  Aim
  <2>1. at'.repo = at.repo /\ at'.command = at.command + 1
    BY <1>1, <1>4 DEF Places
  <2>2. \A i, c : Behind(i, c) => Behind(i, c)'
    BY <1>1, <1>4, BehindStays
  <2>3. at'.repo > 0 => options.tool /\ options.mode # "source"
    BY <1>1, <1>4, <2>1, ProgressOf
  <2>4. ASSUME NEW i \in 0 .. at.repo, NEW c \in 1 .. Len(Commands(i)), i < at.repo \/ c < at.command + 1
        PROVE  Behind(i, c)'
    <3>1. i \in Nat /\ at.repo \in 0 .. Len(Repos) /\ at.command \in Nat \ {0} /\ i \in 0 .. Len(Repos)
      BY <1>1, InRepo DEF Places
    <3>2. Len(Commands(i)) \in Nat
      BY <1>2, <3>1
    <3>3. CASE i < at.repo \/ c < at.command
      BY <1>1, <1>4, <2>2, <3>3, ProgressOf
    <3>4. CASE ~(i < at.repo \/ c < at.command)
      <4>1. i = at.repo /\ c = at.command
        BY <2>4, <3>1, <3>2, <3>4
      <4> QED
        BY <1>4, <4>1
    <3> QED
      BY <3>3, <3>4
  <2> QED
    BY <2>1, <2>3, <2>4
<1>5. ASSUME ~AllPass', at'.repo > 0 => options.tool /\ options.mode # "source" PROVE Aim
  BY <1>5 DEF Behind
<1>6. CASE (\E f \in Files : Look(f)) \/ (\E f \in Files, c \in Says : Edit(f, c)) \/ Invoke \/ UNCHANGED runVars
  <2>1. pc \in {"due", "running"} /\ at' = at /\ checks' = checks
    BY <1>6 DEF Look, Edit, Invoke, runVars
  <2> QED
    BY <1>3, <2>1, <1>2a
<1>7. CASE Valid
  <2>1. at' = [repo |-> 0, command |-> 1]
    BY <1>7 DEF Valid, RunTypeOK
  <2>2. \A i \in 0 .. 0 : \A c \in 1 .. Len(Commands(i)) : ~(i < 0 \/ c < 1)
    BY <1>2, InRepo
  <2> QED
    BY <2>1, <2>2, <1>2a
<1>8. CASE Skip
  <2>1. checks \subseteq checks' /\ at' = [at EXCEPT !.command = @ + 1] /\ pc = "due"
    BY <1>8 DEF Skip, Record
  <2>2. ASSUME NEW i, NEW c, i = at.repo, c = at.command, c \in 1 .. Len(Commands(i)) PROVE Behind(i, c)'
    <3>1. CASE Due = "identify" /\ ~options.tool
      <4>1. at.repo \in 0 .. Len(Repos) /\ (at.repo > 0 => options.tool)
        BY <1>1, <2>1, ProgressOf DEF Places
      <4>2. Commands(i)[c] = "identify"
        BY <2>2, <3>1 DEF Due
      <4>3. i = 0 /\ c = 1
        BY <2>2, <3>1, <4>1, <4>2, Identify
      <4> QED
        BY <1>1, <3>1, <4>3 DEF Behind
    <3>2. CASE ~(Due = "identify" /\ ~options.tool)
      <4>1. Due = "host-read-only"
        BY <1>8, <3>2 DEF Skip, Skipped
      <4>2. <<i, c, "not-run">> \in checks'
        BY <1>8, <2>2, <4>1 DEF Skip, Record
      <4>3. Recorded(i, c)'
        BY <4>2 DEF Recorded, Results
      <4> QED
        BY <4>3 DEF Behind
    <3> QED
      BY <3>1, <3>2
  <2> QED
    BY <1>4, <2>1, <2>2, <1>2a
<1>9. CASE \E result \in {"pass", "fail"} : Return(result)
  <2>1. PICK result \in {"pass", "fail"} : Return(result)
    BY <1>9
  <2>2. checks \subseteq checks' /\ <<at.repo, at.command, result>> \in checks' /\ pc = "running"
    BY <2>1 DEF Return, Record
  <2>3. CASE result = "pass"
    <3>1. at' = [at EXCEPT !.command = @ + 1]
      BY <2>1, <2>3, ReturnCases
    <3>2. ASSUME NEW i, NEW c, i = at.repo, c = at.command PROVE Behind(i, c)'
      <4>1. <<i, c, "pass">> \in checks'
        BY <2>2, <2>3, <3>2
      <4> QED
        BY <4>1 DEF Behind, Recorded, Results
    <3> QED
      BY <1>4, <2>2, <3>1, <3>2, <1>2a
  <2>4. CASE result # "pass"
    <3>1. ~AllPass'
      <4>1. <<at.repo, at.command, result>>[3] = result
        OBVIOUS
      <4> QED
        BY <2>2, <2>4, <4>1 DEF AllPass
    <3>2. at'.repo > 0 => options.tool /\ options.mode # "source"
      <4>1. at.repo > 0 => options.tool /\ options.mode # "source"
        BY <1>1, <2>2, ProgressOf
      <4>2. CASE Due \in {"flow", "prove"}
        <5>1. at.command \in 1 .. Len(Commands(at.repo))
          BY <1>1, <1>2, <2>2, ProgressOf DEF Through, Places
        <5>2. at.repo # 0
          BY <4>2, <5>1, SourceCommands DEF Due
        <5> QED
          BY <1>1, <4>1, <5>2 DEF Places
      <4>3. CASE at'.repo = at.repo
        BY <4>1, <4>3
      <4> QED
        BY <1>1, <2>1, <4>2, <4>3, ReturnCases DEF Places
    <3> QED
      BY <1>5, <3>1, <3>2, <1>2a
  <2> QED
    BY <2>3, <2>4
<1>10. CASE GateGoes
  <2>1. at'.repo = 1 /\ at'.command = 1 /\ checks' = checks /\ pc = "due"
    BY <1>10 DEF GateGoes
  <2>2. options.tool /\ options.mode # "source"
    BY <1>10 DEF GateGoes
  <2>3. ASSUME NEW i \in 0 .. 1, NEW c \in 1 .. Len(Commands(i)), i < 1 \/ c < 1 PROVE Behind(i, c)'
    <3>1. i = 0 /\ c \in 1 .. Len(Commands(0)) /\ Len(Commands(0)) \in Nat
      BY <1>2, <2>3, InRepo
    <3>2. c < at.command /\ at.repo = 0
      BY <1>1, <1>10, <3>1 DEF GateGoes, Through, Places
    <3>3. Behind(0, c)
      BY <1>1, <2>1, <3>1, <3>2, ProgressOf
    <3> QED
      BY <1>1, <2>1, <3>1, <3>3, BehindStays
  <2> QED
    BY <2>1, <2>2, <2>3, <1>2a
<1>11. CASE NextRepo
  <2>1. at'.repo = at.repo + 1 /\ at'.command = 1 /\ checks' = checks /\ pc = "due" /\ at.repo \in 1 .. Len(Repos) - 1
    BY <1>11 DEF NextRepo
  <2>2. options.tool /\ options.mode # "source"
    BY <1>1, <2>1, InRepo, ProgressOf
  <2>3. ASSUME NEW i \in 0 .. at.repo + 1, NEW c \in 1 .. Len(Commands(i)), i < at.repo + 1 \/ c < 1 PROVE Behind(i, c)'
    <3>1. at.repo \in Nat /\ at.command \in Nat \ {0} /\ i \in 0 .. Len(Repos)
      BY <1>1, <2>1, <2>3, InRepo DEF Places
    <3>2. Len(Commands(i)) \in Nat
      BY <1>2, <3>1
    <3>3. i \in 0 .. at.repo /\ (i < at.repo \/ i = at.repo)
      BY <2>3, <3>1, <3>2
    <3>4. i = at.repo => c < at.command
      BY <1>11, <2>3, <3>1, <3>2 DEF NextRepo, Through
    <3>5. Behind(i, c)
      BY <1>1, <2>1, <3>3, <3>4, ProgressOf
    <3> QED
      BY <1>1, <2>1, <3>5, BehindStays
  <2> QED
    BY <2>1, <2>2, <2>3, <1>2a
<1>12. CASE List \/ (\E f \in Files : OpenThere(f)) \/ ReadWhole
  BY <1>12 DEF List, OpenThere, ReadWhole, WalkStep, Walking
<1>13. CASE WalkFails \/ TakeFirst \/ TakeSecond \/ Refused \/ GateSource \/ GateToolless \/ Claim \/ Compared \/ Publish \/ Interrupt
  BY <1>13 DEF WalkFails, TakeFirst, TakeSecond, Refused, Fail, GateSource, GateToolless, Claim, Compared, Publish, Interrupt
<1> QED
  BY <1>6, <1>7, <1>8, <1>9, <1>10, <1>11, <1>12, <1>13, <1>2a, RunSteps, Zenon

Claimed(r) == r.ada = "all-registered-tests-pass" \/ r.proof = "commands-passed"

\* Every step keeps that what is claimed was earned, and that what the mode asks for
\* is claimed when all passed.
LEMMA ClaimsStep == RunTypeOK /\ ClaimsInv /\ [RunNext]_runVars => ClaimsInv'
<1> SUFFICES ASSUME RunTypeOK, ClaimsInv, [RunNext]_runVars PROVE ClaimsInv'
  OBVIOUS
<1>1. Progress'
  BY ProgressStep DEF ClaimsInv
<1>2. /\ options' = options /\ report \in Reports /\ options \in Options /\ at \in Places
      /\ report.result # None => pc \in {"publish", "end"}
  BY OptionsKept DEF RunTypeOK
<1>3. \A i : Commands(i)' = Commands(i)
  BY OptionsKept
<1>4. ASSUME checks \subseteq checks' PROVE \A i : Earned(i) => Earned(i)'
  BY <1>3, <1>4 DEF Earned
<1> DEFINE Aim ==
      /\ Claimed(report') => \A i \in 0 .. Len(Repos) : Earned(i)'
      /\ pc' \in {"after", "conclude"} /\ AllPass' => ClaimOfMode'
      /\ report'.result = "pass" => ClaimOfMode'
<1>5. Aim => ClaimsInv'
  BY <1>1 DEF ClaimsInv, Claimed
<1>6. ASSUME report'.ada = report.ada, report'.proof = report.proof, checks \subseteq checks',
             pc' \in {"after", "conclude"} => pc \in {"after", "conclude"} /\ checks' = checks,
             report'.result = "pass" => report.result = "pass"
      PROVE  Aim
  <2>1. ClaimOfMode => ClaimOfMode'
    BY <1>2, <1>6 DEF ClaimOfMode
  <2>2. Claimed(report) => \A i \in 0 .. Len(Repos) : Earned(i)
    BY DEF ClaimsInv, Claimed
  <2>3. Claimed(report') => \A i \in 0 .. Len(Repos) : Earned(i)'
    BY <1>4, <1>6, <2>2 DEF Claimed
  <2>4. pc' \in {"after", "conclude"} /\ AllPass' => ClaimOfMode'
    <3>1. checks' = checks => AllPass' = AllPass
      BY DEF AllPass
    <3> QED
      BY <1>6, <2>1, <3>1 DEF ClaimsInv
  <2>5. report'.result = "pass" => ClaimOfMode'
    BY <1>6, <2>1 DEF ClaimsInv
  <2> QED
    BY <2>3, <2>4, <2>5
<1>7. CASE (\E f \in Files : Look(f)) \/ (\E f \in Files, c \in Says : Edit(f, c)) \/ UNCHANGED runVars
  <2>1. report' = report /\ checks' = checks /\ pc' = pc
    BY <1>7 DEF Look, Edit, runVars
  <2> QED
    BY <1>5, <1>6, <2>1
<1>8. CASE List \/ (\E f \in Files : OpenThere(f)) \/ ReadWhole
  <2>1. report' = report /\ checks' = checks /\ pc' = pc
    BY <1>8 DEF List, OpenThere, ReadWhole, WalkStep
  <2> QED
    BY <1>5, <1>6, <2>1
<1>9. CASE WalkFails \/ Refused
  <2>1. /\ report'.ada = report.ada /\ report'.proof = report.proof /\ report'.result = "fail"
        /\ checks' = checks /\ pc' = "publish"
    BY <1>2, <1>9 DEF WalkFails, WalkStep, Refused, Fail, Reports
  <2> QED
    BY <1>5, <1>6, <2>1
<1>10. CASE TakeFirst \/ TakeSecond
  <2>1. report' = report /\ checks' = checks /\ (pc' = "validate" \/ pc = "after")
    BY <1>10 DEF TakeFirst, TakeSecond, WalkStep
  <2> QED
    BY <1>5, <1>6, <2>1
<1>11. CASE Valid \/ Invoke \/ Skip \/ (\E result \in {"pass", "fail"} : Return(result)) \/ GateGoes \/ NextRepo
  <2>1. report' = report /\ checks \subseteq checks' /\ pc' \in {"due", "running"}
    BY <1>11 DEF Valid, Invoke, Skip, Return, Record, GateGoes, NextRepo
  <2> QED
    BY <1>5, <1>6, <2>1
<1>12. CASE GateSource
  <2>1. report' = report /\ checks' = checks /\ options.mode = "source" /\ pc = "due"
    BY <1>12 DEF GateSource
  <2>2. ClaimOfMode'
    BY <1>2, <2>1 DEF ClaimOfMode
  <2>3. Claimed(report) => \A i \in 0 .. Len(Repos) : Earned(i)
    BY DEF ClaimsInv, Claimed
  <2>4. Claimed(report') => \A i \in 0 .. Len(Repos) : Earned(i)'
    BY <1>4, <2>1, <2>3
  <2> QED
    BY <1>5, <2>2, <2>4
<1>13. CASE GateToolless
  <2>1. /\ report'.ada \in {report.ada, "requested-not-completed"} /\ report'.proof = report.proof
        /\ report'.result = report.result /\ checks \subseteq checks' /\ pc = "due"
    BY <1>2, <1>13 DEF GateToolless, Reports
  <2>2. ~AllPass'
    <3>1. <<1, 1, "not-run">> \in checks' /\ <<1, 1, "not-run">>[3] # "pass"
      BY <1>13, InRepo DEF GateToolless
    <3> QED
      BY <3>1 DEF AllPass
  <2>3. Claimed(report) => \A i \in 0 .. Len(Repos) : Earned(i)
    BY DEF ClaimsInv, Claimed
  <2>4. Claimed(report') => \A i \in 0 .. Len(Repos) : Earned(i)'
    BY <1>4, <2>1, <2>3 DEF Claimed
  <2>5. report'.result # "pass"
    BY <1>2, <2>1 DEF None
  <2> QED
    BY <1>5, <2>2, <2>4, <2>5
<1>14. CASE Claim
  <2>1. checks' = checks /\ pc = "due" /\ at.repo = Len(Repos) /\ Len(Repos) \in Nat \ {0} /\ Through
    BY <1>14, InRepo DEF Claim
  <2>2. AllPass' = AllPass /\ report'.result = report.result
    BY <1>2, <1>14, <2>1 DEF Claim, Reports, AllPass
  <2>3. options.tool /\ options.mode \in {"build", "proof"}
    BY <1>2, <2>1, ProgressOf DEF ClaimsInv, Options
  <2>4. AllPass => \A i \in 0 .. Len(Repos) : Earned(i)
    <3> SUFFICES ASSUME AllPass, NEW i \in 0 .. Len(Repos) PROVE Earned(i)
      OBVIOUS
    <3>1. Len(Commands(i)) \in Nat /\ i \in Nat /\ at.command \in Nat
      BY <1>2, <2>1, CommandsType DEF Places
    <3>2. ASSUME NEW c \in 1 .. Len(Commands(i)) PROVE Recorded(i, c)
      <4>1. i < at.repo \/ c < at.command
        BY <2>1, <3>1, <3>2 DEF Through
      <4>2. Behind(i, c)
        BY <1>2, <2>1, <4>1, ProgressOf DEF ClaimsInv
      <4> QED
        BY <2>3, <4>2 DEF Behind
    <3> QED
      BY <3>2, AllEarned
  <2>5. AllPass => ClaimOfMode'
    BY <1>2, <1>14, <2>3 DEF Claim, ClaimOfMode, Reports
  <2>6. ~AllPass => (Claimed(report') => Claimed(report))
    BY <1>2, <1>14 DEF Claim, Claimed, Reports
  <2>7. Claimed(report) => \A i \in 0 .. Len(Repos) : Earned(i)
    BY DEF ClaimsInv, Claimed
  <2>8. \A i : Earned(i) => Earned(i)'
    BY <1>4, <2>1
  <2>9. report'.result # "pass"
    BY <1>2, <2>1, <2>2 DEF None
  <2> QED
    BY <1>5, <2>2, <2>4, <2>5, <2>6, <2>7, <2>8, <2>9
<1>15. CASE Compared
  <2>1. /\ report'.ada = report.ada /\ report'.proof = report.proof /\ checks' = checks
        /\ pc = "conclude" /\ pc' = "publish"
    BY <1>2, <1>15 DEF Compared, Reports
  <2>2. report'.result = "pass" => AllPass
    BY <1>2, <1>15 DEF Compared, Reports
  <2>3. report'.result = "pass" => ClaimOfMode'
    BY <1>2, <2>1, <2>2 DEF ClaimsInv, ClaimOfMode
  <2>4. Claimed(report) => \A i \in 0 .. Len(Repos) : Earned(i)
    BY DEF ClaimsInv, Claimed
  <2>5. Claimed(report') => \A i \in 0 .. Len(Repos) : Earned(i)'
    BY <1>4, <2>1, <2>4 DEF Claimed
  <2> QED
    BY <1>5, <2>1, <2>3, <2>5
<1>16. CASE Publish
  <2>1. /\ report'.ada = report.ada /\ report'.proof = report.proof /\ report'.result = report.result
        /\ checks' = checks /\ pc' = "end"
    BY <1>2, <1>16 DEF Publish, Reports
  <2> QED
    BY <1>5, <1>6, <2>1
<1>17. CASE Interrupt
  <2>1. report' = report /\ checks' = checks /\ pc' = "publish"
    BY <1>17 DEF Interrupt
  <2> QED
    BY <1>5, <1>6, <2>1
<1> QED
  BY <1>7, <1>8, <1>9, <1>10, <1>11, <1>12, <1>13, <1>14, <1>15, <1>16, <1>17, RunSteps, Zenon

-----------------------------------------------------------------------------
(* Sources                                                                 *)

WalksOn == (List \/ (\E f \in Files : OpenThere(f)) \/ ReadWhole) /\ Walking

\* A step from command to command, or to the second subject.
Goes ==
    /\ pc \in {"validate", "due", "running"} /\ pc' \in {"due", "running", "after"}
    /\ UNCHANGED <<sourceVars, walk, before, after, saw>> /\ report'.result = report.result

\* A step that ends the run, or comes after its end, without a comparison.
Ends ==
    /\ pc' \in {"publish", "end"} /\ UNCHANGED <<sourceVars, before, after, saw>>
    /\ report'.result \in {report.result, "fail"}

\* Every step, by what it does to the subjects.
LEMMA SourceSteps ==
    ASSUME RunTypeOK, [RunNext]_runVars
    PROVE  \/ (\E f \in Files : Look(f)) \/ (\E f \in Files, c \in Says : Edit(f, c))
           \/ WalksOn \/ TakeFirst \/ TakeSecond \/ Goes \/ Compared \/ Ends \/ UNCHANGED runVars
<1>1. report \in Reports
  BY DEF RunTypeOK
<1>2. List \/ (\E f \in Files : OpenThere(f)) \/ ReadWhole => WalksOn
  BY DEF WalksOn, List, OpenThere, ReadWhole, WalkStep
<1>3. Valid \/ Invoke \/ Skip \/ (\E result \in {"pass", "fail"} : Return(result)) => Goes
  BY DEF Goes, Valid, Invoke, Skip, Return, Same, sourceVars
<1>4. GateSource \/ GateGoes \/ NextRepo => Goes
  BY DEF Goes, GateSource, GateGoes, NextRepo, Same, sourceVars
<1>5. GateToolless => Goes
  BY <1>1 DEF Goes, GateToolless, Same, sourceVars, Reports
<1>6. Claim => Goes
  <2> SUFFICES ASSUME Claim PROVE Goes
    OBVIOUS
  <2>1. report'.result = report.result
    BY <1>1 DEF Claim, Reports
  <2> QED
    BY <2>1 DEF Goes, Claim, sourceVars
<1>7. WalkFails \/ Refused => Ends
  BY <1>1 DEF Ends, WalkFails, WalkStep, Refused, Fail, Same, sourceVars, Reports
<1>8. Publish \/ Interrupt => Ends
  BY <1>1 DEF Ends, Publish, Interrupt, sourceVars, Reports
<1> QED
  BY <1>2, <1>3, <1>4, <1>5, <1>6, <1>7, <1>8, RunSteps, Zenon

\* Nothing that was held is forgotten.
LEMMA HeldStays ==
    ASSUME RunTypeOK, [RunNext]_runVars, NEW f \in Files
    PROVE  former[f] \subseteq former'[f] /\ \A c : Held(f, c) => Held(f, c)'
<1>1. CASE \E g \in Files, d \in Says : Edit(g, d)
  <2>1. PICK g \in Files, d \in Says : Edit(g, d)
    BY <1>1
  <2>2. former' = [former EXCEPT ![g] = @ \cup {tree[g]}] /\ tree' = [tree EXCEPT ![g] = d]
    BY <2>1 DEF Edit
  <2>3. former \in [Files -> SUBSET Says] /\ tree \in [Files -> Says]
    BY DEF RunTypeOK
  <2>4. CASE f = g
    BY <2>2, <2>3, <2>4 DEF Held
  <2>5. CASE f # g
    BY <2>2, <2>3, <2>5 DEF Held
  <2> QED
    BY <2>4, <2>5
<1>2. CASE UNCHANGED sourceVars
  BY <1>2 DEF sourceVars, Held
<1>3. \/ \E g \in Files, d \in Says : Edit(g, d)
      \/ UNCHANGED sourceVars
  <2>1. (\E g \in Files : Look(g)) \/ UNCHANGED runVars => UNCHANGED sourceVars
    BY DEF Look, runVars, sourceVars
  <2>2. WalksOn => UNCHANGED sourceVars
    BY DEF WalksOn, List, OpenThere, ReadWhole, WalkStep
  <2>3. TakeFirst \/ TakeSecond \/ Goes \/ Compared \/ Ends => UNCHANGED sourceVars
    BY DEF TakeFirst, TakeSecond, WalkStep, Goes, Compared, Same, Ends
  <2> QED
    BY <2>1, <2>2, <2>3, SourceSteps, Zenon
<1> QED
  BY <1>1, <1>2, <1>3

\* Every step keeps a file that nobody put back from holding what it held before.
LEMMA FreshStep == RunTypeOK /\ Fresh /\ [RunNext]_runVars => Fresh'
<1> SUFFICES ASSUME RunTypeOK, Fresh, [RunNext]_runVars PROVE Fresh'
  OBVIOUS
<1>1. CASE \E g \in Files, d \in Says : Edit(g, d)
  <2>1. PICK g \in Files, d \in Says : Edit(g, d)
    BY <1>1
  <2>2. /\ former' = [former EXCEPT ![g] = @ \cup {tree[g]}] /\ tree' = [tree EXCEPT ![g] = d]
        /\ restored' = (IF d \in former[g] THEN restored \cup {g} ELSE restored) /\ d # tree[g]
    BY <2>1 DEF Edit
  <2>3. former \in [Files -> SUBSET Says] /\ tree \in [Files -> Says]
    BY DEF RunTypeOK
  <2> QED
    BY <2>2, <2>3 DEF Fresh
<1>2. CASE UNCHANGED sourceVars
  BY <1>2 DEF sourceVars, Fresh
<1>3. \/ \E g \in Files, d \in Says : Edit(g, d)
      \/ UNCHANGED sourceVars
  <2>1. (\E g \in Files : Look(g)) \/ UNCHANGED runVars => UNCHANGED sourceVars
    BY DEF Look, runVars, sourceVars
  <2>2. WalksOn => UNCHANGED sourceVars
    BY DEF WalksOn, List, OpenThere, ReadWhole, WalkStep
  <2>3. TakeFirst \/ TakeSecond \/ Goes \/ Compared \/ Ends => UNCHANGED sourceVars
    BY DEF TakeFirst, TakeSecond, WalkStep, Goes, Compared, Same, Ends
  <2> QED
    BY <2>1, <2>2, <2>3, SourceSteps, Zenon
<1> QED
  BY <1>1, <1>2, <1>3

\* A walk that has come nowhere yet passes whatever it will.
LEMMA NoWalkPasses ==
    ASSUME walk = NoWalk, NEW f, NEW c PROVE Passes(f, c)
<1>1. walk.got = {} /\ walk.open = NotOpen /\ 1 .. walk.repo = {}
  BY DEF NoWalk
<1> QED
  BY <1>1 DEF Passes

\* A walk passes what a file does not hold, if it has done so until now.
LEMMA PassesStep ==
    ASSUME RunTypeOK, WalksOn, NEW f \in Files, NEW c \in Says, tree[f] # c, Passes(f, c)
    PROVE  Passes(f, c)'
<1>1. walk \in Walks
  BY DEF RunTypeOK
<1>2. CASE List
  <2>1. /\ walk'.open = walk.open /\ walk'.got = walk.got /\ walk'.repo = walk.repo + 1
        /\ walk'.todo = {g \in Sources[Repos[walk.repo + 1]] : tree[g] # Absent}
        /\ walk.todo = {} /\ walk.open = NotOpen /\ walk.repo \in Nat
    BY <1>1, <1>2, InRepo DEF List, Walks
  <2>2. ASSUME c = Absent, NEW i \in 1 .. walk'.repo, f \in Sources[Repos[i]]
        PROVE  f \in walk'.todo \/ \E x \in Contents : <<f, x>> \in walk'.got
    <3>1. CASE i = walk.repo + 1
      BY <2>1, <2>2, <3>1
    <3>2. CASE i # walk.repo + 1
      <4>1. i \in 1 .. walk.repo
        BY <2>1, <3>2
      <4> QED
        BY <2>1, <2>2, <4>1 DEF Passes, Pending
    <3> QED
      BY <3>1, <3>2
  <2> QED
    BY <2>1, <2>2 DEF Passes, Pending
<1>3. CASE \E g \in Files : OpenThere(g)
  <2>1. PICK g \in Files : OpenThere(g)
    BY <1>3
  <2>2. /\ walk'.got = walk.got /\ walk'.repo = walk.repo /\ walk'.todo = walk.todo \ {g}
        /\ walk'.open = [file |-> g, of |-> stamp[g], data |-> tree[g]] /\ walk.open = NotOpen
    BY <1>1, <2>1 DEF OpenThere, WalkStep, Walks
  <2>3. walk'.open.file = g /\ walk'.open.data = tree[g]
    BY <2>2
  <2>4. walk'.open # NotOpen
    <3>1. stamp[g] \in Nat
      BY DEF RunTypeOK
    <3> QED
      BY <2>2, <3>1 DEF NotOpen
  <2> QED
    BY <2>2, <2>3, <2>4 DEF Passes, Pending
<1>4. CASE ReadWhole
  <2>1. /\ walk'.got = walk.got \cup {<<walk.open.file, walk.open.data>>} /\ walk'.open = NotOpen
        /\ walk'.repo = walk.repo /\ walk'.todo = walk.todo /\ walk.open # NotOpen
    BY <1>1, <1>4 DEF ReadWhole, WalkStep, Walks
  <2>2. walk.open.data \in Contents
    BY <1>1, <2>1 DEF Walks, Opened
  <2> QED
    BY <2>1, <2>2 DEF Passes, Pending
<1> QED
  BY <1>2, <1>3, <1>4 DEF WalksOn

\* A subject does not name what the walk it comes from has passed.
LEMMA PassedIsNotNamed ==
    ASSUME Walked, NEW f \in Files, NEW c, Passes(f, c) PROVE ~Named(walk.got, f, c)
<1>1. CASE c = Absent
  <2>1. PICK i \in 1 .. walk.repo : f \in Sources[Repos[i]]
    BY InRepo DEF Walked
  <2>2. ~Pending(f)
    BY DEF Pending, Walked
  <2> QED
    BY <1>1, <2>1, <2>2 DEF Passes, Named
<1>2. CASE c # Absent
  BY <1>2 DEF Passes, Named
<1> QED
  BY <1>1, <1>2

\* Every step keeps what the first subject says.
LEMMA FirstStep == RunTypeOK /\ FirstSubject /\ [RunNext]_runVars => FirstSubject'
<1> SUFFICES ASSUME RunTypeOK, FirstSubject, [RunNext]_runVars PROVE FirstSubject'
  OBVIOUS
<1> USE DEF Begun
<1>1. ASSUME pc' = "before" PROVE saw' = {} /\ \A f \in Files, c \in Says : Held(f, c)' \/ Passes(f, c)'
  <2>1. pc = "before" /\ saw' = saw /\ (walk' = walk \/ WalksOn)
    <3>1. CASE (\E f \in Files : Look(f)) \/ (\E f \in Files, c \in Says : Edit(f, c)) \/ UNCHANGED runVars
      BY <1>1, <3>1 DEF Look, Edit, runVars
    <3>2. CASE WalksOn
      BY <1>1, <3>2 DEF WalksOn, List, OpenThere, ReadWhole, WalkStep
    <3>3. CASE TakeFirst \/ TakeSecond \/ Goes \/ Compared \/ Ends
      BY <1>1, <3>3 DEF TakeFirst, TakeSecond, Goes, Compared, Ends
    <3> QED
      BY <3>1, <3>2, <3>3, SourceSteps
  <2>2. saw = {} /\ \A f \in Files, c \in Says : Held(f, c) \/ Passes(f, c)
    BY <2>1 DEF FirstSubject
  <2>3. ASSUME NEW f \in Files, NEW c \in Says, ~Held(f, c)' PROVE Passes(f, c)'
    <3>1. ~Held(f, c) /\ Passes(f, c)
      BY <2>2, <2>3, HeldStays
    <3>2. tree[f] # c
      BY <3>1 DEF Held
    <3>3. walk' = walk => Passes(f, c)'
      BY <3>1 DEF Passes, Pending
    <3> QED
      BY <2>1, <3>1, <3>2, <3>3, PassesStep
  <2> QED
    BY <2>1, <2>2, <2>3
<1>2. ASSUME pc' \in Begun, NEW f \in Files, NEW c \in Says, Named(before, f, c)' PROVE Held(f, c)'
  <2>1. CASE TakeFirst
    <3>1. before' = walk.got /\ pc = "before" /\ Walked
      BY <2>1 DEF TakeFirst
    <3>2. Named(walk.got, f, c)
      BY <1>2, <3>1 DEF Named
    <3>3. Held(f, c)
      BY <3>1, <3>2, PassedIsNotNamed DEF FirstSubject
    <3> QED
      BY <3>3, HeldStays
  <2>2. CASE ~TakeFirst
    <3>1. pc \in Begun /\ before' = before
      <4>1. CASE (\E g \in Files : Look(g)) \/ (\E g \in Files, d \in Says : Edit(g, d)) \/ UNCHANGED runVars
        BY <1>2, <4>1 DEF Look, Edit, runVars
      <4>2. CASE WalksOn
        BY <1>2, <4>2 DEF WalksOn, List, OpenThere, ReadWhole, WalkStep
      <4>3. CASE TakeSecond \/ Goes \/ Compared \/ Ends
        BY <1>2, <4>3 DEF TakeSecond, Goes, Compared, Ends
      <4> QED
        BY <2>2, <4>1, <4>2, <4>3, SourceSteps
    <3>2. Named(before, f, c)
      BY <1>2, <3>1 DEF Named
    <3>3. Held(f, c)
      BY <3>1, <3>2 DEF FirstSubject
    <3> QED
      BY <3>3, HeldStays
  <2> QED
    BY <2>1, <2>2
<1> QED
  BY <1>1, <1>2 DEF FirstSubject

\* What was seen to be something else is gone, whatever the next step is.
LEMMA SecondStep == RunTypeOK /\ SourcesInv /\ [RunNext]_runVars => SecondSubject'
<1> SUFFICES ASSUME RunTypeOK, SourcesInv, [RunNext]_runVars, NEW f \in Files, NEW c \in Says, Changed(f, c)'
             PROVE  /\ pc' \in Begun => c \in former'[f]
                    /\ pc' = "after" => Passes(f, c)'
                    /\ pc' = "conclude" => ~Named(after, f, c)'
                    /\ report'.result # "pass"
  BY DEF SecondSubject
<1> USE DEF Begun
<1>1. former[f] \subseteq former'[f]
  BY HeldStays
<1>2. ASSUME before' = before, saw' = saw, restored \subseteq restored' PROVE Changed(f, c)
  BY <1>2 DEF Changed, Named
<1>3. ASSUME Changed(f, c)
      PROVE  /\ pc \in Begun => c \in former[f] /\ tree[f] # c
             /\ pc = "after" => Passes(f, c)
             /\ pc = "conclude" => ~Named(after, f, c)
             /\ report.result # "pass"
  <2>1. f \notin restored
    BY <1>3 DEF Changed
  <2> QED
    BY <1>3, <2>1 DEF SourcesInv, SecondSubject, Fresh
<1>4. CASE \E g \in Files : Look(g)
  <2>1. PICK g \in Files : Look(g)
    BY <1>4
  <2>2. /\ pc \in {"validate", "running"} /\ pc' = pc /\ saw' = saw \cup {<<g, tree[g]>>} /\ report' = report
        /\ before' = before /\ restored' = restored
    BY <2>1 DEF Look, sourceVars
  <2>3. Named(before, f, c) /\ f \notin restored
    BY <2>2 DEF Changed, Named
  <2>4. Held(f, c)
    BY <2>2, <2>3 DEF SourcesInv, FirstSubject
  <2>5. PICK x \in Says : x # c /\ <<f, x>> \in saw'
    BY DEF Changed
  <2>6. CASE <<f, x>> \in saw
    <3>1. Changed(f, c)
      BY <2>3, <2>5, <2>6 DEF Changed
    <3> QED
      BY <1>1, <1>3, <2>2, <3>1
  <2>7. CASE <<f, x>> \notin saw
    <3>1. f = g /\ x = tree[g]
      BY <2>2, <2>5, <2>7
    <3>2. c \in former[f]
      BY <2>4, <2>5, <3>1 DEF Held
    <3>3. report.result # "pass"
      BY <2>2 DEF RunTypeOK, None
    <3> QED
      BY <1>1, <2>2, <3>2, <3>3
  <2> QED
    BY <2>6, <2>7
<1>5. CASE (\E g \in Files, d \in Says : Edit(g, d)) \/ UNCHANGED runVars
  <2>1. /\ pc' = pc /\ walk' = walk /\ before' = before /\ after' = after /\ saw' = saw /\ report' = report
        /\ restored \subseteq restored'
    BY <1>5 DEF Edit, runVars
  <2>2. Passes(f, c) => Passes(f, c)'
    BY <2>1 DEF Passes, Pending
  <2>3. Named(after, f, c)' = Named(after, f, c)
    BY <2>1 DEF Named
  <2> QED
    BY <1>1, <1>2, <1>3, <2>1, <2>2, <2>3
<1>6. CASE WalksOn
  <2>1. /\ pc' = pc /\ pc \in {"before", "after"} /\ before' = before /\ saw' = saw /\ report' = report
        /\ restored' = restored
    BY <1>6 DEF WalksOn, Walking, List, OpenThere, ReadWhole, WalkStep, sourceVars
  <2>2. pc = "after" => Passes(f, c)'
    BY <1>2, <1>3, <1>6, <2>1, PassesStep
  <2> QED
    BY <1>1, <1>2, <1>3, <2>1, <2>2
<1>7. CASE TakeFirst
  <2>1. saw' = {}
    BY <1>7 DEF TakeFirst, WalkStep, SourcesInv, FirstSubject
  <2> QED
    BY <2>1 DEF Changed
<1>8. CASE TakeSecond
  <2>1. /\ pc' = "conclude" /\ pc = "after" /\ before' = before /\ after' = walk.got /\ saw' = saw /\ report' = report
        /\ restored' = restored /\ Walked
    BY <1>8 DEF TakeSecond, WalkStep, sourceVars
  <2>2. ~Named(walk.got, f, c)
    BY <1>2, <1>3, <2>1, PassedIsNotNamed
  <2>3. ~Named(after, f, c)'
    BY <2>1, <2>2 DEF Named
  <2> QED
    BY <1>1, <1>2, <1>3, <2>1, <2>3
<1>9. CASE Goes
  <2>1. walk' = NoWalk
    BY <1>9 DEF Goes, RunTypeOK, Walking
  <2>2. Passes(f, c)'
    <3>1. walk'.got = {} /\ walk'.open = NotOpen /\ 1 .. walk'.repo = {}
      BY <2>1 DEF NoWalk
    <3> QED
      BY <3>1 DEF Passes
  <2>3. Changed(f, c) /\ pc \in Begun
    BY <1>2, <1>9 DEF Goes, sourceVars
  <2> QED
    BY <1>1, <1>3, <1>9, <2>2, <2>3 DEF Goes
<1>10. CASE Compared
  <2>1. Changed(f, c) /\ pc = "conclude" /\ before = after
    BY <1>2, <1>10 DEF Compared, Same, sourceVars
  <2>2. Named(before, f, c) /\ ~Named(after, f, c)
    BY <1>3, <2>1 DEF Changed
  <2> QED
    BY <2>1, <2>2
<1>11. CASE Ends
  <2>1. Changed(f, c)
    BY <1>2, <1>11 DEF Ends, sourceVars
  <2> QED
    BY <1>3, <1>11, <2>1 DEF Ends
<1> QED
  BY <1>4, <1>5, <1>6, <1>7, <1>8, <1>9, <1>10, <1>11, SourceSteps, Zenon

-----------------------------------------------------------------------------
(* The theorems                                                            *)

RunInv == RunTypeOK /\ SourcesInv /\ ClaimsInv

\* It holds at first.
LEMMA RunInitInv == RunInit => RunInv
<1> SUFFICES ASSUME RunInit PROVE RunInv
  OBVIOUS
<1>1. RunTypeOK
  <2>1. walk \in Walks /\ at \in Places /\ report \in Reports
    BY InRepo DEF RunInit, NoWalk, Walks, Places, Reports, None
  <2> QED
    BY <2>1 DEF RunInit, RunTypeOK, Says, Options, Walking, None
<1>2. SourcesInv
  <2>1. \A f \in Files, c \in Says : Passes(f, c)
    BY NoWalkPasses DEF RunInit
  <2>2. Fresh /\ FirstSubject
    BY <2>1 DEF RunInit, Fresh, FirstSubject, Begun
  <2>3. SecondSubject
    BY DEF RunInit, SecondSubject, Changed
  <2> QED
    BY <2>2, <2>3 DEF SourcesInv
<1>3. ClaimsInv
  BY DEF RunInit, ClaimsInv, Progress, None
<1> QED
  BY <1>1, <1>2, <1>3 DEF RunInv

\* Every step keeps it.
LEMMA RunInvStep == RunInv /\ [RunNext]_runVars => RunInv'
  BY RunTypeStep, FreshStep, FirstStep, SecondStep, ClaimsStep DEF RunInv, SourcesInv

\* So it always holds.
LEMMA RunInvariant == RunSpec => []RunInv
<1>1. RunInit => RunInv
  BY RunInitInv
<1>2. RunInv /\ [RunNext]_runVars => RunInv'
  BY RunInvStep
<1> QED
  BY <1>1, <1>2, PTL DEF RunSpec

\* The variables of a run of the engineering checks always hold what they are meant
\* to, and a report has a result only at its end.
THEOREM EngineeringTypeOK == RunSpec => []RunTypeOK
<1>1. RunInv => RunTypeOK
  BY DEF RunInv
<1> QED
  BY <1>1, RunInvariant, PTL

\* A report that passes is about the sources it names (source_subject before and
\* after, and their comparison), however many edits are made at whatever moments:
\* what a command saw of a file is what both subjects say of it, unless the file
\* was put back.
THEOREM EngineeringPassMeansTheseSources == RunSpec => []PassMeansTheseSources
<1>1. RunInv => PassMeansTheseSources
  <2> SUFFICES ASSUME RunInv, Passed, NEW s \in saw, s[1] \notin restored
               PROVE  IF s[2] = Absent THEN \A c \in Contents : <<s[1], c>> \notin before ELSE s \in before
    BY DEF PassMeansTheseSources
  <2>1. saw \subseteq Files \X Says /\ before \subseteq Files \X Contents
    BY DEF RunInv, RunTypeOK
  <2>2. PICK f \in Files, x \in Says : s = <<f, x>>
    BY <2>1
  <2>3. f \notin restored /\ <<f, x>> \in saw
    BY <2>2
  <2>4. \A c \in Says : ~Changed(f, c)
    BY DEF RunInv, SourcesInv, SecondSubject, Passed
  <2>5. \A c \in Says : Named(before, f, c) => c = x
    BY <2>2, <2>3, <2>4 DEF Changed
  <2>6. \E c \in Says : Named(before, f, c)
    <3>1. Absent \in Says /\ Absent \notin Contents /\ Contents \subseteq Says
      BY BoundsAssumption DEF Says
    <3>2. CASE \E c \in Contents : <<f, c>> \in before
      <4>1. PICK c \in Contents : <<f, c>> \in before
        BY <3>2
      <4> QED
        BY <3>1, <4>1 DEF Named
    <3>3. CASE \A c \in Contents : <<f, c>> \notin before
      <4>1. Named(before, f, Absent)
        BY <3>3 DEF Named
      <4> QED
        BY <3>1, <4>1
    <3> QED
      BY <3>2, <3>3
  <2>7. Named(before, f, x)
    BY <2>5, <2>6
  <2>8. s[1] = f /\ s[2] = x
    BY <2>2
  <2>9. CASE x = Absent
    BY <2>7, <2>8, <2>9 DEF Named
  <2>10. CASE x # Absent
    <3>1. <<f, x>> \in before
      BY <2>7, <2>10 DEF Named
    <3> QED
      BY <2>2, <2>8, <2>10, <3>1
  <2> QED
    BY <2>9, <2>10
<1> QED
  BY <1>1, RunInvariant, PTL

\* The report claims all tests or all proofs only when every source check and every
\* command of every repository ran and passed, with no test left out, and it passes
\* only with the claim of its mode, wherever a run was cut short.
THEOREM EngineeringClaimsAreEarned == RunSpec => []ClaimsAreEarned
<1>1. RunInv => ClaimsAreEarned
  BY DEF RunInv, ClaimsInv, ClaimsAreEarned, ClaimOfMode, Passed
<1> QED
  BY <1>1, RunInvariant, PTL

-----------------------------------------------------------------------------
(* The processes of a proof run (ProofGuard)                               *)

Waits   == {"acquire", "spawn"}
Working == {"watch", "watching", "killpg", "list", "sweep", "sweeping"}
Sweeps  == {"list", "sweep", "sweeping"}

Verdicts == {"not-run", "pass", "fail"}
Entries == [job : Jobs \cup {NoPid}, role : {"free", "guard", "leader", "tool", "other"},
            state : {"none", "running", "zombie"}, parent : Pids \cup {Init0, Runner},
            group : Pids \cup {NoPid}, killed : BOOLEAN, term : BOOLEAN, lock : BOOLEAN, code : {0, 1, 9}]
Guards  == [pc : {"none", "release", "end"} \cup Waits \cup Working, pid : Pids \cup {NoPid},
            child : Pids \cup {NoPid}, reason : {"none", "not-started", "stopped", "cleanup-failed"},
            rc : {NoPid, 0, 1, 9}, todo : SUBSET Pids, left : Nat, fd : BOOLEAN,
            result : Verdicts]
Runners == [pc : {"start", "shell", "read", "reading", "term", "grace", "kill", "wait", "waiting", "end"},
            left : Nat, reason : {"none", "stopped"}, result : {"not-run", "pass", "fail", "timeout"}]

\* What the variables hold.
GuardTypeOK ==
    /\ proc \in [Pids -> Entries] /\ guard \in [Jobs -> Guards]
    /\ runner \in [Jobs -> Runners] /\ shot \subseteq Jobs

\* Process p belongs to the tool of job j: it runs, or nobody has reaped it yet.
OfTool(p, j) == proc[p].role \in {"leader", "tool"} /\ proc[p].job = j

\* Nothing of the tool of job j is left in the process table.
Gone(j) == \A p \in Pids : ~OfTool(p, j)

\* The guard of job j is at work on its tool or may yet start it, or is about to leave.
Lives(j) == guard[j].pc \notin {"none", "end"}


\* What an entry of the process table may be; in particular, no stranger was signalled.
TableAt(p) ==
    /\ proc[p].role = "free" => proc[p] = Free
    /\ proc[p].role # "free" => Running(p) \/ Zombie(p)
    /\ Zombie(p) => ~proc[p].killed /\ ~proc[p].lock
    /\ proc[p].role = "other" => /\ Running(p) /\ proc[p].parent = Init0 /\ proc[p].group = p /\ proc[p].job = NoPid
                                 /\ ~proc[p].killed /\ ~proc[p].term /\ ~proc[p].lock
    /\ proc[p].role \in {"guard", "leader", "tool"} => proc[p].job \in Jobs
    /\ proc[p].role = "guard" => /\ guard[proc[p].job].pid = p /\ proc[p].parent = Runner /\ ~proc[p].lock
                                 /\ Running(p) => proc[p].group = p /\ Lives(proc[p].job)
                                 /\ Zombie(p) => /\ guard[proc[p].job].pc = "end"
                                                 /\ proc[p].code = 0 => guard[proc[p].job].result = "pass"
    /\ proc[p].role = "leader" /\ Running(p) => proc[p].lock

\* Whose child a process of a tool is: of a process that runs, of its own job; an
\* orphan is the guard's while there is one.
ParentsAt(p, j) ==
    OfTool(p, j) =>
        \/ proc[p].parent = Init0 /\ ~Lives(j) /\ Running(p)
        \/ proc[p].parent = guard[j].pid /\ Lives(j)
        \/ proc[p].parent \in Pids /\ Running(proc[p].parent) /\ OfTool(proc[p].parent, j) /\ proc[p].role = "tool"

\* What guard and runner stand for.
WatchesAt(j) ==
    /\ guard[j].pc = "none" <=> runner[j].pc = "start"
    /\ guard[j].pc = "none" <=> guard[j].pid = NoPid
    /\ Lives(j) => Running(guard[j].pid)
    /\ Lives(j) \/ runner[j].pc \notin {"start", "end"} =>
           proc[guard[j].pid].role = "guard" /\ proc[guard[j].pid].job = j
    /\ guard[j].pc \in {"none", "end"} \cup Waits => guard[j].child = NoPid /\ guard[j].rc = NoPid
    /\ guard[j].rc # NoPid => guard[j].child # NoPid
    /\ guard[j].pc \in Working =>
           /\ guard[j].child \in Pids /\ proc[guard[j].child].role = "leader" /\ proc[guard[j].child].job = j
           /\ proc[guard[j].child].parent = guard[j].pid /\ guard[j].rc = NoPid
    /\ guard[j].todo # {} => guard[j].pc = "sweep"
    /\ \A c \in guard[j].todo : OfTool(c, j) /\ proc[c].parent = guard[j].pid /\ c # guard[j].child
    /\ guard[j].result # "not-run" => guard[j].pc = "end"
    /\ runner[j].result = "pass" => guard[j].result = "pass"
    /\ j \notin Watched => runner[j].pc \in {"start", "shell", "end"}
    /\ guard[j].reason = "cleanup-failed" => guard[j].pc \in {"release", "end"}

\* When nothing of the tool is left.
SweptAt(j) ==
    /\ guard[j].pc \in {"none"} \cup Waits => Gone(j)
    /\ guard[j].pc \in {"release", "end"} => Gone(j) \/ Abandoned(j)
    /\ guard[j].rc # NoPid \/ guard[j].result = "pass" => Gone(j)

\* How far a guard has come that was told to end, as long as nobody shot it and its
\* cleanup has not failed.
HurriesAt(j) ==
    /\ guard[j].pc \in Sweeps => guard[j].left <= Cleanup
    /\ guard[j].pc = "sweeping" => guard[j].left > 0
    /\ Lives(j) /\ proc[guard[j].pid].killed => Abandoned(j) \/ guard[j].pc \in Waits
    /\ runner[j].pc \in {"grace", "kill"} /\ guard[j].pc \in Waits => proc[guard[j].pid].killed
    /\ runner[j].pc = "kill" => Abandoned(j) \/ guard[j].pc \in {"end"} \cup Waits
    /\ runner[j].pc = "grace" /\ guard[j].pc \in Working /\ ~Abandoned(j) =>
           /\ proc[guard[j].pid].term
           /\ guard[j].pc = "watching" => runner[j].left = Grace
           /\ guard[j].pc \in {"watch", "killpg"} => runner[j].left + 1 >= Grace
           /\ guard[j].pc \in Sweeps => guard[j].left < runner[j].left

Table   == \A p \in Pids : TableAt(p)
Parents == \A p \in Pids, j \in Jobs : ParentsAt(p, j)

\* There is no circle of parents.
Rooted ==
    \A j \in Jobs : \A S \in SUBSET Tree(j) : S # {} => \E p \in S : proc[p].parent \notin S

Watches == \A j \in Jobs : WatchesAt(j)
Swept   == \A j \in Jobs : SweptAt(j)
Hurries == \A j \in Jobs : HurriesAt(j)

\* Who has the lock: one job at most, and whoever starts or stops a tool.
Locks ==
    /\ \A j \in Jobs : guard[j].pc \in {"spawn"} \cup Working => guard[j].fd
    /\ \A j, k \in LockedBy : j = k

GuardInv == GuardTypeOK /\ Table /\ Parents /\ Rooted /\ Watches /\ Swept /\ Locks /\ Hurries

-----------------------------------------------------------------------------
(* The steps of guard and runner, one case each                            *)

\* A tool p forks c, in a group of its own or in p's, with the descriptor or without.
ForkOne(p, c, own, keeps) ==
    /\ Tool(p) /\ c \in FreePids
    /\ proc' = [proc EXCEPT ![c] = [Process(proc[p].job, "tool", p, IF own THEN c ELSE proc[p].group)
                                      EXCEPT !.lock = keeps /\ proc[p].lock]]
    /\ UNCHANGED <<guard, runner, shot>>

ExitWith(p, c) == Tool(p) /\ proc' = Ended(p, c) /\ UNCHANGED <<guard, runner, shot>>

Reaps(p, c) ==
    /\ Tool(p) /\ c \in Children(p) /\ Zombie(c) /\ proc' = [proc EXCEPT ![c] = Free]
    /\ UNCHANGED <<guard, runner, shot>>

DieOther(p) == Dying(p) /\ proc[p].role # "guard" /\ proc' = Ended(p, 9) /\ UNCHANGED <<guard, runner, shot>>

DieGuard(p, j) ==
    /\ Dying(p) /\ proc[p].role = "guard" /\ j = proc[p].job /\ proc' = Ended(p, 9)
    /\ guard' = [guard EXCEPT ![j] =
                   [@ EXCEPT !.pc = "end", !.fd = FALSE, !.child = NoPid, !.rc = NoPid, !.todo = {}, !.left = 0]]
    /\ UNCHANGED <<runner, shot>>

StrangerComes(c) ==
    /\ c \in FreePids /\ proc' = [proc EXCEPT ![c] = Process(NoPid, "other", Init0, c)]
    /\ UNCHANGED <<guard, runner, shot>>

StrangerGoes(p) == proc[p].role = "other" /\ proc' = [proc EXCEPT ![p] = Free] /\ UNCHANGED <<guard, runner, shot>>

\* The lock is free, or the tool is not started.
Locking(j) ==
    /\ At(j, "acquire") /\ LockedBy = {}
    /\ guard' = [guard EXCEPT ![j] = [@ EXCEPT !.pc = "spawn", !.fd = TRUE]]
    /\ UNCHANGED <<proc, runner, shot>>

NotStarted(j) ==
    /\ At(j, "acquire") \/ At(j, "spawn")
    /\ guard' = [guard EXCEPT ![j] = [@ EXCEPT !.pc = "release", !.reason = "not-started"]]
    /\ UNCHANGED <<proc, runner, shot>>

SpawnOne(j, c) ==
    /\ At(j, "spawn") /\ c \in FreePids
    /\ proc' = [proc EXCEPT ![c] = [Process(j, "leader", guard[j].pid, c) EXCEPT !.lock = TRUE]]
    /\ guard' = [guard EXCEPT ![j] = [@ EXCEPT !.pc = "watch", !.child = c, !.left = Seconds]]
    /\ UNCHANGED <<runner, shot>>

WatchOver(j, reason) ==
    /\ At(j, "watch")
    /\ guard' = [guard EXCEPT ![j] = [@ EXCEPT !.pc = "killpg", !.reason = reason, !.left = 0]]
    /\ UNCHANGED <<proc, runner, shot>>

WatchOn(j) ==
    /\ At(j, "watch") /\ ~proc[guard[j].pid].term
    /\ guard' = [guard EXCEPT ![j] = [@ EXCEPT !.pc = "watching"]]
    /\ UNCHANGED <<proc, runner, shot>>

KillOne(j, c) ==
    /\ At(j, "sweep") /\ c \in guard[j].todo
    /\ guard' = [guard EXCEPT ![j] = [@ EXCEPT !.todo = guard[j].todo \ {c}]] /\ proc' = Killed({c})
    /\ UNCHANGED <<runner, shot>>

ReapOne(j, c) ==
    /\ At(j, "sweep") /\ c \in guard[j].todo /\ Zombie(c) /\ proc[c].parent = guard[j].pid
    /\ guard' = [guard EXCEPT ![j] = [@ EXCEPT !.todo = guard[j].todo \ {c}]] /\ proc' = [proc EXCEPT ![c] = Free]
    /\ UNCHANGED <<runner, shot>>

GiveUp(j) ==
    /\ At(j, "sweep") /\ guard[j].left = 0 /\ guard[j].todo = {}
    /\ guard' = [guard EXCEPT ![j] = [@ EXCEPT !.pc = "release", !.reason = "cleanup-failed"]]
    /\ UNCHANGED <<proc, runner, shot>>

SweepOn(j) ==
    /\ At(j, "sweep") /\ guard[j].left # 0 /\ guard[j].todo = {}
    /\ guard' = [guard EXCEPT ![j] = [@ EXCEPT !.pc = "sweeping"]]
    /\ UNCHANGED <<proc, runner, shot>>

StartOne(j, c) ==
    /\ runner[j].pc = "start" /\ c \in FreePids
    /\ proc' = [proc EXCEPT ![c] = Process(j, "guard", Runner, c)]
    /\ guard' = [guard EXCEPT ![j] = [@ EXCEPT !.pc = "acquire", !.pid = c]]
    /\ runner' = IF j \in Watched THEN [runner EXCEPT ![j] = [@ EXCEPT !.pc = "read", !.left = Timeout]]
                 ELSE [runner EXCEPT ![j] = [@ EXCEPT !.pc = "shell"]]
    /\ UNCHANGED shot

ReadOver(j, reason) ==
    /\ runner[j].pc = "read"
    /\ runner' = [runner EXCEPT ![j] = [@ EXCEPT !.pc = "term", !.reason = reason, !.left = 0]]
    /\ UNCHANGED <<proc, guard, shot>>

ReadOn(j) == runner[j].pc = "read" /\ runner' = [runner EXCEPT ![j] = [@ EXCEPT !.pc = "reading"]] /\ UNCHANGED <<proc, guard, shot>>

WaitReaps(j) ==
    /\ runner[j].pc = "wait" /\ Zombie(guard[j].pid)
    /\ proc' = [proc EXCEPT ![guard[j].pid] = Free]
    /\ runner' = [runner EXCEPT ![j] = [@ EXCEPT !.pc = "end", !.left = 0,
                    !.result = IF runner[j].reason # "none" THEN "fail"
                               ELSE IF proc[guard[j].pid].code = 0 THEN "pass" ELSE "fail"]]
    /\ UNCHANGED <<guard, shot>>

WaitNoMore(j) ==
    /\ runner[j].pc = "wait" /\ runner' = [runner EXCEPT ![j] = [@ EXCEPT !.pc = "end", !.result = "timeout"]]
    /\ UNCHANGED <<proc, guard, shot>>

WaitOn(j) == runner[j].pc = "wait" /\ runner' = [runner EXCEPT ![j] = [@ EXCEPT !.pc = "waiting"]] /\ UNCHANGED <<proc, guard, shot>>

KillTool(j) ==
    /\ At(j, "killpg") /\ proc' = Killed(Group(guard[j].child))
    /\ guard' = [guard EXCEPT ![j] = [@ EXCEPT !.pc = "list", !.left = Cleanup]]
    /\ UNCHANGED <<runner, shot>>

ListOne(j) ==
    /\ At(j, "list")
    /\ guard' = [guard EXCEPT ![j] = [@ EXCEPT !.pc = "sweep", !.todo = Children(guard[j].pid) \ {guard[j].child}]]
    /\ UNCHANGED <<proc, runner, shot>>

ReapTool(j) ==
    /\ At(j, "sweep") /\ guard[j].todo = {}
    /\ Zombie(guard[j].child) /\ Children(guard[j].pid) = {guard[j].child}
    /\ proc' = [proc EXCEPT ![guard[j].child] = Free]
    /\ guard' = [guard EXCEPT ![j] = [@ EXCEPT !.pc = "release", !.rc = proc[guard[j].child].code, !.left = 0]]
    /\ UNCHANGED <<runner, shot>>

Leave(j, pass, result) ==
    /\ At(j, "release") /\ pass = (guard[j].reason = "none" /\ guard[j].rc = 0)
    /\ result = IF guard[j].child = NoPid THEN guard[j].result ELSE IF pass THEN "pass" ELSE "fail"
    /\ guard' = [guard EXCEPT ![j] = [@ EXCEPT !.pc = "end", !.fd = FALSE, !.child = NoPid, !.rc = NoPid, !.result = result]]
    /\ proc' = Ended(guard[j].pid, IF pass THEN 0 ELSE 1)
    /\ UNCHANGED <<runner, shot>>

ShellReaps(j) ==
    /\ runner[j].pc = "shell" /\ Zombie(guard[j].pid)
    /\ proc' = [proc EXCEPT ![guard[j].pid] = Free]
    /\ runner' = [runner EXCEPT ![j] = [@ EXCEPT !.pc = "end"]]
    /\ UNCHANGED <<guard, shot>>

TermSent(j) ==
    /\ runner[j].pc = "term"
    /\ proc' = [p \in Pids |->
                  IF p \notin Group(guard[j].pid) \/ ~Running(p) THEN proc[p]
                  ELSE IF guard[j].pc \in Waits THEN [proc[p] EXCEPT !.killed = TRUE]
                  ELSE [proc[p] EXCEPT !.term = TRUE]]
    /\ runner' = [runner EXCEPT ![j] = [@ EXCEPT !.pc = "grace", !.left = Grace]]
    /\ UNCHANGED <<guard, shot>>

KillSent(j) ==
    /\ runner[j].pc = "kill" /\ proc' = Killed(Group(guard[j].pid))
    /\ runner' = [runner EXCEPT ![j] = [@ EXCEPT !.pc = "wait", !.left = Patience]]
    /\ UNCHANGED <<guard, shot>>

\* What the tools may do, and whoever is killed.
LEMMA ToolSteps ==
    ASSUME NEW p \in Pids, Fork(p) \/ Exit(p) \/ ToolReaps(p) \/ Die(p)
    PROVE  \/ \E c \in Pids, own \in BOOLEAN, keeps \in BOOLEAN : ForkOne(p, c, own, keeps)
           \/ \E c \in {0, 1} : ExitWith(p, c)
           \/ \E c \in Pids : Reaps(p, c)
           \/ DieOther(p) \/ DieGuard(p, proc[p].job)
<1>1. FreePids \subseteq Pids /\ Children(p) \subseteq Pids
  BY DEF FreePids, Children
<1>2. Fork(p) => \E c \in Pids, own \in BOOLEAN, keeps \in BOOLEAN : ForkOne(p, c, own, keeps)
  BY <1>1, Zenon DEF Fork, ForkOne
<1>3. Exit(p) => \E c \in {0, 1} : ExitWith(p, c)
  BY Zenon DEF Exit, ExitWith
<1>4. ToolReaps(p) => \E c \in Pids : Reaps(p, c)
  BY <1>1, Zenon DEF ToolReaps, Reaps
<1>5. Die(p) => DieOther(p) \/ DieGuard(p, proc[p].job)
  <2>1. CASE proc[p].role = "guard"
    BY <2>1, Zenon DEF Die, DieGuard
  <2>2. CASE proc[p].role # "guard"
    BY <2>2, Zenon DEF Die, DieOther
  <2> QED
    BY <2>1, <2>2
<1> QED
  BY <1>2, <1>3, <1>4, <1>5

\* What a guard may do.
LEMMA GuardSteps ==
    ASSUME GuardTypeOK, NEW j \in Jobs, GuardStep(j)
    PROVE  \/ Locking(j) \/ NotStarted(j) \/ (\E c \in Pids : SpawnOne(j, c))
           \/ (\E reason \in {"stopped", "none"} : WatchOver(j, reason)) \/ WatchOn(j)
           \/ KillTool(j) \/ ListOne(j) \/ (\E c \in Pids : KillOne(j, c) \/ ReapOne(j, c))
           \/ ReapTool(j) \/ GiveUp(j) \/ SweepOn(j) \/ (\E pass \in BOOLEAN, result \in Verdicts : Leave(j, pass, result))
<1>1. FreePids \subseteq Pids /\ guard \in [Jobs -> Guards] /\ guard[j].todo \subseteq Pids
  BY DEF FreePids, GuardTypeOK, Guards
<1>2. Acquire(j) => Locking(j) \/ NotStarted(j)
  BY <1>1, Zenon DEF Acquire, Locking, NotStarted
<1>3. NoMemory(j) => NotStarted(j)
  BY <1>1, Zenon DEF NoMemory, NotStarted
<1>4. Spawn(j) => \E c \in Pids : SpawnOne(j, c)
  BY <1>1, Zenon DEF Spawn, SpawnOne
<1>5. Watch(j) => (\E reason \in {"stopped", "none"} : WatchOver(j, reason)) \/ WatchOn(j)
  <2>1. \A reason : guard' = [guard EXCEPT ![j].pc = "killpg", ![j].reason = reason, ![j].left = 0]
          => guard' = [guard EXCEPT ![j] = [@ EXCEPT !.pc = "killpg", !.reason = reason, !.left = 0]]
    BY <1>1, Zenon
  <2>2. GoOn(j, "watching") => guard' = [guard EXCEPT ![j] = [@ EXCEPT !.pc = "watching"]]
    BY <1>1, Zenon DEF GoOn
  <2> QED
    BY <2>1, <2>2, Zenon DEF Watch, WatchOver, WatchOn
<1>6. KillGroup(j) => KillTool(j)
  BY <1>1, Zenon DEF KillGroup, KillTool
<1>7. ListChildren(j) => ListOne(j)
  BY <1>1 DEF ListChildren, ListOne, GuardTypeOK, Guards
<1>8. KillChild(j) => \E c \in Pids : KillOne(j, c) \/ ReapOne(j, c)
  <2>1. ASSUME NEW c, guard' = [guard EXCEPT ![j].todo = @ \ {c}]
        PROVE  guard' = [guard EXCEPT ![j] = [@ EXCEPT !.todo = guard[j].todo \ {c}]]
    BY <1>1, <2>1, Zenon
  <2> QED
    BY <1>1, <2>1, Zenon DEF KillChild, KillOne, ReapOne
<1>9. ReapLeader(j) => ReapTool(j)
  BY <1>1, Zenon DEF ReapLeader, ReapTool
<1>10. KeepSweeping(j) => GiveUp(j) \/ SweepOn(j)
  <2>1. guard' = [guard EXCEPT ![j].pc = "release", ![j].reason = "cleanup-failed"]
          => guard' = [guard EXCEPT ![j] = [@ EXCEPT !.pc = "release", !.reason = "cleanup-failed"]]
    BY <1>1, Zenon
  <2>2. guard' = [guard EXCEPT ![j].pc = "sweeping"] => guard' = [guard EXCEPT ![j] = [@ EXCEPT !.pc = "sweeping"]]
    BY <1>1, Zenon
  <2> QED
    BY <2>1, <2>2, Zenon DEF KeepSweeping, GiveUp, SweepOn
<1>11. Release(j) => \E pass \in BOOLEAN, result \in Verdicts : Leave(j, pass, result)
  <2> SUFFICES ASSUME Release(j) PROVE \E pass \in BOOLEAN, result \in Verdicts : Leave(j, pass, result)
    OBVIOUS
  <2>1. PICK pass \in BOOLEAN : pass = (guard[j].reason = "none" /\ guard[j].rc = 0)
    OBVIOUS
  <2>2. PICK result \in Verdicts : result = IF guard[j].child = NoPid THEN guard[j].result ELSE IF pass THEN "pass" ELSE "fail"
    BY DEF GuardTypeOK, Guards, Verdicts
  <2>3. guard' = [guard EXCEPT ![j] = [@ EXCEPT !.pc = "end", !.fd = FALSE, !.child = NoPid, !.rc = NoPid,
                    !.result = IF guard[j].child = NoPid THEN guard[j].result ELSE IF pass THEN "pass" ELSE "fail"]]
    BY <2>1, Zenon DEF Release
  <2>4. guard' = [guard EXCEPT ![j] = [@ EXCEPT !.pc = "end", !.fd = FALSE, !.child = NoPid, !.rc = NoPid, !.result = result]]
    BY <2>2, <2>3, Zenon
  <2>5. Leave(j, pass, result)
    BY <2>1, <2>2, <2>4, Zenon DEF Release, Leave
  <2> QED
    BY <2>5
<1> QED
  BY <1>2, <1>3, <1>4, <1>5, <1>6, <1>7, <1>8, <1>9, <1>10, <1>11, Zenon DEF GuardStep

\* What a runner may do.
LEMMA RunnerSteps ==
    ASSUME GuardTypeOK, NEW j \in Jobs, StartGuard(j) \/ RunnerStep(j)
    PROVE  \/ (\E c \in Pids : StartOne(j, c)) \/ ShellReaps(j)
           \/ (\E reason \in {"stopped", "none"} : ReadOver(j, reason)) \/ ReadOn(j)
           \/ TermSent(j) \/ KillSent(j) \/ WaitReaps(j) \/ WaitNoMore(j) \/ WaitOn(j)
<1>1. FreePids \subseteq Pids /\ guard \in [Jobs -> Guards] /\ runner \in [Jobs -> Runners]
  BY DEF FreePids, GuardTypeOK
<1>2. StartGuard(j) => \E c \in Pids : StartOne(j, c)
  <2>1. [runner EXCEPT ![j].pc = "read", ![j].left = Timeout] = [runner EXCEPT ![j] = [@ EXCEPT !.pc = "read", !.left = Timeout]]
        /\ [runner EXCEPT ![j].pc = "shell"] = [runner EXCEPT ![j] = [@ EXCEPT !.pc = "shell"]]
        /\ \A c : [guard EXCEPT ![j].pc = "acquire", ![j].pid = c] = [guard EXCEPT ![j] = [@ EXCEPT !.pc = "acquire", !.pid = c]]
    BY <1>1, Zenon
  <2> QED
    BY <1>1, <2>1, Zenon DEF StartGuard, StartOne
<1>3. ReadLog(j) => (\E reason \in {"stopped", "none"} : ReadOver(j, reason)) \/ ReadOn(j)
  <2>1. \A reason : runner' = [runner EXCEPT ![j].pc = "term", ![j].reason = reason, ![j].left = 0]
          => runner' = [runner EXCEPT ![j] = [@ EXCEPT !.pc = "term", !.reason = reason, !.left = 0]]
    BY <1>1, Zenon
  <2>2. Does(j, "reading") => runner' = [runner EXCEPT ![j] = [@ EXCEPT !.pc = "reading"]]
    BY <1>1, Zenon DEF Does
  <2> QED
    BY <2>1, <2>2, Zenon DEF ReadLog, ReadOver, ReadOn
<1>4. Wait(j) => WaitReaps(j) \/ WaitNoMore(j) \/ WaitOn(j)
  <2>1. Does(j, "waiting") => runner' = [runner EXCEPT ![j] = [@ EXCEPT !.pc = "waiting"]]
    BY <1>1, Zenon DEF Does
  <2>2. \A r : runner' = [runner EXCEPT ![j].pc = "end", ![j].left = 0, ![j].result = r]
          => runner' = [runner EXCEPT ![j] = [@ EXCEPT !.pc = "end", !.left = 0, !.result = r]]
    BY <1>1, Zenon
  <2>3. \A r : runner' = [runner EXCEPT ![j].pc = "end", ![j].result = r]
          => runner' = [runner EXCEPT ![j] = [@ EXCEPT !.pc = "end", !.result = r]]
    BY <1>1, Zenon
  <2> QED
    BY <2>1, <2>2, <2>3, Zenon DEF Wait, WaitReaps, WaitNoMore, WaitOn
<1>5. Term(j) => TermSent(j)
  BY <1>1, Zenon DEF Term, TermSent, Waits
<1>6. Kill(j) => KillSent(j)
  BY <1>1, Zenon DEF Kill, KillSent
<1>7. ShellWaits(j) => ShellReaps(j)
  BY <1>1, Zenon DEF ShellWaits, ShellReaps
<1> QED
  BY <1>2, <1>3, <1>4, <1>5, <1>6, <1>7, Zenon DEF RunnerStep

\* What strangers may do.
LEMMA StrangerSteps == Stranger => \E c \in Pids : StrangerComes(c) \/ StrangerGoes(c)
<1>1. FreePids \subseteq Pids
  BY DEF FreePids
<1> QED
  BY <1>1, Zenon DEF Stranger, StrangerComes, StrangerGoes

\* What may happen at process p, and to job j.
ToolMoves(p) ==
    \/ \E c \in Pids, own \in BOOLEAN, keeps \in BOOLEAN : ForkOne(p, c, own, keeps)
    \/ \E c \in {0, 1} : ExitWith(p, c)
    \/ \E c \in Pids : Reaps(p, c)
    \/ DieOther(p) \/ DieGuard(p, proc[p].job)
    \/ StrangerComes(p) \/ StrangerGoes(p)

JobMoves(j) ==
    \/ Shoot(j) \/ Locking(j) \/ NotStarted(j) \/ (\E c \in Pids : SpawnOne(j, c))
    \/ (\E reason \in {"stopped", "none"} : WatchOver(j, reason)) \/ WatchOn(j)
    \/ KillTool(j) \/ ListOne(j) \/ (\E c \in Pids : KillOne(j, c) \/ ReapOne(j, c))
    \/ ReapTool(j) \/ GiveUp(j) \/ SweepOn(j) \/ (\E pass \in BOOLEAN, result \in Verdicts : Leave(j, pass, result))
    \/ (\E c \in Pids : StartOne(j, c)) \/ ShellReaps(j)
    \/ (\E reason \in {"stopped", "none"} : ReadOver(j, reason)) \/ ReadOn(j)
    \/ TermSent(j) \/ KillSent(j) \/ WaitReaps(j) \/ WaitNoMore(j) \/ WaitOn(j)

\* Every step is one of these.
LEMMA GuardNextSteps ==
    ASSUME GuardTypeOK, [Next]_vars
    PROVE  (\E p \in Pids : ToolMoves(p)) \/ (\E j \in Jobs : JobMoves(j)) \/ Tick \/ UNCHANGED vars
<1>2. ASSUME NEW p \in Pids, Fork(p) \/ Exit(p) \/ ToolReaps(p) \/ Die(p) PROVE ToolMoves(p)
  BY <1>2, ToolSteps, Zenon DEF ToolMoves
<1>3. Stranger => \E p \in Pids : ToolMoves(p)
  BY StrangerSteps, Zenon DEF ToolMoves
<1>4. ASSUME NEW j \in Jobs, Shoot(j) \/ GuardStep(j) \/ StartGuard(j) \/ RunnerStep(j) PROVE JobMoves(j)
  BY <1>4, GuardSteps, RunnerSteps, Zenon DEF JobMoves
<1> QED
  BY <1>2, <1>3, <1>4, Zenon DEF Next

-----------------------------------------------------------------------------
(* Types of the process table                                              *)

\* PIDs are positive; none is one of the other parents.
LEMMA PidsAre == \A p \in Pids : p \in Nat \ {0} /\ p # Init0 /\ p # Runner /\ p # NoPid
  BY PidsAssumption DEF Init0, Runner, NoPid

\* The entries there may be.
LEMMA EntriesAre ==
    /\ Free \in Entries
    /\ \A j \in Jobs \cup {NoPid}, role \in {"guard", "leader", "tool", "other"}, parent \in Pids \cup {Init0, Runner}, g \in Pids \cup {NoPid} :
         Process(j, role, parent, g) \in Entries
  BY DEF Free, Process, Entries

\* Whom the orphans of process p go to.
Heir(p) == IF proc[p].role = "guard" THEN Init0 ELSE Adopter(proc[p].job)

Left(p, c) ==
    [Free EXCEPT !.job = proc[p].job, !.role = proc[p].role, !.state = "zombie",
       !.parent = proc[p].parent, !.code = IF proc[p].role = "tool" THEN 0 ELSE c]

Orphan(q, p) == q # p /\ proc[q].role # "free" /\ proc[q].parent = p

\* What becomes of each process when p ends.
LEMMA EndedAre ==
    ASSUME NEW p \in Pids, NEW c
    PROVE  /\ DOMAIN Ended(p, c) = Pids
           /\ Ended(p, c)[p] = IF proc[p].parent = Init0 THEN Free ELSE Left(p, c)
           /\ \A q \in Pids : Orphan(q, p) =>
                Ended(p, c)[q] = IF Heir(p) = Init0 /\ Zombie(q) THEN Free ELSE [proc[q] EXCEPT !.parent = Heir(p)]
           /\ \A q \in Pids : q # p /\ ~Orphan(q, p) => Ended(p, c)[q] = proc[q]
  BY DEF Ended, Heir, Left, Orphan

\* The process table after process p, of a job, has ended.
LEMMA EndedType ==
    ASSUME GuardTypeOK, NEW p \in Pids, proc[p].job \in Jobs, NEW c \in {0, 1, 9} PROVE Ended(p, c) \in [Pids -> Entries]
<1>1. proc \in [Pids -> Entries] /\ \A j \in Jobs : guard[j].pid \in Pids \cup {NoPid}
  BY DEF GuardTypeOK, Guards
<1>2. Heir(p) \in Pids \cup {Init0}
  BY <1>1 DEF Heir, Adopter, Guarding
<1>3. Left(p, c) \in Entries
  BY <1>1 DEF Left, Free, Entries
<1>4. \A q \in Pids : [proc[q] EXCEPT !.parent = Heir(p)] \in Entries
  BY <1>1, <1>2 DEF Entries
<1>5. ASSUME NEW q \in Pids PROVE Ended(p, c)[q] \in Entries
  <2>1. CASE q = p
    <3>1. Ended(p, c)[p] = IF proc[p].parent = Init0 THEN Free ELSE Left(p, c)
      BY EndedAre
    <3> QED
      BY <1>3, <2>1, <3>1, EntriesAre, Zenon
  <2>2. CASE Orphan(q, p)
    <3>1. Ended(p, c)[q] = IF Heir(p) = Init0 /\ Zombie(q) THEN Free ELSE [proc[q] EXCEPT !.parent = Heir(p)]
      BY <2>2, EndedAre
    <3> QED
      BY <1>4, <3>1, EntriesAre, Zenon
  <2>3. CASE q # p /\ ~Orphan(q, p)
    BY <1>1, <2>3, EndedAre
  <2> QED
    BY <2>1, <2>2, <2>3
<1>6. Ended(p, c) = [q \in Pids |-> Ended(p, c)[q]]
  BY DEF Ended
<1> QED
  BY <1>5, <1>6

\* Signals change flags only.
LEMMA KilledAre ==
    ASSUME GuardTypeOK, NEW S
    PROVE  /\ Killed(S) \in [Pids -> Entries]
           /\ \A p \in Pids : Killed(S)[p] = IF p \in S /\ Running(p) THEN [proc[p] EXCEPT !.killed = TRUE] ELSE proc[p]
<1>1. ASSUME NEW e \in Entries PROVE [e EXCEPT !.killed = TRUE] \in Entries
  BY DEF Entries
<1>2. ASSUME NEW p \in Pids PROVE proc[p] \in Entries /\ [proc[p] EXCEPT !.killed = TRUE] \in Entries
  BY <1>1 DEF GuardTypeOK
<1> QED
  BY <1>2 DEF Killed

-----------------------------------------------------------------------------
(* Time                                                                    *)

\* Where a guard and a runner are after the clock has ticked.
Wakes(here) == IF here = "watching" THEN "watch" ELSE IF here = "sweeping" THEN "list" ELSE here

Rises(r) ==
    IF r.pc = "reading" THEN "read" ELSE IF r.pc = "waiting" THEN "wait"
    ELSE IF r.pc = "grace" /\ r.left <= 1 THEN "kill" ELSE r.pc

\* What the clock does to a job's guard and to its runner.
LEMMA TickAre ==
    ASSUME GuardTypeOK, Tick
    PROVE  /\ guard' = [j \in Jobs |-> [guard[j] EXCEPT !.pc = Wakes(guard[j].pc), !.left = Less(guard[j].left)]]
           /\ runner' = [j \in Jobs |-> [runner[j] EXCEPT !.pc = Rises(runner[j]), !.left = Less(runner[j].left)]]
<1>1. DOMAIN Asleep = {"watching", "sweeping", "reading", "waiting"}
      /\ Asleep["watching"] = "watch" /\ Asleep["sweeping"] = "list" /\ Asleep["reading"] = "read" /\ Asleep["waiting"] = "wait"
  BY DEF Asleep
<1>2. ASSUME NEW j \in Jobs
      PROVE  [guard[j] EXCEPT !.pc = IF @ \in DOMAIN Asleep THEN Asleep[@] ELSE @, !.left = Less(@)]
               = [guard[j] EXCEPT !.pc = Wakes(guard[j].pc), !.left = Less(guard[j].left)]
  <2>1. guard[j].pc # "reading" /\ guard[j].pc # "waiting"
    BY DEF GuardTypeOK, Guards, Waits, Working
  <2>2. (IF guard[j].pc \in DOMAIN Asleep THEN Asleep[guard[j].pc] ELSE guard[j].pc) = Wakes(guard[j].pc)
    BY <1>1, <2>1 DEF Wakes
  <2> QED
    BY <2>2
<1>3. ASSUME NEW j \in Jobs
      PROVE  [runner[j] EXCEPT !.left = Less(@),
                               !.pc = CASE @ \in DOMAIN Asleep                    -> Asleep[@]
                                        [] @ = "grace" /\ runner[j].left <= 1     -> "kill"
                                        [] OTHER                                  -> @]
               = [runner[j] EXCEPT !.pc = Rises(runner[j]), !.left = Less(runner[j].left)]
  <2>1. runner[j].pc # "watching" /\ runner[j].pc # "sweeping"
    BY DEF GuardTypeOK, Runners
  <2>2. (CASE runner[j].pc \in DOMAIN Asleep                    -> Asleep[runner[j].pc]
           [] runner[j].pc = "grace" /\ runner[j].left <= 1     -> "kill"
           [] OTHER                                             -> runner[j].pc) = Rises(runner[j])
    BY <1>1, <2>1 DEF Rises
  <2> QED
    BY <2>2 DEF GuardTypeOK, Runners
<1> QED
  BY <1>2, <1>3 DEF Tick

\* Replacing what one guard holds keeps their type.
LEMMA OneGuard == \A j \in Jobs, r \in Guards : guard \in [Jobs -> Guards] => [guard EXCEPT ![j] = r] \in [Jobs -> Guards]
  OBVIOUS

\* So does replacing what one runner holds, ...
LEMMA OneRunner == \A j \in Jobs, r \in Runners : runner \in [Jobs -> Runners] => [runner EXCEPT ![j] = r] \in [Jobs -> Runners]
  OBVIOUS

\* ... and replacing one entry of the process table.
LEMMA OneEntry == \A p \in Pids, e \in Entries : proc \in [Pids -> Entries] => [proc EXCEPT ![p] = e] \in [Pids -> Entries]
  OBVIOUS

\* Steps of the processes keep the types.
LEMMA TypesOfTools ==
    ASSUME GuardTypeOK, Table, NEW p \in Pids, ToolMoves(p) PROVE GuardTypeOK'
<1>0. proc \in [Pids -> Entries] /\ guard \in [Jobs -> Guards] /\ runner \in [Jobs -> Runners] /\ shot \subseteq Jobs
  BY DEF GuardTypeOK
<1>1. CASE \E c \in Pids, own \in BOOLEAN, keeps \in BOOLEAN : ForkOne(p, c, own, keeps)
  <2>1. PICK c \in Pids, own \in BOOLEAN, keeps \in BOOLEAN : ForkOne(p, c, own, keeps)
    BY <1>1
  <2>2. [Process(proc[p].job, "tool", p, IF own THEN c ELSE proc[p].group) EXCEPT !.lock = keeps /\ proc[p].lock] \in Entries
    BY <1>0 DEF Process, Free, Entries
  <2> QED
    BY <1>0, <2>1, <2>2, OneEntry DEF ForkOne, GuardTypeOK
<1>2. CASE \E c \in {0, 1} : ExitWith(p, c)
  <2>1. proc[p].job \in Jobs
    BY <1>2 DEF ExitWith, Tool, Table, TableAt
  <2> QED
    BY <1>0, <1>2, <2>1, EndedType DEF ExitWith, GuardTypeOK
<1>3. CASE \E c \in Pids : Reaps(p, c)
  BY <1>0, <1>3, EntriesAre, OneEntry DEF Reaps, GuardTypeOK
<1>4. Dying(p) => Ended(p, 9) \in [Pids -> Entries] /\ proc[p].job \in Jobs
  <2>1. Dying(p) => proc[p].role # "free" /\ proc[p].role # "other"
    BY <1>0 DEF Dying, Running, Table, TableAt, Entries, Free
  <2>2. Dying(p) => proc[p].job \in Jobs
    BY <1>0, <2>1 DEF Table, TableAt, Entries
  <2> QED
    BY <2>2, EndedType
<1>5. CASE DieOther(p)
  BY <1>0, <1>4, <1>5 DEF DieOther, GuardTypeOK
<1>6. CASE DieGuard(p, proc[p].job)
  <2>0. \A g \in Guards : [g EXCEPT !.pc = "end", !.fd = FALSE, !.child = NoPid, !.rc = NoPid, !.todo = {}, !.left = 0] \in Guards
    BY DEF Guards
  <2>1. [guard[proc[p].job] EXCEPT !.pc = "end", !.fd = FALSE, !.child = NoPid, !.rc = NoPid, !.todo = {}, !.left = 0] \in Guards
    BY <1>0, <1>4, <1>6, <2>0 DEF DieGuard
  <2> QED
    BY <1>0, <1>4, <1>6, <2>1, OneGuard DEF DieGuard, GuardTypeOK
<1>7. CASE StrangerComes(p)
  BY <1>0, <1>7, EntriesAre, OneEntry DEF StrangerComes, GuardTypeOK
<1>8. CASE StrangerGoes(p)
  BY <1>0, <1>8, EntriesAre, OneEntry DEF StrangerGoes, GuardTypeOK
<1> QED
  BY <1>1, <1>2, <1>3, <1>5, <1>6, <1>7, <1>8, Zenon DEF ToolMoves

\* Where a guard is that lives.
LEMMA LiveGuard ==
    ASSUME GuardTypeOK, Watches, NEW j \in Jobs, Lives(j)
    PROVE  guard[j].pid \in Pids /\ Running(guard[j].pid) /\ proc[guard[j].pid].role = "guard" /\ proc[guard[j].pid].job = j
<1>1. guard[j].pid \in Pids \cup {NoPid}
  BY DEF GuardTypeOK, Guards
<1>2. guard[j].pid # NoPid
  BY DEF Watches, WatchesAt, Lives
<1> QED
  BY <1>1, <1>2 DEF Watches, WatchesAt

\* Steps of guards and runners keep the types.
LEMMA TypesOfJobs ==
    ASSUME GuardTypeOK, Watches, NEW j \in Jobs, JobMoves(j) PROVE GuardTypeOK'
<1>0. /\ proc \in [Pids -> Entries] /\ guard \in [Jobs -> Guards] /\ runner \in [Jobs -> Runners] /\ shot \subseteq Jobs
      /\ guard[j] \in Guards /\ runner[j] \in Runners
  BY DEF GuardTypeOK
<1>t. Seconds \in Nat /\ Timeout \in Nat /\ Cleanup \in Nat /\ Grace \in Nat /\ Patience \in Nat
  BY TimesAssumption
<1>1. CASE Shoot(j)
  BY <1>0, <1>1, KilledAre DEF Shoot, GuardTypeOK
<1>2. CASE KillTool(j)
  <2>1. [guard[j] EXCEPT !.pc = "list", !.left = Cleanup] \in Guards
    BY <1>0, <1>t DEF Guards, Working
  <2> QED
    BY <1>0, <1>2, <2>1, OneGuard, KilledAre DEF KillTool, GuardTypeOK
<1>3. CASE Locking(j) \/ NotStarted(j) \/ WatchOn(j) \/ GiveUp(j) \/ SweepOn(j)
  <2>1. /\ [guard[j] EXCEPT !.pc = "spawn", !.fd = TRUE] \in Guards
        /\ [guard[j] EXCEPT !.pc = "release", !.reason = "not-started"] \in Guards
        /\ [guard[j] EXCEPT !.pc = "watching"] \in Guards
        /\ [guard[j] EXCEPT !.pc = "release", !.reason = "cleanup-failed"] \in Guards
        /\ [guard[j] EXCEPT !.pc = "sweeping"] \in Guards
    BY <1>0 DEF Guards, Waits, Working
  <2> QED
    BY <1>0, <1>3, <2>1, OneGuard DEF Locking, NotStarted, WatchOn, GiveUp, SweepOn, GuardTypeOK
<1>4. CASE ListOne(j)
  <2>1. [guard[j] EXCEPT !.pc = "sweep", !.todo = Children(guard[j].pid) \ {guard[j].child}] \in Guards
    BY <1>0 DEF Guards, Working, Children
  <2> QED
    BY <1>0, <1>4, <2>1, OneGuard DEF ListOne, GuardTypeOK
<1>5. CASE \E c \in Pids : SpawnOne(j, c)
  <2>1. PICK c \in Pids : SpawnOne(j, c)
    BY <1>5
  <2>2. guard[j].pid \in Pids
    BY <1>0, <2>1 DEF SpawnOne, At, Guards, Watches, WatchesAt
  <2>3. [Process(j, "leader", guard[j].pid, c) EXCEPT !.lock = TRUE] \in Entries
    BY <2>2 DEF Process, Free, Entries
  <2>4. [guard[j] EXCEPT !.pc = "watch", !.child = c, !.left = Seconds] \in Guards
    BY <1>0, <1>t DEF Guards, Working
  <2> QED
    BY <1>0, <2>1, <2>3, <2>4, OneGuard, OneEntry DEF SpawnOne, GuardTypeOK
<1>6. CASE \E reason \in {"stopped", "none"} : WatchOver(j, reason)
  <2>1. \A reason \in {"stopped", "none"} : [guard[j] EXCEPT !.pc = "killpg", !.reason = reason, !.left = 0] \in Guards
    BY <1>0 DEF Guards, Working
  <2> QED
    BY <1>0, <1>6, <2>1, OneGuard, ZenonT(60) DEF WatchOver, GuardTypeOK
<1>7. CASE \E c \in Pids : KillOne(j, c) \/ ReapOne(j, c)
  <2>1. PICK c \in Pids : KillOne(j, c) \/ ReapOne(j, c)
    BY <1>7
  <2>2. [guard[j] EXCEPT !.todo = guard[j].todo \ {c}] \in Guards
    BY <1>0 DEF Guards
  <2>3. proc' \in [Pids -> Entries]
    BY <1>0, <2>1, OneEntry, KilledAre, EntriesAre DEF KillOne, ReapOne
  <2>4. guard' \in [Jobs -> Guards] /\ UNCHANGED <<runner, shot>>
    <3>1. guard' = [guard EXCEPT ![j] = [guard[j] EXCEPT !.todo = guard[j].todo \ {c}]] /\ UNCHANGED <<runner, shot>>
      BY <1>0, <2>1, Zenon DEF KillOne, ReapOne
    <3> QED
      BY <1>0, <2>2, <3>1, OneGuard
  <2> QED
    BY <1>0, <2>3, <2>4 DEF GuardTypeOK
<1>8. CASE ReapTool(j)
  <2>1. guard[j].child \in Pids /\ proc[guard[j].child].code \in {0, 1, 9}
    BY <1>0, <1>8 DEF ReapTool, Children, Entries
  <2>2. [guard[j] EXCEPT !.pc = "release", !.rc = proc[guard[j].child].code, !.left = 0] \in Guards
    BY <1>0, <2>1 DEF Guards
  <2> QED
    BY <1>0, <1>8, <2>1, <2>2, OneGuard, OneEntry, EntriesAre DEF ReapTool, GuardTypeOK
<1>9. CASE \E pass \in BOOLEAN, result \in Verdicts : Leave(j, pass, result)
  <2>1. PICK pass \in BOOLEAN, result \in Verdicts : Leave(j, pass, result)
    BY <1>9
  <2>2. [guard[j] EXCEPT !.pc = "end", !.fd = FALSE, !.child = NoPid, !.rc = NoPid, !.result = result] \in Guards
    BY <1>0 DEF Guards
  <2>3. guard[j].pid \in Pids /\ proc[guard[j].pid].job \in Jobs
    <3>1. Lives(j)
      <4>1. guard[j].pc = "release"
        BY <2>1, Zenon DEF Leave, At
      <4> QED
        BY <4>1 DEF Lives
    <3> QED
      BY <3>1, LiveGuard
  <2>4. proc' \in [Pids -> Entries]
    BY <2>1, <2>3, EndedType DEF Leave
  <2> QED
    BY <1>0, <2>1, <2>2, <2>4, OneGuard DEF Leave, GuardTypeOK
<1>10. CASE \E c \in Pids : StartOne(j, c)
  <2>1. PICK c \in Pids : StartOne(j, c)
    BY <1>10
  <2>2. /\ [guard[j] EXCEPT !.pc = "acquire", !.pid = c] \in Guards
        /\ [runner[j] EXCEPT !.pc = "read", !.left = Timeout] \in Runners
        /\ [runner[j] EXCEPT !.pc = "shell"] \in Runners
    BY <1>0, <1>t DEF Guards, Runners, Waits
  <2>3. proc' \in [Pids -> Entries]
    BY <1>0, <2>1, EntriesAre, OneEntry DEF StartOne
  <2>4. guard' \in [Jobs -> Guards] /\ runner' \in [Jobs -> Runners]
    BY <1>0, <2>1, <2>2, OneGuard, OneRunner DEF StartOne
  <2> QED
    BY <1>0, <2>1, <2>3, <2>4 DEF StartOne, GuardTypeOK
<1>11. CASE ShellReaps(j) \/ WaitReaps(j)
  <2>1. /\ [runner[j] EXCEPT !.pc = "end"] \in Runners
        /\ \A r \in {"pass", "fail"} : [runner[j] EXCEPT !.pc = "end", !.left = 0, !.result = r] \in Runners
    BY <1>0 DEF Runners
  <2>2. runner' \in [Jobs -> Runners]
    BY <1>0, <1>11, <2>1, OneRunner DEF ShellReaps, WaitReaps
  <2>3. guard[j].pid \in Pids
    BY <1>0, <1>11 DEF ShellReaps, WaitReaps, Watches, WatchesAt, Guards
  <2>4. proc' \in [Pids -> Entries]
    BY <1>0, <1>11, <2>3, EntriesAre, OneEntry DEF ShellReaps, WaitReaps
  <2> QED
    BY <1>0, <1>11, <2>2, <2>4 DEF ShellReaps, WaitReaps, GuardTypeOK
<1>12. CASE (\E reason \in {"stopped", "none"} : ReadOver(j, reason)) \/ ReadOn(j) \/ WaitNoMore(j) \/ WaitOn(j)
  <2>1. /\ \A reason \in {"stopped", "none"} : [runner[j] EXCEPT !.pc = "term", !.reason = reason, !.left = 0] \in Runners
        /\ [runner[j] EXCEPT !.pc = "reading"] \in Runners /\ [runner[j] EXCEPT !.pc = "waiting"] \in Runners
        /\ [runner[j] EXCEPT !.pc = "end", !.result = "timeout"] \in Runners
    BY <1>0 DEF Runners
  <2> QED
    BY <1>0, <1>12, <2>1, OneRunner DEF ReadOver, ReadOn, WaitNoMore, WaitOn, GuardTypeOK
<1>13. CASE TermSent(j) \/ KillSent(j)
  <2>1. \A n \in Nat : [runner[j] EXCEPT !.pc = "grace", !.left = n] \in Runners
                     /\ [runner[j] EXCEPT !.pc = "wait", !.left = n] \in Runners
    BY <1>0 DEF Runners
  <2>2. \A e \in Entries : [e EXCEPT !.killed = TRUE] \in Entries /\ [e EXCEPT !.term = TRUE] \in Entries
    <3>1. \A e \in Entries : [e EXCEPT !.killed = TRUE] \in Entries
      BY DEF Entries
    <3>2. \A e \in Entries : [e EXCEPT !.term = TRUE] \in Entries
      BY DEF Entries
    <3> QED
      BY <3>1, <3>2
  <2>3. TermSent(j) => proc' \in [Pids -> Entries]
    BY <1>0, <2>2 DEF TermSent
  <2>4. runner' \in [Jobs -> Runners]
    BY <1>0, <1>t, <1>13, <2>1, OneRunner DEF TermSent, KillSent
  <2> QED
    BY <1>0, <1>13, <2>3, <2>4, KilledAre DEF TermSent, KillSent, GuardTypeOK
<1> QED
  BY <1>1, <1>2, <1>3, <1>4, <1>5, <1>6, <1>7, <1>8, <1>9, <1>10, <1>11, <1>12, <1>13, Zenon DEF JobMoves

\* The clock keeps the types.
LEMMA TypesOfTime == ASSUME GuardTypeOK, Tick PROVE GuardTypeOK'
<1>1. \A n \in Nat : Less(n) \in Nat
  BY DEF Less
<1>2. ASSUME NEW j \in Jobs PROVE [guard[j] EXCEPT !.pc = Wakes(guard[j].pc), !.left = Less(guard[j].left)] \in Guards
  <2>1. Less(guard[j].left) \in Nat /\ guard[j] \in Guards
    BY <1>1 DEF GuardTypeOK, Guards
  <2>2. PICK here \in {"none", "release", "end"} \cup Waits \cup Working : here = Wakes(guard[j].pc)
    BY <2>1 DEF Guards, Wakes, Working
  <2>3. [guard[j] EXCEPT !.pc = here, !.left = Less(guard[j].left)] \in Guards
    BY <2>1 DEF Guards
  <2> QED
    BY <2>2, <2>3
<1>3. ASSUME NEW j \in Jobs PROVE [runner[j] EXCEPT !.pc = Rises(runner[j]), !.left = Less(runner[j].left)] \in Runners
  BY <1>1 DEF GuardTypeOK, Runners, Rises
<1>4. guard' \in [Jobs -> Guards] /\ runner' \in [Jobs -> Runners]
  BY <1>2, <1>3, TickAre
<1> QED
  BY <1>4 DEF Tick, GuardTypeOK

-----------------------------------------------------------------------------
(* What a step does to the process table                                   *)

\* Of a process that is signalled only the flags change.
Alike(p) ==
    /\ proc'[p].role = proc[p].role /\ proc'[p].job = proc[p].job /\ proc'[p].state = proc[p].state
    /\ proc'[p].parent = proc[p].parent /\ proc'[p].group = proc[p].group /\ proc'[p].lock = proc[p].lock
    /\ proc'[p].code = proc[p].code

\* The guard of job j neither starts nor ends, and keeps its verdict.
Steady(j) ==
    /\ guard'[j].pid = guard[j].pid /\ guard'[j].result = guard[j].result
    /\ guard'[j].pc = "none" <=> guard[j].pc = "none"
    /\ guard'[j].pc = "end" <=> guard[j].pc = "end"

\* What concerns job k of the process table, as long as its own guard and runner do nothing.
Minded(k) ==
    /\ Lives(k) \/ runner[k].pc \notin {"start", "end"} =>
           proc'[guard[k].pid].role = "guard" /\ proc'[guard[k].pid].job = k
    /\ Lives(k) => proc'[guard[k].pid].state = "running"
    /\ Lives(k) => \A c \in Pids : OfTool(c, k) /\ proc[c].parent = guard[k].pid =>
           proc'[c].role = proc[c].role /\ proc'[c].job = k /\ proc'[c].parent = guard[k].pid

Unmarked(k) ==
    Lives(k) => /\ proc'[guard[k].pid].killed = proc[guard[k].pid].killed
                /\ proc'[guard[k].pid].term = proc[guard[k].pid].term

\* Nothing new has come to job k, and no lock.
NoMore(k) ==
    /\ Gone(k) => \A p \in Pids : ~(proc'[p].role \in {"leader", "tool"} /\ proc'[p].job = k)
    /\ \A p \in Pids : proc'[p].job = k /\ proc'[p].lock => \E q \in Pids : proc[q].job = k /\ proc[q].lock

\* Signals to processes in S, and to nobody else.
Signals(S) ==
    /\ DOMAIN proc' = Pids
    /\ \A p \in Pids : proc'[p] = proc[p] \/ (p \in S /\ Running(p) /\ Alike(p))
    /\ \A p \in S : proc[p].role # "other"

\* After signals, and when no process changes, the table is as before.
LEMMA AfterSignals ==
    ASSUME GuardTypeOK, GuardTypeOK', Table, Parents, Rooted, Watches, NEW S \in SUBSET Pids, Signals(S), \A j \in Jobs : Steady(j)
    PROVE  /\ Table' /\ Parents' /\ Rooted'
           /\ \A k \in Jobs : Minded(k) /\ NoMore(k) /\ (guard[k].pid \notin S => Unmarked(k))
<1>1. \A p \in Pids : Alike(p)
  BY DEF Signals, Alike
<1>2. \A j \in Jobs : Lives(j)' <=> Lives(j)
  BY DEF Steady, Lives
<1>3. Table'
  <2> SUFFICES ASSUME NEW p \in Pids PROVE TableAt(p)'
    BY DEF Table
  <2>1. TableAt(p)
    BY DEF Table
  <2>2. CASE proc'[p] = proc[p]
    BY <1>2, <2>1, <2>2 DEF TableAt, Running, Zombie, Steady
  <2>3. CASE p \in S /\ Running(p) /\ Alike(p)
    <3>1. proc[p].role # "free" /\ proc[p].role # "other"
      BY <2>1, <2>3 DEF Signals, TableAt, Running, Free
    <3> QED
      BY <1>2, <2>1, <2>3, <3>1 DEF TableAt, Alike, Running, Zombie, Steady
  <2> QED
    BY <2>2, <2>3 DEF Signals
<1>4. Parents'
  BY <1>1, <1>2 DEF Parents, ParentsAt, Alike, Running, OfTool, Steady
<1>5. Rooted'
  BY <1>1 DEF Rooted, Tree, Alike, Running
<1>6. ASSUME NEW k \in Jobs PROVE Minded(k) /\ NoMore(k)
  <2>1. Lives(k) => guard[k].pid \in Pids
    BY LiveGuard
  <2>2. runner[k].pc \notin {"start", "end"} => guard[k].pid \in Pids
    BY DEF GuardTypeOK, Guards, Watches, WatchesAt
  <2>3. Minded(k)
    BY <1>1, <2>1, <2>2 DEF Minded, Alike, OfTool, Watches, WatchesAt, Running
  <2>4. NoMore(k)
    BY <1>1 DEF NoMore, Gone, OfTool, Alike
  <2> QED
    BY <2>3, <2>4
<1>7. ASSUME NEW k \in Jobs, guard[k].pid \notin S PROVE Unmarked(k)
  BY <1>7, LiveGuard DEF Unmarked, Signals
<1> QED
  BY <1>3, <1>4, <1>5, <1>6, <1>7

\* Nobody is the child of a process that does not exist.
LEMMA NobodysParent ==
    ASSUME GuardTypeOK, Parents, Table, Watches, NEW c \in Pids, ~Running(c), NEW q \in Pids, NEW j \in Jobs, OfTool(q, j)
    PROVE  proc[q].parent # c
<1>1. ParentsAt(q, j)
  BY DEF Parents
<1>2. CASE proc[q].parent = guard[j].pid /\ Lives(j)
  BY <1>2, LiveGuard
<1> QED
  BY <1>1, <1>2, PidsAre DEF ParentsAt

\* A process c comes into being.
Born(c) ==
    /\ DOMAIN proc' = Pids /\ proc[c].role = "free" /\ proc'[c].role # "free" /\ proc'[c].parent # c
    /\ \A q \in Pids : q # c => proc'[q] = proc[q]

\* Its guard starts, and nothing of job j was there before.
Starts(j, c) ==
    /\ guard[j].pc = "none" /\ guard'[j].pid = c /\ Lives(j)' /\ guard'[j].result = guard[j].result

\* After a birth the others are where they were.
LEMMA AfterBirth ==
    ASSUME GuardTypeOK, GuardTypeOK', Table, Parents, Rooted, Watches, Swept, NEW c \in Pids, Born(c),
           \A j \in Jobs : Steady(j) \/ Starts(j, c), TableAt(c)', \A j \in Jobs : ParentsAt(c, j)'
    PROVE  /\ Table' /\ Parents' /\ Rooted'
           /\ \A k \in Jobs : Minded(k) /\ Unmarked(k) /\ (proc'[c].job # k => NoMore(k))
<1>1. ASSUME NEW j \in Jobs, Starts(j, c) PROVE Gone(j) /\ \A p \in Pids : proc[p].role = "guard" => proc[p].job # j
  <2>1. Gone(j) /\ guard[j].pid = NoPid
    BY <1>1 DEF Starts, Swept, SweptAt, Watches, WatchesAt
  <2> QED
    BY <2>1, PidsAre DEF Table, TableAt
<1>2. \A j \in Jobs : Steady(j) => (Lives(j)' <=> Lives(j))
  BY DEF Steady, Lives
<1>3. Table'
  <2> SUFFICES ASSUME NEW p \in Pids, p # c PROVE TableAt(p)'
    BY DEF Table
  <2>1. TableAt(p) /\ proc'[p] = proc[p]
    BY DEF Table, Born
  <2>2. proc[p].role = "guard" => Steady(proc[p].job)
    BY <1>1, <2>1 DEF TableAt
  <2> QED
    BY <1>2, <2>1, <2>2 DEF TableAt, Running, Zombie, Steady
<1>4. Parents'
  <2> SUFFICES ASSUME NEW p \in Pids, p # c, NEW j \in Jobs, OfTool(p, j)' PROVE ParentsAt(p, j)'
    BY DEF Parents, ParentsAt
  <2>1. OfTool(p, j) /\ proc'[p] = proc[p] /\ ParentsAt(p, j)
    BY DEF Parents, Born, OfTool
  <2>2. Steady(j)
    BY <1>1, <2>1 DEF Gone
  <2>3. \A q \in Pids : Running(q) => proc'[q] = proc[q]
    BY DEF Born, Table, TableAt, Running, Free
  <2>4. CASE proc[p].parent \in Pids /\ Running(proc[p].parent) /\ OfTool(proc[p].parent, j) /\ proc[p].role = "tool"
    BY <2>1, <2>3, <2>4 DEF ParentsAt, OfTool, Running
  <2>5. CASE proc[p].parent = Init0 /\ ~Lives(j) /\ Running(p)
    BY <1>2, <2>1, <2>2, <2>5 DEF ParentsAt, Running
  <2>6. CASE proc[p].parent = guard[j].pid /\ Lives(j)
    BY <1>2, <2>1, <2>2, <2>6 DEF ParentsAt, Steady
  <2> QED
    BY <2>1, <2>4, <2>5, <2>6 DEF ParentsAt
<1>5. Rooted'
  <2> SUFFICES ASSUME NEW k \in Jobs, NEW S \in SUBSET Tree(k)', S # {} PROVE \E p \in S : proc'[p].parent \notin S
    BY DEF Rooted
  <2>1. S \ {c} \in SUBSET Tree(k) /\ S \subseteq Pids
    BY DEF Tree, Born, Running
  <2>2. CASE S \ {c} = {}
    BY <2>2 DEF Born
  <2>3. CASE S \ {c} # {}
    <3>1. PICK p \in S \ {c} : proc[p].parent \notin S \ {c}
      BY <2>1, <2>3 DEF Rooted
    <3>2. OfTool(p, k) /\ ~Running(c)
      BY <2>1, <3>1 DEF Tree, OfTool, Born, Table, TableAt, Running, Free
    <3>3. proc[p].parent # c
      BY <2>1, <3>2, NobodysParent
    <3> QED
      BY <2>1, <3>1, <3>3 DEF Born
  <2> QED
    BY <2>2, <2>3
<1>6. ASSUME NEW k \in Jobs PROVE Minded(k) /\ Unmarked(k) /\ (proc'[c].job # k => NoMore(k))
  <2>1. Lives(k) => guard[k].pid \in Pids /\ guard[k].pid # c
    BY LiveGuard DEF Born
  <2>2. runner[k].pc \notin {"start", "end"} => guard[k].pid \in Pids /\ guard[k].pid # c
    BY DEF GuardTypeOK, Guards, Watches, WatchesAt, Born
  <2>3. \A q \in Pids : OfTool(q, k) => q # c
    BY DEF OfTool, Born
  <2>4. Minded(k)
    BY <2>1, <2>2, <2>3, LiveGuard DEF Minded, OfTool, Watches, WatchesAt, Running, Born
  <2>5. Unmarked(k)
    BY <2>1 DEF Unmarked, Born
  <2>6. proc'[c].job # k => NoMore(k)
    BY DEF NoMore, Gone, OfTool, Born
  <2> QED
    BY <2>4, <2>5, <2>6
<1> QED
  BY <1>3, <1>4, <1>5, <1>6

\* A process c is reaped, or a stranger ends.
Freed(c) ==
    /\ Zombie(c) \/ proc[c].role = "other"
    /\ proc' = [proc EXCEPT ![c] = Free]

\* It is nothing that the guard or the runner of job k looks after.
Idle(c, k) ==
    \/ proc[c].job # k \/ proc[c].role = "other"
    \/ proc[c].role # "guard" /\ ~(OfTool(c, k) /\ Lives(k) /\ proc[c].parent = guard[k].pid)

\* After that the others are where they were.
LEMMA AfterReaping ==
    ASSUME GuardTypeOK, Table, Parents, Rooted, Watches, NEW c \in Pids, Freed(c), \A j \in Jobs : Steady(j)
    PROVE  /\ Table' /\ Parents' /\ Rooted'
           /\ \A k \in Jobs : Unmarked(k) /\ NoMore(k)
           /\ \A k \in Jobs : Idle(c, k)
                => Minded(k)
<1>0. /\ proc'[c] = Free /\ \A q \in Pids : q # c => proc'[q] = proc[q]
      /\ Free.role = "free" /\ Free.state = "none" /\ Free.job = NoPid /\ Free.lock = FALSE
  BY DEF Freed, GuardTypeOK, Free
<1>1. \A j \in Jobs : Lives(j)' <=> Lives(j)
  BY DEF Steady, Lives
<1>2. TableAt(c)
  BY DEF Table
<1>3. Table'
  <2> SUFFICES ASSUME NEW p \in Pids PROVE TableAt(p)'
    BY DEF Table
  <2>1. CASE p = c
    BY <1>0, <2>1 DEF TableAt, Running, Zombie
  <2>2. CASE p # c
    <3>1. TableAt(p) /\ proc'[p] = proc[p]
      BY <1>0, <2>2 DEF Table
    <3> QED
      BY <1>1, <3>1 DEF TableAt, Running, Zombie, Steady
  <2> QED
    BY <2>1, <2>2
<1>4. Parents'
  <2> SUFFICES ASSUME NEW p \in Pids, NEW j \in Jobs, OfTool(p, j)' PROVE ParentsAt(p, j)'
    BY DEF Parents, ParentsAt
  <2>1. OfTool(p, j) /\ proc'[p] = proc[p] /\ ParentsAt(p, j)
    BY <1>0 DEF Parents, OfTool
  <2>2. ASSUME NEW q \in Pids, Running(q), OfTool(q, j) PROVE proc'[q] = proc[q]
    BY <1>0, <2>2 DEF Freed, Running, Zombie, OfTool
  <2>3. CASE proc[p].parent \in Pids /\ Running(proc[p].parent) /\ OfTool(proc[p].parent, j) /\ proc[p].role = "tool"
    BY <2>1, <2>2, <2>3 DEF ParentsAt, OfTool, Running
  <2>4. CASE proc[p].parent = Init0 /\ ~Lives(j) /\ Running(p)
    BY <1>1, <2>1, <2>4 DEF ParentsAt, Running
  <2>5. CASE proc[p].parent = guard[j].pid /\ Lives(j)
    BY <1>1, <2>1, <2>5 DEF ParentsAt, Steady
  <2> QED
    BY <2>1, <2>3, <2>4, <2>5 DEF ParentsAt
<1>5. Rooted'
  <2>1. ASSUME NEW k \in Jobs PROVE /\ Tree(k)' \subseteq Tree(k) /\ \A p \in Tree(k)' : proc'[p] = proc[p]
    BY <1>0 DEF Tree, Running
  <2> QED
    BY <2>1 DEF Rooted
<1>6. ASSUME NEW k \in Jobs PROVE Unmarked(k) /\ NoMore(k)
  <2>1. Lives(k) => guard[k].pid \in Pids /\ guard[k].pid # c
    BY LiveGuard DEF Freed, Running, Zombie
  <2>2. Unmarked(k)
    BY <1>0, <2>1 DEF Unmarked
  <2>3. NoMore(k)
    BY <1>0, PidsAre DEF NoMore, Gone, OfTool
  <2> QED
    BY <2>2, <2>3
<1>7. ASSUME NEW k \in Jobs, Idle(c, k)
      PROVE  Minded(k)
  <2>1. Lives(k) => guard[k].pid \in Pids /\ guard[k].pid # c
    BY LiveGuard DEF Freed, Running, Zombie
  <2>2. runner[k].pc \notin {"start", "end"} => guard[k].pid \in Pids /\ guard[k].pid # c
    BY <1>7 DEF Idle, GuardTypeOK, Guards, Watches, WatchesAt
  <2>3. Lives(k) => \A q \in Pids : OfTool(q, k) /\ proc[q].parent = guard[k].pid => q # c
    BY <1>7 DEF Idle, OfTool
  <2> QED
    BY <1>0, <2>1, <2>2, <2>3, LiveGuard DEF Minded, OfTool, Watches, WatchesAt, Running
<1> QED
  BY <1>3, <1>4, <1>5, <1>6, <1>7

\* Process p, of a job, ends with code c.
Leaves(p, c) ==
    /\ Running(p) /\ proc[p].role \in {"guard", "leader", "tool"}
    /\ proc' = Ended(p, c)

\* Whom its orphans go to.
LEMMA HeirIs ==
    ASSUME GuardTypeOK, Table, Watches, NEW p \in Pids, Running(p), proc[p].role \in {"guard", "leader", "tool"}
    PROVE  /\ proc[p].job \in Jobs
           /\ Heir(p) = IF proc[p].role = "guard" \/ ~Lives(proc[p].job) THEN Init0 ELSE guard[proc[p].job].pid
<1>1. proc[p].job \in Jobs
  BY DEF Table, TableAt
<1>2. PICK j \in Jobs : j = proc[p].job
  BY <1>1
<1>3. Lives(j) => Guarding(j) /\ Running(guard[j].pid)
  BY LiveGuard, PidsAre DEF Guarding, Lives
<1>4. Guarding(j) => Lives(j)
  BY DEF Guarding, Lives, Watches, WatchesAt
<1>5. Adopter(j) = IF Lives(j) THEN guard[j].pid ELSE Init0
  BY <1>3, <1>4, Zenon DEF Adopter
<1> QED
  BY <1>1, <1>2, <1>5, Zenon DEF Heir

\* The children of a process of a job are processes of its tool.
LEMMA ChildrenAre ==
    ASSUME GuardTypeOK, Table, Parents, Watches, NEW p \in Pids, NEW q \in Pids, proc[q].parent = p
    PROVE  Running(p) /\ OfTool(q, proc[p].job) /\ proc[p].job \in Jobs
<1>1. TableAt(q)
  BY DEF Table
<1>2. proc[q].role \in {"leader", "tool"} /\ proc[q].job \in Jobs
  BY <1>1, PidsAre DEF TableAt, GuardTypeOK, Entries, Free
<1>3. ParentsAt(q, proc[q].job)
  BY <1>2 DEF Parents
<1>4. CASE proc[q].parent = guard[proc[q].job].pid /\ Lives(proc[q].job)
  BY <1>2, <1>4, LiveGuard DEF OfTool
<1>5. CASE proc[q].parent # guard[proc[q].job].pid \/ ~Lives(proc[q].job)
  BY <1>2, <1>3, <1>5, PidsAre DEF ParentsAt, OfTool
<1> QED
  BY <1>4, <1>5

\* What becomes of the entries.
LEMMA EndedFields ==
    ASSUME GuardTypeOK, Table, Parents, Watches, NEW p \in Pids, NEW c \in {0, 1, 9}, Leaves(p, c)
    PROVE  /\ \A q \in Pids : q # p /\ proc[q].parent # p => proc'[q] = proc[q]
           /\ \A q \in Pids : q # p /\ proc[q].parent = p =>
                \/ proc'[q] = Free /\ Zombie(q) /\ Heir(p) = Init0
                \/ /\ proc'[q].role = proc[q].role /\ proc'[q].job = proc[q].job /\ proc'[q].state = proc[q].state
                   /\ proc'[q].killed = proc[q].killed /\ proc'[q].lock = proc[q].lock
                   /\ proc'[q].parent = Heir(p) /\ (Heir(p) = Init0 => Running(q))
           /\ \/ proc'[p] = Free /\ proc[p].parent = Init0
              \/ /\ proc[p].parent # Init0 /\ proc'[p].role = proc[p].role /\ proc'[p].job = proc[p].job
                 /\ proc'[p].parent = proc[p].parent /\ proc'[p].state = "zombie" /\ proc'[p].killed = FALSE /\ proc'[p].lock = FALSE
                 /\ (proc[p].role = "guard" => proc'[p].code = c)
<1>0. \A q \in Pids : proc[q] \in Entries
  BY DEF GuardTypeOK
<1>1. ASSUME NEW q \in Pids, q # p, proc[q].parent # p PROVE proc'[q] = proc[q]
  BY <1>1, EndedAre DEF Leaves, Orphan
<1>2. ASSUME NEW q \in Pids, q # p, proc[q].parent = p
      PROVE  \/ proc'[q] = Free /\ Zombie(q) /\ Heir(p) = Init0
             \/ /\ proc'[q].role = proc[q].role /\ proc'[q].job = proc[q].job /\ proc'[q].state = proc[q].state
                /\ proc'[q].killed = proc[q].killed /\ proc'[q].lock = proc[q].lock
                /\ proc'[q].parent = Heir(p) /\ (Heir(p) = Init0 => Running(q))
  <2>1. OfTool(q, proc[p].job) /\ (Running(q) \/ Zombie(q))
    BY <1>2, ChildrenAre DEF Table, TableAt, OfTool
  <2>2. proc'[q] = IF Heir(p) = Init0 /\ Zombie(q) THEN Free ELSE [proc[q] EXCEPT !.parent = Heir(p)]
    BY <1>2, <2>1, EndedAre DEF Leaves, Orphan, OfTool
  <2> QED
    BY <1>0, <2>1, <2>2 DEF Entries
<1>3. \/ proc'[p] = Free /\ proc[p].parent = Init0
      \/ /\ proc[p].parent # Init0 /\ proc'[p].role = proc[p].role /\ proc'[p].job = proc[p].job
         /\ proc'[p].parent = proc[p].parent /\ proc'[p].state = "zombie" /\ proc'[p].killed = FALSE /\ proc'[p].lock = FALSE
         /\ (proc[p].role = "guard" => proc'[p].code = c)
  <2>1. proc'[p] = IF proc[p].parent = Init0 THEN Free ELSE Left(p, c)
    BY EndedAre DEF Leaves
  <2> QED
    BY <2>1 DEF Left, Free
<1> QED
  BY <1>1, <1>2, <1>3

\* After the end of a process the others are where they were, or with their new parent.
LEMMA AfterEnd ==
    ASSUME GuardTypeOK, Table, Parents, Rooted, Watches, NEW p \in Pids, NEW c \in {0, 1, 9}, Leaves(p, c),
           \A j \in Jobs : j # proc[p].job \/ proc[p].role # "guard" => Steady(j),
           proc[p].role = "guard" => LET j == proc[p].job IN
               guard'[j].pid = p /\ guard'[j].pc = "end" /\ (c = 0 => guard'[j].result = "pass")
    PROVE  /\ Table' /\ Parents' /\ Rooted' /\ \A k \in Jobs : NoMore(k)
           /\ \A k \in Jobs : k # proc[p].job \/ proc[p].role # "guard" => Minded(k) /\ Unmarked(k)
           /\ proc[p].role = "guard" => proc'[p].role = "guard" /\ proc'[p].job = proc[p].job
<1>j. PICK j \in Jobs : j = proc[p].job /\ TableAt(p) /\ (Heir(p) = IF proc[p].role = "guard" \/ ~Lives(j) THEN Init0 ELSE guard[j].pid)
  BY HeirIs DEF Leaves, Table
<1>l. \A k \in Jobs : k # j \/ proc[p].role # "guard" => (Lives(k)' <=> Lives(k)) /\ Steady(k)
  BY <1>j DEF Steady, Lives
<1>g. proc[p].role = "guard" => guard[j].pid = p /\ Lives(j) /\ ~Lives(j)' /\ proc[p].parent = Runner
  BY <1>j DEF TableAt, Leaves, Lives
<1>f. Free.role = "free" /\ Free.state = "none" /\ Free.job = NoPid /\ Free.lock = FALSE
  BY DEF Free
<1>1. ASSUME NEW q \in Pids, q # p, proc[q].parent # p PROVE proc'[q] = proc[q]
  BY <1>1, EndedFields
<1>2. ASSUME NEW q \in Pids, q # p, proc[q].parent = p
      PROVE  /\ OfTool(q, j) /\ TableAt(q)
             /\ \/ proc'[q] = Free /\ Zombie(q) /\ Heir(p) = Init0
                \/ /\ proc'[q].role = proc[q].role /\ proc'[q].job = proc[q].job /\ proc'[q].state = proc[q].state
                   /\ proc'[q].killed = proc[q].killed /\ proc'[q].lock = proc[q].lock
                   /\ proc'[q].parent = Heir(p) /\ (Heir(p) = Init0 => Running(q))
  BY <1>2, <1>j, EndedFields, ChildrenAre DEF Table
<1>3. \/ proc'[p] = Free /\ proc[p].parent = Init0
      \/ /\ proc[p].parent # Init0 /\ proc'[p].role = proc[p].role /\ proc'[p].job = proc[p].job
         /\ proc'[p].parent = proc[p].parent /\ proc'[p].state = "zombie" /\ proc'[p].killed = FALSE /\ proc'[p].lock = FALSE
         /\ (proc[p].role = "guard" => proc'[p].code = c)
  BY EndedFields
<1>r. ASSUME NEW q \in Pids, q # p, Running(q)
      PROVE  proc'[q].state = "running" /\ proc'[q].role = proc[q].role /\ proc'[q].job = proc[q].job
  BY <1>1, <1>2, <1>r DEF Running, Zombie
<1>4. Table'
  <2> SUFFICES ASSUME NEW q \in Pids PROVE TableAt(q)'
    BY DEF Table
  <2>1. CASE q = p
    BY <1>3, <1>f, <1>g, <1>j, <2>1 DEF TableAt, Leaves, Running, Zombie
  <2>2. CASE q # p /\ proc[q].parent = p
    BY <1>2, <1>f, <1>j, <2>2 DEF TableAt, OfTool, Running, Zombie
  <2>3. CASE q # p /\ proc[q].parent # p
    <3>1. proc'[q] = proc[q] /\ TableAt(q)
      BY <1>1, <2>3 DEF Table
    <3>2. proc[q].role = "guard" => proc[q].job \in Jobs /\ (proc[q].job # j \/ proc[p].role # "guard")
      BY <1>g, <2>3, <3>1 DEF TableAt
    <3> QED
      BY <1>l, <1>j, <3>1, <3>2 DEF TableAt, Running, Zombie, Steady
  <2> QED
    BY <2>1, <2>2, <2>3
<1>5. Parents'
  <2> SUFFICES ASSUME NEW q \in Pids, NEW k \in Jobs, OfTool(q, k)' PROVE ParentsAt(q, k)'
    BY DEF Parents, ParentsAt
  <2>1. OfTool(q, k) /\ ParentsAt(q, k)
    BY <1>1, <1>2, <1>3, <1>f DEF OfTool, Parents
  <2>2. CASE q = p
    <3>1. /\ proc[p].parent # Init0 /\ proc'[p].role = proc[p].role /\ proc'[p].parent = proc[p].parent /\ k = j
          /\ proc[p].role # "guard" /\ Steady(k) /\ (Lives(k)' <=> Lives(k))
      BY <1>j, <1>3, <1>f, <1>l, <2>1, <2>2 DEF OfTool
    <3>2. p \in Tree(k)
      BY <2>1, <2>2 DEF Tree, OfTool, Leaves
    <3>3. proc[p].parent # p
      <4>1. {p} \in SUBSET Tree(k) /\ {p} # {}
        BY <3>2
      <4> QED
        BY <4>1 DEF Rooted
    <3>4. CASE proc[p].parent = guard[k].pid /\ Lives(k)
      BY <2>2, <3>1, <3>4 DEF ParentsAt, Steady
    <3>5. CASE /\ proc[p].parent \in Pids /\ Running(proc[p].parent) /\ OfTool(proc[p].parent, k) /\ proc[p].role = "tool"
      <4>0. PICK x \in Pids : x = proc[p].parent
        BY <3>5
      <4>1. Running(x)' /\ OfTool(x, k)'
        BY <1>r, <3>3, <3>5, <4>0 DEF Running, OfTool
      <4> QED
        BY <2>2, <3>1, <3>5, <4>0, <4>1 DEF ParentsAt
    <3> QED
      BY <2>1, <2>2, <3>1, <3>4, <3>5 DEF ParentsAt
  <2>3. CASE q # p /\ proc[q].parent = p
    <3>1. /\ proc'[q].parent = Heir(p) /\ (Heir(p) = Init0 => Running(q)) /\ proc'[q].state = proc[q].state /\ k = j
      BY <1>2, <1>f, <2>1, <2>3 DEF OfTool
    <3>2. CASE proc[p].role = "guard" \/ ~Lives(j)
      BY <1>g, <1>j, <1>l, <3>1, <3>2 DEF ParentsAt, Running
    <3>3. CASE proc[p].role # "guard" /\ Lives(j)
      <4>1. Steady(j)
        BY <1>j, <3>3
      <4> QED
        BY <1>j, <1>l, <3>1, <3>3, <4>1 DEF ParentsAt, Steady
    <3> QED
      BY <3>2, <3>3
  <2>4. CASE q # p /\ proc[q].parent # p
    <3>1. proc'[q] = proc[q]
      BY <1>1, <2>4
    <3>2. CASE proc[q].parent = Init0 /\ ~Lives(k) /\ Running(q)
      BY <1>g, <1>l, <3>1, <3>2 DEF ParentsAt, Running
    <3>3. CASE proc[q].parent = guard[k].pid /\ Lives(k)
      <4>1. k # j \/ proc[p].role # "guard"
        BY <1>g, <2>4, <3>3
      <4>2. Steady(k)
        BY <1>j, <4>1
      <4> QED
        BY <1>l, <3>1, <3>3, <4>1, <4>2 DEF ParentsAt, Steady
    <3>4. CASE proc[q].parent \in Pids /\ Running(proc[q].parent) /\ OfTool(proc[q].parent, k) /\ proc[q].role = "tool"
      <4>0. PICK x \in Pids : x = proc[q].parent
        BY <3>4
      <4>1. Running(x)' /\ OfTool(x, k)'
        BY <1>r, <2>4, <3>4, <4>0 DEF Running, OfTool
      <4> QED
        BY <3>1, <3>4, <4>0, <4>1 DEF ParentsAt
    <3> QED
      BY <2>1, <3>2, <3>3, <3>4 DEF ParentsAt
  <2> QED
    BY <2>2, <2>3, <2>4
<1>6. Rooted'
  <2> SUFFICES ASSUME NEW k \in Jobs, NEW S \in SUBSET Tree(k)', S # {} PROVE \E q \in S : proc'[q].parent \notin S
    BY DEF Rooted
  <2>1. S \in SUBSET Tree(k) /\ p \notin S
    BY <1>1, <1>2, <1>3, <1>f DEF Tree, Running
  <2>2. PICK q \in S : proc[q].parent \notin S
    BY <2>1 DEF Rooted
  <2>3. Heir(p) \notin S
    <3>1. Heir(p) = Init0 \/ proc[Heir(p)].role = "guard"
      BY <1>j, LiveGuard
    <3> QED
      BY <2>1, <3>1, PidsAre DEF Tree
  <2>4. proc'[q].parent = proc[q].parent \/ proc'[q].parent = Heir(p)
    BY <1>1, <1>2, <1>f, <2>1 DEF Tree, Running
  <2> QED
    BY <2>2, <2>3, <2>4
<1>7. ASSUME NEW k \in Jobs PROVE NoMore(k)
  <2>1. \A q \in Pids : proc'[q].role \in {"leader", "tool"} /\ proc'[q].job = k => OfTool(q, k)
    BY <1>1, <1>2, <1>3, <1>f DEF OfTool
  <2>2. \A q \in Pids : proc'[q].job = k /\ proc'[q].lock => proc[q].job = k /\ proc[q].lock
    BY <1>1, <1>2, <1>3, <1>f, PidsAre
  <2> QED
    BY <2>1, <2>2 DEF NoMore, Gone
<1>8. ASSUME NEW k \in Jobs, k # j \/ proc[p].role # "guard" PROVE Minded(k) /\ Unmarked(k)
  <2>1. Lives(k) => guard[k].pid \in Pids /\ guard[k].pid # p /\ proc[guard[k].pid].parent # p
    BY <1>8, <1>j, LiveGuard, PidsAre DEF Table, TableAt
  <2>2. runner[k].pc \notin {"start", "end"} => guard[k].pid \in Pids /\ guard[k].pid # p /\ proc[guard[k].pid].parent # p
    BY <1>8, <1>j, PidsAre DEF GuardTypeOK, Guards, Watches, WatchesAt, Table, TableAt
  <2>3. ASSUME Lives(k), NEW q \in Pids, OfTool(q, k), proc[q].parent = guard[k].pid
        PROVE  proc'[q].role = proc[q].role /\ proc'[q].job = k /\ proc'[q].parent = guard[k].pid
    BY <1>1, <1>3, <2>1, <2>3, PidsAre DEF OfTool
  <2>4. Minded(k)
    BY <1>1, <2>1, <2>2, <2>3, LiveGuard DEF Minded, Watches, WatchesAt, Running
  <2>5. Unmarked(k)
    BY <1>1, <2>1 DEF Unmarked
  <2> QED
    BY <2>4, <2>5
<1>9. proc[p].role = "guard" => proc'[p].role = "guard" /\ proc'[p].job = proc[p].job
  BY <1>3, <1>g, PidsAre DEF Init0, Runner
<1> QED
  BY <1>j, <1>4, <1>5, <1>6, <1>7, <1>8, <1>9

-----------------------------------------------------------------------------
(* What a step means for a job                                             *)

\* A job whose guard and runner do nothing, and whose processes are left alone, is
\* as it was.
LEMMA Bystander ==
    ASSUME GuardInv, NEW k \in Jobs, guard'[k] = guard[k], runner'[k] = runner[k], k \in shot' <=> k \in shot,
           Minded(k), Unmarked(k), NoMore(k)
    PROVE  WatchesAt(k)' /\ SweptAt(k)' /\ HurriesAt(k)'
<1>0. WatchesAt(k) /\ SweptAt(k) /\ HurriesAt(k)
  BY DEF GuardInv, Watches, Swept, Hurries
<1>1. (Lives(k)' <=> Lives(k)) /\ (Abandoned(k)' <=> Abandoned(k))
  BY DEF Lives, Abandoned
<1>2. Gone(k) => Gone(k)'
  BY DEF NoMore, Gone, OfTool
<1>3. guard[k].pc \in Working \cup Waits => Lives(k)
  BY DEF Working, Waits, Lives
<1>4. guard[k].todo # {} => Lives(k) /\ guard[k].todo \subseteq Pids
  BY <1>0 DEF WatchesAt, Lives, GuardInv, GuardTypeOK, Guards
<1>5. WatchesAt(k)'
  BY <1>0, <1>1, <1>3, <1>4 DEF WatchesAt, Minded, OfTool, Running
<1>6. SweptAt(k)'
  BY <1>0, <1>1, <1>2 DEF SweptAt
<1>7. HurriesAt(k)'
  BY <1>0, <1>1, <1>3 DEF HurriesAt, Unmarked
<1> QED
  BY <1>5, <1>6, <1>7

\* A step of processes only.
LEMMA QuietStep ==
    ASSUME GuardInv, GuardTypeOK', UNCHANGED <<guard, runner, shot>>, Table', Parents', Rooted',
           \A k \in Jobs : Minded(k) /\ Unmarked(k) /\ NoMore(k)
    PROVE  GuardInv'
<1>1. \A k \in Jobs : WatchesAt(k)' /\ SweptAt(k)' /\ HurriesAt(k)'
  BY Bystander
<1>2. Locks'
  BY DEF GuardInv, Locks, LockedBy, NoMore
<1> QED
  BY <1>1, <1>2 DEF GuardInv, Watches, Swept, Hurries

\* A step of one job.
LEMMA JobStep ==
    ASSUME GuardInv, GuardTypeOK', NEW j \in Jobs, Table', Parents', Rooted',
           \A k \in Jobs : k # j => /\ guard'[k] = guard[k] /\ runner'[k] = runner[k] /\ (k \in shot' <=> k \in shot)
                                    /\ Minded(k) /\ Unmarked(k) /\ NoMore(k),
           WatchesAt(j)' /\ SweptAt(j)' /\ HurriesAt(j)',
           j \in LockedBy' => j \in LockedBy \/ LockedBy = {},
           guard'[j].pc \in {"spawn"} \cup Working => guard'[j].fd
    PROVE  GuardInv'
<1>1. \A k \in Jobs : WatchesAt(k)' /\ SweptAt(k)' /\ HurriesAt(k)'
  BY Bystander
<1>2. \A k \in LockedBy' : k # j => k \in LockedBy
  BY DEF LockedBy, NoMore
<1>3. LockedBy' \subseteq Jobs
  BY DEF LockedBy
<1>4. Locks'
  BY <1>2, <1>3 DEF GuardInv, Locks
<1> QED
  BY <1>1, <1>4 DEF GuardInv, Watches, Swept, Hurries

-----------------------------------------------------------------------------
(* Steps of the processes                                                  *)

\* Tools fork, exit and wait; whoever was killed dies; strangers come and go.
LEMMA OfProcesses ==
    ASSUME GuardInv, GuardTypeOK', NEW p \in Pids, ToolMoves(p), ~DieGuard(p, proc[p].job) PROVE GuardInv'
<1>0. GuardTypeOK /\ Table /\ Parents /\ Rooted /\ Watches /\ Swept /\ TableAt(p)
  BY DEF GuardInv, Table
<1>s. UNCHANGED guard => \A j \in Jobs : Steady(j)
  BY DEF Steady
<1>1. CASE \E c \in Pids, own \in BOOLEAN, keeps \in BOOLEAN : ForkOne(p, c, own, keeps)
  <2>1. PICK c \in Pids, own \in BOOLEAN, keeps \in BOOLEAN : ForkOne(p, c, own, keeps)
    BY <1>1
  <2>2. PICK j \in Jobs : j = proc[p].job /\ OfTool(p, j) /\ Running(p) /\ proc[c].role = "free" /\ p # c
    BY <1>0, <2>1 DEF ForkOne, Tool, TableAt, OfTool, FreePids
  <2>3. /\ proc'[c].role = "tool" /\ proc'[c].job = j /\ proc'[c].parent = p /\ proc'[c].state = "running"
        /\ proc'[c].lock => proc[p].lock
    BY <1>0, <2>1, <2>2 DEF ForkOne, Process, Free, GuardTypeOK
  <2>4. DOMAIN proc' = Pids /\ \A q \in Pids : q # c => proc'[q] = proc[q]
    BY <1>0, <2>1 DEF ForkOne, GuardTypeOK
  <2>5. Born(c)
    BY <2>2, <2>3, <2>4 DEF Born
  <2>6. TableAt(c)'
    BY <2>3 DEF TableAt, Running, Zombie
  <2>7. \A k \in Jobs : ParentsAt(c, k)'
    BY <2>2, <2>3, <2>4 DEF ParentsAt, OfTool, Running
  <2>8. UNCHANGED <<guard, runner, shot>>
    BY <2>1 DEF ForkOne
  <2>9. Table' /\ Parents' /\ Rooted' /\ \A k \in Jobs : Minded(k) /\ Unmarked(k) /\ (j # k => NoMore(k))
    BY <1>0, <1>s, <2>3, <2>5, <2>6, <2>7, <2>8, AfterBirth
  <2>10. NoMore(j)
    BY <2>2, <2>3, <2>4 DEF NoMore, Gone, OfTool
  <2> QED
    BY <2>8, <2>9, <2>10, QuietStep
<1>2. ASSUME NEW c \in {0, 1, 9}, Leaves(p, c), proc[p].role # "guard", UNCHANGED <<guard, runner, shot>> PROVE GuardInv'
  <2>1. Table' /\ Parents' /\ Rooted' /\ \A k \in Jobs : Minded(k) /\ Unmarked(k) /\ NoMore(k)
    BY <1>0, <1>s, <1>2, AfterEnd
  <2> QED
    BY <1>2, <2>1, QuietStep
<1>3. CASE \E c \in {0, 1} : ExitWith(p, c)
  <2>1. PICK c \in {0, 1} : ExitWith(p, c)
    BY <1>3
  <2>2. Leaves(p, c) /\ proc[p].role # "guard"
    BY <2>1 DEF ExitWith, Leaves, Tool
  <2> QED
    BY <1>2, <2>1, <2>2 DEF ExitWith
<1>4. CASE \E c \in Pids : Reaps(p, c)
  <2>1. PICK c \in Pids : Reaps(p, c)
    BY <1>4
  <2>2. UNCHANGED <<guard, runner, shot>> /\ Freed(c) /\ proc[c].parent = p
    BY <2>1 DEF Reaps, Freed, Children
  <2>3. proc[c].role # "guard" /\ \A k \in Jobs : Lives(k) => guard[k].pid # p
    BY <1>0, <2>1, <2>2, ChildrenAre, LiveGuard DEF Reaps, Tool, OfTool
  <2>4. \A k \in Jobs : Idle(c, k)
    BY <2>2, <2>3 DEF Idle
  <2>5. Table' /\ Parents' /\ Rooted' /\ \A k \in Jobs : Minded(k) /\ Unmarked(k) /\ NoMore(k)
    BY <1>0, <1>s, <2>2, <2>4, AfterReaping
  <2> QED
    BY <2>2, <2>5, QuietStep
<1>5. CASE DieOther(p)
  <2>1. Leaves(p, 9) /\ proc[p].role # "guard"
    BY <1>0, <1>5 DEF DieOther, Dying, Leaves, TableAt, GuardTypeOK, Entries, Running, Free
  <2> QED
    BY <1>2, <1>5, <2>1 DEF DieOther
<1>6. CASE StrangerComes(p)
  <2>1. /\ proc'[p] = Process(NoPid, "other", Init0, p) /\ DOMAIN proc' = Pids /\ \A q \in Pids : q # p => proc'[q] = proc[q]
        /\ proc[p].role = "free" /\ UNCHANGED <<guard, runner, shot>>
    BY <1>0, <1>6 DEF StrangerComes, GuardTypeOK, FreePids
  <2>2. /\ proc'[p].role = "other" /\ proc'[p].state = "running" /\ proc'[p].parent = Init0 /\ proc'[p].group = p
        /\ proc'[p].job = NoPid /\ proc'[p].killed = FALSE /\ proc'[p].term = FALSE /\ proc'[p].lock = FALSE
    BY <2>1 DEF Process, Free
  <2>3. Born(p) /\ TableAt(p)' /\ \A k \in Jobs : ParentsAt(p, k)'
    BY <2>1, <2>2, PidsAre DEF Born, TableAt, ParentsAt, OfTool, Running, Zombie
  <2>4. Table' /\ Parents' /\ Rooted' /\ \A k \in Jobs : Minded(k) /\ Unmarked(k) /\ (proc'[p].job # k => NoMore(k))
    BY <1>0, <1>s, <2>1, <2>3, AfterBirth
  <2>5. \A k \in Jobs : NoMore(k)
    BY <2>1, <2>2 DEF NoMore, Gone, OfTool
  <2> QED
    BY <2>1, <2>4, <2>5, QuietStep
<1>7. CASE StrangerGoes(p)
  <2>1. UNCHANGED <<guard, runner, shot>> /\ Freed(p) /\ \A k \in Jobs : Idle(p, k)
    BY <1>7 DEF StrangerGoes, Freed, Idle
  <2>2. Table' /\ Parents' /\ Rooted' /\ \A k \in Jobs : Minded(k) /\ Unmarked(k) /\ NoMore(k)
    BY <1>0, <1>s, <2>1, AfterReaping
  <2> QED
    BY <2>1, <2>2, QuietStep
<1> QED
  BY <1>1, <1>3, <1>4, <1>5, <1>6, <1>7, Zenon DEF ToolMoves

\* The guard itself is killed.
LEMMA OfDyingGuard ==
    ASSUME GuardInv, GuardTypeOK', NEW p \in Pids, DieGuard(p, proc[p].job) PROVE GuardInv'
<1>0. GuardTypeOK /\ Table /\ Parents /\ Rooted /\ Watches /\ Swept /\ TableAt(p)
  BY DEF GuardInv, Table
<1>1. PICK j \in Jobs : j = proc[p].job
  BY <1>0 DEF DieGuard, TableAt
<1>2. Leaves(p, 9) /\ proc[p].role = "guard" /\ UNCHANGED <<runner, shot>> /\ guard[j].pid = p /\ Lives(j) /\ proc[p].killed
  BY <1>0, <1>1 DEF DieGuard, Dying, Leaves, TableAt
<1>3. /\ guard'[j].pc = "end" /\ guard'[j].fd = FALSE /\ guard'[j].child = NoPid /\ guard'[j].rc = NoPid
      /\ guard'[j].todo = {} /\ guard'[j].pid = p /\ guard'[j].reason = guard[j].reason /\ guard'[j].result = guard[j].result
      /\ \A k \in Jobs : k # j => guard'[k] = guard[k]
  BY <1>0, <1>1, <1>2 DEF DieGuard, GuardTypeOK, Guards
<1>4. /\ Table' /\ Parents' /\ Rooted' /\ \A k \in Jobs : NoMore(k)
      /\ \A k \in Jobs : k # j => Minded(k) /\ Unmarked(k)
      /\ proc'[p].role = "guard" /\ proc'[p].job = j
  <2>1. \A k \in Jobs : k # j => Steady(k)
    BY <1>3 DEF Steady
  <2> QED
    BY <1>0, <1>1, <1>2, <1>3, <2>1, AfterEnd
<1>5. WatchesAt(j) /\ SweptAt(j) /\ HurriesAt(j)
  BY DEF GuardInv, Watches, Swept, Hurries
<1>6. WatchesAt(j)'
  BY <1>0, <1>2, <1>3, <1>4, <1>5 DEF WatchesAt, Lives, Working, Waits
<1>7. Gone(j) \/ Abandoned(j)
  BY <1>2, <1>5 DEF SweptAt, HurriesAt
<1>8. (Gone(j) => Gone(j)') /\ (Abandoned(j) => Abandoned(j)')
  BY <1>2, <1>3, <1>4 DEF NoMore, Gone, OfTool, Abandoned
<1>9. SweptAt(j)'
  BY <1>3, <1>5, <1>7, <1>8 DEF SweptAt, Waits
<1>10. HurriesAt(j)'
  BY <1>2, <1>3 DEF HurriesAt, Lives, Sweeps, Waits, Working
<1>11. j \in LockedBy' => j \in LockedBy
  BY <1>3, <1>4 DEF LockedBy, NoMore
<1> QED
  BY <1>2, <1>3, <1>4, <1>6, <1>9, <1>10, <1>11, JobStep DEF Working

-----------------------------------------------------------------------------
(* Steps of guards and runners                                             *)

\* What a step may build on that changes no process.
LEMMA Unmoved ==
    ASSUME GuardInv, GuardTypeOK', UNCHANGED proc, \A j \in Jobs : Steady(j)
    PROVE  Table' /\ Parents' /\ Rooted' /\ \A k \in Jobs : Minded(k) /\ Unmarked(k) /\ NoMore(k)
<1>1. {} \in SUBSET Pids /\ Signals({}) /\ \A k \in Jobs : guard[k].pid \notin {}
  BY DEF Signals, GuardInv, GuardTypeOK
<1> QED
  BY <1>1, AfterSignals DEF GuardInv

\* Whom a guard that is at work, or about to be, may count on.
LEMMA AtWork ==
    ASSUME GuardInv, NEW j \in Jobs, ~Dying(guard[j].pid), Lives(j)
    PROVE  /\ guard[j].pid \in Pids /\ ~proc[guard[j].pid].killed
           /\ runner[j].pc \in {"grace", "kill"} => guard[j].pc \notin Waits
           /\ runner[j].pc = "kill" => Abandoned(j)
<1>1. guard[j].pid \in Pids /\ ~proc[guard[j].pid].killed
  BY LiveGuard DEF GuardInv, Dying, GuardTypeOK, Entries
<1>2. HurriesAt(j) /\ guard[j].pc # "end"
  BY DEF GuardInv, Hurries, Lives
<1> QED
  BY <1>1, <1>2 DEF HurriesAt

\* Steps of a guard that touch no process.
LEMMA OfGuardAlone ==
    ASSUME GuardInv, GuardTypeOK', NEW j \in Jobs, ~Dying(guard[j].pid), Lives(j), UNCHANGED <<proc, runner, shot>>,
           Lives(j)', guard'[j].pid = guard[j].pid, guard'[j].result = guard[j].result,
           \A k \in Jobs : k # j => guard'[k] = guard[k],
           WatchesAt(j)', SweptAt(j)', HurriesAt(j)',
           guard'[j].pc \in {"spawn"} \cup Working => guard'[j].fd,
           guard'[j].fd => guard[j].fd \/ LockedBy = {}
    PROVE  GuardInv'
<1>1. \A k \in Jobs : Steady(k)
  BY DEF Steady, Lives
<1>2. Table' /\ Parents' /\ Rooted' /\ \A k \in Jobs : Minded(k) /\ Unmarked(k) /\ NoMore(k)
  BY <1>1, Unmoved
<1>3. j \in LockedBy' => j \in LockedBy \/ LockedBy = {}
  BY DEF LockedBy
<1> QED
  BY <1>2, <1>3, JobStep

\* Each of them keeps the invariant.
LEMMA OfGuardAloneSteps ==
    ASSUME GuardInv, GuardTypeOK', NEW j \in Jobs,
           \/ Locking(j) \/ NotStarted(j) \/ (\E reason \in {"stopped", "none"} : WatchOver(j, reason)) \/ WatchOn(j)
           \/ ListOne(j) \/ GiveUp(j) \/ SweepOn(j)
    PROVE  GuardInv'
<1>0. /\ GuardTypeOK /\ WatchesAt(j) /\ SweptAt(j) /\ HurriesAt(j) /\ guard \in [Jobs -> Guards] /\ guard[j] \in Guards /\ runner[j] \in Runners
      /\ (guard[j].pc \in {"spawn"} \cup Working => guard[j].fd)
  BY DEF GuardInv, Watches, Swept, Hurries, GuardTypeOK, Locks
<1>1. ~Dying(guard[j].pid) /\ Lives(j) /\ UNCHANGED <<proc, runner, shot>>
  BY DEF Locking, NotStarted, WatchOver, WatchOn, ListOne, GiveUp, SweepOn, At, Lives
<1>2. /\ guard[j].pid \in Pids /\ ~proc[guard[j].pid].killed
      /\ (runner[j].pc \in {"grace", "kill"} => guard[j].pc \notin Waits)
      /\ (runner[j].pc = "kill" => Abandoned(j))
  BY <1>1, AtWork
<1>3. Gone(j) => Gone(j)'
  BY <1>1 DEF Gone, OfTool
<1>4. CASE Locking(j)
  <2>1. guard'[j] = [guard[j] EXCEPT !.pc = "spawn", !.fd = TRUE] /\ (\A k \in Jobs : k # j => guard'[k] = guard[k])
        /\ guard[j].pc = "acquire" /\ LockedBy = {}
    BY <1>0, <1>4 DEF Locking, At
  <2>2. /\ guard'[j].pc = "spawn" /\ guard'[j].fd /\ guard'[j].pid = guard[j].pid /\ guard'[j].result = guard[j].result
        /\ guard'[j].child = guard[j].child /\ guard'[j].rc = guard[j].rc /\ guard'[j].todo = guard[j].todo
        /\ guard'[j].reason = guard[j].reason
    BY <1>0, <2>1 DEF Guards
  <2>3. WatchesAt(j)'
    BY <1>0, <1>1, <2>1, <2>2 DEF WatchesAt, Lives, Running, OfTool, Waits, Working
  <2>4. SweptAt(j)'
    BY <1>0, <1>3, <2>1, <2>2 DEF SweptAt, Waits
  <2>5. HurriesAt(j)'
    BY <1>0, <1>1, <1>2, <2>1, <2>2 DEF HurriesAt, Lives, Waits, Working, Sweeps, Abandoned
  <2> QED
    BY <1>1, <2>1, <2>2, <2>3, <2>4, <2>5, OfGuardAlone DEF Lives
<1>5. CASE NotStarted(j)
  <2>1. guard'[j] = [guard[j] EXCEPT !.pc = "release", !.reason = "not-started"] /\ (\A k \in Jobs : k # j => guard'[k] = guard[k])
        /\ guard[j].pc \in Waits
    BY <1>0, <1>5 DEF NotStarted, At, Waits
  <2>2. /\ guard'[j].pc = "release" /\ guard'[j].fd = guard[j].fd /\ guard'[j].pid = guard[j].pid /\ guard'[j].result = guard[j].result
        /\ guard'[j].child = guard[j].child /\ guard'[j].rc = guard[j].rc /\ guard'[j].todo = guard[j].todo
        /\ guard'[j].reason = "not-started"
    BY <1>0, <2>1 DEF Guards
  <2>3. WatchesAt(j)'
    BY <1>0, <1>1, <2>1, <2>2 DEF WatchesAt, Lives, Running, OfTool, Waits, Working
  <2>4. SweptAt(j)'
    BY <1>0, <1>3, <2>1, <2>2 DEF SweptAt, Waits
  <2>5. HurriesAt(j)'
    BY <1>0, <1>1, <1>2, <2>1, <2>2 DEF HurriesAt, Lives, Waits, Working, Sweeps, Abandoned
  <2> QED
    BY <1>1, <2>1, <2>2, <2>3, <2>4, <2>5, OfGuardAlone DEF Lives, Working
<1>6. ASSUME NEW reason \in {"stopped", "none"}, WatchOver(j, reason) PROVE GuardInv'
  <2>1. guard'[j] = [guard[j] EXCEPT !.pc = "killpg", !.reason = reason, !.left = 0] /\ (\A k \in Jobs : k # j => guard'[k] = guard[k])
        /\ guard[j].pc = "watch"
    BY <1>0, <1>6 DEF WatchOver, At
  <2>2. /\ guard'[j].pc = "killpg" /\ guard'[j].fd = guard[j].fd /\ guard'[j].pid = guard[j].pid /\ guard'[j].result = guard[j].result
        /\ guard'[j].child = guard[j].child /\ guard'[j].rc = guard[j].rc /\ guard'[j].todo = guard[j].todo
        /\ guard'[j].reason = reason
    BY <1>0, <2>1 DEF Guards
  <2>3. WatchesAt(j)'
    BY <1>0, <1>1, <2>1, <2>2 DEF WatchesAt, Lives, Running, OfTool, Waits, Working
  <2>4. SweptAt(j)'
    BY <1>0, <1>3, <2>1, <2>2 DEF SweptAt, Waits
  <2>5. (Abandoned(j) <=> j \in shot) /\ (Abandoned(j)' <=> j \in shot)
    BY <1>0, <1>1, <2>1, <2>2 DEF Abandoned, WatchesAt
  <2>6. HurriesAt(j)'
    BY <1>0, <1>1, <1>2, <2>1, <2>2, <2>5 DEF HurriesAt, Lives, Waits, Working, Sweeps
  <2> QED
    BY <1>0, <1>1, <2>1, <2>2, <2>3, <2>4, <2>6, OfGuardAlone DEF Lives, Working
<1>7. CASE WatchOn(j)
  <2>1. guard'[j] = [guard[j] EXCEPT !.pc = "watching"] /\ (\A k \in Jobs : k # j => guard'[k] = guard[k])
        /\ guard[j].pc = "watch" /\ ~proc[guard[j].pid].term
    BY <1>0, <1>7 DEF WatchOn, At
  <2>2. /\ guard'[j].pc = "watching" /\ guard'[j].fd = guard[j].fd /\ guard'[j].pid = guard[j].pid /\ guard'[j].result = guard[j].result
        /\ guard'[j].child = guard[j].child /\ guard'[j].rc = guard[j].rc /\ guard'[j].todo = guard[j].todo
        /\ guard'[j].reason = guard[j].reason
    BY <1>0, <2>1 DEF Guards
  <2>3. WatchesAt(j)'
    BY <1>0, <1>1, <2>1, <2>2 DEF WatchesAt, Lives, Running, OfTool, Waits, Working
  <2>4. SweptAt(j)'
    BY <1>0, <1>3, <2>1, <2>2 DEF SweptAt, Waits
  <2>5. Abandoned(j) <=> Abandoned(j)'
    BY <1>1, <2>2 DEF Abandoned
  <2>6. HurriesAt(j)'
    BY <1>0, <1>1, <1>2, <2>1, <2>2, <2>5 DEF HurriesAt, Lives, Waits, Working, Sweeps
  <2> QED
    BY <1>0, <1>1, <2>1, <2>2, <2>3, <2>4, <2>6, OfGuardAlone DEF Lives, Working
<1>8. CASE ListOne(j)
  <2>1. guard'[j] = [guard[j] EXCEPT !.pc = "sweep", !.todo = Children(guard[j].pid) \ {guard[j].child}]
        /\ (\A k \in Jobs : k # j => guard'[k] = guard[k]) /\ guard[j].pc = "list"
    BY <1>0, <1>8 DEF ListOne, At
  <2>2. /\ guard'[j].pc = "sweep" /\ guard'[j].fd = guard[j].fd /\ guard'[j].pid = guard[j].pid /\ guard'[j].result = guard[j].result
        /\ guard'[j].child = guard[j].child /\ guard'[j].rc = guard[j].rc /\ guard'[j].todo = Children(guard[j].pid) \ {guard[j].child}
        /\ guard'[j].reason = guard[j].reason /\ guard'[j].left = guard[j].left
    BY <1>0, <2>1 DEF Guards
  <2>3. \A c \in Children(guard[j].pid) : OfTool(c, j) /\ proc[c].parent = guard[j].pid
    BY <1>0, <1>1, <1>2, ChildrenAre, LiveGuard DEF Children, GuardInv
  <2>4. WatchesAt(j)'
    BY <1>0, <1>1, <2>1, <2>2, <2>3 DEF WatchesAt, Lives, Running, OfTool, Waits, Working
  <2>5. SweptAt(j)'
    BY <1>0, <1>3, <2>1, <2>2 DEF SweptAt, Waits
  <2>6. Abandoned(j) <=> Abandoned(j)'
    BY <1>1, <2>2 DEF Abandoned
  <2>7. HurriesAt(j)'
    BY <1>0, <1>1, <1>2, <2>1, <2>2, <2>6 DEF HurriesAt, Lives, Waits, Working, Sweeps
  <2> QED
    BY <1>0, <1>1, <2>1, <2>2, <2>4, <2>5, <2>7, OfGuardAlone DEF Lives, Working
<1>9. CASE GiveUp(j)
  <2>1. guard'[j] = [guard[j] EXCEPT !.pc = "release", !.reason = "cleanup-failed"] /\ (\A k \in Jobs : k # j => guard'[k] = guard[k])
        /\ guard[j].pc = "sweep" /\ guard[j].todo = {}
    BY <1>0, <1>9 DEF GiveUp, At
  <2>2. /\ guard'[j].pc = "release" /\ guard'[j].fd = guard[j].fd /\ guard'[j].pid = guard[j].pid /\ guard'[j].result = guard[j].result
        /\ guard'[j].child = guard[j].child /\ guard'[j].rc = guard[j].rc /\ guard'[j].todo = guard[j].todo
        /\ guard'[j].reason = "cleanup-failed"
    BY <1>0, <2>1 DEF Guards
  <2>3. WatchesAt(j)'
    BY <1>0, <1>1, <2>1, <2>2 DEF WatchesAt, Lives, Running, OfTool, Waits, Working
  <2>4. Abandoned(j)'
    BY <2>2 DEF Abandoned
  <2>5. SweptAt(j)' /\ HurriesAt(j)'
    BY <1>0, <1>2, <1>3, <2>1, <2>2, <2>4 DEF SweptAt, HurriesAt, Lives, Waits, Working, Sweeps
  <2> QED
    BY <1>1, <2>1, <2>2, <2>3, <2>5, OfGuardAlone DEF Lives, Working
<1>10. CASE SweepOn(j)
  <2>1. guard'[j] = [guard[j] EXCEPT !.pc = "sweeping"] /\ (\A k \in Jobs : k # j => guard'[k] = guard[k])
        /\ guard[j].pc = "sweep" /\ guard[j].todo = {} /\ guard[j].left # 0
    BY <1>0, <1>10 DEF SweepOn, At
  <2>2. /\ guard'[j].pc = "sweeping" /\ guard'[j].fd = guard[j].fd /\ guard'[j].pid = guard[j].pid /\ guard'[j].result = guard[j].result
        /\ guard'[j].child = guard[j].child /\ guard'[j].rc = guard[j].rc /\ guard'[j].todo = guard[j].todo
        /\ guard'[j].reason = guard[j].reason /\ guard'[j].left = guard[j].left /\ guard[j].left \in Nat
    BY <1>0, <2>1 DEF Guards
  <2>3. WatchesAt(j)'
    BY <1>0, <1>1, <2>1, <2>2 DEF WatchesAt, Lives, Running, OfTool, Waits, Working
  <2>4. SweptAt(j)'
    BY <1>0, <1>3, <2>1, <2>2 DEF SweptAt, Waits
  <2>5. Abandoned(j) <=> Abandoned(j)'
    BY <1>1, <2>2 DEF Abandoned
  <2>6. HurriesAt(j)'
    BY <1>0, <1>1, <1>2, <2>1, <2>2, <2>5 DEF HurriesAt, Lives, Waits, Working, Sweeps
  <2> QED
    BY <1>0, <1>1, <2>1, <2>2, <2>3, <2>4, <2>6, OfGuardAlone DEF Lives, Working
<1> QED
  BY <1>4, <1>5, <1>6, <1>7, <1>8, <1>9, <1>10

\* The tool is started.
LEMMA OfSpawn ==
    ASSUME GuardInv, GuardTypeOK', NEW j \in Jobs, NEW c \in Pids, SpawnOne(j, c) PROVE GuardInv'
<1>0. /\ GuardTypeOK /\ Table /\ Parents /\ Rooted /\ Watches /\ Swept
      /\ WatchesAt(j) /\ SweptAt(j) /\ HurriesAt(j) /\ guard[j] \in Guards /\ guard[j].fd
  BY DEF GuardInv, Watches, Swept, Hurries, GuardTypeOK, Locks, SpawnOne, At
<1>1. ~Dying(guard[j].pid) /\ Lives(j) /\ UNCHANGED <<runner, shot>> /\ guard[j].pc = "spawn" /\ proc[c].role = "free"
  BY DEF SpawnOne, At, Lives, FreePids
<1>2. /\ guard[j].pid \in Pids /\ ~proc[guard[j].pid].killed /\ runner[j].pc # "grace"
      /\ (runner[j].pc = "kill" => Abandoned(j)) /\ Running(guard[j].pid) /\ guard[j].pid # c
  BY <1>0, <1>1, AtWork, LiveGuard DEF Waits
<1>3. /\ guard'[j] = [guard[j] EXCEPT !.pc = "watch", !.child = c, !.left = Seconds] /\ (\A k \in Jobs : k # j => guard'[k] = guard[k])
      /\ proc'[c] = [Process(j, "leader", guard[j].pid, c) EXCEPT !.lock = TRUE]
      /\ DOMAIN proc' = Pids /\ \A q \in Pids : q # c => proc'[q] = proc[q]
  BY <1>0 DEF SpawnOne, GuardTypeOK
<1>4. /\ guard'[j].pc = "watch" /\ guard'[j].fd = guard[j].fd /\ guard'[j].pid = guard[j].pid /\ guard'[j].result = guard[j].result
      /\ guard'[j].child = c /\ guard'[j].rc = guard[j].rc /\ guard'[j].todo = guard[j].todo
      /\ guard'[j].reason = guard[j].reason
  <2>1. ASSUME NEW g \in Guards, NEW h, h = [g EXCEPT !.pc = "watch", !.child = c, !.left = Seconds]
        PROVE  /\ h.pc = "watch" /\ h.fd = g.fd /\ h.pid = g.pid /\ h.result = g.result
               /\ h.child = c /\ h.rc = g.rc /\ h.todo = g.todo /\ h.reason = g.reason
    BY <2>1 DEF Guards
  <2> QED
    BY <1>0, <1>3, <2>1
<1>5. /\ proc'[c].role = "leader" /\ proc'[c].job = j /\ proc'[c].parent = guard[j].pid /\ proc'[c].state = "running"
      /\ proc'[c].lock = TRUE /\ proc'[c].killed = FALSE
  BY <1>3 DEF Process, Free
<1>6. \A k \in Jobs : Steady(k)
  BY <1>1, <1>3, <1>4 DEF Steady
<1>7. Born(c) /\ TableAt(c)' /\ \A k \in Jobs : ParentsAt(c, k)'
  <2>1. Born(c)
    BY <1>1, <1>2, <1>3, <1>4, <1>5 DEF Born, OfTool, Lives, Running, Zombie
  <2>2. TableAt(c)'
    BY <1>1, <1>2, <1>3, <1>4, <1>5, ZenonT(60) DEF TableAt, OfTool, Lives, Running, Zombie
  <2>3. \A k \in Jobs : ParentsAt(c, k)'
    <3>1. ASSUME NEW k \in Jobs, k # j PROVE ~ OfTool(c, k)'
      BY <1>5, <3>1 DEF OfTool
    <3>2. ParentsAt(c, j)'
      BY <1>1, <1>2, <1>3, <1>4, <1>5 DEF ParentsAt, Lives, Running
    <3> QED
      BY <3>1, <3>2 DEF ParentsAt
  <2> QED
    BY <2>1, <2>2, <2>3
<1>8. Table' /\ Parents' /\ Rooted' /\ \A k \in Jobs : Minded(k) /\ Unmarked(k) /\ (j # k => NoMore(k))
  BY <1>0, <1>5, <1>6, <1>7, AfterBirth
<1>9. WatchesAt(j)'
  <2>1. /\ guard[j].todo = {} /\ guard[j].rc = NoPid /\ runner[j].pc # "start" /\ guard[j].result = "not-run" /\ runner[j].result # "pass"
        /\ guard[j].reason # "cleanup-failed" /\ (j \notin Watched => runner[j].pc \in {"start", "shell", "end"})
        /\ proc[guard[j].pid].role = "guard" /\ proc[guard[j].pid].job = j /\ guard[j].pid # NoPid
    BY <1>0, <1>1 DEF WatchesAt, Waits, Lives
  <2>2. proc'[guard[j].pid] = proc[guard[j].pid]
    BY <1>2, <1>3
  <2> QED
    BY <1>1, <1>2, <1>4, <1>5, <2>1, <2>2 DEF WatchesAt, Lives, Running, Waits, Working
<1>10. SweptAt(j)'
  BY <1>0, <1>1, <1>4 DEF SweptAt, WatchesAt, Waits
<1>11. Abandoned(j) <=> Abandoned(j)'
  BY <1>1, <1>4 DEF Abandoned
<1>12. HurriesAt(j)'
  BY <1>0, <1>1, <1>2, <1>3, <1>4, <1>11 DEF HurriesAt, Lives, Waits, Working, Sweeps
<1>13. j \in LockedBy
  BY <1>0 DEF LockedBy
<1> QED
  BY <1>0, <1>1, <1>3, <1>4, <1>8, <1>9, <1>10, <1>12, <1>13, JobStep

\* The guard, and only it, is shot; its tool's group, or a child, is killed.
LEMMA OfSignals ==
    ASSUME GuardInv, GuardTypeOK', NEW j \in Jobs, Shoot(j) \/ KillTool(j) \/ (\E c \in Pids : KillOne(j, c)) PROVE GuardInv'
<1>0. /\ GuardTypeOK /\ Table /\ Parents /\ Rooted /\ Watches /\ Swept
      /\ WatchesAt(j) /\ SweptAt(j) /\ HurriesAt(j) /\ guard[j] \in Guards /\ runner[j] \in Runners
      /\ (guard[j].pc \in {"spawn"} \cup Working => guard[j].fd)
  BY DEF GuardInv, Watches, Swept, Hurries, GuardTypeOK, Locks
<1>k. ASSUME NEW S \in SUBSET Pids, proc' = Killed(S), \A p \in S : proc[p].role # "other" PROVE Signals(S)
  <2>1. \A p \in Pids : proc'[p] = proc[p] \/ (p \in S /\ Running(p) /\ proc'[p] = [proc[p] EXCEPT !.killed = TRUE])
    BY <1>0, <1>k, KilledAre
  <2>2. \A p \in Pids : proc[p] \in Entries
    BY <1>0 DEF GuardTypeOK
  <2>3. \A p \in Pids : proc'[p] = [proc[p] EXCEPT !.killed = TRUE] => Alike(p)
    BY <2>2 DEF Alike, Entries
  <2> QED
    BY <1>k, <2>1, <2>3 DEF Signals, Killed
<1>1. CASE Shoot(j)
  <2>1. UNCHANGED <<guard, runner>> /\ shot' = shot \cup {j} /\ Lives(j) /\ proc' = Killed({guard[j].pid})
    BY <1>0, <1>1 DEF Shoot, Guarding, WatchesAt, Lives
  <2>2. guard[j].pid \in Pids /\ proc[guard[j].pid].role = "guard" /\ proc[guard[j].pid].job = j
    BY <1>0, <2>1, LiveGuard
  <2>3. Signals({guard[j].pid}) /\ \A k \in Jobs : Steady(k)
    BY <1>k, <2>1, <2>2 DEF Steady
  <2>4. /\ Table' /\ Parents' /\ Rooted'
        /\ \A k \in Jobs : Minded(k) /\ NoMore(k) /\ (guard[k].pid # guard[j].pid => Unmarked(k))
    BY <1>0, <2>2, <2>3, AfterSignals
  <2>5. ASSUME NEW k \in Jobs, k # j PROVE Unmarked(k)
    <3>1. CASE Lives(k)
      BY <1>0, <2>2, <2>4, <2>5, <3>1, LiveGuard
    <3>2. CASE ~Lives(k)
      BY <3>2 DEF Unmarked
    <3> QED
      BY <3>1, <3>2
  <2>6. Abandoned(j)' /\ (Gone(j) => Gone(j)') /\ (Lives(j)' <=> Lives(j))
    BY <2>1, <2>4 DEF Abandoned, NoMore, Gone, OfTool, Lives
  <2>7. WatchesAt(j)'
    <3>1. /\ guard[j].pc \in Working => guard[j].child \in Pids /\ OfTool(guard[j].child, j) /\ proc[guard[j].child].parent = guard[j].pid
          /\ guard[j].todo \subseteq Pids
      BY <1>0 DEF WatchesAt, OfTool, Guards
    <3>2. /\ guard[j].pc \in Working => proc'[guard[j].child].role = proc[guard[j].child].role /\ proc'[guard[j].child].job = j
                                        /\ proc'[guard[j].child].parent = guard[j].pid
          /\ \A c \in guard[j].todo : proc'[c].role = proc[c].role /\ proc'[c].job = j /\ proc'[c].parent = guard[j].pid
      BY <1>0, <2>1, <2>4, <3>1 DEF Minded, WatchesAt
    <3>3. proc'[guard[j].pid].role = "guard" /\ proc'[guard[j].pid].job = j /\ proc'[guard[j].pid].state = "running"
      BY <2>1, <2>4 DEF Minded
    <3> QED
      BY <1>0, <2>1, <2>6, <3>1, <3>2, <3>3 DEF WatchesAt, OfTool, Running
  <2>8. SweptAt(j)'
    BY <1>0, <2>1, <2>6 DEF SweptAt
  <2>9. proc[guard[j].pid].killed => proc'[guard[j].pid].killed
    <3>1. proc[guard[j].pid] \in Entries
      BY <1>0, <2>2 DEF GuardTypeOK
    <3>2. proc'[guard[j].pid] = proc[guard[j].pid] \/ proc'[guard[j].pid] = [proc[guard[j].pid] EXCEPT !.killed = TRUE]
      BY <1>0, <2>1, <2>2, KilledAre
    <3>3. \A e \in Entries : [e EXCEPT !.killed = TRUE].killed = TRUE
      BY DEF Entries
    <3> QED
      BY <3>1, <3>2, <3>3
  <2>10. HurriesAt(j)'
    BY <1>0, <2>1, <2>6, <2>9 DEF HurriesAt
  <2>11. j \in LockedBy' => j \in LockedBy
    BY <2>1, <2>4 DEF LockedBy, NoMore
  <2> QED
    BY <1>0, <2>1, <2>4, <2>5, <2>7, <2>8, <2>10, <2>11, JobStep
<1>2. ASSUME NEW S \in SUBSET Pids, proc' = Killed(S), \A p \in S : proc[p].role # "other" /\ (Running(p) => proc[p].role # "guard"),
             UNCHANGED <<runner, shot>>, ~Dying(guard[j].pid), Lives(j), guard[j].pc \notin Waits,
             guard'[j].pid = guard[j].pid, guard'[j].child = guard[j].child, guard'[j].rc = guard[j].rc, guard'[j].fd = guard[j].fd,
             guard'[j].result = guard[j].result, guard'[j].reason = guard[j].reason, guard'[j].todo \subseteq guard[j].todo,
             guard[j].pc \in Working /\ guard'[j].pc \in Sweeps, guard'[j].todo # {} => guard'[j].pc = "sweep",
             \/ guard'[j].left = Cleanup /\ guard[j].pc = "killpg" /\ guard'[j].pc = "list"
             \/ guard'[j].left = guard[j].left /\ guard[j].pc = "sweep" /\ guard'[j].pc = "sweep",
             \A k \in Jobs : k # j => guard'[k] = guard[k]
      PROVE  GuardInv'
  <2>1. Lives(j)' /\ \A k \in Jobs : Steady(k)
    BY <1>2 DEF Steady, Lives, Sweeps
  <2>2. LET T == {p \in S : Running(p)} IN T \in SUBSET Pids /\ proc' = Killed(T) /\ \A k \in Jobs : Lives(k) => guard[k].pid \notin T
    <3>1. proc' = Killed({p \in S : Running(p)})
      BY <1>2 DEF Killed
    <3> QED
      BY <1>0, <1>2, <3>1, LiveGuard
  <2>3. /\ Table' /\ Parents' /\ Rooted' /\ \A k \in Jobs : Minded(k) /\ NoMore(k) /\ (Lives(k) => Unmarked(k))
    <3>1. Signals({p \in S : Running(p)})
      BY <1>k, <1>2, <2>2
    <3> QED
      BY <1>0, <2>1, <2>2, <3>1, AfterSignals
  <2>4. \A k \in Jobs : Unmarked(k)
    BY <2>3 DEF Unmarked
  <2>5. (Abandoned(j)' <=> Abandoned(j)) /\ (Gone(j) => Gone(j)')
    BY <1>2, <2>3 DEF Abandoned, NoMore, Gone, OfTool
  <2>6. WatchesAt(j)'
    <3>1. guard[j].child \in Pids /\ OfTool(guard[j].child, j) /\ proc[guard[j].child].parent = guard[j].pid /\ guard[j].todo \subseteq Pids
      BY <1>0, <1>2 DEF WatchesAt, OfTool, Guards
    <3> QED
      BY <1>0, <1>2, <2>1, <2>3, <3>1 DEF WatchesAt, Minded, OfTool, Running, Working, Waits, Sweeps
  <2>7. SweptAt(j)'
    BY <1>0, <1>2, <2>5 DEF SweptAt, Sweeps, Waits
  <2>8. /\ ~proc[guard[j].pid].killed /\ (runner[j].pc = "kill" => Abandoned(j)) /\ proc'[guard[j].pid].killed = proc[guard[j].pid].killed
        /\ proc'[guard[j].pid].term = proc[guard[j].pid].term
    BY <1>2, <2>4, AtWork DEF Unmarked
  <2>9. Cleanup \in Nat /\ Grace \in Nat /\ Cleanup + 1 < Grace /\ runner[j].left \in Nat
    BY <1>0, TimesAssumption DEF Runners
  <2>10. HurriesAt(j)'
    BY <1>0, <1>2, <2>5, <2>8, <2>9 DEF HurriesAt, Sweeps, Working, Waits
  <2>11. j \in LockedBy' => j \in LockedBy
    BY <1>2, <2>3 DEF LockedBy, NoMore
  <2> QED
    BY <1>0, <1>2, <2>3, <2>4, <2>6, <2>7, <2>10, <2>11, JobStep
<1>3. CASE KillTool(j)
  <2>1. /\ guard'[j] = [guard[j] EXCEPT !.pc = "list", !.left = Cleanup] /\ (\A k \in Jobs : k # j => guard'[k] = guard[k])
        /\ guard[j].pc = "killpg" /\ ~Dying(guard[j].pid) /\ proc' = Killed(Group(guard[j].child)) /\ UNCHANGED <<runner, shot>>
    BY <1>0, <1>3 DEF KillTool, At, GuardTypeOK
  <2>2. /\ guard'[j].pid = guard[j].pid /\ guard'[j].child = guard[j].child /\ guard'[j].rc = guard[j].rc /\ guard'[j].fd = guard[j].fd
        /\ guard'[j].result = guard[j].result /\ guard'[j].reason = guard[j].reason /\ guard'[j].todo = guard[j].todo
        /\ guard'[j].pc = "list" /\ guard'[j].left = Cleanup /\ guard[j].todo = {} /\ Lives(j)
    BY <1>0, <2>1 DEF Guards, WatchesAt, Lives
  <2>3. guard[j].child \in Pids /\ proc[guard[j].child].role = "leader"
    BY <1>0, <2>1 DEF WatchesAt, Working
  <2>4. \A p \in Group(guard[j].child) : p \in Pids /\ proc[p].role # "other" /\ (Running(p) => proc[p].role # "guard")
    BY <1>0, <2>3 DEF Group, Table, TableAt
  <2>5. Group(guard[j].child) \in SUBSET Pids
    BY DEF Group
  <2> QED
    BY <1>2, <2>1, <2>2, <2>4, <2>5 DEF Working, Sweeps, Waits
<1>4. ASSUME NEW c \in Pids, KillOne(j, c) PROVE GuardInv'
  <2>1. /\ guard'[j] = [guard[j] EXCEPT !.todo = guard[j].todo \ {c}] /\ (\A k \in Jobs : k # j => guard'[k] = guard[k])
        /\ guard[j].pc = "sweep" /\ ~Dying(guard[j].pid) /\ proc' = Killed({c}) /\ UNCHANGED <<runner, shot>> /\ c \in guard[j].todo
    BY <1>0, <1>4 DEF KillOne, At, GuardTypeOK
  <2>2. /\ guard'[j].pid = guard[j].pid /\ guard'[j].child = guard[j].child /\ guard'[j].rc = guard[j].rc /\ guard'[j].fd = guard[j].fd
        /\ guard'[j].result = guard[j].result /\ guard'[j].reason = guard[j].reason /\ guard'[j].todo = guard[j].todo \ {c}
        /\ guard'[j].pc = "sweep" /\ guard'[j].left = guard[j].left /\ Lives(j)
    BY <1>0, <2>1 DEF Guards, Lives
  <2>3. OfTool(c, j)
    BY <1>0, <2>1 DEF WatchesAt
  <2>4. \A p \in {c} : proc[p].role # "other" /\ (Running(p) => proc[p].role # "guard")
    BY <2>3 DEF OfTool
  <2> QED
    BY <1>2, <2>1, <2>2, <2>4 DEF Working, Sweeps, Waits
<1> QED
  BY <1>1, <1>3, <1>4

\* The guard reaps a process of its tool.
LEMMA OfReaping ==
    ASSUME GuardInv, GuardTypeOK', NEW j \in Jobs, NEW c \in Pids, ReapOne(j, c) PROVE GuardInv'
<1>0. /\ GuardTypeOK /\ Table /\ Parents /\ Rooted /\ Watches
      /\ WatchesAt(j) /\ SweptAt(j) /\ HurriesAt(j) /\ guard[j] \in Guards
      /\ (guard[j].pc \in {"spawn"} \cup Working => guard[j].fd)
  BY DEF GuardInv, Watches, Swept, Hurries, GuardTypeOK, Locks
<1>1. /\ guard'[j] = [guard[j] EXCEPT !.todo = guard[j].todo \ {c}] /\ (\A k \in Jobs : k # j => guard'[k] = guard[k])
      /\ guard[j].pc = "sweep" /\ UNCHANGED <<runner, shot>> /\ c \in guard[j].todo /\ Freed(c)
  BY <1>0 DEF ReapOne, At, GuardTypeOK, Freed
<1>2. /\ guard'[j].pid = guard[j].pid /\ guard'[j].child = guard[j].child /\ guard'[j].rc = guard[j].rc /\ guard'[j].fd = guard[j].fd
      /\ guard'[j].result = guard[j].result /\ guard'[j].reason = guard[j].reason /\ guard'[j].todo = guard[j].todo \ {c}
      /\ guard'[j].pc = "sweep" /\ guard'[j].left = guard[j].left /\ Lives(j)
  BY <1>0, <1>1 DEF Guards, Lives
<1>3. OfTool(c, j) /\ c # guard[j].child /\ (\A k \in Jobs : Steady(k)) /\ \A k \in Jobs : k # j => Idle(c, k)
  BY <1>0, <1>1, <1>2 DEF WatchesAt, OfTool, Idle, Steady
<1>4. Table' /\ Parents' /\ Rooted' /\ \A k \in Jobs : Unmarked(k) /\ NoMore(k) /\ (k # j => Minded(k))
  BY <1>0, <1>1, <1>3, AfterReaping
<1>5. (\A q \in Pids : q # c => proc'[q] = proc[q]) /\ guard[j].pid \in Pids /\ guard[j].pid # c
  BY <1>0, <1>1, <1>2, <1>3, LiveGuard DEF Freed, GuardTypeOK, OfTool
<1>6. WatchesAt(j)'
  <2>1. guard[j].child \in Pids /\ guard[j].todo \subseteq Pids
    BY <1>0, <1>1 DEF WatchesAt, Guards, Working
  <2> QED
    BY <1>0, <1>1, <1>2, <1>3, <1>5, <2>1 DEF WatchesAt, Lives, Running, OfTool, Waits, Working
<1>7. (Abandoned(j)' <=> Abandoned(j)) /\ (Gone(j) => Gone(j)')
  BY <1>1, <1>2, <1>4 DEF Abandoned, NoMore, Gone, OfTool
<1>8. SweptAt(j)' /\ HurriesAt(j)'
  BY <1>0, <1>1, <1>2, <1>4, <1>7 DEF SweptAt, HurriesAt, Lives, Unmarked, Waits, Working, Sweeps
<1>9. j \in LockedBy' => j \in LockedBy
  BY <1>2, <1>4 DEF LockedBy, NoMore
<1> QED
  BY <1>0, <1>1, <1>2, <1>4, <1>6, <1>8, <1>9, JobStep DEF Working

\* With nothing but the ended leader among its children, nothing of the tool is left.
LEMMA OnlyLeader ==
    ASSUME GuardInv, NEW j \in Jobs, Lives(j), Zombie(guard[j].child), Children(guard[j].pid) = {guard[j].child},
           NEW q \in Pids, OfTool(q, j)
    PROVE  q = guard[j].child
<1>1. \A x \in Pids : OfTool(x, j) /\ proc[x].parent = guard[j].pid => x = guard[j].child
  BY DEF Children, OfTool
<1>2. \A x \in Pids : ParentsAt(x, j)
  BY DEF GuardInv, Parents
<1>3. Tree(j) = {}
  <2> SUFFICES ASSUME Tree(j) # {} PROVE FALSE
    OBVIOUS
  <2>1. PICK x \in Tree(j) : proc[x].parent \notin Tree(j)
    BY DEF GuardInv, Rooted
  <2>2. x \in Pids /\ OfTool(x, j) /\ Running(x)
    BY <2>1 DEF Tree, OfTool
  <2>3. proc[x].parent = guard[j].pid
    BY <1>2, <2>1, <2>2 DEF ParentsAt, Tree, OfTool
  <2> QED
    BY <1>1, <2>2, <2>3 DEF Zombie, Running
<1>4. \A x \in Pids : OfTool(x, j) => ~Running(x)
  BY <1>3 DEF Tree, OfTool
<1> QED
  BY <1>1, <1>2, <1>4 DEF ParentsAt

\* The tool itself is reaped last.
LEMMA OfReapingTool ==
    ASSUME GuardInv, GuardTypeOK', NEW j \in Jobs, ReapTool(j) PROVE GuardInv'
<1>0. /\ GuardTypeOK /\ Table /\ Parents /\ Rooted /\ Watches
      /\ WatchesAt(j) /\ SweptAt(j) /\ HurriesAt(j) /\ guard[j] \in Guards
      /\ (guard[j].pc \in {"spawn"} \cup Working => guard[j].fd)
  BY DEF GuardInv, Watches, Swept, Hurries, GuardTypeOK, Locks
<1>c. PICK c \in Pids : c = guard[j].child /\ OfTool(c, j)
  BY <1>0 DEF ReapTool, At, WatchesAt, Working, OfTool
<1>d. PICK code \in {0, 1, 9} : code = proc[c].code
  BY <1>0 DEF GuardTypeOK, Entries
<1>1. /\ guard'[j] = [guard[j] EXCEPT !.pc = "release", !.rc = code, !.left = 0]
      /\ (\A k \in Jobs : k # j => guard'[k] = guard[k])
      /\ guard[j].pc = "sweep" /\ UNCHANGED <<runner, shot>> /\ Freed(c) /\ guard[j].todo = {} /\ ~Dying(guard[j].pid) /\ Lives(j)
  BY <1>0, <1>c, <1>d DEF ReapTool, At, GuardTypeOK, Freed, Lives
<1>2. /\ guard'[j].pid = guard[j].pid /\ guard'[j].child = guard[j].child /\ guard'[j].fd = guard[j].fd
      /\ guard'[j].result = guard[j].result /\ guard'[j].reason = guard[j].reason /\ guard'[j].todo = {}
      /\ guard'[j].pc = "release"
  <2>1. PICK g \in Guards : g = guard[j]
    BY <1>0
  <2>2. PICK h : h = guard'[j]
    OBVIOUS
  <2>3. h = [g EXCEPT !.pc = "release", !.rc = code, !.left = 0]
    BY <1>1, <2>1, <2>2
  <2>4. /\ h.pid = g.pid /\ h.child = g.child /\ h.fd = g.fd
        /\ h.result = g.result /\ h.reason = g.reason /\ h.todo = g.todo /\ h.pc = "release"
    BY <2>3 DEF Guards
  <2> QED
    BY <1>1, <2>1, <2>2, <2>4
<1>3. (\A k \in Jobs : Steady(k)) /\ \A k \in Jobs : k # j => Idle(c, k)
  BY <1>c, <1>1, <1>2 DEF OfTool, Idle, Steady
<1>4. Table' /\ Parents' /\ Rooted' /\ \A k \in Jobs : Unmarked(k) /\ NoMore(k) /\ (k # j => Minded(k))
  BY <1>0, <1>1, <1>3, AfterReaping
<1>5. (\A q \in Pids : q # c => proc'[q] = proc[q]) /\ proc'[c] = Free /\ guard[j].pid \in Pids /\ guard[j].pid # c
  BY <1>0, <1>c, <1>1, LiveGuard DEF Freed, GuardTypeOK, OfTool
<1>6. WatchesAt(j)'
  BY <1>0, <1>c, <1>1, <1>2, <1>5, PidsAre DEF WatchesAt, Lives, Running, OfTool, Waits, Working
<1>7. Gone(j)'
  <2>1. \A q \in Pids : OfTool(q, j) => q = c
    BY <1>c, <1>1, OnlyLeader DEF ReapTool
  <2> QED
    BY <1>5, <2>1 DEF Gone, OfTool, Free
<1>8. Abandoned(j)' <=> Abandoned(j)
  BY <1>1, <1>2 DEF Abandoned
<1>9. SweptAt(j)'
  BY <1>7 DEF SweptAt
<1>10. HurriesAt(j)'
  <2>1. ~proc[guard[j].pid].killed /\ (runner[j].pc = "kill" => Abandoned(j))
    BY <1>1, AtWork
  <2>2. proc'[guard[j].pid] = proc[guard[j].pid]
    BY <1>5
  <2> QED
    BY <1>1, <1>2, <1>8, <2>1, <2>2 DEF HurriesAt, Lives, Waits, Working, Sweeps
<1>11. j \in LockedBy' => j \in LockedBy
  BY <1>2, <1>4 DEF LockedBy, NoMore
<1> QED
  BY <1>1, <1>2, <1>4, <1>6, <1>9, <1>10, <1>11, JobStep DEF Working

\* The guard gives its verdict and exits.
LEMMA OfLeaving ==
    ASSUME GuardInv, GuardTypeOK', NEW j \in Jobs, NEW pass \in BOOLEAN, NEW result \in Verdicts, Leave(j, pass, result) PROVE GuardInv'
<1>0. /\ GuardTypeOK /\ Table /\ Parents /\ Rooted /\ Watches
      /\ WatchesAt(j) /\ SweptAt(j) /\ HurriesAt(j) /\ guard[j] \in Guards
  BY DEF GuardInv, Watches, Swept, Hurries, GuardTypeOK
<1>1. /\ guard[j].pc = "release" /\ UNCHANGED <<runner, shot>> /\ (pass <=> guard[j].reason = "none" /\ guard[j].rc = 0)
      /\ result = IF guard[j].child = NoPid THEN guard[j].result ELSE IF pass THEN "pass" ELSE "fail"
      /\ guard'[j] = [guard[j] EXCEPT !.pc = "end", !.fd = FALSE, !.child = NoPid, !.rc = NoPid, !.result = result]
      /\ (\A k \in Jobs : k # j => guard'[k] = guard[k])
  BY <1>0 DEF Leave, At, GuardTypeOK
<1>2. /\ guard'[j].pc = "end" /\ guard'[j].fd = FALSE /\ guard'[j].child = NoPid /\ guard'[j].rc = NoPid
      /\ guard'[j].todo = guard[j].todo /\ guard'[j].pid = guard[j].pid /\ guard'[j].reason = guard[j].reason /\ guard'[j].result = result
  <2>1. ASSUME NEW g \in Guards, NEW h, h = [g EXCEPT !.pc = "end", !.fd = FALSE, !.child = NoPid, !.rc = NoPid, !.result = result]
        PROVE  /\ h.pc = "end" /\ h.fd = FALSE /\ h.child = NoPid /\ h.rc = NoPid
               /\ h.todo = g.todo /\ h.pid = g.pid /\ h.reason = g.reason /\ h.result = result
    BY <2>1 DEF Guards
  <2> QED
    BY <1>0, <1>1, <2>1
<1>3. PICK p \in Pids : p = guard[j].pid /\ Running(p) /\ proc[p].role = "guard" /\ proc[p].job = j /\ Lives(j)
  BY <1>0, <1>1, LiveGuard DEF Lives
<1>4. PICK c \in {0, 1} : (c = 0 => pass) /\ Leaves(p, c)
  <2>1. proc' = Ended(p, IF pass THEN 0 ELSE 1)
    BY <1>3 DEF Leave
  <2>2. CASE pass
    BY <1>3, <2>1, <2>2 DEF Leaves
  <2>3. CASE ~pass
    BY <1>3, <2>1, <2>3 DEF Leaves
  <2> QED
    BY <2>2, <2>3
<1>5. pass => guard[j].rc # NoPid /\ result = "pass" /\ Gone(j)
  BY <1>0, <1>1 DEF WatchesAt, SweptAt, NoPid
<1>6. result = "pass" => Gone(j)
  BY <1>0, <1>1, <1>5 DEF WatchesAt
<1>7. /\ Table' /\ Parents' /\ Rooted' /\ \A k \in Jobs : NoMore(k)
      /\ \A k \in Jobs : k # j => Minded(k) /\ Unmarked(k)
      /\ proc'[p].role = "guard" /\ proc'[p].job = j
  <2>1. \A k \in Jobs : k # j => Steady(k)
    BY <1>1 DEF Steady
  <2> QED
    BY <1>0, <1>2, <1>3, <1>4, <1>5, <2>1, AfterEnd
<1>8. (Gone(j) => Gone(j)') /\ (Abandoned(j)' <=> Abandoned(j))
  BY <1>1, <1>2, <1>7 DEF NoMore, Gone, OfTool, Abandoned
<1>9. WatchesAt(j)'
  <2>1. guard[j].todo = {} /\ runner[j].pc # "start" /\ guard[j].pid # NoPid /\ runner[j].result # "pass"
        /\ (j \notin Watched => runner[j].pc \in {"start", "shell", "end"})
    BY <1>0, <1>1 DEF WatchesAt
  <2> QED
    BY <1>1, <1>2, <1>3, <1>7, <2>1 DEF WatchesAt, Lives, Waits, Working
<1>10. SweptAt(j)'
  BY <1>0, <1>1, <1>2, <1>6, <1>8 DEF SweptAt, Waits
<1>11. HurriesAt(j)'
  BY <1>2 DEF HurriesAt, Lives, Sweeps, Waits, Working
<1>12. j \in LockedBy' => j \in LockedBy
  BY <1>2, <1>7 DEF LockedBy, NoMore
<1> QED
  BY <1>1, <1>2, <1>7, <1>9, <1>10, <1>11, <1>12, JobStep DEF Working

\* A guard is started.
LEMMA OfStart ==
    ASSUME GuardInv, GuardTypeOK', NEW j \in Jobs, NEW c \in Pids, StartOne(j, c) PROVE GuardInv'
<1>0. /\ GuardTypeOK /\ Table /\ Parents /\ Rooted /\ Watches /\ Swept
      /\ WatchesAt(j) /\ SweptAt(j) /\ HurriesAt(j) /\ guard[j] \in Guards /\ runner[j] \in Runners
  BY DEF GuardInv, Watches, Swept, Hurries, GuardTypeOK
<1>1. /\ guard[j].pc = "none" /\ runner[j].pc = "start" /\ proc[c].role = "free" /\ UNCHANGED shot
      /\ guard'[j] = [guard[j] EXCEPT !.pc = "acquire", !.pid = c] /\ proc'[c] = Process(j, "guard", Runner, c)
      /\ DOMAIN proc' = Pids /\ \A q \in Pids : q # c => proc'[q] = proc[q]
      /\ \A k \in Jobs : k # j => guard'[k] = guard[k] /\ runner'[k] = runner[k]
  BY <1>0 DEF StartOne, WatchesAt, GuardTypeOK, FreePids
<1>2. /\ guard'[j].pc = "acquire" /\ guard'[j].pid = c /\ guard'[j].fd = guard[j].fd /\ guard'[j].result = guard[j].result
      /\ guard'[j].child = guard[j].child /\ guard'[j].rc = guard[j].rc /\ guard'[j].todo = guard[j].todo
      /\ guard'[j].reason = guard[j].reason
  <2>1. PICK g \in Guards : g = guard[j]
    BY <1>0
  <2>2. PICK h : h = guard'[j]
    OBVIOUS
  <2>3. h = [g EXCEPT !.pc = "acquire", !.pid = c]
    BY <1>1, <2>1, <2>2
  <2>4. /\ h.pc = "acquire" /\ h.pid = c /\ h.fd = g.fd /\ h.result = g.result
        /\ h.child = g.child /\ h.rc = g.rc /\ h.todo = g.todo /\ h.reason = g.reason
    BY <2>3 DEF Guards
  <2> QED
    BY <2>1, <2>2, <2>4
<1>3. /\ runner'[j].pc \in {"read", "shell"} /\ (j \notin Watched => runner'[j].pc = "shell") /\ runner'[j].result = runner[j].result
  BY <1>0 DEF StartOne, GuardTypeOK, Runners
<1>4. /\ proc'[c].role = "guard" /\ proc'[c].job = j /\ proc'[c].parent = Runner /\ proc'[c].state = "running" /\ proc'[c].group = c
      /\ proc'[c].killed = FALSE /\ proc'[c].lock = FALSE
  BY <1>1 DEF Process, Free
<1>5. Born(c) /\ TableAt(c)' /\ \A k \in Jobs : ParentsAt(c, k)'
  <2>1. Born(c)
    BY <1>1, <1>2, <1>4, PidsAre DEF Born, OfTool, Running, Zombie, Lives
  <2>2. TableAt(c)'
    BY <1>1, <1>2, <1>4, PidsAre DEF TableAt, OfTool, Running, Zombie, Lives
  <2>3. \A k \in Jobs : ParentsAt(c, k)'
    BY <1>1, <1>2, <1>4, PidsAre DEF ParentsAt, OfTool, Running, Zombie, Lives
  <2> QED
    BY <2>1, <2>2, <2>3
<1>6. \A k \in Jobs : Steady(k) \/ Starts(k, c)
  BY <1>1, <1>2 DEF Steady, Starts, Lives
<1>7. Table' /\ Parents' /\ Rooted' /\ \A k \in Jobs : Minded(k) /\ Unmarked(k) /\ (j # k => NoMore(k))
  BY <1>0, <1>4, <1>5, <1>6, AfterBirth
<1>8. Gone(j)'
  BY <1>0, <1>1, <1>4 DEF SweptAt, Gone, OfTool
<1>9. WatchesAt(j)'
  BY <1>0, <1>1, <1>2, <1>3, <1>4, PidsAre DEF WatchesAt, Lives, Running, Waits, Working
<1>10. SweptAt(j)' /\ HurriesAt(j)'
  BY <1>2, <1>3, <1>4, <1>8 DEF SweptAt, HurriesAt, Lives, Waits, Working, Sweeps
<1>11. j \in LockedBy' => j \in LockedBy
  <2>1. ASSUME NEW p \in Pids, proc'[p].job = j, proc'[p].lock PROVE proc[p].job = j /\ proc[p].lock
    BY <1>1, <1>4, <2>1
  <2> QED
    BY <1>2, <2>1 DEF LockedBy
<1> QED
  BY <1>1, <1>2, <1>7, <1>9, <1>10, <1>11, JobStep DEF Working

\* The guard is reaped by whoever started it.
LEMMA OfReapingGuard ==
    ASSUME GuardInv, GuardTypeOK', NEW j \in Jobs, ShellReaps(j) \/ WaitReaps(j) PROVE GuardInv'
<1>0. /\ GuardTypeOK /\ Table /\ Parents /\ Rooted /\ Watches
      /\ WatchesAt(j) /\ SweptAt(j) /\ HurriesAt(j) /\ guard[j] \in Guards /\ runner[j] \in Runners
  BY DEF GuardInv, Watches, Swept, Hurries, GuardTypeOK
<1>1. PICK p \in Pids : p = guard[j].pid /\ Zombie(p) /\ proc[p].role = "guard" /\ proc[p].job = j /\ runner[j].pc \in {"shell", "wait"}
  BY <1>0 DEF ShellReaps, WaitReaps, WatchesAt, Guards
<1>2. guard[j].pc = "end" /\ (proc[p].code = 0 => guard[j].result = "pass")
  BY <1>0, <1>1 DEF Table, TableAt
<1>3. /\ Freed(p) /\ UNCHANGED <<guard, shot>> /\ (\A k \in Jobs : k # j => runner'[k] = runner[k])
      /\ runner'[j].pc = "end" /\ (runner'[j].result = "pass" => runner[j].result = "pass" \/ proc[p].code = 0)
  <2>1. PICK r \in Runners : r = runner[j]
    BY <1>0
  <2>2. CASE ShellReaps(j)
    <3>1. /\ runner'[j] = [r EXCEPT !.pc = "end"] /\ (\A k \in Jobs : k # j => runner'[k] = runner[k])
          /\ Freed(p) /\ UNCHANGED <<guard, shot>>
      BY <1>0, <1>1, <2>1, <2>2 DEF ShellReaps, Freed, GuardTypeOK
    <3>2. runner'[j].pc = "end" /\ runner'[j].result = r.result
      BY <3>1 DEF Runners
    <3> QED
      BY <2>1, <3>1, <3>2
  <2>3. CASE WaitReaps(j)
    <3>1. PICK v : v = IF runner[j].reason # "none" THEN "fail" ELSE IF proc[p].code = 0 THEN "pass" ELSE "fail"
      OBVIOUS
    <3>2. /\ runner'[j] = [r EXCEPT !.pc = "end", !.left = 0, !.result = v] /\ (\A k \in Jobs : k # j => runner'[k] = runner[k])
          /\ Freed(p) /\ UNCHANGED <<guard, shot>>
      BY <1>0, <1>1, <2>1, <2>3, <3>1 DEF WaitReaps, Freed, GuardTypeOK
    <3>3. runner'[j].pc = "end" /\ runner'[j].result = v
      BY <3>2 DEF Runners
    <3> QED
      BY <3>1, <3>2, <3>3
  <2> QED
    BY <2>2, <2>3
<1>4. (\A k \in Jobs : Steady(k)) /\ \A k \in Jobs : k # j => Idle(p, k)
  BY <1>1, <1>3 DEF Steady, Idle
<1>5. Table' /\ Parents' /\ Rooted' /\ \A k \in Jobs : Unmarked(k) /\ NoMore(k) /\ (k # j => Minded(k))
  BY <1>0, <1>3, <1>4, AfterReaping
<1>6. WatchesAt(j)'
  BY <1>0, <1>1, <1>2, <1>3 DEF WatchesAt, Lives, Waits, Working
<1>7. (Abandoned(j)' <=> Abandoned(j)) /\ (Gone(j) => Gone(j)')
  BY <1>3, <1>5 DEF Abandoned, NoMore, Gone, OfTool
<1>8. SweptAt(j)' /\ HurriesAt(j)'
  BY <1>0, <1>2, <1>3, <1>7 DEF SweptAt, HurriesAt, Lives, Waits, Working, Sweeps
<1>9. j \in LockedBy' => j \in LockedBy
  BY <1>3, <1>5 DEF LockedBy, NoMore
<1> QED
  BY <1>2, <1>3, <1>5, <1>6, <1>8, <1>9, JobStep DEF Working

\* The runner reads, waits, or gives up.
LEMMA OfRunnerAlone ==
    ASSUME GuardInv, GuardTypeOK', NEW j \in Jobs,
           (\E reason \in {"stopped", "none"} : ReadOver(j, reason)) \/ ReadOn(j) \/ WaitNoMore(j) \/ WaitOn(j)
    PROVE  GuardInv'
<1>0. /\ GuardTypeOK /\ WatchesAt(j) /\ SweptAt(j) /\ HurriesAt(j) /\ guard[j] \in Guards /\ runner[j] \in Runners
      /\ (guard[j].pc \in {"spawn"} \cup Working => guard[j].fd)
  BY DEF GuardInv, Watches, Swept, Hurries, GuardTypeOK, Locks
<1>1. /\ UNCHANGED <<proc, guard, shot>> /\ (\A k \in Jobs : k # j => runner'[k] = runner[k])
      /\ runner[j].pc \in {"read", "wait"} /\ runner'[j].pc \in {"term", "reading", "waiting", "end"}
      /\ (runner'[j].result = "pass" => runner[j].result = "pass")
  <2>1. PICK r \in Runners : r = runner[j]
    BY <1>0
  <2>2. CASE \E reason \in {"stopped", "none"} : ReadOver(j, reason)
    <3>1. PICK reason \in {"stopped", "none"} : ReadOver(j, reason)
      BY <2>2
    <3>2. /\ runner'[j] = [r EXCEPT !.pc = "term", !.reason = reason, !.left = 0] /\ (\A k \in Jobs : k # j => runner'[k] = runner[k])
          /\ runner[j].pc = "read" /\ UNCHANGED <<proc, guard, shot>>
      BY <1>0, <2>1, <3>1 DEF ReadOver, GuardTypeOK
    <3>3. runner'[j].pc = "term" /\ runner'[j].result = r.result
      BY <3>2 DEF Runners
    <3> QED
      BY <2>1, <3>2, <3>3
  <2>3. CASE WaitNoMore(j)
    <3>1. /\ runner'[j] = [r EXCEPT !.pc = "end", !.result = "timeout"] /\ (\A k \in Jobs : k # j => runner'[k] = runner[k])
          /\ runner[j].pc = "wait" /\ UNCHANGED <<proc, guard, shot>>
      BY <1>0, <2>1, <2>3 DEF WaitNoMore, GuardTypeOK
    <3>2. runner'[j].pc = "end" /\ runner'[j].result = "timeout"
      BY <3>1 DEF Runners
    <3> QED
      BY <3>1, <3>2
  <2>4. CASE ReadOn(j) \/ WaitOn(j)
    <3>1. /\ runner'[j] = [r EXCEPT !.pc = "reading"] \/ runner'[j] = [r EXCEPT !.pc = "waiting"]
          /\ (\A k \in Jobs : k # j => runner'[k] = runner[k])
          /\ runner[j].pc \in {"read", "wait"} /\ UNCHANGED <<proc, guard, shot>>
      BY <1>0, <2>1, <2>4 DEF ReadOn, WaitOn, GuardTypeOK
    <3>2. runner'[j].pc \in {"reading", "waiting"} /\ runner'[j].result = r.result
      BY <3>1 DEF Runners
    <3> QED
      BY <2>1, <3>1, <3>2
  <2> QED
    BY <2>2, <2>3, <2>4
<1>2. \A k \in Jobs : Steady(k)
  BY <1>1 DEF Steady
<1>3. Table' /\ Parents' /\ Rooted' /\ \A k \in Jobs : Minded(k) /\ Unmarked(k) /\ NoMore(k)
  BY <1>1, <1>2, Unmoved
<1>4. (Abandoned(j)' <=> Abandoned(j)) /\ (Gone(j) => Gone(j)') /\ (Lives(j)' <=> Lives(j))
  BY <1>1 DEF Abandoned, Gone, OfTool, Lives
<1>5. WatchesAt(j)'
  BY <1>0, <1>1, <1>4 DEF WatchesAt, OfTool, Running
<1>6. SweptAt(j)'
  BY <1>0, <1>1, <1>4 DEF SweptAt
<1>7. HurriesAt(j)'
  BY <1>0, <1>1, <1>4 DEF HurriesAt
<1>8. j \in LockedBy' => j \in LockedBy
  BY <1>1 DEF LockedBy
<1> QED
  BY <1>0, <1>1, <1>3, <1>5, <1>6, <1>7, <1>8, JobStep

\* The runner signals the guard's group: SIGTERM first, then SIGKILL.
LEMMA OfStopping ==
    ASSUME GuardInv, GuardTypeOK', NEW j \in Jobs, TermSent(j) \/ KillSent(j) PROVE GuardInv'
<1>0. /\ GuardTypeOK /\ Table /\ Parents /\ Rooted /\ Watches
      /\ WatchesAt(j) /\ SweptAt(j) /\ HurriesAt(j) /\ guard[j] \in Guards /\ runner[j] \in Runners
      /\ (guard[j].pc \in {"spawn"} \cup Working => guard[j].fd)
  BY DEF GuardInv, Watches, Swept, Hurries, GuardTypeOK, Locks
<1>1. /\ UNCHANGED <<guard, shot>> /\ (\A k \in Jobs : k # j => runner'[k] = runner[k])
      /\ runner[j].pc \in {"term", "kill"} /\ runner'[j].pc \in {"grace", "wait"} /\ runner'[j].result = runner[j].result
      /\ (runner'[j].pc = "grace" <=> runner[j].pc = "term") /\ (runner'[j].pc = "grace" => runner'[j].left = Grace)
  <2>1. PICK r \in Runners : r = runner[j]
    BY <1>0
  <2>2. CASE TermSent(j)
    <3>1. /\ runner'[j] = [r EXCEPT !.pc = "grace", !.left = Grace] /\ (\A k \in Jobs : k # j => runner'[k] = runner[k])
          /\ runner[j].pc = "term" /\ UNCHANGED <<guard, shot>>
      BY <1>0, <2>1, <2>2 DEF TermSent, GuardTypeOK
    <3>2. runner'[j].pc = "grace" /\ runner'[j].left = Grace /\ runner'[j].result = r.result
      BY <3>1 DEF Runners
    <3> QED
      BY <2>1, <3>1, <3>2
  <2>3. CASE KillSent(j)
    <3>1. /\ runner'[j] = [r EXCEPT !.pc = "wait", !.left = Patience] /\ (\A k \in Jobs : k # j => runner'[k] = runner[k])
          /\ runner[j].pc = "kill" /\ UNCHANGED <<guard, shot>>
      BY <1>0, <2>1, <2>3 DEF KillSent, GuardTypeOK
    <3>2. runner'[j].pc = "wait" /\ runner'[j].result = r.result
      BY <3>1 DEF Runners
    <3> QED
      BY <2>1, <3>1, <3>2
  <2> QED
    BY <2>2, <2>3
<1>2. PICK p \in Pids : p = guard[j].pid /\ proc[p].role = "guard" /\ proc[p].job = j
  BY <1>0, <1>1 DEF WatchesAt, Guards
<1>3. Group(p) \in SUBSET Pids /\ \A q \in Group(p) : proc[q].role # "other" /\ (Running(q) /\ proc[q].role = "guard" => q = p)
  BY <1>0, <1>2 DEF Group, Table, TableAt
<1> DEFINE S == {q \in Group(p) : Running(q)}
<1>4. S \in SUBSET Pids /\ Signals(S)
  <2>1. \A q \in Pids : proc'[q] = proc[q] \/ (q \in S /\ (proc'[q] = [proc[q] EXCEPT !.killed = TRUE] \/ proc'[q] = [proc[q] EXCEPT !.term = TRUE]))
    <3>1. CASE TermSent(j)
      BY <1>2, <3>1 DEF TermSent
    <3>2. CASE KillSent(j)
      BY <1>0, <1>2, <3>2, KilledAre DEF KillSent
    <3> QED
      BY <3>1, <3>2
  <2>2. \A q \in Pids : proc[q] \in Entries
    BY <1>0 DEF GuardTypeOK
  <2>3. ASSUME NEW q \in Pids, proc'[q] = [proc[q] EXCEPT !.killed = TRUE] \/ proc'[q] = [proc[q] EXCEPT !.term = TRUE] PROVE Alike(q)
    BY <2>2, <2>3 DEF Alike, Entries
  <2>4. DOMAIN proc' = Pids
    BY DEF TermSent, KillSent, Killed
  <2> QED
    BY <1>3, <2>1, <2>3, <2>4 DEF Signals
<1>5. \A k \in Jobs : Steady(k)
  BY <1>1 DEF Steady
<1>6. Table' /\ Parents' /\ Rooted' /\ \A k \in Jobs : Minded(k) /\ NoMore(k) /\ (guard[k].pid \notin S => Unmarked(k))
  BY <1>0, <1>4, <1>5, AfterSignals
<1>7. ASSUME NEW k \in Jobs, k # j PROVE Unmarked(k)
  <2>1. CASE Lives(k)
    BY <1>0, <1>2, <1>3, <1>6, <1>7, <2>1, LiveGuard
  <2>2. CASE ~Lives(k)
    BY <2>2 DEF Unmarked
  <2> QED
    BY <2>1, <2>2
<1>8. (Abandoned(j)' <=> Abandoned(j)) /\ (Gone(j) => Gone(j)') /\ (Lives(j)' <=> Lives(j))
  BY <1>1, <1>6 DEF Abandoned, NoMore, Gone, OfTool, Lives
<1>9. WatchesAt(j)'
  <2>1. /\ guard[j].pc \in Working => guard[j].child \in Pids /\ OfTool(guard[j].child, j) /\ proc[guard[j].child].parent = guard[j].pid /\ Lives(j)
        /\ guard[j].todo \subseteq Pids /\ (guard[j].todo # {} => Lives(j))
    BY <1>0 DEF WatchesAt, OfTool, Guards, Working, Lives
  <2>2. /\ guard[j].pc \in Working => proc'[guard[j].child].role = proc[guard[j].child].role /\ proc'[guard[j].child].job = j
                                      /\ proc'[guard[j].child].parent = guard[j].pid
        /\ \A c \in guard[j].todo : proc'[c].role = proc[c].role /\ proc'[c].job = j /\ proc'[c].parent = guard[j].pid
    BY <1>0, <1>6, <2>1 DEF Minded, WatchesAt
  <2>3. proc'[p].role = "guard" /\ proc'[p].job = j /\ (Lives(j) => proc'[p].state = "running")
    BY <1>1, <1>2, <1>6 DEF Minded
  <2> QED
    BY <1>0, <1>1, <1>2, <1>8, <2>1, <2>2, <2>3 DEF WatchesAt, OfTool, Running
<1>10. SweptAt(j)'
  BY <1>0, <1>1, <1>8 DEF SweptAt
<1>11. HurriesAt(j)'
  <2>1. CASE TermSent(j)
    <3>1. ASSUME Lives(j) PROVE proc'[p] = IF guard[j].pc \in Waits THEN [proc[p] EXCEPT !.killed = TRUE] ELSE [proc[p] EXCEPT !.term = TRUE]
      <4>1. Running(p) /\ p \in Group(p)
        BY <1>0, <1>2, <3>1, LiveGuard DEF Group, Table, TableAt
      <4> QED
        BY <1>2, <2>1, <4>1 DEF TermSent
    <3>2. proc[p] \in Entries
      BY <1>0 DEF GuardTypeOK
    <3>3. Lives(j) => IF guard[j].pc \in Waits THEN proc'[p].killed ELSE proc'[p].term /\ proc'[p].killed = proc[p].killed
      BY <3>1, <3>2 DEF Entries
    <3>4. Cleanup \in Nat /\ Grace \in Nat /\ Cleanup + 1 < Grace /\ guard[j].left \in Nat
      BY <1>0, TimesAssumption DEF Guards
    <3>5. runner[j].pc = "term" /\ runner'[j].pc = "grace" /\ runner'[j].left = Grace
      BY <1>1, <2>1 DEF TermSent
    <3> QED
      BY <1>0, <1>1, <1>2, <1>8, <3>3, <3>4, <3>5 DEF HurriesAt, Waits, Working, Sweeps, Lives
  <2>2. CASE KillSent(j)
    <3>1. runner[j].pc = "kill" /\ runner'[j].pc = "wait"
      BY <1>1, <2>2 DEF KillSent
    <3> QED
      BY <1>0, <1>1, <1>8, <3>1 DEF HurriesAt, Lives
  <2> QED
    BY <2>1, <2>2
<1>12. j \in LockedBy' => j \in LockedBy
  BY <1>1, <1>6 DEF LockedBy, NoMore
<1> QED
  BY <1>0, <1>1, <1>6, <1>7, <1>9, <1>10, <1>11, <1>12, JobStep

\* The clock.
LEMMA OfTime ==
    ASSUME GuardInv, GuardTypeOK', Tick PROVE GuardInv'
<1>0. GuardTypeOK /\ UNCHANGED <<proc, shot>>
  BY DEF GuardInv, Tick
<1>1. ASSUME NEW j \in Jobs
      PROVE  /\ guard'[j].pc = Wakes(guard[j].pc) /\ guard'[j].left = Less(guard[j].left) /\ guard'[j].fd = guard[j].fd
             /\ guard'[j].pid = guard[j].pid /\ guard'[j].result = guard[j].result /\ guard'[j].child = guard[j].child
             /\ guard'[j].rc = guard[j].rc /\ guard'[j].todo = guard[j].todo /\ guard'[j].reason = guard[j].reason
             /\ runner'[j].pc = Rises(runner[j]) /\ runner'[j].left = Less(runner[j].left) /\ runner'[j].result = runner[j].result
  <2>1. PICK g \in Guards, r \in Runners : g = guard[j] /\ r = runner[j]
    BY <1>0 DEF GuardTypeOK
  <2>2. PICK here, left, rpc, rleft : here = Wakes(g.pc) /\ left = Less(g.left) /\ rpc = Rises(r) /\ rleft = Less(r.left)
    OBVIOUS
  <2>3. guard'[j] = [g EXCEPT !.pc = here, !.left = left] /\ runner'[j] = [r EXCEPT !.pc = rpc, !.left = rleft]
    BY <1>0, <2>1, <2>2, TickAre
  <2>4. /\ guard'[j].pc = here /\ guard'[j].left = left /\ guard'[j].fd = g.fd /\ guard'[j].pid = g.pid /\ guard'[j].result = g.result
        /\ guard'[j].child = g.child /\ guard'[j].rc = g.rc /\ guard'[j].todo = g.todo /\ guard'[j].reason = g.reason
    BY <2>3 DEF Guards
  <2>5. runner'[j].pc = rpc /\ runner'[j].left = rleft /\ runner'[j].result = r.result
    BY <2>3 DEF Runners
  <2> QED
    BY <2>1, <2>2, <2>4, <2>5
<1>2. ASSUME NEW j \in Jobs
      PROVE  /\ guard'[j].pc \in Working <=> guard[j].pc \in Working
             /\ \A here \in {"none", "end", "release", "sweep"} \cup Waits : guard'[j].pc = here <=> guard[j].pc = here
             /\ \A here \in {"start", "end", "shell"} : runner'[j].pc = here <=> runner[j].pc = here
             /\ (Lives(j)' <=> Lives(j))
  BY <1>1 DEF Wakes, Rises, Working, Waits, Lives
<1>3. \A k \in Jobs : Steady(k)
  BY <1>1, <1>2 DEF Steady
<1>4. Table' /\ Parents' /\ Rooted'
  BY <1>0, <1>3, Unmoved
<1>5. ASSUME NEW j \in Jobs PROVE WatchesAt(j)' /\ SweptAt(j)' /\ HurriesAt(j)'
  <2>0. WatchesAt(j) /\ SweptAt(j) /\ HurriesAt(j) /\ guard[j] \in Guards /\ runner[j] \in Runners
    BY DEF GuardInv, Watches, Swept, Hurries, GuardTypeOK
  <2>1. (Abandoned(j)' <=> Abandoned(j)) /\ (Gone(j) => Gone(j)')
    BY <1>0, <1>1 DEF Abandoned, Gone, OfTool
  <2>2. WatchesAt(j)'
    <3>1. /\ guard'[j].pc \in Waits <=> guard[j].pc \in Waits
          /\ guard'[j].pc \in {"none", "end"} \cup Waits <=> guard[j].pc \in {"none", "end"} \cup Waits
          /\ guard'[j].pc \in {"release", "end"} <=> guard[j].pc \in {"release", "end"}
          /\ runner'[j].pc \in {"start", "end"} <=> runner[j].pc \in {"start", "end"}
          /\ runner'[j].pc \in {"start", "shell", "end"} <=> runner[j].pc \in {"start", "shell", "end"}
          /\ guard'[j].pc = "none" <=> guard[j].pc = "none"
          /\ guard'[j].pc = "end" <=> guard[j].pc = "end"
          /\ guard'[j].pc = "sweep" <=> guard[j].pc = "sweep"
          /\ runner'[j].pc = "start" <=> runner[j].pc = "start"
      BY <1>2 DEF Waits
    <3>2. /\ guard'[j].pid = guard[j].pid /\ guard'[j].result = guard[j].result /\ guard'[j].child = guard[j].child
          /\ guard'[j].rc = guard[j].rc /\ guard'[j].todo = guard[j].todo /\ guard'[j].reason = guard[j].reason
          /\ runner'[j].result = runner[j].result /\ (guard'[j].pc \in Working <=> guard[j].pc \in Working)
          /\ (Lives(j)' <=> Lives(j)) /\ proc' = proc
      BY <1>0, <1>1, <1>2
    <3> QED
      BY <2>0, <3>1, <3>2 DEF WatchesAt, OfTool, Running
  <2>3. SweptAt(j)'
    BY <1>1, <1>2, <2>0, <2>1 DEF SweptAt
  <2>4. Lives(j) => guard[j].pc \in {"watching", "sweeping"} \/ Abandoned(j) \/ guard[j].pc \in Waits
    BY <2>0 DEF Tick, Lives, Dying, HurriesAt
  <2>5. guard[j].left \in Nat /\ runner[j].left \in Nat /\ Grace \in Nat /\ Cleanup \in Nat \ {0} /\ Cleanup + 1 < Grace
    BY <2>0, TimesAssumption DEF Guards, Runners
  <2>6. HurriesAt(j)'
    <3>1. guard'[j].pc \in Sweeps => guard'[j].left <= Cleanup
      BY <1>1, <2>0, <2>5 DEF HurriesAt, Sweeps, Wakes, Less
    <3>2. guard'[j].pc # "sweeping"
      BY <1>1 DEF Wakes
    <3>3. Lives(j)' /\ proc'[guard'[j].pid].killed => Abandoned(j)' \/ guard'[j].pc \in Waits
      BY <1>0, <1>1, <1>2, <2>0, <2>1 DEF HurriesAt
    <3>4. runner'[j].pc = "kill" => runner[j].pc = "grace" /\ runner[j].left <= 1
      <4>1. runner[j].pc # "kill"
        BY DEF Tick
      <4> QED
        BY <1>1, <4>1 DEF Rises
    <3>5. runner'[j].pc = "grace" => runner[j].pc = "grace" /\ runner[j].left > 1
      BY <1>1, <2>5 DEF Rises
    <3>6. runner'[j].pc \in {"grace", "kill"} /\ guard'[j].pc \in Waits => proc'[guard'[j].pid].killed
      BY <1>0, <1>1, <1>2, <2>0, <3>4, <3>5 DEF HurriesAt
    <3>7. runner'[j].pc = "kill" => Abandoned(j)' \/ guard'[j].pc \in {"end"} \cup Waits
      BY <1>2, <2>0, <2>1, <2>4, <2>5, <3>4 DEF HurriesAt, WatchesAt, Working, Sweeps, Lives
    <3>8. runner'[j].pc = "grace" /\ guard'[j].pc \in Working /\ ~Abandoned(j)' =>
             /\ proc'[guard'[j].pid].term
             /\ guard'[j].pc = "watching" => runner'[j].left = Grace
             /\ guard'[j].pc \in {"watch", "killpg"} => runner'[j].left + 1 >= Grace
             /\ guard'[j].pc \in Sweeps => guard'[j].left < runner'[j].left
      <4> SUFFICES ASSUME runner'[j].pc = "grace", guard'[j].pc \in Working, ~Abandoned(j)'
                   PROVE  /\ proc'[guard'[j].pid].term
                          /\ guard'[j].pc = "watching" => runner'[j].left = Grace
                          /\ guard'[j].pc \in {"watch", "killpg"} => runner'[j].left + 1 >= Grace
                          /\ guard'[j].pc \in Sweeps => guard'[j].left < runner'[j].left
        OBVIOUS
      <4>1. /\ runner[j].pc = "grace" /\ runner[j].left > 1 /\ guard[j].pc \in Working /\ ~Abandoned(j) /\ Lives(j)
            /\ guard[j].pc \in {"watching", "sweeping"}
        BY <1>2, <2>1, <2>4, <3>5 DEF Working, Waits, Lives
      <4>2. proc[guard[j].pid].term /\ (guard[j].pc = "watching" => runner[j].left = Grace)
            /\ (guard[j].pc = "sweeping" => guard[j].left < runner[j].left /\ guard[j].left > 0)
        BY <2>0, <4>1 DEF HurriesAt, Sweeps
      <4> QED
        BY <1>0, <1>1, <2>5, <4>1, <4>2 DEF Wakes, Less, Sweeps
    <3> QED
      BY <3>1, <3>2, <3>3, <3>6, <3>7, <3>8 DEF HurriesAt
  <2> QED
    BY <2>2, <2>3, <2>6
<1>6. Locks'
  BY <1>0, <1>1, <1>2 DEF GuardInv, Locks, LockedBy, Waits
<1> QED
  BY <1>4, <1>5, <1>6 DEF GuardInv, Watches, Swept, Hurries

-----------------------------------------------------------------------------
(* The invariant, and what follows from it                                 *)

\* The invariant holds when nothing has been started.
LEMMA GuardInvInit == Init => GuardInv
<1> SUFFICES ASSUME Init PROVE GuardInv
  OBVIOUS
<1>1. \A p \in Pids : proc[p] = Free
  BY DEF Init
<1>2. \A p \in Pids : proc[p].role = "free" /\ proc[p].state = "none" /\ proc[p].lock = FALSE
  BY <1>1 DEF Free
<1>3. \A j \in Jobs : /\ guard[j] = [pc |-> "none", pid |-> NoPid, child |-> NoPid, reason |-> "none", rc |-> NoPid,
                                     todo |-> {}, left |-> 0, fd |-> FALSE, result |-> "not-run"]
                      /\ runner[j] = [pc |-> "start", left |-> 0, reason |-> "none", result |-> "not-run"]
  BY DEF Init
<1>4. GuardTypeOK
  <2>1. proc \in [Pids -> Entries]
    BY EntriesAre DEF Init
  <2>2. guard \in [Jobs -> Guards] /\ runner \in [Jobs -> Runners]
    BY DEF Init, Guards, Runners, Verdicts
  <2> QED
    BY <2>1, <2>2 DEF Init, GuardTypeOK
<1>5. Table /\ Parents
  BY <1>1, <1>2 DEF Table, TableAt, Parents, ParentsAt, OfTool, Running, Zombie
<1>6. Rooted
  BY <1>2 DEF Rooted, Tree
<1>7. Watches
  BY <1>3 DEF Watches, WatchesAt, Lives, Waits, Working
<1>8. Swept
  BY <1>2, <1>3 DEF Swept, SweptAt, Gone, OfTool
<1>9. Locks
  BY <1>2, <1>3 DEF Locks, LockedBy, Working
<1>10. Hurries
  BY <1>3 DEF Hurries, HurriesAt, Lives, Waits, Working, Sweeps
<1> QED
  BY <1>4, <1>5, <1>6, <1>7, <1>8, <1>9, <1>10 DEF GuardInv

\* Every step keeps it.
LEMMA GuardInvStep == ASSUME GuardInv, [Next]_vars PROVE GuardInv'
<1>0. GuardTypeOK /\ Table /\ Watches
  BY DEF GuardInv
<1>1. ASSUME NEW p \in Pids, ToolMoves(p) PROVE GuardInv'
  <2>1. GuardTypeOK'
    BY <1>0, <1>1, TypesOfTools
  <2>2. CASE DieGuard(p, proc[p].job)
    BY <2>1, <2>2, OfDyingGuard
  <2>3. CASE ~DieGuard(p, proc[p].job)
    BY <1>1, <2>1, <2>3, OfProcesses
  <2> QED
    BY <2>2, <2>3
<1>2. ASSUME NEW j \in Jobs, JobMoves(j) PROVE GuardInv'
  <2>1. GuardTypeOK'
    BY <1>0, <1>2, TypesOfJobs
  <2>2. CASE \/ Locking(j) \/ NotStarted(j) \/ (\E reason \in {"stopped", "none"} : WatchOver(j, reason)) \/ WatchOn(j)
             \/ ListOne(j) \/ GiveUp(j) \/ SweepOn(j)
    BY <2>1, <2>2, OfGuardAloneSteps
  <2>3. CASE Shoot(j) \/ KillTool(j) \/ (\E c \in Pids : KillOne(j, c))
    BY <2>1, <2>3, OfSignals
  <2>4. CASE \E c \in Pids : SpawnOne(j, c) \/ ReapOne(j, c) \/ StartOne(j, c)
    BY <2>1, <2>4, OfSpawn, OfReaping, OfStart
  <2>5. CASE ReapTool(j) \/ (\E pass \in BOOLEAN, result \in Verdicts : Leave(j, pass, result))
    BY <2>1, <2>5, OfReapingTool, OfLeaving
  <2>6. CASE ShellReaps(j) \/ WaitReaps(j)
    BY <2>1, <2>6, OfReapingGuard
  <2>7. CASE (\E reason \in {"stopped", "none"} : ReadOver(j, reason)) \/ ReadOn(j) \/ WaitNoMore(j) \/ WaitOn(j)
    BY <2>1, <2>7, OfRunnerAlone
  <2>8. CASE TermSent(j) \/ KillSent(j)
    BY <2>1, <2>8, OfStopping
  <2> QED
    BY <1>2, <2>2, <2>3, <2>4, <2>5, <2>6, <2>7, <2>8, Zenon DEF JobMoves
<1>3. Tick => GuardInv'
  BY <1>0, TypesOfTime, OfTime
<1>4. CASE UNCHANGED vars
  <2>1. GuardTypeOK' /\ Table' /\ Parents' /\ Rooted'
    BY <1>4 DEF vars, GuardInv, GuardTypeOK, Table, TableAt, Parents, ParentsAt, Rooted, Tree, OfTool, Lives, Running, Zombie
  <2>2. ASSUME NEW k \in Jobs PROVE Minded(k) /\ Unmarked(k) /\ NoMore(k)
    BY <1>0, <1>4 DEF vars, Minded, Unmarked, NoMore, Gone, OfTool, Watches, WatchesAt, Running
  <2> QED
    BY <1>4, <2>1, <2>2, QuietStep DEF vars
<1> QED
  BY <1>0, <1>1, <1>2, <1>3, <1>4, GuardNextSteps

\* The guards' invariant: who is whose child, that no guard leaves anything of its
\* tool but what it must give up, who has the lock, and how far a guard that was
\* told to stop has come.
THEOREM GuardInvariant == Spec => []GuardInv
<1>1. GuardInv /\ [Next]_vars => GuardInv'
  BY GuardInvStep
<1> QED
  BY GuardInvInit, <1>1, PTL DEF Spec

\* The variables of guard, runner and process table stay within their types.
THEOREM GuardTypesOK == Spec => []GuardTypeOK
<1>1. GuardInv => GuardTypeOK
  BY DEF GuardInv
<1> QED
  BY <1>1, GuardInvariant, PTL

\* Neither stop_children nor stop_owned_group ever signals a process that has
\* nothing to do with the proof: a PID is signalled only while its owner is an
\* unreaped child, and a group only while its leader is.
THEOREM GuardOnlyOwn == Spec => []OnlyOwn
<1>1. GuardInv => OnlyOwn
  BY DEF GuardInv, Table, TableAt, OnlyOwn
<1> QED
  BY <1>1, GuardInvariant, PTL

\* Whoever still runs of a tool whose guard has not been shot, and did not give up,
\* has a guard that holds the lock.
LEMMA OwnsLock ==
    ASSUME GuardInv, NEW j \in Jobs, Tree(j) # {}, ~Abandoned(j) PROVE j \in LockedBy
<1>1. ~Gone(j)
  BY DEF Gone, OfTool, Tree
<1>2. guard[j].pc \in Working
  BY <1>1 DEF GuardInv, GuardTypeOK, Guards, Swept, SweptAt, Waits
<1> QED
  BY <1>2 DEF GuardInv, Locks, LockedBy

\* acquire_lock keeps proofs apart: the tools of two jobs never run together, and
\* anything of one runs beside another's only if its guard was shot or gave up.
THEOREM GuardOneProof == Spec => []OneProof
<1>1. GuardInv => OneProof
  <2> SUFFICES ASSUME GuardInv, NEW j \in Jobs, NEW k \in Jobs, j # k
               PROVE  /\ Tree(j) = {} \/ Tree(k) = {} \/ Abandoned(j) \/ Abandoned(k)
                      /\ ~ \E p \in Tree(j), q \in Tree(k) : proc[p].role = "leader" /\ proc[q].role = "leader"
    BY DEF OneProof
  <2>1. ~(j \in LockedBy /\ k \in LockedBy)
    BY DEF GuardInv, Locks
  <2>2. ASSUME NEW i \in Jobs, NEW p \in Tree(i), proc[p].role = "leader" PROVE i \in LockedBy
    BY <2>2 DEF GuardInv, Table, TableAt, Tree, LockedBy
  <2> QED
    BY <2>1, <2>2, OwnsLock
<1> QED
  BY <1>1, GuardInvariant, PTL

\* A pass of supervise, or of run_command, means that no process of the tool runs.
THEOREM GuardPassLeavesNothing == Spec => []PassLeavesNothing
<1>1. GuardInv => PassLeavesNothing
  <2> SUFFICES ASSUME GuardInv, NEW j \in Jobs, guard[j].result = "pass" \/ runner[j].result = "pass" PROVE Tree(j) = {}
    BY DEF PassLeavesNothing
  <2>1. Gone(j)
    BY DEF GuardInv, Watches, WatchesAt, Swept, SweptAt
  <2> QED
    BY <2>1 DEF Gone, OfTool, Tree
<1> QED
  BY <1>1, GuardInvariant, PTL

\* The grace of run_command outlasts the cleanup of supervise: whoever is then sent
\* SIGKILL has no tool any more.
THEOREM GuardGraceIsEnough == Spec => []GraceIsEnough
<1>1. GuardInv => GraceIsEnough
  <2> SUFFICES ASSUME GuardInv, NEW j \in Jobs, runner[j].pc = "kill", ~Abandoned(j)
               PROVE  (guard[j].pc = "end" \/ guard[j].child = NoPid) /\ Tree(j) = {}
    BY DEF GraceIsEnough
  <2>1. guard[j].pc \in {"end"} \cup Waits
    BY DEF GuardInv, Hurries, HurriesAt
  <2>2. Gone(j) /\ (guard[j].pc \in Waits => guard[j].child = NoPid)
    BY <2>1 DEF GuardInv, Swept, SweptAt, Watches, WatchesAt
  <2> QED
    BY <2>1, <2>2 DEF Gone, OfTool, Tree
<1> QED
  BY <1>1, GuardInvariant, PTL

=============================================================================
