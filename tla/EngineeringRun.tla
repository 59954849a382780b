--------------------------- MODULE EngineeringRun ---------------------------
(***************************************************************************)
(* One run of run-engineering-checks.py over the sibling repositories: the *)
(* source subject is taken, source checks, builds, tests or proofs are run *)
(* one command after another, the subject is taken again, and a report     *)
(* says what was found.  Meanwhile somebody may edit the sources.          *)
(*                                                                         *)
(* A command (run_command, see ProofGuard) may look at any source at any   *)
(* moment while it runs, and comes back with any result.                   *)
(***************************************************************************)
EXTENDS Integers, Sequences, FiniteSets

CONSTANTS
    Repos,         \* REPOS, in their order
    Sources,       \* source files: repo -> its paths
    Contents,      \* what a source file may say
    Absent,        \* what a path without a file says
    SourceChecks,  \* how many source commands there are
    Tests,         \* repo -> tiers of its Ada tests in the test plan
    MaxEdits       \* bound: edits during the run

\* One directory to a repository.
Files == UNION {Sources[r] : r \in DOMAIN Sources}

\* What a test plan may say of a test.
Tiers == {"unit", "isolated-io", "host-read-only"}

ASSUME ReposAssumption ==
    /\ Len(Repos) \in Nat \ {0} /\ DOMAIN Repos = 1 .. Len(Repos)
    /\ DOMAIN Sources = {Repos[i] : i \in DOMAIN Repos} /\ DOMAIN Tests = DOMAIN Sources
    /\ \A i, j \in DOMAIN Repos : i # j => Repos[i] # Repos[j]
    /\ \A r \in DOMAIN Tests : Tests[r] \in Seq(Tiers)
ASSUME BoundsAssumption == SourceChecks \in Nat \ {0} /\ MaxEdits \in Nat /\ Absent \notin Contents

VARIABLES
    tree,      \* what each source file says
    stamp,     \* what read_regular compares of it: inode, size, times
    former,    \* everything a path has said and no longer does
    restored,  \* paths that were put back to something they had said
    options,   \* mode, tools found on the PATH, --include-host-observers
    pc,
    walk,      \* source_subject under way
    before, after,
    at,        \* the command that is due
    checks,    \* the records so far: <<repo, command, result>>
    saw,       \* what any command has read: <<path, what it said>>
    report

runVars == <<tree, stamp, former, restored, options, pc, walk, before, after, at, checks, saw, report>>

sourceVars == <<tree, stamp, former, restored>>

None == "none"
NotOpen == [file |-> None, of |-> -1, data |-> Absent]
NoWalk  == [repo |-> 0, todo |-> {}, open |-> NotOpen, got |-> {}]

RunInit ==
    /\ tree \in [Files -> Contents \cup {Absent}]
    /\ stamp = [f \in Files |-> 0]
    /\ former = [f \in Files |-> {}]
    /\ restored = {}
    /\ options \in [mode : {"source", "build", "proof"}, tool : BOOLEAN, observers : BOOLEAN]
    /\ pc = "before"
    /\ walk = NoWalk
    /\ before = {} /\ after = {}
    /\ at = [repo |-> 0, command |-> 1]
    /\ checks = {}
    /\ saw = {}
    /\ report = [result |-> None, ada |-> "not-run", proof |-> "not-run", written |-> FALSE]

\* An editor writes, replaces, creates or removes a file.  Nobody looks at the
\* sources any more once the second subject was taken.
Edit(f, c) ==
    /\ pc \notin {"conclude", "publish", "end"} /\ c # tree[f]
    /\ stamp[f] < MaxEdits /\ \A g \in Files \ {f} : stamp[f] + stamp[g] < MaxEdits
    /\ tree' = [tree EXCEPT ![f] = c]
    /\ stamp' = [stamp EXCEPT ![f] = @ + 1]
    /\ former' = [former EXCEPT ![f] = @ \cup {tree[f]}]
    /\ restored' = IF c \in former[f] THEN restored \cup {f} ELSE restored
    /\ UNCHANGED <<options, pc, walk, before, after, at, checks, saw, report>>

-----------------------------------------------------------------------------
(* source_subject                                                          *)

\* An exception: the report says so, and nothing more is run.
Fail ==
    /\ report' = [report EXCEPT !.result = "fail"]
    /\ pc' = "publish"

Walking == pc \in {"before", "after"}

\* regular_tree lists the next repository, with nothing open.
List ==
    /\ Walking /\ walk.todo = {} /\ walk.open = NotOpen /\ walk.repo < Len(Repos)
    /\ walk' = [walk EXCEPT !.repo = @ + 1,
                            !.todo = {f \in Sources[Repos[walk.repo + 1]] : tree[f] # Absent}]
    /\ UNCHANGED <<sourceVars, options, pc, before, after, at, checks, saw, report>>

\* read_regular opens a file that was listed, if it is still there, ...
OpenFile(f) ==
    /\ Walking /\ f \in walk.todo /\ walk.open = NotOpen
    /\ IF tree[f] = Absent
       THEN Fail /\ walk' = NoWalk
       ELSE /\ walk' = [walk EXCEPT !.todo = @ \ {f}, !.open = [file |-> f, of |-> stamp[f], data |-> tree[f]]]
            /\ UNCHANGED <<pc, report>>
    /\ UNCHANGED <<sourceVars, options, before, after, at, checks, saw>>

\* ... and has its bytes, unless it was touched while they were read.
ReadFile ==
    /\ Walking /\ walk.open # NotOpen
    /\ IF stamp[walk.open.file] # walk.open.of
       THEN Fail /\ walk' = NoWalk
       ELSE /\ walk' = [walk EXCEPT !.open = NotOpen, !.got = @ \cup {<<walk.open.file, walk.open.data>>}]
            /\ UNCHANGED <<pc, report>>
    /\ UNCHANGED <<sourceVars, options, before, after, at, checks, saw>>

TakeSubject ==
    /\ Walking /\ walk.todo = {} /\ walk.open = NotOpen /\ walk.repo = Len(Repos)
    /\ walk' = NoWalk
    /\ \/ pc = "before" /\ before' = walk.got /\ pc' = "validate" /\ UNCHANGED after
       \/ pc = "after" /\ after' = walk.got /\ pc' = "conclude" /\ UNCHANGED before
    /\ UNCHANGED <<sourceVars, options, at, checks, saw, report>>

-----------------------------------------------------------------------------
(* The commands                                                            *)

\* What is run in order: to identify the tools and check the sources, then for
\* each repository to build and test it, or to prove it.
Commands(i) ==
    CASE i = 0                        -> <<"identify">> \o [c \in 1 .. SourceChecks |-> "source"]
      [] i > 0 /\ options.mode = "build" -> <<"compile-all", "build", "test-build">> \o Tests[Repos[i]]
      [] i > 0 /\ options.mode = "proof" -> <<"flow", "prove">>
      [] OTHER                        -> <<>>

Due == Commands(at.repo)[at.command]
Through == at.command > Len(Commands(at.repo))

Record(result) == checks' = checks \cup {<<at.repo, at.command, result>>}

AllPass == \A c \in checks : c[3] = "pass"

\* A command, or engineering.validate, reads a source.
Look(f) ==
    /\ pc \in {"validate", "running"}
    /\ saw' = saw \cup {<<f, tree[f]>>}
    /\ UNCHANGED <<sourceVars, options, pc, walk, before, after, at, checks, report>>

Validate ==
    /\ pc = "validate"
    /\ \/ Fail /\ UNCHANGED checks
       \/ pc' = "due" /\ checks' = checks \cup {<<0, 0, "pass">>} /\ UNCHANGED report
    /\ UNCHANGED <<sourceVars, options, walk, before, after, at, saw>>

Skipped == \/ Due = "identify" /\ ~options.tool
           \/ Due = "host-read-only" /\ ~options.observers

Invoke ==
    /\ pc = "due" /\ ~Through /\ ~Skipped
    /\ pc' = "running"
    /\ UNCHANGED <<sourceVars, options, walk, before, after, at, checks, saw, report>>

\* Fault: a test nobody opted in to leaves no record.
SkipSilently ==
    /\ pc = "due" /\ ~Through /\ Skipped
    /\ at' = [at EXCEPT !.command = @ + 1]
    /\ UNCHANGED <<sourceVars, options, pc, walk, before, after, checks, saw, report>>

\* A tool that is missing is not identified; a test on the host that was not
\* opted in to is recorded as not run.
Skip ==
    /\ pc = "due" /\ ~Through /\ Skipped
    /\ IF Due = "identify" THEN UNCHANGED checks ELSE Record("not-run")
    /\ at' = [at EXCEPT !.command = @ + 1]
    /\ UNCHANGED <<sourceVars, options, pc, walk, before, after, saw, report>>

\* What is due after this result: a repository that cannot be built is left, a
\* proof that fails ends them all.
Return(result) ==
    /\ pc = "running" /\ pc' = "due"
    /\ Record(result)
    /\ at' = CASE result # "pass" /\ Due \in {"compile-all", "build", "test-build"}
                                         -> [at EXCEPT !.command = Len(Commands(at.repo)) + 1]
               [] result # "pass" /\ Due \in {"flow", "prove"}
                                         -> [repo |-> Len(Repos), command |-> Len(Commands(at.repo)) + 1]
               [] OTHER                  -> [at EXCEPT !.command = @ + 1]
    /\ UNCHANGED <<sourceVars, options, walk, before, after, saw, report>>

\* Nothing is built or proved before every source check has passed.
Gate ==
    /\ pc = "due" /\ Through /\ at.repo = 0
    /\ IF \E c \in checks : c[1] = 0 /\ c[2] > 1 /\ c[3] # "pass"
       THEN Fail /\ UNCHANGED <<at, checks>>
       ELSE IF options.mode = "source"
       THEN pc' = "after" /\ UNCHANGED <<at, checks, report>>
       ELSE IF options.tool
       THEN at' = [repo |-> 1, command |-> 1] /\ UNCHANGED <<pc, checks, report>>
       ELSE /\ checks' = checks \cup {<<i, 1, "not-run">> : i \in DOMAIN Repos}
            /\ report' = IF options.mode = "build" THEN [report EXCEPT !.ada = "requested-not-completed"]
                                                   ELSE report
            /\ pc' = "after" /\ UNCHANGED at
    /\ UNCHANGED <<sourceVars, options, walk, before, after, saw>>

NextRepo ==
    /\ pc = "due" /\ Through /\ at.repo \in 1 .. Len(Repos) - 1
    /\ at' = [repo |-> at.repo + 1, command |-> 1]
    /\ UNCHANGED <<sourceVars, options, pc, walk, before, after, checks, saw, report>>

\* The last repository is through: what the report claims of this layer.
Claim ==
    /\ pc = "due" /\ Through /\ at.repo = Len(Repos)
    /\ report' = IF options.mode = "build"
                 THEN [report EXCEPT !.ada = IF AllPass THEN "all-registered-tests-pass"
                                             ELSE "requested-not-completed"]
                 ELSE [report EXCEPT !.proof = IF AllPass THEN "commands-passed"
                                               ELSE "failed-or-incomplete"]
    /\ pc' = "after"
    /\ UNCHANGED <<sourceVars, options, walk, before, after, at, checks, saw>>

-----------------------------------------------------------------------------
(* The report                                                              *)

\* Fault: the subjects are recorded and not compared.
ConcludeUncompared ==
    /\ pc = "conclude"
    /\ report' = [report EXCEPT !.result = IF AllPass THEN "pass" ELSE "incomplete-or-failed"]
    /\ pc' = "publish"
    /\ UNCHANGED <<sourceVars, options, walk, before, after, at, checks, saw>>

Conclude ==
    /\ pc = "conclude"
    /\ IF before # after THEN Fail
       ELSE /\ report' = [report EXCEPT !.result = IF AllPass THEN "pass" ELSE "incomplete-or-failed"]
            /\ pc' = "publish"
    /\ UNCHANGED <<sourceVars, options, walk, before, after, at, checks, saw>>

\* The finally clause: report.json, and the digests of all that was written; no
\* report when the temporary tree cannot be removed.
Publish ==
    /\ pc = "publish"
    /\ pc' = "end"
    /\ \E removed \in BOOLEAN : report' = [report EXCEPT !.written = removed]
    /\ UNCHANGED <<sourceVars, options, walk, before, after, at, checks, saw>>

\* Ctrl-C passes by the except clause, and not by the finally clause.  (A run that
\* is killed just takes no further step.)
Interrupt ==
    /\ pc \notin {"publish", "end"}
    /\ pc' = "publish" /\ walk' = NoWalk
    /\ UNCHANGED <<sourceVars, options, before, after, at, checks, saw, report>>

RunNext ==
    \/ \E f \in Files : Look(f) \/ \E c \in Contents \cup {Absent} : Edit(f, c)
    \/ List \/ (\E f \in Files : OpenFile(f)) \/ ReadFile \/ TakeSubject
    \/ Validate \/ Invoke \/ Skip \/ Gate \/ NextRepo \/ Claim
    \/ \E result \in {"pass", "fail"} : Return(result)
    \/ Conclude \/ Publish \/ Interrupt

RunSpec == RunInit /\ [][RunNext]_runVars

-----------------------------------------------------------------------------

\* The report says that everything passed, and can be read.
Passed == report.result = "pass" /\ report.written

\* A report that passes is about the sources it names: whatever was edited during
\* the run, each command saw of each file what the source subject has of it,
\* unless the file was put back meanwhile to something it had said before.
PassMeansTheseSources ==
    Passed =>
        \A s \in saw : s[1] \notin restored =>
            IF s[2] = Absent THEN \A c \in Contents : <<s[1], c>> \notin before
                             ELSE s \in before

\* Every command of this repository ran and passed.
Earned(i) == \A c \in 1 .. Len(Commands(i)) : <<i, c, "pass">> \in checks

\* "all-registered-tests-pass" and "commands-passed" are claimed only when every
\* command of every repository, no test left out, and every source check before
\* them ran and passed; and a report never passes without the claim of its mode,
\* however a run was cut short.
ClaimsAreEarned ==
    /\ report.ada = "all-registered-tests-pass" \/ report.proof = "commands-passed" =>
         \A i \in 0 .. Len(Repos) : Earned(i)
    /\ Passed => /\ options.mode = "build" => report.ada = "all-registered-tests-pass"
                 /\ options.mode = "proof" => report.proof = "commands-passed"
=============================================================================
