# niayan-assurance in TLA+

Models, model checks and proofs of niayan-assurance, in two halves: the receiver,
the Ada programs that take signed operator requests, record them, let them have
an effect on the host and recover when they were interrupted; and the offline
Python tools, which rebuild a lost cohort from damaged replicas and run the
repository's own checks and proofs. All paths below are relative to the
repository.

Reading order. Receiver: `RequestReplay` (what a log means), `RequestLedger` (the
gate on its disk), `DurableHistory` (what it promises); `ControlModes`,
`ControlLatch` and `AuditedLatch` for the latch; `CheckpointStore`, `StopBarrier`
and `CommandRun`, each on its own. Cohort: `CohortManifest` (what a
cohort consists of), `CohortTrust` (whose word is taken for it), `CohortRebuild`
(putting it together again), `CohortSource` (where it comes from). Checks:
`ProofGuard` (the processes of one proof), `EngineeringRun` (a whole run). Then
the proof modules.

## 1. Inventory

| Component | State | Operations | What is hard | What makes it correct |
|---|---|---|---|---|
| **Request replay** `src/mc_replay`, `src/mc_request_replay` | window (epoch, token, number, id) and a pending flag, rebuilt from the log | `Check`, `Consume` | long logs of mixed records | no request begun twice; the last record alone tells the state |
| **Request gate** `runtime/mc_gate` | a session per process: loaded policy, clocks, request, open journal | `Begin_Request`, `Check`, `Finish`, `Close`, `Repair_Ledger` | policy loaded before the lock; effects after the check; crashes between any two writes | intent before effect, one admission per identity, one unresolved work, fence order, room for completion |
| **Receiver ledger** `runtime/mc_receiver_ledger`, `mc_log`, `mc_atomic`, `mc_fs` | `requests.log`, `request-ID.bin`, `repair-ID.bin` | `Provision`, `Observe`, append, tail repair, immutable write | torn writes, missing fsyncs, power loss, flock | readable for ever; nothing durable rewritten |
| **Content store** `runtime/mc_store` | objects by digest | `Put`, `Get`, `Verify_All` | a repeated put after a kill | what `Put` reported is there after a power loss |
| **Site policy** `runtime/mc_site_policy`, `mc_admin` | `policy.bin`: serial, epoch, fence token, expiry | load, make, rotate | rotation under running sessions; the old file after a power loss | a log never goes back in serial |
| **Control latch** `src/mc_control`, `runtime/mc_control_io`, `app/controlctl` | `control-state.bin`; `control-history-*.bin` and `control-request-*.bin` archives | make-proposal, submit, check | crash between the archives and the state; approvals given long before they are submitted, in another boot or against another state | every state accounted for by a durable signed request; each request applied once; release needs both duties |
| **Stop barrier** `src/mc_stop_barrier`, `runtime/mc_stop_barrier_auth` | one receipt per member; collecting, sealed or blocked | `Initialize`, `Observe`, `Seal`, `Usable` | reports lost, repeated and reordered; a clock that starts again; members that restart or are opened again | no barrier in use while a member has effects; no report to the contrary passed over |
| **Checkpoint store** `src/mc_checkpoint`, `runtime/mc_checkpoint_store` | pending and current checkpoint, their payloads; an anchor outside | `Publish`, `Reconcile`, `Load` | a crash between anchor and current; answers lost and requests late; an older image of the directory | what the anchor accepts is there; nothing answered is taken back |
| **Retry budget** `src/mc_retry_budget` | attempts, backoff, boot | reserve, confirm, rebind | reboots | bounded attempts per window |
| **Incidents, faults** `src/mc_incidents`, `mc_faults` | incident phase, receipts | step | many phases | every step keeps `Valid` |
| **Generation, recovery cohort, maintenance, backups** | boot generation; members down; backup receipts | step, admit, evaluate | order of events | trial before commit; quorum kept |
| **Cohort manifest and trust** `tools/nia_recovery.py` | trust policy, signed anchor, digest pinned outside; none of its own | `validate_manifest`, `validate_trust`, `find_manifest`, `authenticate` | lists written by the other side; damaged copies of the manifest | accepted exactly when separate holders of separate domains signed it |
| **Cohort reconstruction** `tools/nia_recovery.py`, `recovery_io.py` | the candidate directory: intent, payload, evidence, report, marker | `reconstruct`, `write_new`, `Directory.create` | bad replicas; a kill or a power loss at any call; two runs on one candidate | a candidate that says ready is whole and durable, for good; bad copies are kept as evidence |
| **Cohort export, inspection** `tools/nia_recovery.py`, `recovery_io.py` | inventories and bytes read so far | `closed_inventory`, `directory_attributes`, `export`, `inspect_original` | the source may be written while it is read | nothing is published or confirmed that was never there |
| **Proof guard and command supervision** `ci/proof-guard.py`, `run_command` in `ci/run-engineering-checks.py` | a process tree, the lock in `/tmp`, two deadlines | `supervise`, `stop_children`, `acquire_lock`, `run_command` | orphans, reused PIDs, a guard that is shot, two timeouts that race | one proof at a time; nothing left behind by a pass; no stranger hit; every run ends |
| **Engineering run** `ci/run-engineering-checks.py`, `ci/engineering.py` | subject before and after, checks so far, report | `main`, `source_subject` | sources edited during the run; commands skipped, failed, cut short | a pass is about the sources it names, and every claim was earned |
| **Other repository tools** `ci/*.py`, `local-orchestrator.py` | files they compare or generate | one pass each | - | - |
| **Command runner** `runtime/mc_command` | child process and its group, pipes, deadline | `Run` | the timeout racing the exit, descendants that keep the output open, full pipes, the parent killed | OK means all of input and output; no process of the group outlives a return; `Run` returns |
| **Documents and codecs** | none | encode, decode | - | round trips (proved and tested in the repository) |

The gate calls everything else: the policy and the clock before it takes the
lock, the ledger under the lock, the content store and the control latch in a
repair, the latch and the witnesses in every `Check`. Processes meet only on
the disk, through the flock on `requests.log`; operators meet the receiver
through signed requests, `rotate-policy` and `controlctl`.

The Python tools never run beside the receiver. `export` reads a closed directory
and leaves `objects/` and a manifest; holders of recovery and witness keys sign an
anchor that names the manifest; `reconstruct` and `inspect` authenticate first and
then trust the manifest's digests alone, so that it does not matter who wrote the
replicas. The engineering run calls `run_command` for every check; a proof goes
through make to `proof-guard.py`, which has children of its own. What they share is
the source tree, which anybody may edit meanwhile, and the machine's process table.

## 2. Modules

| Module | Models |
|---|---|
| `RequestReplay` | operators: `MC_Replay.Check` (`Fresh`, `ExactRetry`), `MC_Request_Replay.Consume` (`Accepts`, `Consume`), and the loop-free reading `Replays`, `Replayed` |
| `ReceiverReplay` | `MC_Gate.Read_Previous` as a process over arbitrary logs |
| `RequestLedger` | `MC_Gate` on `MC_Log`, `MC_Atomic`, `MC_FS` and the part of `MC_Store` that it uses |
| `DurableHistory` | the abstract promise: one history, only ever extended, and effects of the request it leaves open |
| `ControlModes` | operators of `MC_Control.Decide`: who must sign which change, and what may follow a state |
| `ControlLatch` | `controlctl make-proposal` and `MC_Control_IO.Submit` on `MC_Atomic` and `MC_FS` |
| `AuditedLatch` | the abstract promise: one history of changes, from quarantine on, and what submitters were told of it |
| `CheckpointStore` | `MC_Checkpoint_Store` on `MC_Atomic` and `MC_FS`, and the anchor outside |
| `StopBarrier` | `MC_Stop_Barrier` on `MC_Time_Guard`, the members it is about and the reports on them |
| `CommandRun` | `MC_Command.Run` from the fork on, the helper and a descendant of it |
| `CohortManifest` | operators: bytes, chunks, paths and `validate_manifest` (`ValidManifest`), used by the three below |
| `CohortTrust` | `validate_trust`, `find_manifest`, `authenticate` |
| `CohortRebuild` | `reconstruct` on `Directory.create` and `write_new`, several runs on one candidate |
| `CohortSource` | `export` and `inspect_original` on `closed_inventory` and `directory_attributes`, and a writer |
| `ProofGuard` | `supervise`, `stop_children`, `acquire_lock` and `run_command` on a process table |
| `EngineeringRun` | `main` of run-engineering-checks.py and `source_subject`, and an editor |
| `MCReceiverReplay`, `MCRequestLedger`, `MCControlLatch`, `MCCheckpointStore`, `MCStopBarrier`, `MCCohortTrust`, `MCCohortRebuild`, `MCCohortSource`, `MCProofGuard`, `MCEngineeringRun` | instances for TLC (`CommandRun` needs none: its constants are numbers) |
| `RequestLedgerProofs` (with `RequestReplay`, `ReceiverReplay`), `ControlLatchProofs`, `CheckpointStoreProofs`, `StopBarrierProofs`, `CommandRunProofs`, `CohortTrustProofs` (with `CohortSource`), `CohortRebuildProofs`, `EngineeringProofs` (with `ProofGuard`) | theorems, see 5 |

### RequestLedger against the code

Disk. Each thing on disk is kept twice: what a reader sees and what is on
stable storage. `journal` / `synced` / `tail` / `lostTail` are `requests.log`:
complete records, how many of them are fsynced, the partial record at the end,
and a partial record whose truncation is not fsynced yet. `files` / `durable`
are the immutable `request-ID.bin` and `repair-ID.bin`; their content is
fsynced before the rename, so only the directory entry can be lost.
`objects` / `stored` are the torn tails in the content store. `policy` /
`savedPolicy` is `policy.bin`.

Sessions. `session[p].pc` is the place between two system calls where process
`p` stands. In all but `closed` and `loaded` it holds the flock.

| Code | Actions |
|---|---|
| `Begin_Request`: load, scope | `Load` |
| open, flock, `Fsync(D)` of the directory, `Read_Previous`, checks, room | `BeginRetry`, `BeginAccept`, `BeginRefuse`, `Busy` |
| `MC_Atomic.Write(request-ID.bin)` or compare | `SaveEnvelope`, `SyncEnvelope` |
| `MC_Log.Append`: write, fsync | `WriteIntent`, `TearRecord`, `Admit` |
| `Check`, then the caller's effect | `Authorize`, `Effect` |
| `Finish` | `Finish`, `TearRecord`, `SyncOutcome` |
| `Close` | `CloseAnswered` |
| `Repair_Ledger` | `Load`, `RepairAccept`, `RepairRefuse`, `PreserveTail`, `SyncStore`, `NoteRepair`, `SyncNote`, `SaveEnvelope`, `SyncEnvelope`, `Truncate`, `RefuseTruncate`, `SyncTruncate`, `WriteIntent`, `SyncRepairIntent`, `WriteUnknown`, `SyncUnknown` |
| `MC_Receiver_Ledger.Provision`, `Observe` | `Init`, `Observe` |
| `rotate-policy`, expiry, clock | `RotatePolicy`, `PolicyLapse`, `Tick` |
| a kill or a failing system call, a power loss | `Fail`, `PowerLoss` |

Abstractions.

- A request is a record of the header fields that the gate compares. Equal
  requests are equal digests: signatures and SHA-256 are taken to be free of
  collisions. `work` stands for transaction and plan digest together.
- The hash chain of the log is represented by the log: a repair file names the
  whole log before the tail.
- fsync is taken to do what POSIX says of it for a file or a directory. After a
  power loss any subset of the unsynced directory entries survives, and any
  prefix of the unsynced records with a torn next one. The torn tail that is
  left over is any amount in `Parts`: more than a real disk may leave.
- `Check`'s table from phase to action and its witnesses are a choice that
  `Authorize` leaves open (`EffectActions` keeps the actions for which there is
  any phase); the control latch and the isolation witnesses may refuse a repair
  at any time (`RepairRefuse`, `RefuseTruncate`). `Maximum_Local_Lease` only
  shortens a session and is left out.
- A write that fails closes the session at once. In the code the journal is
  poisoned and every later call fails until `Close`, which changes no state
  that the model keeps.
- Ledgers without a genesis record, which older versions wrote, are not an
  initial state here.
- `MC_Log.Append`'s exit for a full log is not an action: `CompletionRoom`
  shows that it is never reached.

### ControlLatch against the code

Disk. `latch` is what `control-state.bin` says, `archive` and `requests` are the
history and request files; `disk` is what of the three is on stable storage.
They are entries of one directory, so any fsync of it takes them all. Their
content is fsynced before the rename.

A state carries the hash of the state before it (`Previous`), so `latch` is the
sequence of changes that led to the state: `Revision` is its length, and a
proposal's `Expected_State` and `Expected_Revision` are the sequence `before`.

| Code | Actions |
|---|---|
| `controlctl make-proposal` | `MakeProposal` |
| `Submit`: flock, `Fsync(D)`, signatures, retry, `Decide` | `SubmitRetry`, `SubmitAccept`, `SubmitRefuse` |
| `Preserve` of the state before | `KeepBefore` |
| `Preserve` of the request | `KeepRequest`, `SyncRequest` |
| `Preserve` of the state after | `KeepAfter`, `SyncAfter` |
| second comparison of the lifetime | `Recheck` |
| `MC_Atomic.Write(control-state.bin)`, read back, OK | `PublishState`, `Answer` |
| a kill or a failing system call, a power loss, the clock | `Fail`, `PowerLoss`, `Tick` |

Abstractions.

- Signatures are sets of provisioned keys, and any set of `Bundles` may sign any
  proposal: what an operator will sign is not restricted.
- A proposal's `Not_Before` is the time it was made, which is never ahead in the
  same boot; the cap on its lifetime (300 s) and the reason's digest are checked
  by `Decide` and tell no two states apart. `Recovery_Receipt` is there or not.
- `control-authorities.bin` is provisioned once and constant: a state under
  another authority is refused by everything.
- The first `Preserve` of `Submit`, of the state before, finds its file and
  writes nothing (`KeepBefore`): by `ChangesAccountedFor` whoever made that state
  has kept it. Its writing exit is left out.
- A busy lock and a failed read leave all files alone and are stutters.
- `Check` and `Permits`, the reading side, belong to `Dispatch` (see 6).

### CheckpointStore against the code

`seen` is what a reader of the directory finds, `disk` what of it is on stable
storage: the current and the pending checkpoint, and the payloads and manifests
kept under their digests. `anchor` is what the service outside accepts; `late` are
requests to it that were sent and not answered, and may still arrive.

| Code | Actions |
|---|---|
| `Publish`: lock, current and pending read and compared | `BeginPublish` (`Publishable`, `Follows`), `Refuse` |
| `Keep` of the payload and of the manifest | `KeepSnapshot`, `KeepManifest`, each with `Sync` |
| `checkpoint-pending.bin` | `WritePending`, `Sync` |
| `Advance_Anchor`, the anchor read again | `Advance` or `AdvanceUnknown`, `CheckAdvanced` |
| `checkpoint-current.bin`, the answer | `WriteCurrent`, `Sync`, `Answer` |
| `Reconcile` | `BeginReconcile`, then as `Publish` from `CheckAdvanced` or `WriteCurrent` on |
| `Load` | `ReadCurrent`, `CheckLoaded`, `ReadPayload`, `Loaded` |
| the anchor service, late | `Arrive` |
| a kill, a failing call, a refused authorization; a power loss; an older image | `Fail`; `PowerLoss`; `TakeImage`, `Restore` |

Abstractions.

- A digest is the name of its descriptor, and `Content` says what it stands for.
  There is one root, one stream and one contract.
- `Authorize` and `Validate_State` are the caller's: a refusal of theirs and an I/O
  error are `Fail`.
- What is read under the lock is read in one step, as nobody else writes then.
- A pending checkpoint that was never anchored blocks every other `Publish` for
  good, which docs/checkpoints.ja.md intends.

### StopBarrier against the code

| Code | Actions |
|---|---|
| `Initialize`, `Observe`, `Seal` | the same (`Admissible`, `Continues`, `Receipt`; `Ready`) |
| `Usable` | `Usable`, in the properties (`CanUse`) |
| `MC_Time_Guard.Fresh` | `Fresh` |
| external: policies, the receiver's clock and reboots | `Authorize`, `Tick`, `Reboot` |
| external: a member and whoever isolates it | `Dispatch`, `Complete`, `CloseQueue`, `Latch`, `Isolate`, `Retire`, `Restart`, `Reopen` |
| external: a report | `Report` |

Abstractions.

- A report's verdict is taken from the member at the moment it is made, by what
  `Observe` asks of its counters (`Drained`, `Fenced`), and it may arrive at any later
  time, several times or never. Its signature verified; its sequence number is its
  place in `sent`.
- A policy is its number, valid as such. It is made for one boot of the receiver
  and one incarnation of each member; docs/stop-barrier.ja.md allows `Initialize`
  once for each, so it is only done for a policy of the running boot.
- The check of each isolation path by name is one of the set. The watermark of
  completed effects tells no two states apart here.
- The state is kept by a store in another repository whose compare-and-swap makes
  each operation one step.

### CommandRun against the code

`run` is the parent's local state, `leader` the child from the fork to its reaping,
`other` a descendant in its group that may keep the output open, `pipe` the units in
the two pipes.

| Code | Actions |
|---|---|
| the child up to `execveat` | `Watch`, `CheckParent`, `StartSession`, `Execute` |
| `pidfd_open`, pipes made non-blocking | `SetUp` |
| the loop: deadline and poll, output, input, exit | `PollThem`, `ReadOutput`, `WriteInput`, `Check` |
| `Terminate_Child` | `KillLeader`, `KillGroup`, `Wait` |
| the state and status returned | `Conclude` |
| external: helper, descendant, kernel | `HelperReads`, `HelperWrites`, `HelperForks`, `HelperExits`, `OtherWrites`, `OtherCloses`, `OtherExits`, `LeaderDies`, `OtherDies`, `ParentDies`, `Tick` |

Abstractions.

- The checks of the executable, the set-up of descriptors and what is read from the
  kernel come before the fork and decide only whether there is one.
- One `kill` of a group takes all of it, also a descendant just forked, as the
  kernel's does. A `kill` that fails, and somebody else reaping the child, are left
  out.
- `poll` may report a child that is gone a round late; a status is `ok` or not.

### CohortTrust against the code

One behaviour is one invocation: `request` is what it was given and never changes.

| Code | Actions |
|---|---|
| `find_manifest`: the explicit file, then each replica | `TakeCopy`, `PassOver`, `GiveUp` |
| `authenticate` down to its loop, with `validate_trust` and `validate_manifest` | `Admit` (`Admissible`, `ValidTrust`, `ValidManifest`) |
| a turn of the loop over the signatures | `Count` (`Countable`) |
| both roles present | `Conclude` |

Abstractions.

- Equal manifests are equal digests, and a signature verifies under a public key
  exactly when its owner made it over these bytes.
- Whether the bytes of a manifest are the canonical ones is a flag of the copy.
  Decoding each document against its schema, and every limit on a size or a count
  but those of 32 keys and 32 signatures, is left out.

### CohortRebuild against the code

`files` is what a reader of the candidate sees, each with whether its bytes
(`synced`) and its directory entry (`entered`) are on stable storage, and the run
that wrote it (`by`); `dirs` and `kept` are the directories and those of them on
stable storage. `run[r].pc` is the place between two system calls.

| Code | Actions |
|---|---|
| `reconstruct` up to the listing of the candidate | `Start`, `List` |
| `intent.json`, `manifest.json`, `anchor.json` | `List`, `WriteManifest`, `WriteAnchor` |
| `write_new`: exclusive create, write, fsync, fsync of the directory | `Create` or `CreateExists`, `Write`, `Sync`, `SyncDir` |
| the loop over objects, chunks and replicas | `Open`, `ReadUnreadable`, `ReadGood`, `ReadBad` (evidence, through `write_new`), `AppendChunk`, `LeaveLoop` |
| fsync of the payload file and of its directory | `Fsync`, `FsyncParent` |
| `report.json`, `candidate-ready.json` | `WriteReport`, `WriteReady` |
| a kill or a failing call, a power loss | `Stop`, `PowerLoss` |

Abstractions.

- After a power loss any subset of the files and directories that were not entered
  is gone and any file that was not synced may be torn. A torn file is not told
  apart from a shorter one: `Torn` takes the place of what was written.
- `Directory.create` makes every missing directory above a file and fsyncs the
  directory it made it in, one after another; this is one step with the creation of
  the file, as nothing can be put into these directories before.
- Names in paths are numbers: `PathBefore` compares name by name, where the code
  compares the strings.
- Free space is looked at once; it is a refusal `List` may give at any time. The
  anchor's lifetime is looked at in `Admissible` and not again, as in the code.
- The mode that only verifies runs the same loop and writes nothing.

### CohortSource against the code

`files` leads from a path to an inode; `ver` stands for the fields that `snapshot`
compares, and every change gives a new one. `past` remembers every state of every
file, for the properties alone.

| Code | Actions |
|---|---|
| `closed_inventory`: names of a directory, and the second look at it | `Visit`, `Leave`; `EndBefore`, `EndAfter` |
| `Directory.open_file`, chunk by chunk, the checks at its end | `Open`, `Read`, `CloseFile` |
| the inventory again | `Again` |
| `directory_attributes`, read and compared | `ReadAttributes`, `CompareAttributes` |
| the manifest; the report | `Publish`; `ReportInspection` |
| a writer | `Overwrite`, `Chmod`, `ChmodDir`, `Replace`, `Unlink`, `Mkdir` |

Abstractions.

- How an export's own files become durable is `write_new`, modelled in
  `CohortRebuild`; here `stored` is the set of chunks that were handed to it.
- Attributes are a mode and the rest (owner, extended attributes). Links, special
  files, mount points below the root and limits on sizes are left out: each is a
  refusal that depends on one file alone.
- A writer that sets the clock back so that a changed file has the very timestamps
  it had is not in the model, and the code could not notice it.

### ProofGuard against the code

`proc` is the process table: for each PID whose it is, its parent, its group,
whether it runs or is a zombie, signals sent to it and not yet acted upon, and
whether it has the lock's descriptor. `guard[j]` and `runner[j]` are the local
states of `supervise` and `run_command` for job `j`.

| Code | Actions |
|---|---|
| `acquire_lock`, the checks before the start, `Popen` | `Acquire`, `NoMemory`, `Spawn` |
| the sampling loop of `supervise` | `Watch` |
| `stop_children` | `KillGroup`, `ListChildren`, `KillChild`, `ReapLeader`, `KeepSweeping` |
| lock closed, verdict, exit | `Release` |
| `run_command`: start, log, limits | `StartGuard`, `ReadLog` |
| `stop_owned_group`, the wait | `Term`, `Kill`, `Wait` |
| the guard started through make by hand | `StartGuard`, `ShellWaits` |
| external: the kernel and the tool | `Fork`, `Exit`, `ToolReaps`, `Die`, `Stranger`, `Shoot`, `Tick` |

Abstractions.

- Time is the guard's sampling interval: on a `Tick` everyone asleep wakes up, and
  nobody sleeps through one. In the code a sample is 0.1 s and the limits are
  seconds, so the assumption `Cleanup + 1 < Grace` reads 5 s and a sample against
  6 s.
- make, between the runner and the guard, is one process with the guard: it is in
  the same group and passes on the exit status.
- The lowest free PID is given out next: the worst case for a number that is reused.
- Memory samples are a stop `Watch` may choose at any time; so is the limit on the
  log in `ReadLog`.

### EngineeringRun against the code

| Code | Actions |
|---|---|
| `source_subject`: `regular_tree`, `read_regular`, the digests | `List`, `OpenFile`, `ReadFile`, `TakeSubject` |
| `engineering.validate` | `Validate` |
| `run_command` for one check | `Invoke`, `Look`, `Return` |
| a missing tool, a test that was not opted in to | `Skip` |
| the end of the source checks, of a repository, of the last | `Gate`, `NextRepo`, `Claim` |
| comparison of the subjects; the `finally` clause | `Conclude`; `Publish` |
| an exception; Ctrl-C | `Fail` (within the others), `Interrupt` |
| an editor | `Edit` |

Abstractions.

- A repository is one directory. A command may read any source at any time and
  come back with any result: what a check decides is not modelled, only what is
  made of it.
- The tests of a repository are a list of tiers; the oracles that follow the Ada
  tests are further entries of it. `expand_test_args` and the tools of the native
  fixtures that may be missing are left out.
- A file that is put back to what it said before is not noticed when nobody looked
  meanwhile; the property leaves such files out and says so.

## 3. Runs

| Run | Question | Bounds, and why they are enough |
|---|---|---|
| `replay` | is reading the last record the same as reading the log, and is nothing begun twice? | six records over six requests and two serials: a request, its outcome, an unknown outcome, and two higher fences in between |
| `ledger` | what do kills, torn writes, failed fsyncs and a power loss, two processes and a policy rotated under them, and a log that is nearly full do to the ledger and to effects? | every behaviour keeps to one of three scenarios (`Within` in `MCRequestLedger`). *Crash*: one process at a time, six requests, two faults, one power loss: a torn record, a repair killed in any place, the power loss and the second repair. *Race*: two processes (symmetric), three policies, one fault, one power loss: all but the last record can be in conflict. *Room*: one boot, six requests, two torn writes, or one and a repair whose deadline passes. 9 records, the least in which new work is admitted |
| `latch` | what do racing, repeated, delayed and reused proposals, kills and a power loss do to the control latch and its archive? | two processes (symmetric), three proposals out of five offers and three bundles, two faults, two boots, one tick: the first quarantine, two more changes, an archived request that was cut off and comes back, an expiry, and an approval from before the reboot |
| `quorum` | what does it take for a manifest to be accepted? | every policy of three keys out of two identities, holders, domains, role lists and revocations with every list of two or three signatures out of six; and every wrong anchor, pin, time and copy over nine manifests: three is the least number with a quorum, a repetition and one to spare |
| `rebuild` | when is a candidate that says ready not what the manifest says? | two runs, two replicas, three manifests (one with a file below a file, one with a wrong digest), three objects of two, no and one chunks, any bad or missing copy on either replica, room for two bytes of evidence; kills and power losses anywhere |
| `source` | can anything be published or confirmed that was never there? | three files of two, no and one chunks in two directories, eight trees to start from, up to two changes by the writer: the second may undo the first |
| `guard` | what is left of a proof, do two run at a time, and does every run end? | either one job under `run_command` on a machine with strangers, or two started by hand (`Company` in `MCProofGuard`); three PIDs (guard, tool and one more: a solver, an orphan, a stranger, or the other guard), limits of one sample and a grace of three, the least the assumption allows |
| `checkpoint` | what does the anchor accept, and what is answered, when it is cut off from the directory? | two processes (symmetric), six checkpoints (two first ones, three that follow one of them, one of these illegally, a third generation), five calls, a fault, a power loss and an older image: two candidates in one place, the first of which is anchored late |
| `barrier` | is anything still going on when the barrier is used? | one member behind one path, two reports, two policies, a reboot of the receiver to any clock, a restart, a reopening, ages up to 2 on a clock up to 3: one report of each kind with the one to the contrary, and a barrier left over. Larger inventories are left to the theorems |
| `command` | when does `Run` return, with what, and who is left? | input of two units through pipes of one, output limit three of four produced, a deadline of three and a grace of one: each pipe full, the limit passed, and both time limits racing every step |
| `engineering` | can a report pass over sources the commands never saw, or claim what was not run? | two repositories of one file each, one with a test that needs opting in, all three modes, up to two edits |
| `cas` | is a preserved tail durable when it is cut off? | **violated**, see 4 |

The properties:

- `LastRecordTellsAll`, `BegunOnce`: the reader.
- `JournalReplays`: the writers never produce a log that the reader calls
  corrupt, which would lock the receiver up. The policy is loaded before the
  lock; it is the comparison of serials under the lock that makes this hold.
- `IntentBeforeEffect`: docs/protocol.md, "requests.log and
  immutable request-ID.bin records precede effects", for what is on stable
  storage. It rests on the directory fsync of opening the ledger: an envelope
  left by a killed process is visible before it is durable.
- `AdmittedOnce`: mc_gate.ads, "exact retransmission never re-executes", as an
  action property over the whole history of identities.
- `OneWork`: docs/protocol.md, "Pending/UNKNOWN only permits explicitly scoped
  recovery of the same transaction/plan".
- `EffectsInOrder`: the fence, at the effect and not at the check.
- `RoomKept`: mc_gate.adb, "New work retains bounded room for completion, one recovery
  request and tail-repair records", with reserves of 8, 4 and 2 records: whoever was
  admitted finds room for its outcome (`CompletionRoom`), and behind unresolved work
  or a torn record there is room for a recovery and a repair (`RoomRetained`). Only
  the first repair's: one torn in its own Unknown record needs another two records.
- `TailPreserved`: a tail is cut off only with its evidence in place.
- `KeepsPromise`: refinement of `DurableHistory` by `SubSeq(journal, 1, synced)`
  and `effects`.
- `ChangesAccountedFor`: mc_control_io.ads, "Every accepted state and proposal is
  retained before the current pointer is replaced", for what is on stable
  storage, of every change that led to the visible state, and with enough
  signers of the right duties.
- `ToldIsKept`: mc_control_io.ads, "A write failure after publication is
  indeterminate, never success": what was answered OK is never lost. A retry of
  a killed submission rests on the directory fsync of opening the lock.
- `OnlyThisBoot`: no approval outlives a reboot.
- `KeepsHistory`: refinement of `AuditedLatch` by `disk.latch` and `told`: one
  history that starts in quarantine, no request applied twice, no epoch that
  goes back, no release in the epoch it releases.
- `AnchoredIsThere`: the checkpoint that the anchor accepts is on stable storage,
  current or ready for `Reconcile`, wherever a `Publish` was cut off. It rests on a
  pending checkpoint never being written over by another one.
- `NoRollback`: what `Load` answers takes back nothing that anyone was answered
  before it began, not even from an older image of the directory.
- `AnchorOnlyForward`: late and repeated requests do not move the anchor but to a
  successor.
- `UsableMeansQuiet`: docs/stop-barrier.ja.md: when the barrier can be used, nobody
  has an effect under way or can have one, whoever restarted since, except members
  that somebody opened again.
- `UsableWasQuiet`: also those were quiet less than `MaximumAge` ago, on the clock of
  this boot.
- `NegativeRevokes`: no fresh report that a member is not stopped was passed over
  except for a later one.
- `OkIsWhole`: an OK means that the input was taken whole, the helper ended with 0
  by itself, and everything written by it and its descendants was returned.
- `GroupGone`: mc_command.ads, group cleanup, and mc_command.adb, "a reaped PID/PGID
  may be reused; never signal it after waitpid succeeds".
- `NoOrphan`: wherever in the fork the parent is killed, no helper is left running.
- `RunEnds` (liveness): `Run` returns, whether or not the helper reads, writes, exits
  or can be killed. A pipe that blocks would break it: both sides may be full.
- `AcceptedByQuorum`: whatever policy and envelope it is given, `authenticate`
  accepts only what at least `threshold` unrevoked keys of separate holders and
  domains signed, with both roles among them, for the pinned anchor.
- `GoodIsAccepted`: the other half: an anchor so signed is accepted as soon as any
  copy of its manifest is intact, however many damaged ones come first.
- `ReadyMeansRebuilt`: a readable `candidate-ready.json` means that every object of
  its manifest is there whole, on stable storage, under the same anchor.
- `EvidenceBeforeReady`: the comment in `reconstruct`, "no READY marker without
  preserved evidence", for what is on stable storage.
- `OneWriter`: of two runs that found the candidate empty only the one that created
  `intent.json` ever writes into it.
- `ReadyIsFinal`: nothing in a finished candidate changes any more.
- `Rebuilds` (liveness): a run that is neither killed nor out of room ends, and
  ends with the marker as long as each chunk has an intact copy somewhere.
- `QuietExact`: with a quiet source an export publishes exactly
  the tree, and an inspection says complete exactly of the anchored tree.
- `OnceAsRecorded`: with a writer at work, each file published or confirmed was at
  some time as it is listed. More is not true: two files need not have been so at
  the same time.
- `PassLeavesNothing`: a proof that passed has left nothing running, in whatever
  process group.
- `OnlyOwn`: no stranger is ever signalled, however numbers are reused.
- `GraceIsEnough`: when the runner loses its patience, the guard has cleaned up.
- `RunsEnd` (liveness): every run ends and gives back the lock, unless its guard
  was shot or gave up.
- `OneProof`: two tools never run side by side, as the lock's descriptor outlives a
  guard that is shot.
- `PassMeansTheseSources`: a report that passes is about the sources it names,
  except files put back to what they had said.
- `ClaimsAreEarned`: what is claimed was run, all of it, and passed, however the
  run was cut short.

A submission that is cut off after its request was archived burns the identity:
the same submission can be repeated only while the state it was made for is the
current one and its lifetime lasts, and another proposal under that identity is
refused for ever (`KeepRequest`, third case).

Deadlock is checked in `checkpoint` alone, whose processes can always be refused
something. With clocks, boots and faults bounded every other instance of the
receiver ends, and so does every invocation of a tool.

Where a run has scenarios, they bound the instance and not the specification: the
next-state relation of `MCRequestLedger` and `MCProofGuard` is that of the module,
restricted to states of one of the scenarios. In `MCProofGuard`, which also states
liveness, only the start of a job or of a stranger can be refused by that, and of
these no fairness is assumed.

Fairness. `CohortRebuild` has weak fairness of each run's own steps: a process that
was started is scheduled and its calls return. Nobody is made to start one, and
kills and power losses are never required or ruled out. `ProofGuard` has weak
fairness of guards, runners, the clock and the end of a killed process, which the
kernel owes; of the tool and its children nothing is assumed, not even that they
exit. `CommandRun` has weak fairness of the parent, which is scheduled and whose
calls do not block, and of the clock; the helper may do nothing at all, and what was
killed need never be gone. The other modules have no fairness and state no liveness:
nothing makes an operator send a request.

Mutations of the code that the runs catch are defined beside the definitions
they break, and are marked `Fault`.

## 4. Disagreement with the code

`TailDurable` states what `runtime/mc_log.ads` asks of the caller of
`Repair_Tail`: "Caller must durably preserve Export_Tail in its CAS before
supplying its digest." The gate supplies it after `MC_Store.Put` returned OK.
But for an object that is already visible `Put` compares content and fsyncs
nothing that leads to it. A repair killed in `Put` between the rename and the
fsync, followed by another repair of the same tail, cuts the tail off while a
power loss can still take the object: the tail is then in neither place. Run
`cas` shows it. `TailPreserved` is the part that does hold: the object is
visible, and the repair file is durable.

## 5. Proofs

All theorems are for any number of processes, any set of requests and policies,
and without the bounds on time, boots, faults and records. They assume the named
assumptions of the modules: requests and policies have numeric fields, epochs,
tokens and numbers being positive; `NoTail` is no tail; offers of changes have
positive epochs and lifetimes, and bundles are sets of provisioned keys; the
signatures of an envelope and the objects of a manifest are sequences, as JSON
arrays are; generations, record counts and trust epochs of checkpoints are natural
numbers; there is a repository, each is listed once, and its tests are of the tiers
that `engineering.validate` admits; the PIDs are finitely many positive numbers; the
times of the proof guard are positive, and its cleanup and a sample take less than
the grace.

- `RequestLedgerProofs`, first part: lemmas on logs. Replaying is local
  (`ReplaysAppend`, `ReplaysPrefix`), and a log that replays is in order
  (`ForwardInOrder`). Then, of the reader, `ReceiverTypeCorrect`,
  `LastRecordSuffices`, `NoneBegunTwice`.
- `RequestLedgerProofs`, second part: an invariant of the gate in layers, each
  inductive with the ones before it:
  - *Control*: at most one session holds the flock, and it has a request.
  - *TypeInv*: types, and a repair that has not cut the tail off finds one.
    Without mutual exclusion not even the types would be inductive.
  - *JournalInv*: the log replays, and the holder of the flock owes it a record
    that continues it: `BeginAccept`'s checks are still true when the record is
    written, five system calls later. Gives `AlwaysReadable`.
  - *FilesInv*: names are unique; Begun records have durable files; a session
    past its envelope has it durable. Gives `EnvelopesKept`.
  - *IntentInv*: what had an effect, or was admitted, is in the synced part of
    the log; the latest effect is not after the last record. Gives
    `IntentsPrecedeEffects`, `FenceHolds` and `AdmittedAtMostOnce`; the last
    needs FilesInv, as an identity is remembered by the name of its file.
  - *TurnInv*: a session about to begin over an unresolved record is a recovery
    of its work. Gives `OneWorkAtATime`.
  - *RoomInv*: what a session was promised of the log's capacity, less what it has
    written since, is still free; behind each new work on record there is room to
    recover and to repair. Gives `RoomAlwaysKept`. `RoomKept` alone is not
    inductive: a power loss takes records back, so the room behind every record has
    to be known and not only behind the last, and a torn record is cut off only
    where a repair still fits behind it.
  - *EvidenceInv*: a repair before its truncation has its object visible and its
    repair file durable. Gives `TailsPreserved`.
  - `ImplementsDurableHistory`: every step keeps the synced prefix or lengthens it
    (`DiskGrows`), any prefix of the log is lawful (`LawfulPrefix`), and an effect
    happens only when everything is synced.
- `ControlLatchProofs`: `LatchTypeCorrect`, `ChangesKept`, `ToldKept`,
  `ApprovalsOfThisBoot` and `ImplementsAuditedLatch`, for any number of
  processes, any proposals, duties, domains and thresholds. The layers:
  - *Types*: types, and at most one process holds `control.lock`.
  - *DiskInv*: the visible state is at most one change ahead of the durable one,
    and the holder of the lock has everything synced but what it did last.
    `ChangesAccountedFor` alone is not inductive: that a state becomes visible
    after its files are durable shows only in the place where the holder stands.
  - *HeldInv*: until it is published, `Decide`'s verdict on a submission is still
    true, and what it has archived is there.
  - *AuditInv*: identities name one request file each; changes are accounted for
    and follow one another; what was told is kept. That no identity is applied
    twice follows (`IdsDiffer`): one request file cannot have been made for two
    states.
- `CheckpointStoreProofs`: `CheckpointTypeOK`, `CheckpointForward`,
  `CheckpointNoRollback` and `CheckpointAnchoredIsThere`, for any processes, any set
  of checkpoints and any number of faults. The layers:
  - *TypeOK* and *Exclusive*: types, and one process at a time has the lock.
  - *InOrder*: a call that may still ask the anchor to move, and a request that is
    late, were checked to follow what they expect to find there. Gives
    `AnchorOnlyForward`.
  - *AnsweredInv*: everything that was ever answered is behind the anchor, and what
    a Load found answered when it began is behind what the anchor confirmed to it.
    `NoRollback` alone is not inductive: it speaks of a Load that is over, and what
    makes it true is what the anchor had reached when the Load asked.
  - *ThereInv*: of the directory, what is seen and what is on stable storage are
    taken in every combination a power loss can leave; each of them is the anchored
    checkpoint, or leads to it by `Reconcile` (*Survives*). A request that is late
    and could still move the anchor finds its own checkpoint pending and durable
    (*Arrivable*), and none is on its way under a call that has the lock;
    *Staged* says how far that call has come. `AnchoredIsThere` says none of this.
    It would not survive a late request that arrives after another Publish has
    staged its own checkpoint; there is none, because a request that can still move
    the anchor has left its checkpoint pending, and Publish does not stage over a
    pending checkpoint that is not the current one.
- `StopBarrierProofs`: `BarrierStateValid`, `BarrierMeansQuiet`, `BarrierWasQuiet` and
  `BarrierRevoked`, for any inventory, paths, age and number of everything. The layers:
  - *Types*, and *Clocks*: reports are dated, and in order, by the receiver's clock.
  - *Stopped*: what a clean report said of a member stays so as long as the member is
    of the same incarnation and nobody opened it again; the latch and the retirement
    carry it over a restart.
  - *Since*: members that are quiet, and since when.
  - *Receipts*: each receipt stands on a report that was sent, of the barrier's own
    policy and boot, and its dates are that report's. With *Stopped* this is
    `UsableMeansQuiet`, which by itself is not inductive: it says nothing of receipts
    before there are enough of them.
  - *Passed*: every report to the contrary that was heard and not taken came before
    what the receipt stands on or before the last of its source.
- `CommandRunProofs`: `CommandOkIsWhole`, `CommandGroupGone` and `CommandNoOrphan`,
  for any length of the input, output limit, size of a pipe, deadline and grace. The
  invariant has a part for each:
  - *Output*: what was written to the output is returned or still in the pipe, and an
    output that was read to its end has no writer and gets none; *Concluded*: what an
    answer is made of. Together they give `OkIsWhole`: that nothing is left in the
    pipe follows from the order of `Read_Output` after the last poll.
  - *Ended*: the child is reaped by `Terminate_Child`'s wait and nothing else, which
    is why its number is still its own when the group is killed; who was alive then
    is doomed, and nobody doomed starts anything.
  - *Watched*: from prctl on the child watches its parent, and after the comparison
    with Getppid a parent that died before prctl has been noticed.
- `CohortTrustProofs`, first part: `TrustTypeOK`, `TrustAcceptedByQuorum` and
  `TrustGoodIsAccepted`, for any policy, envelope, set of copies and time. The
  invariant of the second says what each place in the
  search has established (*Stages*), that no two counted entries share a key or a
  domain (*Separate*), and that there are as many of them as signatures passed
  (*Tally*). `AcceptedByQuorum` alone is not inductive: it speaks of the end only.
  The third says that no check refuses a good request (*OnCourse*): while copies are
  searched the intact one is ahead, and the loop over the signatures has seen
  exactly those before it. That a key never comes twice is a matter of numbers
  (`KeysDistinct`): as many signatures as signers, each by one of them.
- `CohortTrustProofs`, second part: `SourceTypesOK`, `SourceOnceAsRecorded` and
  `SourceQuietExact`, of `CohortSource`, for any manifest and any trees and number of
  changes. Assumed of the constants: a tree is finite and closed (what is in it is in
  a directory of it), a path is a sequence of numbers, and the anchored manifest is
  valid and one that an export could have made, in that an object's digest is of the
  bytes its chunks have room for. `OnceAsRecorded` rests on:
  - *PastOK*: no inode is dated in the future, and what is there now is in `past`. A
    change moves the clock and gives its inode the new time, so it never returns to
    an old `ver`.
  - *BufferOK*: as long as the open file has the `ver` it was opened with, the bytes
    read are how it begins. A read that is overtaken keeps bytes that were never there
    together; the comparison after the last read (`Undisturbed`) finds the new `ver`.
  - *ItemsOK*: every item so far is in `past`, with its chunks in `stored`.

  `QuietExact` rests on those and on *QuietInv*, which says of a source left alone:
  - *FindsAll*: of each directory found, all names are found too, or it is on the
    stack with the rest to do. When the stack is empty the whole tree was found
    (`WalkDone`): a path that was not found, of the least length, would have a parent
    that was.
  - *InventoriesOK*, *AttrsOK*, *AgainOK*: both inventories are the whole tree and
    attributes were read of every directory of it; *ReadOK*, *ListedOK*: each item says
    of its path what is there.

  That the sorted names of a directory have a first one is proved from the numbers in
  paths (`BeforeTotal`, `LeastOf`, `FirstIs`), not assumed. The proof found an error
  in the model that no run showed: two arms of a `CASE` in `EndBefore` overlapped for
  an inspection, where TLC takes the first and the formula leaves the choice open.
- `CohortRebuildProofs`: `OneWriterAlways`, `ReadyRebuilt`, `EvidencePreserved` and
  `ReadyFinal`, for any runs, replicas, manifests, media and limit of evidence. The
  invariant:
  - *Shape*: tables are functions over their sets.
  - *Owned*: a run that has begun owns all there is, and one that was told the
    candidate is empty, but comes late, will find `intent.json`. So while one run
    has begun no other has (`OneWriter`).
  - *Grounded*: every directory is on stable storage.
  - For each run that has begun: only the file it has open may be lost, and none
    is open that comes after the marker (*Tidy*); bad copies it met are kept or are
    about to be (*Keeping*); the intent, manifest, anchor and report are as it
    wrote them (*Headed*); the objects it has passed are as its verdicts say
    (*Passed*).
  - *Last*: where the marker's file is, all other files are on stable storage, and
    the marker is empty, torn, or tells the truth.

  `ReadyMeansRebuilt` alone is not inductive: it says nothing before there is a
  marker, and all that makes it true has been written by then. That a power loss
  takes nothing from a finished candidate (`FinalStep`) is *Last* and *Grounded*.

- `EngineeringProofs`, first part: `EngineeringTypeOK`,
  `EngineeringPassMeansTheseSources` and `EngineeringClaimsAreEarned`, for any
  repositories, sources, test plans, number of source checks and edits at any moment.
  - *Fresh*: a file that was not put back never says again what it said before.
  - *FirstSubject*: what the first subject says of a file was so at some time; while
    it is taken, what a file never said has not been read and is not about to be.
  - *SecondSubject*: when a command saw something else than the first subject says,
    that is gone for good, so the walk of the second cannot find it. The two are
    what `PassMeansTheseSources` needs of a walk that reads one file after another
    while each may change: it passes each file once, and what it passes over is past.
  - *Progress*: every command behind the present one has its record, or some record
    says why not. `ClaimsAreEarned` alone speaks of the end only.
- `EngineeringProofs`, second part: `GuardInvariant`, `GuardTypesOK`, `GuardOnlyOwn`,
  `GuardOneProof`, `GuardPassLeavesNothing` and `GuardGraceIsEnough`, for any number
  of jobs and processes, any PIDs, any trees and groups, any guards shot at any
  moment. The invariant `GuardInv`:
  - *Table*: what an entry of the process table may be. A stranger was never
    signalled: whoever is signalled is a child not yet reaped, a member of a group
    whose leader is not, or the guard's own group.
  - *Parents*: a process of a tool is the child of its guard, or of a process of the
    same tool that runs; init's only when there is no guard. *Rooted*: there is no
    circle of parents. With both, a guard whose only child is the ended leader has no
    descendant at all (`OnlyLeader`): this is what a pass rests on, and neither
    `PassLeavesNothing` nor *Swept* says it.
  - *Watches*: guard and runner know the PIDs they believe to know, as long as they
    use them; what `stop_children` has listed are still its children.
  - *Swept*: before the start and after the end nothing of a tool is left, unless
    the guard was shot or gave up.
  - *Locks*: one job has the lock, and whoever starts or stops a tool has it.
  - *Hurries*: as long as the guard was not shot, the time it has left for its
    cleanup is less than what is left of the runner's grace, from the look after
    SIGTERM on. `Cleanup + 1 < Grace` is used here and nowhere else.

  Steps of the same shape are treated once: signals (`AfterSignals`), the birth of a
  process (`AfterBirth`), its reaping (`AfterReaping`) and its end with the adoption
  of its children (`AfterEnd`).

Proved and not among the properties of a run: the type invariants of
`ReceiverReplay`, `RequestLedger`, `ControlLatch`, `CheckpointStore`, `CohortTrust`,
`CohortSource`, `EngineeringRun` and `ProofGuard`; `EnvelopeKept` (a Begun record
never refers to a file that a power loss could take), on which `IntentBeforeEffect`
rests; and `StateValid` (`Observe` and `Seal` keep the barrier's own predicate).

Only model-checked, as liveness is out of the prover's reach: `Rebuilds`, `RunEnds`
and `RunsEnd`. Every invariant and every action property of a passing run is a
theorem.

## 6. Plan

Order of work, most important first. Runs and bounds are for TLC.

1. Done: `RequestLedger` and `ControlLatch` with their abstract specifications;
   `CheckpointStore`, `StopBarrier`, `CommandRun`, `CohortTrust`, `CohortRebuild`,
   `CohortSource`, `ProofGuard` and `EngineeringRun`; theorems about all of them.
2. `Dispatch`: composes `RequestLedger` with the latch (`Check`, `Permits`):
   `Check`'s table of phases and witnesses, the latch read once, the answer to a
   retransmission.
3. `CheckpointStore`: an abstract history of anchored checkpoints, and `Reconcile`
   under fairness.
4. Repair under fairness: a torn tail is eventually repaired or refused for one
   of the stated reasons.
5. `RetryBudget` (a window of attempts carried over reboots whose clock starts
   again), `Incidents` (an incident closed only on evidence from after its last
   fault), `Generation`, `RecoveryCohort` (the receiver's own,
   `src/mc_recovery_cohort`), `Backups`: decisions and automata against their own
   `Valid` predicates and a reference definition.
6. `ContentStore`: put, cursor and verification with crashes.

## 7. Not modelled

Codecs, hashing, signatures, transport, the command line, document predicates
(qualification, attestation, commissioning, health, fault and configuration
reports, profiles): they keep no state, and are enumerated over bytes or one
record at a time by the repository's own tests and SPARK proofs.

Of the receiver, not yet: the retry budget, incidents and faults, generation,
recovery cohort and maintenance, backups, durable documents, and the gate's
`Dispatch` (see 6). Three hazards of modelled code have no property: `rotate-policy`
takes a higher epoch with the same fence token, after which every request is stale
until the next rotation, and nothing makes an operator rotate; a repair under way
may outlive the policy's expiry, and no document says whether it should; and the
lifetime of a latch proposal is compared before the rename and not after.

Of the tools: generators and audits of text (`sync-component-ci.py`,
`unified-audit.py`, `nia-product-audit.py`, `refresh-contract.py` and their like,
and the recorded `local-orchestrator.py`), which make one pass over the tree and
keep no state but the files they compare; and what `engineering.py` checks of a
source (`validate` and its lint), a function of the text.
