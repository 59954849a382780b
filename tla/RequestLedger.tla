--------------------------- MODULE RequestLedger ---------------------------
(***************************************************************************)
(* The request gate of a receiver (MC_Gate) on its ledger (MC_Log,         *)
(* MC_Atomic, MC_FS): Begin_Request, Check, Finish and Repair_Ledger run   *)
(* by several processes over one ledger directory, with process kills,     *)
(* torn writes, failed fsyncs and power losses between any two system      *)
(* calls, and with the site policy rotated under them.                     *)
(*                                                                         *)
(* Disk.  Every file has what a reader sees now and what is known to be on *)
(* stable storage: `journal' holds the complete records of requests.log,   *)
(* of which the first `synced' have been fsynced; `tail' is the partial    *)
(* record behind them; `files' are the immutable request-ID.bin and        *)
(* repair-ID.bin files, of which those in `durable' have had their         *)
(* directory entry fsynced; `objects' and `stored' are the same for the    *)
(* tails put into the content store.                                       *)
(***************************************************************************)
EXTENDS RequestReplay

CONSTANTS
    Procs,          \* processes that may run the gate
    Policies,       \* site policies, see Policy
    FirstPolicy,    \* the policy the ledger was provisioned under
    Parts,          \* amounts of a record a torn write may leave
    NoTail,         \* requests.log ends with a complete record
    MaxRecords,     \* MC_Log.Max_Records
    MaxBoots,       \* bound: boots of the receiver
    MaxTime,        \* bound: the boottime clock
    MaxFaults       \* bound: kills, torn writes, I/O errors

Policy == [serial : Nat, epoch : Nat \ {0}, token : Nat \ {0}]

ASSUME PoliciesAssumption == Policies \subseteq Policy /\ FirstPolicy \in Policies
ASSUME PartsAssumption == Parts \subseteq Nat
ASSUME BoundsAssumption ==
    /\ MaxRecords \in Nat \ {0}
    /\ MaxBoots \in Nat
    /\ MaxTime \in Nat
    /\ MaxFaults \in Nat

ASSUME NoTailAssumption == NoTail \notin [rec : Records, part : Parts]

\* Records kept free by Begin_Request (8, or 4 for a recovery) and by
\* Repair_Ledger (2).
OrdinaryRoom == 8
RecoveryRoom == 4
RepairRoom   == 2

VARIABLES
    journal,      \* complete records of requests.log
    synced,       \* how many of them are on stable storage
    tail,         \* the partial record at the end, or NoTail
    lostTail,     \* a tail cut off by a truncation not yet fsynced, or NoTail
    files,        \* visible request-ID.bin and repair-ID.bin files
    durable,      \* those whose directory entry is on stable storage
    objects,      \* tails visible in the content store
    stored,       \* those whose directory entry is on stable storage
    policy,       \* policy.bin
    savedPolicy,  \* policy.bin on stable storage
    policyLive,   \* its Valid_Until has not passed
    now,          \* CLOCK_BOOTTIME
    boot,         \* boot identity
    session,      \* what each process is doing
    begun,        \* history: ids of requests a session was admitted for
    effects,      \* history: requests that had an effect on the host
    lastEffect,   \* history: the request of the latest effect
    faults        \* bound: faults so far

log == <<journal, synced, tail, lostTail>>
dir == <<files, durable>>
cas == <<objects, stored>>
site == <<policy, savedPolicy, policyLive>>
clock == <<now, boot>>
history == <<begun, effects, lastEffect>>
vars == <<log, dir, cas, site, clock, session, history, faults>>
-----------------------------------------------------------------------------
(* Files, tails and sessions.                                              *)

Tails == [rec : Records, part : Parts]
LostTails == [at : Nat, tail : Tails]

\* request-ID.bin holds the envelope; repair-ID.bin the envelope, the digest
\* of the tail and the head of the hash chain, which stands for the log.
RequestFile(r) == [name |-> <<"request", r.id>>, req |-> r, tail |-> NoTail, head |-> <<>>]
RepairFile(r)  == [name |-> <<"repair", r.id>>, req |-> r, tail |-> tail, head |-> journal]

File == [name : {"request", "repair"} \X Ids, req : Requests,
         tail : Tails \union {NoTail}, head : Seq(Records)]

\* Program counters of a session.  It holds the flock on requests.log in all
\* but the first two.
Unlocked == {"closed", "loaded"}
Locked == {"preserve", "preserved",          \* Repair_Ledger: tail to content store
           "note", "noted",                  \* Repair_Ledger: repair file
           "save", "saved",                  \* request file
           "truncate", "truncated",          \* Repair_Ledger: tail cut off
           "intend", "intending",            \* Begun record written, fsynced
           "admitted", "authorized",         \* Admitted; a Check has passed
           "finishing",                      \* outcome record written
           "mark", "marking",                \* Repair_Ledger: Unknown record
           "answered"}                       \* returned OK, not yet closed

Session == [pc : Unlocked \union Locked, mode : {"begin", "repair"},
            req : Requests \union {NoRequest}, policy : Policies]

Closed == [pc |-> "closed", mode |-> "begin", req |-> NoRequest, policy |-> FirstPolicy]

Goto(p, pc) == session' = [session EXCEPT ![p].pc = pc]
Close(p)    == session' = [session EXCEPT ![p] = Closed]

\* Fault: the journal is opened without the flock.
NoFlock == TRUE

LockFree == \A q \in Procs : session[q].pc \notin Locked

Record(p, kind) ==
    [kind |-> kind, req |-> session[p].req, serial |-> session[p].policy.serial]
-----------------------------------------------------------------------------
(* MC_Gate.Begin_Request and Repair_Ledger up to the opened journal.       *)

\* MC_Authorization.Within_Scope, against the policy and clocks as loaded.
InScope(r) ==
    /\ r.boot = boot
    /\ r.epoch = policy.epoch
    /\ r.token = policy.token
    /\ now < r.deadline

\* The policy is read before the ledger is locked.  Repair_Ledger denies any
\* action but Repair, so no other request is given to it.
Load(p, r, mode) ==
    /\ session[p].pc = "closed"
    /\ policyLive
    /\ InScope(r)
    /\ mode = "repair" => r.action = "repair"
    /\ session' = [session EXCEPT ![p] =
            [pc |-> "loaded", mode |-> mode, req |-> r, policy |-> policy]]
    /\ UNCHANGED <<log, dir, cas, site, clock, history, faults>>

Readable == journal # <<>> /\ Replays(journal)

\* The journal's state as Read_Previous finds it, and the request of p
\* against it.
Prior == Replayed(journal)

\* Fault: an older policy than the journal's last is let through.
CurrentAnySerial(p) == Readable /\ session[p].req.rev = session[p].policy.serial

Current(p) ==
    /\ Readable
    /\ session[p].policy.serial >= Prior.serial
    /\ session[p].req.rev = session[p].policy.serial

PriorFileKept == RequestFile(Prior.window) \in files

Fits(records) == Len(journal) + records <= MaxRecords

\* Fault: the two reserves are swapped.
SwappedRoom(r) == IF r.action \in RecoveryActions THEN OrdinaryRoom ELSE RecoveryRoom

RoomNeeded(r) == IF r.action \in RecoveryActions THEN RecoveryRoom ELSE OrdinaryRoom

\* Fault: an unresolved request does not hold new work back.
AdmissibleOverPending(p) ==
    Fresh(Prior.window, session[p].req) /\ Fits(RoomNeeded(session[p].req))

Admissible(p) ==
    LET r == session[p].req IN
    /\ Fresh(Prior.window, r)
    /\ Prior.pending =>
        /\ PriorFileKept
        /\ r.action \in RecoveryActions
        /\ r.work = Prior.window.work
    /\ Fits(RoomNeeded(r))

Repairable(p) ==
    LET r == session[p].req IN
    /\ Fresh(Prior.window, r)
    /\ Prior.pending =>
        /\ PriorFileKept
        /\ r.work = Prior.window.work
    /\ Fits(RepairRoom)

\* MC_FS.Open_Locked takes the flock, then fsyncs the ledger directory.
Open(p, mode) ==
    /\ session[p].pc = "loaded"
    /\ session[p].mode = mode
    /\ LockFree
    /\ durable' = files
    /\ UNCHANGED <<log, files, cas, site, clock, history, faults>>

\* Fault: a retransmission is admitted again.
BeginAgain(p) ==
    /\ Open(p, "begin")
    /\ tail = NoTail
    /\ Current(p)
    /\ ExactRetry(Prior.window, session[p].req)
    /\ Goto(p, "admitted")

BeginRetry(p) ==
    /\ Open(p, "begin")
    /\ tail = NoTail
    /\ Current(p)
    /\ ExactRetry(Prior.window, session[p].req)
    /\ Goto(p, "answered")

BeginAccept(p) ==
    /\ Open(p, "begin")
    /\ tail = NoTail
    /\ Current(p)
    /\ Admissible(p)
    /\ Goto(p, "save")

RepairAccept(p) ==
    /\ Open(p, "repair")
    /\ tail # NoTail
    /\ Current(p)
    /\ Repairable(p)
    /\ Goto(p, "preserve")

BeginRefuse(p) ==
    /\ Open(p, "begin")
    /\ \/ tail # NoTail
       \/ ~Current(p)
       \/ ~ExactRetry(Prior.window, session[p].req) /\ ~Admissible(p)
    /\ Close(p)

\* Also when the reservation or isolation witness is missing.
RepairRefuse(p) == Open(p, "repair") /\ Close(p)

\* LOCK_NB: another process has the journal open.
Busy(p) ==
    /\ session[p].pc = "loaded"
    /\ ~LockFree
    /\ Close(p)
    /\ UNCHANGED <<log, dir, cas, site, clock, history, faults>>

\* MC_Receiver_Ledger.Observe only reads, but it opens like a writer.
Observe ==
    /\ LockFree
    /\ durable' = files
    /\ UNCHANGED <<log, files, cas, site, clock, session, history, faults>>
-----------------------------------------------------------------------------
(* Immutable files: MC_Atomic.Write with Must_Be_New, compared if there.   *)

\* Fault: a file already there is taken for the same.
PublishUncompared(p, f, written, kept) ==
    /\ \/ /\ \A g \in files : g.name # f.name
          /\ files' = files \union {f}
          /\ Goto(p, written)
       \/ /\ \E g \in files : g.name = f.name
          /\ Goto(p, kept)
          /\ UNCHANGED files
    /\ UNCHANGED <<log, durable, cas, site, clock, history, faults>>

Publish(p, f, written, kept) ==
    /\ \/ /\ \A g \in files : g.name # f.name
          /\ files' = files \union {f}
          /\ Goto(p, written)
       \/ /\ f \in files
          /\ Goto(p, kept)
          /\ UNCHANGED files
       \/ /\ f \notin files
          /\ \E g \in files : g.name = f.name
          /\ Close(p)
          /\ UNCHANGED files
    /\ UNCHANGED <<log, durable, cas, site, clock, history, faults>>

SyncDirectory(p, next) ==
    /\ durable' = files
    /\ Goto(p, next)
    /\ UNCHANGED <<log, files, cas, site, clock, history, faults>>

AfterSave(p) == IF session[p].mode = "begin" THEN "intend" ELSE "truncate"

SaveEnvelope(p) ==
    /\ session[p].pc = "save"
    /\ Publish(p, RequestFile(session[p].req), "saved", AfterSave(p))

SyncEnvelope(p) == session[p].pc = "saved" /\ SyncDirectory(p, AfterSave(p))

\* MC_Store.Put of the tail.  Of an object that is already there it compares
\* the content, but fsyncs none of the directories that lead to it.
PreserveTail(p) ==
    /\ session[p].pc = "preserve"
    /\ objects' = objects \union {tail}
    /\ Goto(p, IF tail \in objects THEN "note" ELSE "preserved")
    /\ UNCHANGED <<log, dir, stored, site, clock, history, faults>>

SyncStore(p) ==
    /\ session[p].pc = "preserved"
    /\ stored' = stored \union {tail}
    /\ Goto(p, "note")
    /\ UNCHANGED <<log, dir, objects, site, clock, history, faults>>

NoteRepair(p) ==
    /\ session[p].pc = "note"
    /\ Publish(p, RepairFile(session[p].req), "noted", "save")

SyncNote(p) == session[p].pc = "noted" /\ SyncDirectory(p, "save")
-----------------------------------------------------------------------------
(* requests.log: MC_Log.Append and Repair_Tail, write and fsync apart.     *)

\* The records a session may append where it stands.  Append's Exhausted
\* exit is not here: see CompletionRoom.
MayWrite(p, kind) ==
    /\ \/ session[p].pc = "intend" /\ kind = "begun"
       \/ session[p].pc \in {"admitted", "authorized"} /\ kind \in Outcomes
       \/ session[p].pc = "mark" /\ kind = "unknown"
    /\ tail = NoTail
    /\ Len(journal) < MaxRecords

Write(p, kind, next) ==
    /\ MayWrite(p, kind)
    /\ journal' = Append(journal, Record(p, kind))
    /\ Goto(p, next)
    /\ UNCHANGED <<synced, tail, lostTail, dir, cas, site, clock, history, faults>>

WriteIntent(p) == Write(p, "begun", "intending")
Finish(p)      == \E kind \in Outcomes : session[p].pc # "mark" /\ Write(p, kind, "finishing")
WriteUnknown(p) == session[p].pc = "mark" /\ Write(p, "unknown", "marking")

\* A short write leaves part of the record; the journal is poisoned.
TearRecord(p) ==
    /\ faults < MaxFaults
    /\ \E kind \in {"begun"} \union Outcomes, part \in Parts :
        /\ MayWrite(p, kind)
        /\ tail' = [rec |-> Record(p, kind), part |-> part]
    /\ Close(p)
    /\ faults' = faults + 1
    /\ UNCHANGED <<journal, synced, lostTail, dir, cas, site, clock, history>>

\* Fault: no fsync.
NoSyncLog == UNCHANGED <<synced, lostTail>>

SyncLog == synced' = Len(journal) /\ lostTail' = NoTail

Sync(p, at, next) ==
    /\ session[p].pc = at
    /\ SyncLog
    /\ Goto(p, next)
    /\ UNCHANGED <<journal, tail, dir, cas, site, clock, effects, lastEffect, faults>>

\* The Begun record is durable: the session is admitted.
Admit(p) ==
    /\ session[p].mode = "begin"
    /\ Sync(p, "intending", "admitted")
    /\ begun' = begun \union {session[p].req.id}

SyncRepairIntent(p) ==
    /\ session[p].mode = "repair"
    /\ Sync(p, "intending", "mark")
    /\ UNCHANGED begun

SyncOutcome(p) == Sync(p, "finishing", "answered") /\ UNCHANGED begun
SyncUnknown(p) == Sync(p, "marking", "answered") /\ UNCHANGED begun

\* The policy and the deadline are read again before the truncation.
StillValid(p) == session[p].policy = policy /\ now < session[p].req.deadline

\* Fault: the truncation takes the last complete record along.
TruncateRecord(p) ==
    /\ session[p].pc = "truncate"
    /\ StillValid(p)
    /\ journal' = SubSeq(journal, 1, Len(journal) - 1)
    /\ synced' = Len(journal) - 1
    /\ tail' = NoTail
    /\ Goto(p, "truncated")
    /\ UNCHANGED <<lostTail, dir, cas, site, clock, history, faults>>

Truncate(p) ==
    /\ session[p].pc = "truncate"
    /\ StillValid(p)
    /\ lostTail' = [at |-> Len(journal), tail |-> tail]
    /\ tail' = NoTail
    /\ Goto(p, "truncated")
    /\ UNCHANGED <<journal, synced, dir, cas, site, clock, history, faults>>

\* Or the control latch does not permit Repair_Records.
RefuseTruncate(p) ==
    /\ session[p].pc = "truncate"
    /\ Close(p)
    /\ UNCHANGED <<log, dir, cas, site, clock, history, faults>>

SyncTruncate(p) == Sync(p, "truncated", "intend") /\ UNCHANGED begun
-----------------------------------------------------------------------------
(* MC_Gate.Check and the effect its caller then has on the host.           *)

\* Check has no phase for the other actions.
EffectActions == Actions \ {"plan", "inspect"}

Authorize(p) ==
    /\ session[p].pc = "admitted"
    /\ session[p].req.action \in EffectActions
    /\ session[p].policy = policy
    /\ policyLive
    /\ now < session[p].req.deadline
    /\ Goto(p, "authorized")
    /\ UNCHANGED <<log, dir, cas, site, clock, history, faults>>

\* The policy may have been rotated and the deadline passed since.
Effect(p) ==
    /\ session[p].pc = "authorized"
    /\ effects' = effects \union {session[p].req}
    /\ lastEffect' = session[p].req
    /\ Goto(p, "admitted")
    /\ UNCHANGED <<log, dir, cas, site, clock, begun, faults>>

CloseAnswered(p) ==
    /\ session[p].pc = "answered"
    /\ Close(p)
    /\ UNCHANGED <<log, dir, cas, site, clock, history, faults>>
-----------------------------------------------------------------------------
(* The environment.                                                        *)

\* A kill, or an error return of a system call: every exit closes the
\* journal, which drops the flock, and leaves the disk as it is.
Fail(p) ==
    /\ session[p].pc \in Locked \ {"answered"}
    /\ faults < MaxFaults
    /\ Close(p)
    /\ faults' = faults + 1
    /\ UNCHANGED <<log, dir, cas, site, clock, history>>

\* What may be left behind record k after a power loss.
TailsAfter(k) ==
    LET torn(rec) == {[rec |-> rec, part |-> part] : part \in Parts} IN
    {NoTail}
    \union (IF k < Len(journal) THEN torn(journal[k + 1]) ELSE {})
    \union (IF k = Len(journal) /\ tail # NoTail
            THEN {t \in torn(tail.rec) : t.part <= tail.part} ELSE {})
    \union (IF lostTail # NoTail /\ lostTail.at = k THEN {lostTail.tail} ELSE {})

\* Whatever was not fsynced may be lost, records from the end first.
PowerLoss ==
    /\ boot < MaxBoots
    /\ \E k \in synced..Len(journal) :
        /\ journal' = SubSeq(journal, 1, k)
        /\ synced' = k
        /\ \E t \in TailsAfter(k) : tail' = t
    /\ lostTail' = NoTail
    /\ \E kept \in SUBSET (files \ durable) : files' = durable \union kept
    /\ durable' = files'
    /\ \E kept \in SUBSET (objects \ stored) : objects' = stored \union kept
    /\ stored' = objects'
    /\ policy' = savedPolicy
    /\ session' = [p \in Procs |-> Closed]
    /\ boot' = boot + 1
    /\ now' = 0
    /\ UNCHANGED <<savedPolicy, policyLive, history, faults>>

Tick ==
    /\ now < MaxTime
    /\ now' = now + 1
    /\ UNCHANGED <<log, dir, cas, site, boot, session, history, faults>>

\* Valid_Until passes.
PolicyLapse ==
    /\ policyLive
    /\ policyLive' = FALSE
    /\ UNCHANGED <<log, dir, cas, policy, savedPolicy, clock, session, history, faults>>

\* MC_Admin rotate-policy, which may be killed before its directory fsync.
RotatePolicy(q) ==
    /\ q.serial > policy.serial
    /\ q.epoch >= policy.epoch
    /\ q.token >= policy.token
    /\ policy' = q
    /\ policyLive' = TRUE
    /\ \/ savedPolicy' = q /\ UNCHANGED faults
       \/ /\ faults < MaxFaults
          /\ savedPolicy' = policy
          /\ faults' = faults + 1
    /\ UNCHANGED <<log, dir, cas, clock, session, history>>
-----------------------------------------------------------------------------

Init ==
    /\ journal = <<Genesis(FirstPolicy.serial)>>     \* MC_Receiver_Ledger.Provision
    /\ synced = 1
    /\ tail = NoTail
    /\ lostTail = NoTail
    /\ files = {}
    /\ durable = {}
    /\ objects = {}
    /\ stored = {}
    /\ policy = FirstPolicy
    /\ savedPolicy = FirstPolicy
    /\ policyLive = TRUE
    /\ now = 0
    /\ boot = 1
    /\ session = [p \in Procs |-> Closed]
    /\ begun = {}
    /\ effects = {}
    /\ lastEffect = NoRequest
    /\ faults = 0

\* One system call of the process, without a fault.
Step(p) ==
    \/ BeginRetry(p) \/ BeginAccept(p) \/ BeginRefuse(p)
    \/ RepairAccept(p) \/ RepairRefuse(p) \/ Busy(p)
    \/ PreserveTail(p) \/ SyncStore(p) \/ NoteRepair(p) \/ SyncNote(p)
    \/ SaveEnvelope(p) \/ SyncEnvelope(p)
    \/ Truncate(p) \/ RefuseTruncate(p) \/ SyncTruncate(p)
    \/ WriteIntent(p) \/ Admit(p) \/ SyncRepairIntent(p)
    \/ Authorize(p) \/ Effect(p)
    \/ Finish(p) \/ SyncOutcome(p)
    \/ WriteUnknown(p) \/ SyncUnknown(p)
    \/ CloseAnswered(p)

Start(p) == \E r \in Requests, mode \in {"begin", "repair"} : Load(p, r, mode)

Environment ==
    \/ Observe \/ PowerLoss \/ Tick \/ PolicyLapse
    \/ \E q \in Policies : RotatePolicy(q)

Next ==
    \/ \E p \in Procs : Start(p) \/ Step(p) \/ TearRecord(p) \/ Fail(p)
    \/ Environment

Spec == Init /\ [][Next]_vars
-----------------------------------------------------------------------------
(* Correctness.                                                            *)

\* The ledger directory, the policy and the gate's sessions are well formed:
\* what is durable is visible, and no more is fsynced than was written.
TypeOK ==
    /\ journal \in Seq(Records)
    /\ synced \in 0..Len(journal)
    /\ tail \in Tails \union {NoTail}
    /\ lostTail \in LostTails \union {NoTail}
    /\ files \subseteq File
    /\ durable \subseteq files
    /\ objects \subseteq Tails
    /\ stored \subseteq Tails
    /\ policy \in Policies
    /\ savedPolicy \in Policies
    /\ policyLive \in BOOLEAN
    /\ now \in Nat
    /\ boot \in Nat
    /\ session \in [Procs -> Session]
    /\ begun \subseteq Ids
    /\ effects \subseteq Requests
    /\ lastEffect \in Requests \union {NoRequest}
    /\ faults \in Nat

\* The writers never leave a log that Read_Previous calls corrupt, which
\* would lock the receiver up for good: not after a crash, not when two
\* processes race, not when the policy is rotated or falls back on disk
\* between the load and the lock.
JournalReplays == Readable

\* A Begun record is never without its request-ID.bin on stable storage, so
\* no power loss leaves a pending request that recovery calls Corrupt.
EnvelopeKept ==
    \A i \in 1..Len(journal) :
        journal[i].kind = "begun" => RequestFile(journal[i].req) \in durable

\* "requests.log and immutable request-ID.bin records precede effects": what
\* had an effect is on record on stable storage, for every power loss to come.
IntentBeforeEffect ==
    \A r \in effects :
        /\ RequestFile(r) \in durable
        /\ \E i \in 1..synced : journal[i].kind = "begun" /\ journal[i].req = r

\* While a request is unresolved, only a recovery action of the same
\* transaction and plan is begun.
OneWork ==
    \A i \in 1..Len(journal) - 1 :
        Unresolved(journal[i]) /\ journal[i + 1].kind = "begun"
            => /\ journal[i + 1].req.action \in RecoveryActions
               /\ journal[i + 1].req.work = journal[i].req.work

\* "never space promised to an already admitted terminal record": whoever is
\* to write a record finds the log not full.
CompletionRoom ==
    \A p \in Procs :
        session[p].pc \in {"intend", "admitted", "authorized", "mark"} => Fits(1)

\* "New work retains bounded room for completion, one recovery request and
\* tail-repair records": behind unresolved new work there is room for a
\* recovery and a repair, and whatever record of the gate is torn, for a repair.
RoomRetained ==
    /\ Prior.pending /\ Prior.window.action \notin RecoveryActions
        => Fits(RecoveryRoom + RepairRoom)
    /\ tail # NoTail /\ tail.rec.kind # "unknown" => Fits(RepairRoom)

\* Both: every bound of Begin_Request and Repair_Ledger on the room is enough.
RoomKept == CompletionRoom /\ RoomRetained

\* "exact retransmission never re-executes": no request identity is admitted
\* twice, in whatever request it comes back and whatever was lost in between.
AdmittedOnce ==
    [][\A p \in Procs :
        session[p].pc \notin {"admitted", "authorized"} /\ session'[p].pc = "admitted"
            => session[p].req.id \notin begun]_vars

\* The fence: an effect under an older epoch, token or number never follows
\* one under a newer, although a Check is not repeated at the effect.
EffectsInOrder ==
    [][lastEffect' # lastEffect =>
        /\ lastEffect.epoch <= lastEffect'.epoch
        /\ \/ lastEffect.token < lastEffect'.token
           \/ /\ lastEffect.token = lastEffect'.token
              /\ lastEffect.seq < lastEffect'.seq]_vars

\* A tail is cut off only when it is in the content store and a durable
\* repair-ID.bin names it and the head of the log before it.
TailPreserved ==
    [][tail # NoTail /\ tail' # tail /\ boot' = boot =>
        /\ tail \in objects
        /\ \E f \in durable : f.tail = tail /\ f.head = journal]_vars

\* "Caller must durably preserve Export_Tail in its CAS before supplying its
\* digest": the content store still has the tail after a power loss.  It does
\* not: a Put killed before its fsync is repeated without one.
TailDurable ==
    [][tail # NoTail /\ tail' # tail /\ boot' = boot => tail \in stored]_vars

\* The part of the log that no power loss can take is the history that
\* DurableHistory promises.
Promise == INSTANCE DurableHistory WITH
    hist <- SubSeq(journal, 1, synced),
    done <- effects,
    FirstSerial <- FirstPolicy.serial

\* The gate keeps the promise through crashes, races, rotations and repairs:
\* what was fsynced is never rewritten or taken back, a request is begun at
\* most once for good, and effects belong to the request left open on disk.
KeepsPromise == Promise!Spec
=============================================================================
