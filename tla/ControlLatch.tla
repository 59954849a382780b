--------------------------- MODULE ControlLatch ---------------------------
(***************************************************************************)
(* The control latch of a receiver: controlctl makes proposals against the *)
(* state it reads, signers sign them, and MC_Control_IO.Submit archives    *)
(* and applies them, in several processes over one policy directory, with  *)
(* process kills, failed fsyncs and power losses between any two system    *)
(* calls.                                                                  *)
(*                                                                         *)
(* Disk.  `latch' is control-state.bin, <<>> when there is none; `archive' *)
(* are the control-history-HASH.bin files, each named by the state in it;  *)
(* `requests' are the control-request-ID.bin files.  `disk' is what of     *)
(* them is on stable storage.  They share one directory, so one fsync      *)
(* takes them all.                                                         *)
(***************************************************************************)
EXTENDS ControlModes

CONSTANTS
    Procs,          \* processes that may run controlctl submit
    Offers,         \* what operators may propose, see Offer
    Bundles,        \* the sets of signers that may sign together
    MaxProposals,   \* bound: proposals made
    MaxBoots,       \* bound: boots of the receiver
    MaxTime,        \* bound: the boottime clock
    MaxFaults       \* bound: kills and I/O errors

\* A proposal before it is bound to a state, a boot and an expiry.
Offer == [id : Ids, epoch : Nat \ {0}, mode : Modes, receipt : BOOLEAN, ttl : Nat \ {0}]

ASSUME OffersAssumption == Offers \subseteq Offer
ASSUME BundlesAssumption == Bundles \subseteq SUBSET Signers
ASSUME LatchBoundsAssumption ==
    /\ MaxProposals \in Nat
    /\ MaxBoots \in Nat
    /\ MaxTime \in Nat
    /\ MaxFaults \in Nat

VARIABLES
    latch,        \* the visible control-state.bin
    archive,      \* visible control-history files
    requests,     \* visible control-request files
    disk,         \* the same on stable storage
    proposals,    \* the proposals made, signed by whoever will
    session,      \* what each process is doing
    now,          \* CLOCK_BOOTTIME
    boot,         \* boot identity
    told,         \* history: the latest state a submitter was told of
    faults        \* bound: faults so far

dir == <<latch, archive, requests>>
clock == <<now, boot>>
vars == <<dir, disk, proposals, session, clock, told, faults>>
-----------------------------------------------------------------------------
(* Proposals, files and sessions.                                          *)

\* MC_Control.Proposal: Expected_State and Expected_Revision are `before'.
Proposal == [id : Ids, epoch : Nat \ {0}, mode : Modes, receipt : BOOLEAN,
             before : Seq(Change), boot : Nat, expires : Nat]

\* Record_Data: the proposal and its bundle of signatures.
Submission == [prop : Proposal, signers : Bundles]

Disk == [latch : Seq(Change), archive : SUBSET Seq(Change), requests : SUBSET Submission]

\* Where a submission stands; in all but "closed" it holds control.lock.
Steps == {"before",                   \* history file of the state before
          "request", "requestKept",   \* request file
          "after", "afterKept",       \* history file of the state after
          "recheck", "publish", "published"}

Closed == [pc |-> "closed"]

Session == {Closed} \union [pc : Steps, sub : Submission]

ChangeOf(prop) == [id |-> prop.id, epoch |-> prop.epoch, mode |-> prop.mode]

After(p) == Append(latch, ChangeOf(session[p].sub.prop))

LockFree == \A q \in Procs : session[q].pc = "closed"

Goto(p, pc) == session' = [session EXCEPT ![p].pc = pc]
Close(p)    == session' = [session EXCEPT ![p] = Closed]

\* fsync of the policy directory.
SyncDirectory == disk' = [latch |-> latch, archive |-> archive, requests |-> requests]
-----------------------------------------------------------------------------
(* Making a proposal.                                                      *)

\* controlctl make-proposal.
MakeProposal(o) ==
    /\ Cardinality(proposals) < MaxProposals
    /\ proposals' = proposals \union
            {[id |-> o.id, epoch |-> o.epoch, mode |-> o.mode, receipt |-> o.receipt,
              before |-> latch, boot |-> boot, expires |-> now + o.ttl]}
    /\ UNCHANGED <<dir, disk, session, clock, told, faults>>
-----------------------------------------------------------------------------
(* MC_Control_IO.Submit.                                                   *)

\* Faults: the boot of the proposal is not compared; the first state may be
\* any; a release needs no more signatures than another change.
DecideAnyBoot(prop, signers) ==
    /\ now < prop.expires
    /\ prop.before = latch
    /\ Follows(latch, prop)
    /\ Enough(signers)
    /\ Relaxes(latch, prop) => Independent(signers) /\ prop.receipt
DecideAnyStart(prop, signers) ==
    /\ prop.boot = boot
    /\ now < prop.expires
    /\ prop.before = latch
    /\ latch # <<>> => Follows(latch, prop)
    /\ Enough(signers)
    /\ Relaxes(latch, prop) => Independent(signers) /\ prop.receipt
DecideByAnyone(prop, signers) ==
    /\ prop.boot = boot
    /\ now < prop.expires
    /\ prop.before = latch
    /\ Follows(latch, prop)
    /\ Enough(signers)
    /\ Relaxes(latch, prop) => prop.receipt

\* MC_Control.Decide; a proposal is a change with more to it.
Decide(prop, signers) ==
    /\ prop.boot = boot
    /\ now < prop.expires
    /\ prop.before = latch
    /\ Follows(latch, prop)
    /\ Enough(signers)
    /\ Relaxes(latch, prop) => Independent(signers) /\ prop.receipt

\* The proposal bears the identity of the last change.
Repeated(sub) == latch # <<>> /\ Last(latch).id = sub.prop.id

\* MC_FS.Open_Locked takes the flock, then fsyncs the policy directory.
Open(p, sub) ==
    /\ session[p].pc = "closed"
    /\ LockFree
    /\ SyncDirectory
    /\ UNCHANGED <<dir, proposals, clock, faults>>

\* Exact acknowledged retry only.
SubmitRetry(p, sub) ==
    /\ Open(p, sub)
    /\ Repeated(sub)
    /\ sub \in requests
    /\ told' = latch
    /\ UNCHANGED session

SubmitAccept(p, sub) ==
    /\ Open(p, sub)
    /\ ~Repeated(sub)
    /\ Decide(sub.prop, sub.signers)
    /\ session' = [session EXCEPT ![p] =
            [pc |-> IF latch = <<>> THEN "request" ELSE "before", sub |-> sub]]
    /\ UNCHANGED told

SubmitRefuse(p, sub) ==
    /\ Open(p, sub)
    /\ IF Repeated(sub) THEN sub \notin requests ELSE ~Decide(sub.prop, sub.signers)
    /\ UNCHANGED <<session, told>>

\* Preserve of the state before compares the file that is there: whoever made
\* that state has kept it, as ChangesAccountedFor shows, so nothing is written.
KeepBefore(p) ==
    /\ session[p].pc = "before"
    /\ latch \in archive
    /\ Goto(p, "request")
    /\ UNCHANGED <<dir, disk, proposals, clock, told, faults>>

\* Preserve of the state after: a file already there has the same content.
KeepAfter(p) ==
    /\ session[p].pc = "after"
    /\ archive' = archive \union {After(p)}
    /\ Goto(p, IF After(p) \in archive THEN "recheck" ELSE "afterKept")
    /\ UNCHANGED <<latch, requests, disk, proposals, clock, told, faults>>

\* Preserve of the request file, which is named by the identity alone.
KeepRequest(p) ==
    LET sub == session[p].sub IN
    /\ session[p].pc = "request"
    /\ \/ /\ \A r \in requests : r.prop.id # sub.prop.id
          /\ requests' = requests \union {sub}
          /\ Goto(p, "requestKept")
       \/ /\ sub \in requests
          /\ Goto(p, "after")
          /\ UNCHANGED requests
       \/ /\ sub \notin requests
          /\ \E r \in requests : r.prop.id = sub.prop.id
          /\ Close(p)
          /\ UNCHANGED requests
    /\ UNCHANGED <<latch, archive, disk, proposals, clock, told, faults>>

SyncKept(p, at, next) ==
    /\ session[p].pc = at
    /\ SyncDirectory
    /\ Goto(p, next)
    /\ UNCHANGED <<dir, proposals, clock, told, faults>>

SyncRequest(p) == SyncKept(p, "requestKept", "after")
SyncAfter(p)   == SyncKept(p, "afterKept", "recheck")

\* The lifetime is checked again after the archive writes.
Recheck(p) ==
    /\ session[p].pc = "recheck"
    /\ IF now < session[p].sub.prop.expires THEN Goto(p, "publish") ELSE Close(p)
    /\ UNCHANGED <<dir, disk, proposals, clock, told, faults>>

PublishState(p) ==
    /\ session[p].pc = "publish"
    /\ latch' = After(p)
    /\ Goto(p, "published")
    /\ UNCHANGED <<archive, requests, disk, proposals, clock, told, faults>>

\* Fault: OK is returned without the fsync.
AnswerUnsynced(p) ==
    /\ session[p].pc = "published"
    /\ told' = latch
    /\ Close(p)
    /\ UNCHANGED <<dir, disk, proposals, clock, faults>>

\* The state is durable and reads back: OK is returned.
Answer(p) ==
    /\ session[p].pc = "published"
    /\ SyncDirectory
    /\ told' = latch
    /\ Close(p)
    /\ UNCHANGED <<dir, proposals, clock, faults>>
-----------------------------------------------------------------------------
(* The environment.                                                        *)

\* A kill, or an error return of a system call: the lock goes, the files stay.
Fail(p) ==
    /\ session[p].pc # "closed"
    /\ faults < MaxFaults
    /\ Close(p)
    /\ faults' = faults + 1
    /\ UNCHANGED <<dir, disk, proposals, clock, told>>

\* Whatever was not fsynced may be lost, each file for itself.
PowerLoss ==
    /\ boot < MaxBoots
    /\ latch' \in {latch, disk.latch}
    /\ \E lost \in SUBSET (archive \ disk.archive) : archive' = archive \ lost
    /\ \E lost \in SUBSET (requests \ disk.requests) : requests' = requests \ lost
    /\ disk' = [latch |-> latch', archive |-> archive', requests |-> requests']
    /\ session' = [p \in Procs |-> Closed]
    /\ boot' = boot + 1
    /\ now' = 0
    /\ UNCHANGED <<proposals, told, faults>>

Tick ==
    /\ now < MaxTime
    /\ now' = now + 1
    /\ UNCHANGED <<dir, disk, proposals, session, boot, told, faults>>
-----------------------------------------------------------------------------

Init ==
    /\ latch = <<>>
    /\ archive = {}
    /\ requests = {}
    /\ disk = [latch |-> <<>>, archive |-> {}, requests |-> {}]
    /\ proposals = {}
    /\ session = [p \in Procs |-> Closed]
    /\ now = 0
    /\ boot = 1
    /\ told = <<>>
    /\ faults = 0

Submit(p) ==
    \E prop \in proposals, signers \in Bundles :
        LET sub == [prop |-> prop, signers |-> signers] IN
        SubmitRetry(p, sub) \/ SubmitAccept(p, sub) \/ SubmitRefuse(p, sub)

Step(p) ==
    \/ KeepBefore(p) \/ KeepRequest(p) \/ SyncRequest(p)
    \/ KeepAfter(p) \/ SyncAfter(p) \/ Recheck(p) \/ PublishState(p) \/ Answer(p)

Next ==
    \/ \E p \in Procs : Submit(p) \/ Step(p) \/ Fail(p)
    \/ \E o \in Offers : MakeProposal(o)
    \/ PowerLoss \/ Tick

Spec == Init /\ [][Next]_vars
-----------------------------------------------------------------------------
(* Correctness.                                                            *)

\* The policy directory and the submissions are well formed: what is durable
\* is visible, and at most the last change of the latch is not durable.
TypeOK ==
    /\ latch \in Seq(Change)
    /\ archive \subseteq Seq(Change)
    /\ requests \subseteq Submission
    /\ disk \in Disk
    /\ disk.archive \subseteq archive
    /\ disk.requests \subseteq requests
    /\ proposals \subseteq Proposal
    /\ session \in [Procs -> Session]
    /\ now \in Nat
    /\ boot \in Nat
    /\ told \in Seq(Change)
    /\ faults \in Nat

\* A request file that accounts for change i of the latch: the proposal was
\* made for the state before it, and enough of the right people signed it.
AccountsFor(r, i) ==
    LET before == SubSeq(latch, 1, i - 1) IN
    /\ ChangeOf(r.prop) = latch[i]
    /\ r.prop.before = before
    /\ Enough(r.signers)
    /\ Relaxes(before, latch[i]) => Independent(r.signers) /\ r.prop.receipt

\* "Every accepted state and proposal is retained before the current pointer
\* is replaced": whatever state is visible, every change that led to it has
\* its state and its signed request on stable storage, so that no crash leaves
\* a latch in force that cannot be accounted for.
ChangesAccountedFor ==
    \A i \in 1..Len(latch) :
        /\ SubSeq(latch, 1, i) \in disk.archive
        /\ \E r \in disk.requests : AccountsFor(r, i)

\* "A write failure after publication is indeterminate, never success": a
\* change whose submitter was told OK is part of every state from then on,
\* through kills and power losses.
ToldIsKept ==
    /\ Len(told) <= Len(disk.latch)
    /\ told = SubSeq(disk.latch, 1, Len(told))

\* An approval given before a reboot takes no effect after it: the latch
\* only moves on by a proposal for the boot that is running.
OnlyThisBoot ==
    [][latch' # latch /\ boot' = boot =>
        \E r \in requests : ChangeOf(r.prop) = latch'[Len(latch')] /\ r.prop.boot = boot]_vars

\* The changes on stable storage, and what submitters were told, behave as
\* AuditedLatch says.
Audited == INSTANCE AuditedLatch WITH hist <- disk.latch

\* Submissions that race, are repeated, reuse an identity or are cut off by
\* crashes apply each request at most once, in one history of changes.
KeepsHistory == Audited!Spec
=============================================================================
