------------------------- MODULE ControlLatchProofs -------------------------
(***************************************************************************)
(* The control latch, proved for any number of submitting processes, any   *)
(* proposals and authority, and without the bounds.                        *)
(*                                                                         *)
(* The invariants come in layers, each inductive with the ones before:     *)
(*   Types      TypeOK, and at most one process holds control.lock;        *)
(*   DiskInv    what the holder of the lock finds and leaves on disk;      *)
(*   HeldInv    what a submission under way has been decided on;           *)
(*   AuditInv   the latch is accounted for, change by change.              *)
(***************************************************************************)
EXTENDS ControlLatch, TLAPS

-----------------------------------------------------------------------------
(* Types and the lock.                                                     *)

Holds(p) == session[p].pc # "closed"

Exclusive == \A p, q \in Procs : Holds(p) /\ Holds(q) => p = q

Types == TypeOK /\ Exclusive

\* The step of p that leaves it at pc, or ends it.
Moves(p, pc) ==
    /\ session' \in [Procs -> Session]
    /\ session'[p].pc = pc
    /\ session[p].pc # "closed" => session'[p].sub = session[p].sub
    /\ \A q \in Procs : q # p => session'[q] = session[q]

Ends(p) ==
    /\ session' \in [Procs -> Session]
    /\ session'[p].pc = "closed"
    /\ \A q \in Procs : q # p => session'[q] = session[q]

\* A session that is not closed is at one of the steps, with a submission.
LEMMA SessionCases ==
    ASSUME NEW s \in Session, s.pc # "closed"
    PROVE  s.pc \in Steps /\ s.sub \in Submission /\ s = [pc |-> s.pc, sub |-> s.sub]
  BY DEF Session, Closed, Steps

\* What Goto does to the sessions.
LEMMA GotoMoves ==
    ASSUME session \in [Procs -> Session], NEW p \in Procs, Holds(p),
           NEW pc \in Steps, Goto(p, pc)
    PROVE  Moves(p, pc)
  <1>1. /\ session[p] = [pc |-> session[p].pc, sub |-> session[p].sub]
        /\ session[p].sub \in Submission
    BY SessionCases DEF Holds
  <1>2. [session[p] EXCEPT !.pc = pc] = [pc |-> pc, sub |-> session[p].sub]
    BY <1>1
  <1>3. [pc |-> pc, sub |-> session[p].sub] \in Session
    BY <1>1 DEF Session
  <1>. QED
    BY <1>2, <1>3 DEF Goto, Moves

\* What Close does to the sessions.
LEMMA CloseEnds ==
    ASSUME session \in [Procs -> Session], NEW p \in Procs, Close(p)
    PROVE  Ends(p)
  BY DEF Close, Ends, Session, Closed

\* A change of a proposal, and the state that it makes.
LEMMA ChangeType ==
    ASSUME NEW prop \in Proposal
    PROVE  ChangeOf(prop) \in Change
  BY DEF ChangeOf, Proposal, Change

\* The state that a submission under way is to make.
LEMMA AfterType ==
    ASSUME TypeOK, NEW p \in Procs, Holds(p)
    PROVE  After(p) \in Seq(Change)
  <1>1. session[p].sub.prop \in Proposal
    BY SessionCases DEF TypeOK, Holds, Submission
  <1>. QED
    BY <1>1, ChangeType DEF TypeOK, After

\* A fsync of the policy directory.
LEMMA SyncType ==
    ASSUME TypeOK, SyncDirectory, UNCHANGED dir
    PROVE  /\ disk' \in Disk
           /\ disk'.archive \subseteq archive'
           /\ disk'.requests \subseteq requests'
  BY DEF TypeOK, SyncDirectory, Disk, dir

\* Every step keeps the types and the lock's exclusion.
LEMMA TypesStep ==
    ASSUME Types, Next
    PROVE  Types'
  <1>0. TypeOK /\ Exclusive /\ session \in [Procs -> Session]
    BY DEF Types, TypeOK
  <1>1. ASSUME NEW p \in Procs, Step(p)
        PROVE  Types'
    <2>0. Holds(p)
      BY <1>1 DEF Step, Holds, KeepBefore, KeepAfter, SyncRequest,
                  SyncAfter, SyncKept, KeepRequest, Recheck, PublishState, Answer
    <2>1. ASSUME NEW pc \in Steps, Goto(p, pc)
          PROVE  session' \in [Procs -> Session] /\ Exclusive'
      BY <1>0, <2>0, <2>1, GotoMoves DEF Moves, Exclusive, Holds
    <2>2. ASSUME Close(p)
          PROVE  session' \in [Procs -> Session] /\ Exclusive'
      BY <1>0, <2>2, CloseEnds DEF Ends, Exclusive, Holds
    <2>3. CASE KeepBefore(p) \/ KeepAfter(p)
      <3>1. latch \in Seq(Change) /\ After(p) \in Seq(Change)
        BY <1>0, <2>0, AfterType DEF TypeOK
      <3>2. /\ archive' \subseteq Seq(Change) /\ archive \subseteq archive'
            /\ \E pc \in Steps : Goto(p, pc)
            /\ UNCHANGED <<latch, requests, disk, proposals, clock, told, faults>>
        BY <1>0, <2>3, <3>1 DEF KeepBefore, KeepAfter, TypeOK, Steps, dir
      <3>. QED
        BY <1>0, <2>1, <3>2 DEF TypeOK, Types, clock
    <2>4. CASE SyncRequest(p) \/ SyncAfter(p)
      <3>1. /\ SyncDirectory
            /\ \E pc \in Steps : Goto(p, pc)
            /\ UNCHANGED <<dir, proposals, clock, told, faults>>
        BY <2>4 DEF SyncRequest, SyncAfter, SyncKept, Steps
      <3>. QED
        BY <1>0, <2>1, <3>1, SyncType DEF TypeOK, Types, clock, dir
    <2>5. CASE KeepRequest(p)
      <3>1. session[p].sub \in Submission
        BY <1>0, <2>0, SessionCases DEF Holds
      <3>2. /\ requests' \subseteq Submission /\ requests \subseteq requests'
            /\ (\E pc \in Steps : Goto(p, pc)) \/ Close(p)
            /\ UNCHANGED <<latch, archive, disk, proposals, clock, told, faults>>
        BY <1>0, <2>5, <3>1 DEF KeepRequest, TypeOK, Steps
      <3>. QED
        BY <1>0, <2>1, <2>2, <3>2 DEF TypeOK, Types, clock
    <2>6. CASE Recheck(p)
      <3>1. /\ (\E pc \in Steps : Goto(p, pc)) \/ Close(p)
            /\ UNCHANGED <<dir, disk, proposals, clock, told, faults>>
        BY <2>6 DEF Recheck, Steps
      <3>. QED
        BY <1>0, <2>1, <2>2, <3>1 DEF TypeOK, Types, clock, dir
    <2>7. CASE PublishState(p)
      <3>1. After(p) \in Seq(Change)
        BY <1>0, <2>0, AfterType
      <3>2. "published" \in Steps
        BY DEF Steps
      <3>. QED
        BY <1>0, <2>1, <2>7, <3>1, <3>2 DEF PublishState, TypeOK, Types, clock
    <2>8. CASE Answer(p)
      BY <1>0, <2>2, <2>8, SyncType DEF Answer, TypeOK, Types, clock, dir
    <2>. QED
      BY <1>1, <2>3, <2>4, <2>5, <2>6, <2>7, <2>8 DEF Step
  <1>2. ASSUME NEW p \in Procs, Submit(p)
        PROVE  Types'
    <2>1. PICK prop \in proposals, signers \in Bundles :
             \/ SubmitRetry(p, [prop |-> prop, signers |-> signers])
             \/ SubmitAccept(p, [prop |-> prop, signers |-> signers])
             \/ SubmitRefuse(p, [prop |-> prop, signers |-> signers])
      BY <1>2 DEF Submit
    <2>. DEFINE sub == [prop |-> prop, signers |-> signers]
    <2>2. sub \in Submission
      BY <1>0 DEF TypeOK, Submission
    <2>3. /\ LockFree /\ SyncDirectory
          /\ UNCHANGED <<dir, proposals, clock, faults>>
          /\ told' \in {told, latch}
      BY <2>1 DEF SubmitRetry, SubmitAccept, SubmitRefuse, Open
    <2>4. session' \in [Procs -> Session] /\ Exclusive'
      <3>1. CASE session' = session
        BY <1>0, <3>1 DEF Exclusive, Holds
      <3>2. CASE SubmitAccept(p, sub)
        <4>1. PICK pc \in Steps : session' = [session EXCEPT ![p] = [pc |-> pc, sub |-> sub]]
          BY <3>2 DEF SubmitAccept, Steps
        <4>2. [pc |-> pc, sub |-> sub] \in Session
          BY <2>2 DEF Session
        <4>3. session' \in [Procs -> Session]
          BY <1>0, <4>1, <4>2
        <4>4. \A q \in Procs : q # p => ~Holds(q)'
          BY <1>0, <2>3, <4>1 DEF LockFree, Holds
        <4>. QED
          BY <4>3, <4>4 DEF Exclusive
      <3>. QED
        BY <2>1, <3>1, <3>2 DEF SubmitRetry, SubmitRefuse
    <2>. QED
      BY <1>0, <2>3, <2>4, SyncType DEF TypeOK, Types, clock, dir
  <1>3. ASSUME NEW p \in Procs, Fail(p)
        PROVE  Types'
    <2>1. session' \in [Procs -> Session] /\ Exclusive'
      BY <1>0, <1>3, CloseEnds DEF Fail, Ends, Exclusive, Holds
    <2>. QED
      BY <1>0, <1>3, <2>1 DEF Fail, TypeOK, Types, clock, dir
  <1>4. ASSUME NEW o \in Offers, MakeProposal(o)
        PROVE  Types'
    <2>1. o \in Offer
      BY OffersAssumption
    <2>2. [id |-> o.id, epoch |-> o.epoch, mode |-> o.mode, receipt |-> o.receipt,
           before |-> latch, boot |-> boot, expires |-> now + o.ttl] \in Proposal
      BY <1>0, <2>1 DEF Offer, Proposal, TypeOK
    <2>3. proposals' \subseteq Proposal
      BY <1>0, <1>4, <2>2 DEF MakeProposal, TypeOK
    <2>. QED
      BY <1>0, <1>4, <2>3 DEF MakeProposal, TypeOK, Types, Exclusive, Holds, clock, dir
  <1>5. CASE PowerLoss
    <2>1. /\ latch' \in Seq(Change) /\ archive' \subseteq Seq(Change)
          /\ requests' \subseteq Submission
      BY <1>0, <1>5 DEF PowerLoss, TypeOK, Disk
    <2>2. /\ disk' \in Disk /\ disk'.archive \subseteq archive'
          /\ disk'.requests \subseteq requests'
      BY <1>5, <2>1 DEF PowerLoss, Disk
    <2>3. session' \in [Procs -> Session] /\ Exclusive'
      BY <1>5 DEF PowerLoss, Session, Closed, Exclusive, Holds
    <2>. QED
      BY <1>0, <1>5, <2>1, <2>2, <2>3 DEF PowerLoss, TypeOK, Types
  <1>6. CASE Tick
    BY <1>0, <1>6 DEF Tick, TypeOK, Types, Exclusive, Holds, dir
  <1>. QED
    BY <1>1, <1>2, <1>3, <1>4, <1>5, <1>6 DEF Next

-----------------------------------------------------------------------------
(* The invariants of a submission and of the latch.                        *)

Synced == disk = [latch |-> latch, archive |-> archive, requests |-> requests]

\* The visible state is the durable one, or the one change after it.
AtMostOneAhead ==
    \/ latch = disk.latch
    \/ latch # <<>> /\ latch = Append(disk.latch, Last(latch))

\* Whoever holds the lock has synced the directory, but for what it did last.
HolderOnDisk(p) ==
    /\ session[p].pc \in {"before", "request", "after", "recheck", "publish"} => Synced
    /\ session[p].pc \in {"requestKept", "afterKept"} => latch = disk.latch

DiskInv == AtMostOneAhead /\ \A p \in Procs : HolderOnDisk(p)

\* Decide's verdict on the submission of p, up to the publication.
StillDecided(p) ==
    LET sub == session[p].sub
        c == ChangeOf(sub.prop) IN
    /\ sub.prop.boot = boot
    /\ session[p].pc # "published" =>
         /\ sub.prop.before = latch
         /\ Follows(latch, c)
         /\ Enough(sub.signers)
         /\ Relaxes(latch, c) => Independent(sub.signers) /\ sub.prop.receipt

\* What it has archived so far.
Archived(p) ==
    /\ session[p].pc \in {"requestKept", "after", "afterKept", "recheck", "publish"} =>
         session[p].sub \in requests
    /\ session[p].pc \in {"afterKept", "recheck", "publish"} => After(p) \in archive

HeldInv == \A p \in Procs : Holds(p) => StillDecided(p) /\ Archived(p)

\* A request file is named by its identity.
NamedById == \A r, s \in requests : r.prop.id = s.prop.id => r = s

AllFollow == \A i \in 1..Len(latch) : Follows(SubSeq(latch, 1, i - 1), latch[i])

AuditInv == NamedById /\ AllFollow /\ ChangesAccountedFor /\ ToldIsKept

Inv == Types /\ DiskInv /\ HeldInv /\ AuditInv
-----------------------------------------------------------------------------
(* Steps of the holder.                                                    *)

\* A state one change longer.
LEMMA GrownLatch ==
    ASSUME NEW s \in Seq(Change), NEW c \in Change
    PROVE  /\ Append(s, c) \in Seq(Change)
           /\ Append(s, c) # <<>>
           /\ Len(Append(s, c)) = Len(s) + 1
           /\ Last(Append(s, c)) = c
           /\ \A i \in 1..Len(s) : Append(s, c)[i] = s[i]
           /\ \A i \in 0..Len(s) : SubSeq(Append(s, c), 1, i) = SubSeq(s, 1, i)
           /\ SubSeq(Append(s, c), 1, Len(s) + 1) = Append(s, c)
           /\ SubSeq(s, 1, Len(s)) = s
  <1>1. /\ Append(s, c) \in Seq(Change) /\ Append(s, c) # <<>>
        /\ Len(Append(s, c)) = Len(s) + 1 /\ Last(Append(s, c)) = c
        /\ \A i \in 1..Len(s) : Append(s, c)[i] = s[i]
    BY DEF Last
  <1>2. \A i \in 0..Len(s) : SubSeq(Append(s, c), 1, i) = SubSeq(s, 1, i)
    BY <1>1
  <1>3. SubSeq(Append(s, c), 1, Len(s) + 1) = Append(s, c)
    BY <1>1
  <1>4. SubSeq(s, 1, Len(s)) = s
    OBVIOUS
  <1>. QED
    BY <1>1, <1>2, <1>3, <1>4

\* The holder of the lock is the only one with anything to keep to.
LEMMA OnlyHolder ==
    ASSUME Types, NEW p \in Procs, Holds(p),
           (\E pc \in Steps : Moves(p, pc)) \/ Ends(p)
    PROVE  \A q \in Procs : q # p => ~Holds(q)'
  BY DEF Types, Exclusive, Holds, Moves, Ends

\* Every step on a session is a move of its holder, or its end.
LEMMA StepMoves ==
    ASSUME Types, NEW p \in Procs, Step(p)
    PROVE  /\ Holds(p)
           /\ (\E pc \in Steps : Moves(p, pc)) \/ Ends(p)
  <1>1. Holds(p) /\ session \in [Procs -> Session]
    BY DEF Types, TypeOK, Step, Holds, KeepBefore, KeepAfter, SyncRequest, SyncAfter, SyncKept,
           KeepRequest, Recheck, PublishState, Answer
  <1>2. (\E pc \in Steps : Goto(p, pc)) \/ Close(p)
    BY DEF Step, Steps, KeepBefore, KeepAfter, SyncRequest, SyncAfter,
           SyncKept, KeepRequest, Recheck, PublishState, Answer
  <1>. QED
    BY <1>1, <1>2, GotoMoves, CloseEnds

\* Submit leaves every session as it was, or opens one at a decided proposal.
LEMMA SubmitOpens ==
    ASSUME Types, NEW p \in Procs, Submit(p)
    PROVE  /\ LockFree /\ SyncDirectory /\ UNCHANGED <<dir, proposals, clock, faults>>
           /\ told' \in {told, latch}
           /\ \/ session' = session
              \/ \E prop \in Proposal, signers \in Bundles :
                    /\ Decide(prop, signers)
                    /\ session'[p].pc \in {"before", "request"}
                    /\ session'[p].sub = [prop |-> prop, signers |-> signers]
                    /\ \A q \in Procs : q # p => ~Holds(q)'
  <1>1. PICK prop \in proposals, signers \in Bundles :
           \/ SubmitRetry(p, [prop |-> prop, signers |-> signers])
           \/ SubmitAccept(p, [prop |-> prop, signers |-> signers])
           \/ SubmitRefuse(p, [prop |-> prop, signers |-> signers])
    BY DEF Submit
  <1>. DEFINE sub == [prop |-> prop, signers |-> signers]
  <1>2. /\ LockFree /\ SyncDirectory /\ UNCHANGED <<dir, proposals, clock, faults>>
        /\ told' \in {told, latch}
        /\ session' = session \/ SubmitAccept(p, sub)
    BY <1>1 DEF SubmitRetry, SubmitAccept, SubmitRefuse, Open
  <1>3. CASE SubmitAccept(p, sub)
    <2>1. prop \in Proposal /\ session \in [Procs -> Session]
      BY DEF Types, TypeOK
    <2>2. PICK pc \in {"before", "request"} :
             session' = [session EXCEPT ![p] = [pc |-> pc, sub |-> sub]]
      BY <1>3 DEF SubmitAccept
    <2>3. session'[p] = [pc |-> pc, sub |-> sub]
      BY <2>1, <2>2
    <2>4. \A q \in Procs : q # p => ~Holds(q)'
      BY <1>2, <2>1, <2>2 DEF LockFree, Holds
    <2>5. Decide(prop, signers)
      BY <1>3 DEF SubmitAccept
    <2>. QED
      BY <1>2, <2>1, <2>3, <2>4, <2>5
  <1>. QED
    BY <1>2, <1>3

-----------------------------------------------------------------------------
(* What is on disk.                                                        *)

\* Every step keeps the visible state at most one change ahead of the disk,
\* and the holder of the lock synced.
LEMMA DiskStep ==
    ASSUME Types, DiskInv, Next
    PROVE  DiskInv'
  <1>0. TypeOK /\ Exclusive /\ session \in [Procs -> Session]
    BY DEF Types, TypeOK
  <1>1. ASSUME NEW p \in Procs, Step(p)
        PROVE  DiskInv'
    <2>1. Holds(p) /\ \A q \in Procs : q # p => ~Holds(q)'
      BY <1>1, StepMoves, OnlyHolder
    <2>2. ASSUME AtMostOneAhead', HolderOnDisk(p)'
          PROVE  DiskInv'
      BY <2>1, <2>2 DEF DiskInv, HolderOnDisk, Holds
    <2>3. ASSUME NEW pc \in Steps, Goto(p, pc)
          PROVE  session'[p].pc = pc
      BY <1>0, <2>1, <2>3, GotoMoves DEF Moves
    <2>4. Close(p) => session'[p].pc = "closed"
      BY <1>0, CloseEnds DEF Ends
    <2>5. AtMostOneAhead /\ HolderOnDisk(p)
      BY DEF DiskInv
    <2>6. CASE KeepBefore(p) \/ KeepAfter(p)
      <3>1. /\ Synced /\ UNCHANGED <<latch, requests, disk>>
            /\ \/ session'[p].pc = "afterKept"
               \/ session'[p].pc \in {"request", "recheck"} /\ archive' = archive
        BY <2>3, <2>5, <2>6 DEF KeepBefore, KeepAfter, HolderOnDisk, Steps, dir
      <3>. QED
        BY <2>2, <3>1 DEF HolderOnDisk, Synced, AtMostOneAhead
    <2>7. CASE SyncRequest(p) \/ SyncAfter(p)
      <3>1. SyncDirectory /\ UNCHANGED dir
        BY <2>7 DEF SyncRequest, SyncAfter, SyncKept
      <3>2. Synced' /\ latch' = disk'.latch
        BY <3>1 DEF SyncDirectory, Synced, dir
      <3>. QED
        BY <2>2, <3>2 DEF HolderOnDisk, AtMostOneAhead
    <2>8. CASE KeepRequest(p)
      <3>1. /\ Synced /\ UNCHANGED <<latch, archive, disk>>
            /\ \/ session'[p].pc = "requestKept"
               \/ session'[p].pc \in {"after", "closed"} /\ requests' = requests
        BY <2>3, <2>4, <2>5, <2>8 DEF KeepRequest, HolderOnDisk, Steps
      <3>. QED
        BY <2>2, <3>1 DEF HolderOnDisk, Synced, AtMostOneAhead
    <2>9. CASE Recheck(p)
      <3>1. /\ Synced /\ UNCHANGED <<dir, disk>>
            /\ session'[p].pc \in {"publish", "closed"}
        BY <2>3, <2>4, <2>5, <2>9 DEF Recheck, HolderOnDisk, Steps
      <3>. QED
        BY <2>2, <3>1 DEF HolderOnDisk, Synced, AtMostOneAhead, dir
    <2>10. CASE PublishState(p)
      <3>1. latch = disk.latch /\ session'[p].pc = "published" /\ disk' = disk
        BY <2>3, <2>5, <2>10 DEF PublishState, HolderOnDisk, Synced, Steps
      <3>2. ChangeOf(session[p].sub.prop) \in Change
        BY <1>0, <2>1, SessionCases, ChangeType DEF Holds, Submission
      <3>3. AtMostOneAhead'
        BY <1>0, <2>10, <3>1, <3>2, GrownLatch DEF PublishState, After, AtMostOneAhead, TypeOK
      <3>. QED
        BY <2>2, <3>1, <3>3 DEF HolderOnDisk
    <2>11. CASE Answer(p)
      BY <2>2, <2>4, <2>11 DEF Answer, HolderOnDisk, AtMostOneAhead, SyncDirectory, dir
    <2>. QED
      BY <1>1, <2>6, <2>7, <2>8, <2>9, <2>10, <2>11 DEF Step
  <1>2. ASSUME NEW p \in Procs, Submit(p)
        PROVE  DiskInv'
    <2>1. SyncDirectory /\ UNCHANGED dir
      BY <1>2, SubmitOpens
    <2>2. Synced' /\ latch' = disk'.latch
      BY <2>1 DEF SyncDirectory, Synced, dir
    <2>. QED
      BY <2>2 DEF DiskInv, HolderOnDisk, AtMostOneAhead
  <1>3. ASSUME NEW p \in Procs, Fail(p)
        PROVE  DiskInv'
    <2>1. Ends(p) /\ UNCHANGED <<dir, disk>>
      BY <1>0, <1>3, CloseEnds DEF Fail
    <2>. QED
      BY <2>1 DEF Ends, DiskInv, HolderOnDisk, AtMostOneAhead, Synced, dir
  <1>4. CASE Tick \/ \E o \in Offers : MakeProposal(o)
    BY <1>4 DEF Tick, MakeProposal, DiskInv, HolderOnDisk, AtMostOneAhead, Synced, dir
  <1>5. CASE PowerLoss
    BY <1>5 DEF PowerLoss, DiskInv, HolderOnDisk, AtMostOneAhead, Closed
  <1>. QED
    BY <1>1, <1>2, <1>3, <1>4, <1>5 DEF Next

-----------------------------------------------------------------------------
(* What a submission rests on.                                             *)

\* While files are only added and the latch does not move, what a submission
\* was decided on stays so.
LEMMA DecidedStays ==
    ASSUME NEW p \in Procs, Holds(p), StillDecided(p), session[p].pc # "published",
           UNCHANGED <<latch, boot>>, session'[p].sub = session[p].sub
    PROVE  StillDecided(p)' /\ After(p)' = After(p)
  <1>1. StillDecided(p)'
    BY DEF StillDecided, Follows, Relaxes, ChangeOf, Last
  <1>2. After(p)' = After(p)
    BY DEF After, ChangeOf
  <1>. QED
    BY <1>1, <1>2

\* Every step keeps what the submissions under way rest on.
LEMMA HeldStep ==
    ASSUME Types, HeldInv, Next
    PROVE  HeldInv'
  <1>0. TypeOK /\ Exclusive /\ session \in [Procs -> Session]
    BY DEF Types, TypeOK
  <1>1. ASSUME NEW p \in Procs, Step(p)
        PROVE  HeldInv'
    <2>1. Holds(p) /\ \A q \in Procs : q # p => ~Holds(q)'
      BY <1>1, StepMoves, OnlyHolder
    <2>2. StillDecided(p) /\ Archived(p)
      BY <2>1 DEF HeldInv
    <2>3. ASSUME NEW pc \in Steps, Goto(p, pc)
          PROVE  session'[p].pc = pc /\ session'[p].sub = session[p].sub
      BY <1>0, <2>1, <2>3, GotoMoves DEF Moves, Holds
    <2>4. Close(p) => HeldInv'
      BY <1>0, <2>1, CloseEnds DEF HeldInv, Ends, Holds
    <2>5. ASSUME StillDecided(p)', Archived(p)'
          PROVE  HeldInv'
      BY <2>1, <2>5 DEF HeldInv
    <2>6. CASE KeepBefore(p)
      <3>1. /\ session[p].pc = "before" /\ UNCHANGED <<latch, boot>>
            /\ session'[p].pc = "request"
            /\ session'[p].sub = session[p].sub
        BY <2>3, <2>6 DEF KeepBefore, Steps, clock, dir
      <3>. QED
        BY <2>1, <2>2, <2>5, <3>1, DecidedStays DEF Archived
    <2>7. CASE KeepAfter(p)
      <3>1. /\ session[p].pc = "after" /\ UNCHANGED <<latch, requests, boot>>
            /\ session'[p].pc \in {"afterKept", "recheck"}
            /\ session'[p].sub = session[p].sub
            /\ After(p) \in archive'
        BY <2>3, <2>7 DEF KeepAfter, Steps, clock
      <3>. QED
        BY <2>1, <2>2, <2>5, <3>1, DecidedStays DEF Archived
    <2>8. CASE SyncRequest(p) \/ SyncAfter(p)
      <3>1. /\ UNCHANGED <<latch, archive, requests, boot>>
            /\ session'[p].sub = session[p].sub
            /\ \/ session[p].pc = "requestKept" /\ session'[p].pc = "after"
               \/ session[p].pc = "afterKept" /\ session'[p].pc = "recheck"
        BY <2>3, <2>8 DEF SyncRequest, SyncAfter, SyncKept, Steps, clock, dir
      <3>. QED
        BY <2>1, <2>2, <2>5, <3>1, DecidedStays DEF Archived
    <2>9. CASE KeepRequest(p)
      <3>1. CASE Close(p)
        BY <2>4, <3>1
      <3>2. CASE ~Close(p)
        <4>1. /\ session[p].pc = "request" /\ UNCHANGED <<latch, boot>>
              /\ session'[p].pc \in {"requestKept", "after"}
              /\ session'[p].sub = session[p].sub
              /\ session[p].sub \in requests'
          BY <2>3, <2>9, <3>2 DEF KeepRequest, Steps, clock
        <4>. QED
          BY <2>1, <2>2, <2>5, <4>1, DecidedStays DEF Archived
      <3>. QED
        BY <3>1, <3>2
    <2>10. CASE Recheck(p)
      <3>1. CASE Close(p)
        BY <2>4, <3>1
      <3>2. CASE ~Close(p)
        <4>1. /\ session[p].pc = "recheck" /\ UNCHANGED <<latch, archive, requests, boot>>
              /\ session'[p].pc = "publish"
              /\ session'[p].sub = session[p].sub
          BY <2>3, <2>10, <3>2 DEF Recheck, Steps, clock, dir
        <4>. QED
          BY <2>1, <2>2, <2>5, <4>1, DecidedStays DEF Archived
      <3>. QED
        BY <3>1, <3>2
    <2>11. CASE PublishState(p)
      <3>1. /\ session'[p].pc = "published" /\ session'[p].sub = session[p].sub
            /\ boot' = boot
        BY <2>3, <2>11 DEF PublishState, Steps, clock
      <3>. QED
        BY <2>2, <2>5, <3>1 DEF StillDecided, Archived
    <2>12. CASE Answer(p)
      BY <2>4, <2>12 DEF Answer
    <2>. QED
      BY <1>1, <2>6, <2>7, <2>8, <2>9, <2>10, <2>11, <2>12 DEF Step
  <1>2. ASSUME NEW p \in Procs, Submit(p)
        PROVE  HeldInv'
    <2>1. \A q \in Procs : ~Holds(q)
      BY <1>2, SubmitOpens DEF LockFree, Holds
    <2>2. CASE session' = session
      BY <2>1, <2>2 DEF HeldInv, Holds
    <2>3. CASE session' # session
      <3>1. PICK prop \in Proposal, signers \in Bundles :
               /\ Decide(prop, signers)
               /\ session'[p].pc \in {"before", "request"}
               /\ session'[p].sub = [prop |-> prop, signers |-> signers]
               /\ \A q \in Procs : q # p => ~Holds(q)'
        BY <1>2, <2>3, SubmitOpens
      <3>2. UNCHANGED <<latch, boot>>
        BY <1>2, SubmitOpens DEF dir, clock
      <3>3. StillDecided(p)'
        BY <3>1, <3>2 DEF StillDecided, Decide, Follows, Relaxes, ChangeOf, Last
      <3>. QED
        BY <3>1, <3>3 DEF HeldInv, Archived
    <2>. QED
      BY <2>2, <2>3
  <1>3. ASSUME NEW p \in Procs, Fail(p)
        PROVE  HeldInv'
    <2>1. Holds(p) /\ Ends(p)
      BY <1>0, <1>3, CloseEnds DEF Fail, Holds
    <2>. QED
      BY <2>1, OnlyHolder DEF HeldInv, Ends, Holds
  <1>4. CASE Tick \/ \E o \in Offers : MakeProposal(o)
    <2>1. UNCHANGED <<latch, archive, requests, session, boot>>
      BY <1>4 DEF Tick, MakeProposal, dir, clock
    <2>. QED
      BY <2>1 DEF HeldInv, Holds, StillDecided, Archived, After, Follows, Relaxes
  <1>5. CASE PowerLoss
    BY <1>5 DEF PowerLoss, HeldInv, Holds, Closed
  <1>. QED
    BY <1>1, <1>2, <1>3, <1>4, <1>5 DEF Next

-----------------------------------------------------------------------------
(* The account of the latch.                                               *)

\* What any step does to the disk and to what submitters were told.
LEMMA DiskGrows ==
    ASSUME Types, Next
    PROVE  /\ disk'.latch \in {disk.latch, latch}
           /\ told' \in {told, disk'.latch}
           /\ disk.archive \subseteq disk'.archive
           /\ disk.requests \subseteq disk'.requests
  <1>0. TypeOK /\ disk.archive \subseteq archive /\ disk.requests \subseteq requests
    BY DEF Types, TypeOK
  <1>1. ASSUME NEW p \in Procs, Submit(p)
        PROVE  /\ disk'.latch = latch /\ told' \in {told, latch}
               /\ disk'.archive = archive /\ disk'.requests = requests
    BY <1>1, SubmitOpens DEF SyncDirectory, Types
  <1>2. ASSUME NEW p \in Procs, Step(p) \/ Fail(p)
        PROVE  \/ UNCHANGED <<disk, told>>
               \/ SyncDirectory /\ told' \in {told, latch}
    BY <1>2 DEF Step, KeepBefore, KeepAfter, SyncRequest, SyncAfter,
                SyncKept, KeepRequest, Recheck, PublishState, Answer, Fail
  <1>3. CASE Tick \/ \E o \in Offers : MakeProposal(o)
    BY <1>3 DEF Tick, MakeProposal
  <1>4. CASE PowerLoss
    BY <1>0, <1>4 DEF PowerLoss
  <1>. QED
    BY <1>0, <1>1, <1>2, <1>3, <1>4 DEF Next, SyncDirectory

\* The visible state starts with the durable one.
LEMMA DiskIsPrefix ==
    ASSUME TypeOK, AtMostOneAhead
    PROVE  /\ Len(disk.latch) \in {Len(latch), Len(latch) - 1}
           /\ \A i \in 1..Len(disk.latch) : disk.latch[i] = latch[i]
           /\ \A i \in 0..Len(disk.latch) : SubSeq(disk.latch, 1, i) = SubSeq(latch, 1, i)
  <1>1. latch \in Seq(Change) /\ disk.latch \in Seq(Change)
    BY DEF TypeOK, Disk
  <1>2. CASE latch = disk.latch
    BY <1>1, <1>2
  <1>3. CASE latch # <<>> /\ latch = Append(disk.latch, Last(latch))
    <2>1. Last(latch) \in Change
      BY <1>1, <1>3 DEF Last
    <2>. QED
      BY <1>1, <1>3, <2>1, GrownLatch
  <1>. QED
    BY <1>2, <1>3 DEF AtMostOneAhead

\* What submitters were told stays on disk when the disk moves on to the
\* visible state.
LEMMA ToldStays ==
    ASSUME TypeOK, TypeOK', AtMostOneAhead, ToldIsKept,
           disk'.latch \in {disk.latch, latch}, told' \in {told, disk'.latch}
    PROVE  ToldIsKept'
  <1>1. /\ latch \in Seq(Change) /\ disk.latch \in Seq(Change) /\ disk'.latch \in Seq(Change)
        /\ told \in Seq(Change)
    BY DEF TypeOK, Disk
  <1>2. CASE told' = disk'.latch
    BY <1>1, <1>2 DEF ToldIsKept
  <1>3. CASE told' = told
    <2>1. Len(told) <= Len(disk.latch) /\ told = SubSeq(disk.latch, 1, Len(told))
      BY DEF ToldIsKept
    <2>2. SubSeq(latch, 1, Len(told)) = SubSeq(disk.latch, 1, Len(told))
      BY <1>1, <2>1, DiskIsPrefix
    <2>3. Len(disk.latch) <= Len(latch)
      BY <1>1, DiskIsPrefix
    <2>. QED
      BY <1>1, <1>3, <2>1, <2>2, <2>3 DEF ToldIsKept
  <1>. QED
    BY <1>2, <1>3

\* A latch that starts like one accounted for is accounted for so far.
LEMMA AccountStays ==
    ASSUME AllFollow, ChangesAccountedFor, NEW n \in 0..Len(latch),
           disk.archive \subseteq disk'.archive, disk.requests \subseteq disk'.requests,
           \A i \in 1..n : latch'[i] = latch[i],
           \A i \in 0..n : SubSeq(latch', 1, i) = SubSeq(latch, 1, i)
    PROVE  \A i \in 1..n :
             /\ Follows(SubSeq(latch, 1, i - 1), latch[i])'
             /\ SubSeq(latch, 1, i)' \in disk'.archive
             /\ \E r \in disk'.requests : AccountsFor(r, i)'
  <1>1. SUFFICES ASSUME NEW i \in 1..n
                 PROVE  /\ Follows(SubSeq(latch, 1, i - 1), latch[i])'
                        /\ SubSeq(latch, 1, i)' \in disk'.archive
                        /\ \E r \in disk'.requests : AccountsFor(r, i)'
    OBVIOUS
  <1>2. i \in 1..Len(latch) /\ latch'[i] = latch[i] /\ i - 1 \in 0..n
    BY <1>1
  <1>3. SubSeq(latch', 1, i - 1) = SubSeq(latch, 1, i - 1) /\ SubSeq(latch', 1, i) = SubSeq(latch, 1, i)
    BY <1>1, <1>2
  <1>4. Follows(SubSeq(latch, 1, i - 1), latch[i])'
    BY <1>2, <1>3 DEF AllFollow, Follows, Relaxes, Last
  <1>5. SubSeq(latch, 1, i)' \in disk'.archive
    BY <1>2, <1>3 DEF ChangesAccountedFor
  <1>6. PICK r \in disk.requests : AccountsFor(r, i)
    BY <1>2 DEF ChangesAccountedFor
  <1>7. AccountsFor(r, i)'
    BY <1>2, <1>3, <1>6 DEF AccountsFor, Relaxes, Last
  <1>. QED
    BY <1>4, <1>5, <1>6, <1>7

\* What becomes visible: the latch stays, goes back to the durable state in a
\* power loss, or takes the change of a submission that has archived it all.
LEMMA LatchMoves ==
    ASSUME Types, DiskInv, HeldInv, Next
    PROVE  \/ latch' = latch
           \/ latch' = disk.latch /\ boot' = boot + 1
           \/ \E p \in Procs :
                /\ Holds(p) /\ latch = disk.latch /\ latch' = After(p)
                /\ UNCHANGED <<archive, requests, disk, boot>>
                /\ After(p) \in disk.archive /\ session[p].sub \in disk.requests
                /\ StillDecided(p) /\ session[p].pc = "publish"
  <1>1. ASSUME NEW p \in Procs, PublishState(p)
        PROVE  /\ Holds(p) /\ latch = disk.latch /\ latch' = After(p)
               /\ UNCHANGED <<archive, requests, disk, boot>>
               /\ After(p) \in disk.archive /\ session[p].sub \in disk.requests
               /\ StillDecided(p) /\ session[p].pc = "publish"
    <2>1. session[p].pc = "publish" /\ Synced /\ StillDecided(p) /\ Archived(p)
      BY <1>1 DEF PublishState, DiskInv, HolderOnDisk, HeldInv, Holds
    <2>. QED
      BY <1>1, <2>1 DEF PublishState, Holds, Synced, Archived, clock
  <1>2. ASSUME NEW p \in Procs, Step(p) \/ Fail(p), ~PublishState(p)
        PROVE  latch' = latch
    BY <1>2 DEF Step, KeepBefore, KeepAfter, SyncRequest, SyncAfter,
                SyncKept, KeepRequest, Recheck, Answer, Fail, dir
  <1>3. ASSUME NEW p \in Procs, Submit(p)
        PROVE  latch' = latch
    BY <1>3, SubmitOpens DEF dir
  <1>4. CASE Tick \/ \E o \in Offers : MakeProposal(o)
    BY <1>4 DEF Tick, MakeProposal, dir
  <1>5. CASE PowerLoss
    BY <1>5 DEF PowerLoss
  <1>. QED
    BY <1>1, <1>2, <1>3, <1>4, <1>5 DEF Next, Step

\* Preserve gives every identity one request file.
LEMMA NamedStep ==
    ASSUME Types, NamedById, Next
    PROVE  NamedById'
  <1>1. ASSUME NEW p \in Procs, KeepRequest(p)
        PROVE  NamedById'
    BY <1>1 DEF KeepRequest, NamedById
  <1>2. ASSUME NEW p \in Procs, Step(p) \/ Fail(p), ~KeepRequest(p)
        PROVE  requests' = requests
    BY <1>2 DEF Step, KeepBefore, KeepAfter, SyncRequest, SyncAfter,
                SyncKept, PublishState, Recheck, Answer, Fail, dir
  <1>3. ASSUME NEW p \in Procs, Submit(p)
        PROVE  requests' = requests
    BY <1>3, SubmitOpens DEF dir
  <1>4. CASE Tick \/ \E o \in Offers : MakeProposal(o)
    BY <1>4 DEF Tick, MakeProposal, NamedById, dir
  <1>5. CASE PowerLoss
    BY <1>5 DEF PowerLoss, NamedById
  <1>. QED
    BY <1>1, <1>2, <1>3, <1>4, <1>5 DEF Next, NamedById, Step

\* Every step keeps the latch accounted for.
LEMMA AuditStep ==
    ASSUME Types, Types', DiskInv, HeldInv, AuditInv, Next
    PROVE  AuditInv'
  <1>0. /\ TypeOK /\ TypeOK' /\ AtMostOneAhead /\ latch \in Seq(Change)
        /\ AllFollow /\ ChangesAccountedFor /\ NamedById /\ ToldIsKept
    BY DEF Types, TypeOK, DiskInv, AuditInv
  <1>1. NamedById'
    BY <1>0, NamedStep
  <1>2. ToldIsKept'
    BY <1>0, DiskGrows, ToldStays
  <1>3. disk.archive \subseteq disk'.archive /\ disk.requests \subseteq disk'.requests
    BY DiskGrows
  <1>4. CASE latch' = latch
    <2>1. AllFollow' /\ ChangesAccountedFor'
      BY <1>0, <1>3, <1>4 DEF AllFollow, ChangesAccountedFor, AccountsFor, Follows, Relaxes, Last
    <2>. QED
      BY <1>1, <1>2, <2>1 DEF AuditInv
  <1>5. CASE latch' = disk.latch
    <2>. DEFINE n == Len(disk.latch)
    <2>1. /\ n \in 0..Len(latch) /\ n = Len(latch')
          /\ \A i \in 1..n : latch'[i] = latch[i]
          /\ \A i \in 0..n : SubSeq(latch', 1, i) = SubSeq(latch, 1, i)
      BY <1>0, <1>5, DiskIsPrefix DEF TypeOK, Disk
    <2>2. AllFollow' /\ ChangesAccountedFor'
      BY <1>0, <1>3, <2>1, AccountStays DEF AllFollow, ChangesAccountedFor
    <2>. QED
      BY <1>1, <1>2, <2>2 DEF AuditInv
  <1>6. ASSUME NEW p \in Procs, Holds(p), latch = disk.latch, latch' = After(p),
               UNCHANGED <<archive, requests, disk, boot>>,
               After(p) \in disk.archive, session[p].sub \in disk.requests,
               StillDecided(p), session[p].pc = "publish"
        PROVE  AuditInv'
    <2>. DEFINE n == Len(latch)
                sub == session[p].sub
                c == ChangeOf(sub.prop)
    <2>1. c \in Change
      BY <1>0, <1>6, SessionCases, ChangeType DEF TypeOK, Holds, Submission
    <2>2. latch' = Append(latch, c)
      BY <1>6 DEF After
    <2>3. /\ n \in 0..Len(latch) /\ Len(latch') = n + 1 /\ latch'[n + 1] = c
          /\ \A i \in 1..n : latch'[i] = latch[i]
          /\ \A i \in 0..n : SubSeq(latch', 1, i) = SubSeq(latch, 1, i)
          /\ SubSeq(latch', 1, n) = latch /\ SubSeq(latch', 1, n + 1) = latch'
      BY <1>0, <2>1, <2>2, GrownLatch
    <2>4. \A i \in 1..n :
             /\ Follows(SubSeq(latch, 1, i - 1), latch[i])'
             /\ SubSeq(latch, 1, i)' \in disk'.archive
             /\ \E r \in disk'.requests : AccountsFor(r, i)'
      BY <1>0, <1>3, <2>3, AccountStays
    <2>5. SubSeq(latch', 1, (n + 1) - 1) = latch
      BY <1>0, <2>3
    <2>6. /\ sub.prop.before = latch /\ Follows(latch, c) /\ Enough(sub.signers)
          /\ Relaxes(latch, c) => Independent(sub.signers) /\ sub.prop.receipt
      BY <1>6 DEF StillDecided
    <2>7. Follows(SubSeq(latch', 1, (n + 1) - 1), latch'[n + 1])
      BY <2>3, <2>5, <2>6
    <2>8. SubSeq(latch', 1, n + 1) \in disk'.archive
      BY <1>6, <2>3
    <2>9. ASSUME NEW r, r = sub, NEW i, i = n + 1
          PROVE  r \in disk'.requests /\ AccountsFor(r, i)'
      BY <1>6, <2>3, <2>5, <2>6, <2>9 DEF AccountsFor
    <2>10. \A i \in 1..Len(latch') : i \in 1..n \/ i = n + 1
      BY <1>0, <2>3
    <2>11. AllFollow'
      BY <2>4, <2>7, <2>10 DEF AllFollow, Follows, Relaxes, Last
    <2>12. \A i \in 1..Len(latch') : /\ SubSeq(latch', 1, i) \in disk'.archive
                                     /\ \E r \in disk'.requests : AccountsFor(r, i)'
      BY <2>4, <2>8, <2>9, <2>10
    <2>13. ChangesAccountedFor'
      BY <2>12 DEF ChangesAccountedFor
    <2>. QED
      BY <1>1, <1>2, <2>11, <2>13 DEF AuditInv
  <1>. QED
    BY <1>4, <1>5, <1>6, LatchMoves

-----------------------------------------------------------------------------
(* The theorems.                                                           *)

\* The program starts in the invariant.
LEMMA InvInit ==
    ASSUME Init
    PROVE  Inv
  <1>1. Types
    BY DEF Init, Types, TypeOK, Exclusive, Holds, Session, Closed, Disk
  <1>2. DiskInv /\ HeldInv
    BY DEF Init, DiskInv, AtMostOneAhead, HolderOnDisk, HeldInv, Holds, Closed
  <1>3. AuditInv
    BY DEF Init, AuditInv, NamedById, AllFollow, ChangesAccountedFor, ToldIsKept
  <1>. QED
    BY <1>1, <1>2, <1>3 DEF Inv

\* Every step and every stutter keeps it.
LEMMA InvStep ==
    ASSUME Inv, [Next]_vars
    PROVE  Inv'
  <1>1. CASE Next
    BY <1>1, TypesStep, DiskStep, HeldStep, AuditStep DEF Inv
  <1>2. CASE UNCHANGED vars
    <2>1. UNCHANGED <<latch, archive, requests, disk, proposals, session, now, boot, told, faults>>
      BY <1>2 DEF vars, dir, clock
    <2>2. Types'
      BY <2>1 DEF Inv, Types, TypeOK, Exclusive, Holds
    <2>3. DiskInv'
      BY <2>1 DEF Inv, DiskInv, AtMostOneAhead, HolderOnDisk, Synced
    <2>4. HeldInv'
      BY <2>1 DEF Inv, HeldInv, Holds, StillDecided, Archived, After, Follows, Relaxes
    <2>5. AuditInv'
      BY <2>1 DEF Inv, AuditInv, NamedById, AllFollow, ChangesAccountedFor, AccountsFor,
                  ToldIsKept, Follows, Relaxes
    <2>. QED
      BY <2>2, <2>3, <2>4, <2>5 DEF Inv
  <1>. QED
    BY <1>1, <1>2

\* The invariant that the theorems below are read off.
THEOREM LatchInvariant == Spec => []Inv
  BY InvInit, InvStep, PTL DEF Spec

\* MC_Control_IO: the policy directory and the submissions stay well formed.
THEOREM LatchTypeCorrect == Spec => []TypeOK
  <1>1. Inv => TypeOK
    BY DEF Inv, Types
  <1>. QED
    BY <1>1, LatchInvariant, PTL

\* Submit archives before it publishes: no crash, race or reuse of an identity
\* leaves a visible latch one of whose changes has no durable signed request.
THEOREM ChangesKept == Spec => []ChangesAccountedFor
  <1>1. Inv => ChangesAccountedFor
    BY DEF Inv, AuditInv
  <1>. QED
    BY <1>1, LatchInvariant, PTL

\* Submit answers OK only for a durable state: what it answered OK for is part
\* of every later state.
THEOREM ToldKept == Spec => []ToldIsKept
  <1>1. Inv => ToldIsKept
    BY DEF Inv, AuditInv
  <1>. QED
    BY <1>1, LatchInvariant, PTL

\* Decide compares the boot: a submission moves the latch only in the boot that
\* its proposal was made for, whenever its archive writes end.
THEOREM ApprovalsOfThisBoot == Spec => OnlyThisBoot
  <1>1. Inv /\ [Next]_vars
        => [latch' # latch /\ boot' = boot =>
              \E r \in requests : ChangeOf(r.prop) = latch'[Len(latch')] /\ r.prop.boot = boot]_vars
    <2>. SUFFICES ASSUME Inv, Next, latch' # latch, boot' = boot
                  PROVE  \E r \in requests :
                            ChangeOf(r.prop) = latch'[Len(latch')] /\ r.prop.boot = boot
      OBVIOUS
    <2>1. TypeOK /\ latch \in Seq(Change) /\ boot \in Nat /\ disk.requests \subseteq requests
      BY DEF Inv, Types, TypeOK
    <2>2. PICK p \in Procs : /\ Holds(p) /\ latch' = After(p) /\ StillDecided(p)
                             /\ session[p].sub \in disk.requests
      BY <2>1, LatchMoves DEF Inv
    <2>3. ChangeOf(session[p].sub.prop) \in Change
      BY <2>1, <2>2, SessionCases, ChangeType DEF TypeOK, Holds, Submission
    <2>4. latch'[Len(latch')] = ChangeOf(session[p].sub.prop)
      BY <2>1, <2>2, <2>3, GrownLatch DEF After
    <2>. QED
      BY <2>1, <2>2, <2>4 DEF StillDecided
  <1>. QED
    BY <1>1, LatchInvariant, PTL DEF Spec, OnlyThisBoot

\* No two changes on the latch are of one identity: both would be accounted
\* for by the one request file of it, which was made for one state.
LEMMA IdsDiffer ==
    ASSUME TypeOK, NamedById, ChangesAccountedFor,
           NEW i \in 1..Len(latch), NEW j \in 1..Len(latch), latch[i].id = latch[j].id
    PROVE  i = j
  <1>0. latch \in Seq(Change) /\ disk.requests \subseteq requests
    BY DEF TypeOK
  <1>1. PICK r \in disk.requests : AccountsFor(r, i)
    BY DEF ChangesAccountedFor
  <1>2. PICK s \in disk.requests : AccountsFor(s, j)
    BY DEF ChangesAccountedFor
  <1>3. r.prop.id = latch[i].id /\ s.prop.id = latch[j].id
    BY <1>1, <1>2 DEF AccountsFor, ChangeOf
  <1>4. r = s
    BY <1>0, <1>3 DEF NamedById
  <1>5. SubSeq(latch, 1, i - 1) = SubSeq(latch, 1, j - 1)
    BY <1>1, <1>2, <1>4 DEF AccountsFor
  <1>6. Len(SubSeq(latch, 1, i - 1)) = i - 1 /\ Len(SubSeq(latch, 1, j - 1)) = j - 1
    BY <1>0
  <1>. QED
    BY <1>5, <1>6

\* A step of the submissions is a step of AuditedLatch, or a stutter.
LEMMA AuditedStep ==
    ASSUME Inv, Inv', Next
    PROVE  Audited!Next
  <1>0. /\ TypeOK /\ latch \in Seq(Change) /\ disk.latch \in Seq(Change) /\ AtMostOneAhead
        /\ AllFollow /\ NamedById /\ ChangesAccountedFor
    BY DEF Inv, Types, TypeOK, Disk, DiskInv, AuditInv
  <1>1. disk'.latch \in {disk.latch, latch} /\ told' \in {told, disk'.latch}
    BY DiskGrows DEF Inv
  <1>2. ASSUME disk'.latch # disk.latch
        PROVE  Audited!Extend
    <2>. DEFINE n == Len(latch)
                c == Last(latch)
    <2>1. disk'.latch = latch /\ latch # <<>> /\ latch = Append(disk.latch, c)
      BY <1>0, <1>1, <1>2 DEF AtMostOneAhead
    <2>2. n \in 1..Len(latch) /\ c = latch[n] /\ c \in Change
      BY <1>0, <2>1 DEF Last
    <2>3. Len(disk.latch) = n - 1 /\ SubSeq(latch, 1, n - 1) = disk.latch
      BY <1>0, <2>1, <2>2, GrownLatch
    <2>4. Follows(disk.latch, c)
      BY <1>0, <2>2, <2>3 DEF AllFollow
    <2>5. ASSUME NEW i \in 1..Len(disk.latch)
          PROVE  disk.latch[i].id # c.id
      <3>1. i \in 1..Len(latch) /\ i # n /\ latch[i] = disk.latch[i]
        BY <1>0, <2>2, <2>3, DiskIsPrefix
      <3>. QED
        BY <1>0, <2>2, <3>1, IdsDiffer
    <2>. QED
      BY <2>1, <2>2, <2>4, <2>5
      DEF Audited!Extend, Audited!Last, Last, Audited!Change, Change, Audited!Follows, Follows,
          Audited!Relaxes, Relaxes, Audited!Rank, Rank, Audited!Modes, Modes
  <1>. QED
    BY <1>1, <1>2 DEF Audited!Next

\* Whatever submissions race, are repeated, reuse an identity or are cut off by
\* a crash, the durable latch is one history of changes, each by a request not
\* applied before, that only a later change takes back.
THEOREM ImplementsAuditedLatch == Spec => KeepsHistory
  <1>1. Init => Audited!Init
    BY DEF Init, Audited!Init
  <1>2. Inv /\ Inv' /\ [Next]_vars => [Audited!Next]_(Audited!vars)
    <2>1. ASSUME UNCHANGED vars
          PROVE  UNCHANGED Audited!vars
      BY <2>1 DEF vars, Audited!vars
    <2>. QED
      BY <2>1, AuditedStep
  <1>. QED
    BY <1>1, <1>2, LatchInvariant, PTL DEF Spec, KeepsHistory, Audited!Spec
=============================================================================
