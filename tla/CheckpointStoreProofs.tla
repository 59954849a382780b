----------------------- MODULE CheckpointStoreProofs -----------------------
(***************************************************************************)
(* Proofs about CheckpointStore, for every set of processes, every set of  *)
(* checkpoints and every bound.                                            *)
(*                                                                         *)
(*   Types      what the variables hold, and that one process at a time    *)
(*              has the lock                                               *)
(*   InOrder    whatever may still move the anchor was checked to follow   *)
(*              what it expects: the anchor only moves forward             *)
(*   Answers    everything that was answered is not ahead of the anchor:   *)
(*              no Load rolls back                                         *)
(*   There      what of the directory survives a power loss is the         *)
(*              anchored checkpoint, or leads to it                        *)
(***************************************************************************)
EXTENDS CheckpointStore, TLAPS

Digests  == DOMAIN Content
Slots    == Digests \cup {Zero}
Payloads == {Content[d].payload : d \in Digests}
Files    == [current : Slots, pending : Slots, snapshots : SUBSET Payloads, manifests : SUBSET Digests]
Loading  == {"loadCheck", "loadPayload", "loaded"}
HoldCalls == [pc : Holding, before : Slots, d : Digests]
LoadCalls == [pc : Loading, d : Digests, since : SUBSET Digests]
Calls    == {Closed} \cup HoldCalls \cup LoadCalls

\* What the variables hold: a call that holds the lock knows what it replaces, a
\* Load what had been answered before it; what is on stable storage can be read.
TypeOK ==
    /\ seen \in Files /\ disk \in Files /\ image \in Files
    /\ disk.snapshots \subseteq seen.snapshots
    /\ anchor \in Slots
    /\ late \subseteq Slots \X Digests
    /\ call \in [Procs -> Calls]
    /\ answered \subseteq Digests
    /\ count \in [calls : Nat, faults : Nat, losses : Nat, restores : Nat]

-----------------------------------------------------------------------------
(* The steps of a call                                                     *)

\* What a call is can be told from where it is.
LEMMA CallKinds ==
    ASSUME TypeOK, NEW p \in Procs
    PROVE  /\ call[p] \in Calls
           /\ At(p, "closed") => call[p] = Closed
           /\ call[p].pc \in Holding => call[p] \in HoldCalls
           /\ call[p].pc \in Loading => call[p] \in LoadCalls
           /\ call[p].pc \in {"closed"} \cup Holding \cup Loading
  BY DEF TypeOK, At, Calls, HoldCalls, LoadCalls, Closed, Holding, Loading

\* A call that is over leaves the others as they are.
LEMMA CloseIs ==
    ASSUME TypeOK, NEW p \in Procs, Close(p)
    PROVE  /\ call' \in [Procs -> Calls]
           /\ call'[p] = Closed
           /\ \A q \in Procs : q # p => call'[q] = call[q]
  BY DEF TypeOK, Close, Calls

\* A step within a Publish or a Reconcile keeps what it is about.
LEMMA HoldGoto ==
    ASSUME TypeOK, NEW p \in Procs, NEW x \in Holding, call[p].pc \in Holding, Goto(p, x)
    PROVE  /\ call' \in [Procs -> Calls]
           /\ call'[p].pc = x /\ call'[p].before = call[p].before /\ call'[p].d = call[p].d
           /\ \A q \in Procs : q # p => call'[q] = call[q]
<1>1. call[p] \in HoldCalls
  BY CallKinds
<1>2. [call[p] EXCEPT !.pc = x] \in HoldCalls
  BY <1>1 DEF HoldCalls
<1>3. call' = [call EXCEPT ![p] = [call[p] EXCEPT !.pc = x]]
  BY DEF Goto, TypeOK
<1>4. call' \in [Procs -> Calls]
  BY <1>2, <1>3 DEF TypeOK, Calls
<1>5. call'[p] = [call[p] EXCEPT !.pc = x]
  BY <1>3 DEF TypeOK
<1>6. call'[p].pc = x /\ call'[p].before = call[p].before /\ call'[p].d = call[p].d
  BY <1>5, <1>1 DEF HoldCalls
<1> QED
  BY <1>3, <1>4, <1>6 DEF TypeOK

\* And so does a step within a Load.
LEMMA LoadGoto ==
    ASSUME TypeOK, NEW p \in Procs, NEW x \in Loading, call[p].pc \in Loading, Goto(p, x)
    PROVE  /\ call' \in [Procs -> Calls]
           /\ call'[p].pc = x /\ call'[p].d = call[p].d /\ call'[p].since = call[p].since
           /\ \A q \in Procs : q # p => call'[q] = call[q]
<1>1. call[p] \in LoadCalls
  BY CallKinds
<1>2. [call[p] EXCEPT !.pc = x] \in LoadCalls
  BY <1>1 DEF LoadCalls
<1>3. call' = [call EXCEPT ![p] = [call[p] EXCEPT !.pc = x]]
  BY DEF Goto, TypeOK
<1>4. call' \in [Procs -> Calls]
  BY <1>2, <1>3 DEF TypeOK, Calls
<1>5. call'[p] = [call[p] EXCEPT !.pc = x]
  BY <1>3 DEF TypeOK
<1>6. call'[p].pc = x /\ call'[p].d = call[p].d /\ call'[p].since = call[p].since
  BY <1>5, <1>1 DEF LoadCalls
<1> QED
  BY <1>3, <1>4, <1>6 DEF TypeOK

\* A Publish or a Reconcile takes the lock.
LEMMA HoldIs ==
    ASSUME TypeOK, NEW p \in Procs, NEW x \in Holding, NEW b \in Slots, NEW e \in Digests, Hold(p, x, b, e)
    PROVE  /\ call' \in [Procs -> Calls]
           /\ call'[p].pc = x /\ call'[p].before = b /\ call'[p].d = e
           /\ \A q \in Procs : q # p => call'[q] = call[q]
<1>1. [pc |-> x, before |-> b, d |-> e] \in HoldCalls
  BY DEF HoldCalls
<1> QED
  BY <1>1 DEF TypeOK, Hold, Calls

-----------------------------------------------------------------------------
(* Types, and the lock                                                     *)

\* One process at a time has the lock.
Exclusive == \A p, q \in Procs : call[p].pc \in Holding /\ call[q].pc \in Holding => p = q

\* Something of the directory that is a checkpoint, or none, can be published after.
LEMMA FilesWritten ==
    ASSUME NEW files \in Files, NEW d \in Digests
    PROVE  /\ [files EXCEPT !.current = d] \in Files
           /\ [files EXCEPT !.pending = d] \in Files
           /\ [files EXCEPT !.snapshots = @ \cup {Content[d].payload}] \in Files
           /\ [files EXCEPT !.manifests = @ \cup {d}] \in Files
<1>1. Content[d].payload \in Payloads
  BY DEF Payloads
<1> QED
  BY <1>1 DEF Files, Slots

\* Where each step within a call takes it.
LEMMA SyncIs ==
    ASSUME TypeOK, NEW p \in Procs, Sync(p)
    PROVE  /\ call[p].pc \in {"snapshotKept", "manifestKept", "pendingKept"}
           /\ disk' = seen
           /\ call[p].pc = "snapshotKept" => Goto(p, "manifest")
           /\ call[p].pc = "manifestKept" => Goto(p, "pending")
           /\ call[p].pc = "pendingKept" => Goto(p, "anchor")
           /\ UNCHANGED <<seen, anchor, late, answered, image, count>>
  BY DEF Sync, At

\* Every step keeps the types.
LEMMA TypeStep == TypeOK /\ [Next]_vars => TypeOK'
<1> SUFFICES ASSUME TypeOK, [Next]_vars PROVE TypeOK'
  OBVIOUS
<1> USE ContentAssumption
<1>1. ASSUME NEW p \in Procs, NEW d \in DOMAIN Content, NEW expected \in DOMAIN Content \cup {Zero},
             BeginPublish(p, expected, d)
      PROVE  TypeOK'
  <2>1. call' \in [Procs -> Calls]
    BY <1>1, HoldIs DEF BeginPublish, Slots, Digests, Holding
  <2> QED
    BY <1>1, <2>1 DEF BeginPublish, Called, TypeOK, Files
<1>2. ASSUME NEW p \in Procs, KeepSnapshot(p) PROVE TypeOK'
  <2>1. call[p] \in HoldCalls /\ call[p].pc \in Holding
    BY <1>2, CallKinds DEF KeepSnapshot, At, Holding
  <2>2. call' \in [Procs -> Calls]
    BY <1>2, <2>1, HoldGoto DEF KeepSnapshot, Holding
  <2>3. seen' \in Files
    BY <1>2, <2>1, FilesWritten DEF KeepSnapshot, TypeOK, HoldCalls
  <2> QED
    BY <1>2, <2>2, <2>3 DEF KeepSnapshot, TypeOK, Files
<1>3. ASSUME NEW p \in Procs, KeepManifest(p) PROVE TypeOK'
  <2>1. call[p] \in HoldCalls /\ call[p].pc \in Holding
    BY <1>3, CallKinds DEF KeepManifest, At, Holding
  <2>2. call' \in [Procs -> Calls]
    BY <1>3, <2>1, HoldGoto DEF KeepManifest, Holding
  <2>3. seen' \in Files
    BY <1>3, <2>1, FilesWritten DEF KeepManifest, TypeOK, HoldCalls
  <2> QED
    BY <1>3, <2>2, <2>3 DEF KeepManifest, TypeOK, Files
<1>4. ASSUME NEW p \in Procs, WritePending(p) PROVE TypeOK'
  <2>1. call[p] \in HoldCalls /\ call[p].pc \in Holding
    BY <1>4, CallKinds DEF WritePending, At, Holding
  <2>2. call' \in [Procs -> Calls]
    BY <1>4, <2>1, HoldGoto DEF WritePending, Holding
  <2>3. seen' \in Files
    BY <1>4, <2>1, FilesWritten DEF WritePending, TypeOK, HoldCalls
  <2> QED
    BY <1>4, <2>2, <2>3 DEF WritePending, TypeOK, Files
<1>5. ASSUME NEW p \in Procs, Sync(p) PROVE TypeOK'
  <2>1. call' \in [Procs -> Calls]
    BY <1>5, SyncIs, HoldGoto DEF Holding
  <2> QED
    BY <1>5, <2>1, SyncIs DEF TypeOK, Files
<1>6. ASSUME NEW p \in Procs, Advance(p) PROVE TypeOK'
  <2>1. call[p] \in HoldCalls /\ call[p].pc \in Holding
    BY <1>6, CallKinds DEF Advance, At, Holding
  <2>2. call' \in [Procs -> Calls]
    BY <1>6, <2>1, HoldGoto, CloseIs DEF Advance, Holding
  <2>3. anchor' \in Slots
    BY <1>6, <2>1 DEF Advance, TypeOK, HoldCalls, Slots
  <2> QED
    BY <1>6, <2>2, <2>3 DEF Advance, TypeOK
<1>7. ASSUME NEW p \in Procs, AdvanceUnknown(p) PROVE TypeOK'
  <2>1. call[p] \in HoldCalls
    BY <1>7, CallKinds DEF AdvanceUnknown, At, Holding
  <2>2. call' \in [Procs -> Calls]
    BY <1>7, CloseIs DEF AdvanceUnknown
  <2> QED
    BY <1>7, <2>1, <2>2 DEF AdvanceUnknown, TypeOK, HoldCalls
<1>8. ASSUME NEW p \in Procs, CheckAdvanced(p) PROVE TypeOK'
  <2>1. call' \in [Procs -> Calls]
    BY <1>8, HoldGoto, CloseIs DEF CheckAdvanced, At, Holding
  <2> QED
    BY <1>8, <2>1 DEF CheckAdvanced, TypeOK
<1>9. ASSUME NEW p \in Procs, WriteCurrent(p) PROVE TypeOK'
  <2>1. call[p] \in HoldCalls /\ call[p].pc \in Holding
    BY <1>9, CallKinds DEF WriteCurrent, At, Holding
  <2>2. call' \in [Procs -> Calls]
    BY <1>9, <2>1, HoldGoto DEF WriteCurrent, Holding
  <2>3. seen' \in Files
    BY <1>9, <2>1, FilesWritten DEF WriteCurrent, TypeOK, HoldCalls
  <2> QED
    BY <1>9, <2>2, <2>3 DEF WriteCurrent, TypeOK, Files
<1>10. ASSUME NEW p \in Procs, Answer(p) PROVE TypeOK'
  <2>1. call[p] \in HoldCalls
    BY <1>10, CallKinds DEF Answer, At, Holding
  <2>2. call' \in [Procs -> Calls]
    BY <1>10, CloseIs DEF Answer
  <2> QED
    BY <1>10, <2>1, <2>2 DEF Answer, TypeOK, HoldCalls
<1>11. ASSUME NEW p \in Procs, BeginReconcile(p) PROVE TypeOK'
  <2>1. seen.pending \in Digests /\ seen.current \in Slots
    BY <1>11 DEF BeginReconcile, Reconcilable, TypeOK, Files, Slots
  <2>2. call' \in [Procs -> Calls]
    BY <1>11, <2>1, HoldIs DEF BeginReconcile, TypeOK, Holding
  <2> QED
    BY <1>11, <2>1, <2>2 DEF BeginReconcile, Called, TypeOK, Files
<1>12. ASSUME NEW p \in Procs, ReadCurrent(p) PROVE TypeOK'
  <2>1. [pc |-> "loadCheck", d |-> seen.current, since |-> answered] \in LoadCalls
    BY <1>12 DEF ReadCurrent, TypeOK, Files, Slots, LoadCalls, Loading
  <2> QED
    BY <1>12, <2>1 DEF ReadCurrent, Called, TypeOK, Calls
<1>13. ASSUME NEW p \in Procs, CheckLoaded(p) PROVE TypeOK'
  <2>1. call' \in [Procs -> Calls]
    BY <1>13, LoadGoto, CloseIs DEF CheckLoaded, At, Loading
  <2> QED
    BY <1>13, <2>1 DEF CheckLoaded, TypeOK
<1>14. ASSUME NEW p \in Procs, ReadPayload(p) PROVE TypeOK'
  <2>1. call[p] \in LoadCalls
    BY <1>14, CallKinds DEF ReadPayload, At, Loading
  <2>2. call' \in [Procs -> Calls]
    BY <1>14, LoadGoto, CloseIs DEF ReadPayload, At, Loading
  <2> QED
    BY <1>14, <2>1, <2>2 DEF ReadPayload, TypeOK, LoadCalls
<1>15. ASSUME NEW p \in Procs, Loaded(p) \/ Fail(p) PROVE TypeOK'
  <2>1. call' \in [Procs -> Calls]
    BY <1>15, CloseIs DEF Loaded, Fail
  <2> QED
    BY <1>15, <2>1 DEF Loaded, Fail, TypeOK
<1>16. CASE PowerLoss
  <2>1. call' \in [Procs -> Calls]
    BY <1>16 DEF PowerLoss, Calls
  <2>2. seen' \in Files
    BY <1>16 DEF PowerLoss, TypeOK, Files
  <2> QED
    BY <1>16, <2>1, <2>2 DEF PowerLoss, TypeOK, Files
<1>17. CASE Restore
  <2>1. call' \in [Procs -> Calls]
    BY <1>17 DEF Restore, Calls
  <2> QED
    BY <1>17, <2>1 DEF Restore, TypeOK, Files
<1>18. CASE Refuse \/ TakeImage
  BY <1>18 DEF Refuse, TakeImage, TypeOK, Files
<1>19. ASSUME NEW request \in late, Arrive(request) PROVE TypeOK'
  BY <1>19 DEF Arrive, TypeOK, Slots
<1>20. CASE UNCHANGED vars
  BY <1>20 DEF vars, TypeOK
<1> QED
  BY <1>1, <1>2, <1>3, <1>4, <1>5, <1>6, <1>7, <1>8, <1>9, <1>10, <1>11, <1>12, <1>13, <1>14, <1>15,
     <1>16, <1>17, <1>18, <1>19, <1>20 DEF Next

\* What a step of a call does to the calls: it takes the lock when that is free,
\* goes on, or is over; the others stay as they are.
StepOf(p) ==
    /\ \A q \in Procs : q # p => call'[q] = call[q]
    /\ call'[p].pc \in Holding =>
         \/ LockFree
         \/ call[p].pc \in Holding /\ call'[p].before = call[p].before /\ call'[p].d = call[p].d

\* The steps of process p.
NextOf(p) ==
    \/ \E d \in DOMAIN Content, expected \in DOMAIN Content \cup {Zero} : BeginPublish(p, expected, d)
    \/ KeepSnapshot(p) \/ KeepManifest(p) \/ WritePending(p) \/ Sync(p)
    \/ Advance(p) \/ AdvanceUnknown(p) \/ CheckAdvanced(p) \/ WriteCurrent(p) \/ Answer(p)
    \/ BeginReconcile(p)
    \/ ReadCurrent(p) \/ CheckLoaded(p) \/ ReadPayload(p) \/ Loaded(p)
    \/ Fail(p)

\* Every step of a process is such a step.
LEMMA NextOfSteps == ASSUME TypeOK, NEW p \in Procs, NextOf(p) PROVE StepOf(p)
<1> USE DEF StepOf
<1>1. ASSUME NEW d \in DOMAIN Content, NEW expected \in DOMAIN Content \cup {Zero}, BeginPublish(p, expected, d)
      PROVE  StepOf(p)
  BY <1>1, HoldIs DEF BeginPublish, Slots, Digests, Holding
<1>2. CASE KeepSnapshot(p) \/ KeepManifest(p) \/ WritePending(p) \/ WriteCurrent(p)
  BY <1>2, HoldGoto DEF KeepSnapshot, KeepManifest, WritePending, WriteCurrent, At, Holding
<1>3. CASE Sync(p)
  BY <1>3, SyncIs, HoldGoto DEF Holding
<1>4. CASE Advance(p) \/ CheckAdvanced(p)
  BY <1>4, HoldGoto, CloseIs DEF Advance, CheckAdvanced, At, Holding, Closed
<1>5. CASE AdvanceUnknown(p) \/ Answer(p) \/ Loaded(p) \/ Fail(p)
  BY <1>5, CloseIs DEF AdvanceUnknown, Answer, Loaded, Fail, Holding, Closed
<1>6. CASE BeginReconcile(p)
  <2>1. seen.pending \in Digests /\ seen.current \in Slots
    BY <1>6 DEF BeginReconcile, Reconcilable, TypeOK, Files, Slots
  <2> QED
    BY <1>6, <2>1, HoldIs DEF BeginReconcile, Holding
<1>7. CASE ReadCurrent(p)
  BY <1>7 DEF ReadCurrent, TypeOK, Holding
<1>8. CASE CheckLoaded(p) \/ ReadPayload(p)
  BY <1>8, LoadGoto, CloseIs DEF CheckLoaded, ReadPayload, At, Holding, Loading, Closed
<1> QED
  BY <1>1, <1>2, <1>3, <1>4, <1>5, <1>6, <1>7, <1>8, Zenon DEF NextOf

\* The steps that are of no process; the first two end every call.
LEMMA NextCases ==
    ASSUME [Next]_vars
    PROVE  \/ \E p \in Procs : NextOf(p)
           \/ PowerLoss \/ Restore
           \/ Refuse \/ TakeImage
           \/ \E request \in late : Arrive(request)
           \/ UNCHANGED vars
  BY Zenon DEF Next, NextOf

\* Every step leaves the lock to one process.
LEMMA ExclusiveStep == TypeOK /\ Exclusive /\ [Next]_vars => Exclusive'
<1> SUFFICES ASSUME TypeOK, Exclusive, [Next]_vars PROVE Exclusive'
  OBVIOUS
<1>1. ASSUME NEW p \in Procs, NextOf(p) PROVE Exclusive'
  <2>1. StepOf(p)
    BY <1>1, NextOfSteps
  <2> QED
    BY <2>1 DEF StepOf, Exclusive, LockFree
<1>2. CASE PowerLoss \/ Restore
  BY <1>2 DEF PowerLoss, Restore, Exclusive, Closed, Holding
<1>3. CASE Refuse \/ TakeImage
  BY <1>3 DEF Refuse, TakeImage, Exclusive
<1>4. ASSUME NEW request \in late, Arrive(request) PROVE Exclusive'
  BY <1>4 DEF Arrive, Exclusive
<1>5. CASE UNCHANGED vars
  BY <1>5 DEF vars, Exclusive
<1> QED
  BY <1>1, <1>2, <1>3, <1>4, <1>5, NextCases

\* At the start nothing is there and nobody calls.
LEMMA BaseInit == Init => TypeOK /\ Exclusive
<1> SUFFICES ASSUME Init PROVE TypeOK /\ Exclusive
  OBVIOUS
<1>1. TypeOK
  BY CheckpointBoundsAssumption
  DEF Init, TypeOK, Empty, Files, Slots, Calls, Closed
<1>2. Exclusive
  BY DEF Init, Exclusive, Closed, Holding
<1> QED
  BY <1>1, <1>2

\* What the variables hold, in every state: also that a call within the lock always
\* knows what it replaces and by what.
THEOREM CheckpointTypeOK == Spec => [](TypeOK /\ Exclusive)
<1>1. TypeOK /\ Exclusive /\ [Next]_vars => (TypeOK /\ Exclusive)'
  BY TypeStep, ExclusiveStep
<1> QED
  BY BaseInit, <1>1, PTL DEF Spec

-----------------------------------------------------------------------------
(* InOrder                                                                 *)

\* What may still move the anchor was checked to follow what it expects there.
InOrder ==
    /\ \A r \in late : Continues(r[1], r[2])
    /\ \A p \in Procs : call[p].pc \in Holding => Continues(call[p].before, call[p].d)

\* A checkpoint takes nothing back from itself ...
LEMMA NotBehindItself == ASSUME NEW b \in Digests PROVE NotBehind(b, b)
  BY ContentAssumption DEF NotBehind, Digests

\* ... and one that is not behind another, not from what that is not behind.
LEMMA NotBehindTransitive ==
    ASSUME NEW a \in Digests, NEW b \in Digests, NEW c \in Digests, NotBehind(a, b), NotBehind(b, c)
    PROVE  NotBehind(a, c)
  BY ContentAssumption DEF NotBehind, Digests

\* What continues a checkpoint names it, and takes nothing back from it.
LEMMA ContinuesForward ==
    ASSUME NEW b \in Slots, NEW d \in Digests, Continues(b, d)
    PROVE  IF b = Zero THEN Content[d].generation = 1
           ELSE Content[d].previous = b /\ NotBehind(b, d) /\ Content[d].generation = Content[b].generation + 1
  BY ContentAssumption DEF Continues, Follows, NotBehind, Slots, Digests

\* Requests and calls stay in order, whatever is killed, lost or put back.
LEMMA InOrderStep == TypeOK /\ InOrder /\ [Next]_vars => InOrder'
<1> SUFFICES ASSUME TypeOK, InOrder, [Next]_vars PROVE InOrder'
  OBVIOUS
<1>1. ASSUME NEW p \in Procs, NextOf(p) PROVE InOrder'
  <2>1. StepOf(p)
    BY <1>1, NextOfSteps
  <2>2. \A r \in late' : Continues(r[1], r[2])
    <3>1. CASE AdvanceUnknown(p)
      BY <3>1 DEF AdvanceUnknown, InOrder, At, Holding
    <3>2. CASE ~AdvanceUnknown(p)
      <4>1. late' = late
        BY <3>2, <1>1 DEF NextOf, BeginPublish, KeepSnapshot, KeepManifest, WritePending, Sync, Advance, CheckAdvanced,
           WriteCurrent, Answer, BeginReconcile, ReadCurrent, CheckLoaded, ReadPayload, Loaded, Fail
      <4> QED
        BY <4>1 DEF InOrder
    <3> QED
      BY <3>1, <3>2
  <2>3. ASSUME call'[p].pc \in Holding PROVE Continues(call'[p].before, call'[p].d)
    <3>1. ASSUME NEW d \in DOMAIN Content, NEW expected \in DOMAIN Content \cup {Zero}, BeginPublish(p, expected, d)
          PROVE  Continues(call'[p].before, call'[p].d)
      <4>1. Continues(expected, d)
        BY <3>1 DEF BeginPublish, Publishable
      <4>2. call'[p].before = expected /\ call'[p].d = d
        BY <3>1, HoldIs DEF BeginPublish, Slots, Digests, Holding
      <4> QED
        BY <4>1, <4>2
    <3>2. CASE BeginReconcile(p)
      <4>1. seen.pending \in Digests /\ seen.current \in Slots
        BY <3>2 DEF BeginReconcile, Reconcilable, TypeOK, Files, Slots
      <4>2. At(p, "closed")
        BY <3>2 DEF BeginReconcile
      <4>3. call[p].pc \notin Holding
        BY <4>2 DEF At, Holding
      <4>4. seen.current # seen.pending
        BY <3>2, <4>3, <2>3 DEF BeginReconcile
      <4>5. Continues(seen.current, seen.pending)
        BY <3>2, <4>4 DEF BeginReconcile, Reconcilable
      <4>6. call'[p].before = seen.current /\ call'[p].d = seen.pending
        BY <3>2, <4>1, <4>4, HoldIs DEF BeginReconcile, Holding
      <4> QED
        BY <4>5, <4>6
    <3>3. CASE call[p].pc \in Holding /\ call'[p].before = call[p].before /\ call'[p].d = call[p].d
      BY <3>3 DEF InOrder
    <3>4. CASE LockFree /\ ~BeginReconcile(p)
               /\ ~\E d \in DOMAIN Content, expected \in DOMAIN Content \cup {Zero} : BeginPublish(p, expected, d)
      <4>1. call[p].pc \notin Holding
        BY <3>4 DEF LockFree
      <4>2. CheckLoaded(p) \/ ReadPayload(p) \/ ReadCurrent(p) \/ Loaded(p) \/ Fail(p)
        BY <3>4, <4>1, <1>1 DEF NextOf, KeepSnapshot, KeepManifest, WritePending, Sync, Advance, AdvanceUnknown, CheckAdvanced,
           WriteCurrent, Answer, At, Holding
      <4>3. CASE CheckLoaded(p) \/ ReadPayload(p)
        BY <4>3, <2>3, LoadGoto, CloseIs DEF CheckLoaded, ReadPayload, At, Loading, Holding, Closed
      <4>4. CASE ReadCurrent(p)
        BY <4>4, <2>3 DEF ReadCurrent, TypeOK, Holding
      <4>5. CASE Loaded(p) \/ Fail(p)
        BY <4>5, <2>3, CloseIs DEF Loaded, Fail, Closed, Holding
      <4> QED
        BY <4>2, <4>3, <4>4, <4>5
    <3> QED
      BY <2>1, <2>3, <3>1, <3>2, <3>3, <3>4 DEF StepOf
  <2> QED
    BY <2>1, <2>2, <2>3 DEF StepOf, InOrder
<1>2. CASE PowerLoss \/ Restore
  BY <1>2 DEF PowerLoss, Restore, InOrder, Closed, Holding
<1>3. CASE Refuse \/ TakeImage
  BY <1>3 DEF Refuse, TakeImage, InOrder
<1>4. ASSUME NEW request \in late, Arrive(request) PROVE InOrder'
  BY <1>4 DEF Arrive, InOrder
<1>5. CASE UNCHANGED vars
  BY <1>5 DEF vars, InOrder
<1> QED
  BY <1>1, <1>2, <1>3, <1>4, <1>5, NextCases

\* The only steps that move the anchor, and where to: a request that arrives, in time
\* or late, and only from what it expects.
LEMMA AnchorMoves ==
    ASSUME TypeOK, InOrder, [Next]_vars, anchor' # anchor
    PROVE  anchor \in Slots /\ anchor' \in Digests /\ Continues(anchor, anchor')
<1>0. anchor \in Slots
  BY DEF TypeOK
<1>1. ASSUME NEW p \in Procs, Advance(p) PROVE anchor' \in Digests /\ Continues(anchor, anchor')
  <2>1. call[p] \in HoldCalls /\ call[p].pc \in Holding
    BY <1>1, CallKinds DEF Advance, At, Holding
  <2>2. anchor = call[p].before /\ anchor' = call[p].d
    BY <1>1 DEF Advance
  <2> QED
    BY <2>1, <2>2 DEF HoldCalls, InOrder
<1>2. ASSUME NEW request \in late, Arrive(request) PROVE anchor' \in Digests /\ Continues(anchor, anchor')
  BY <1>2 DEF Arrive, InOrder, TypeOK
<1>3. (\E p \in Procs : Advance(p)) \/ (\E request \in late : Arrive(request))
  BY DEF Next, vars, BeginPublish, KeepSnapshot, KeepManifest, WritePending, Sync, AdvanceUnknown, CheckAdvanced,
     WriteCurrent, Answer, BeginReconcile, ReadCurrent, CheckLoaded, ReadPayload, Loaded, Fail,
     Refuse, PowerLoss, TakeImage, Restore
<1> QED
  BY <1>0, <1>1, <1>2, <1>3

\* The anchor moves from each checkpoint only to one made to follow it: what a lost
\* answer leaves on its way, what a kill leaves in the directory and an older image
\* put back change nothing about that.
THEOREM CheckpointForward == Spec => AnchorOnlyForward
<1> DEFINE Base == TypeOK /\ InOrder
<1>1. Init => Base
  BY BaseInit DEF Init, InOrder, Closed, Holding
<1>2. Base /\ [Next]_vars => Base'
  BY TypeStep, InOrderStep
<1>3. Base /\ [Next]_vars
      => [anchor' # anchor => IF anchor = Zero THEN Content[anchor'].generation = 1
                              ELSE Content[anchor'].previous = anchor /\ NotBehind(anchor, anchor')]_vars
  BY AnchorMoves, ContinuesForward
<1> QED
  BY <1>1, <1>2, <1>3, PTL DEF Spec, AnchorOnlyForward

-----------------------------------------------------------------------------
(* Answers                                                                 *)

\* The anchor is at b or past it.
Reached(b) == anchor # Zero /\ NotBehind(b, anchor)

\* What a call has seen the anchor confirm stays behind it; what had been answered
\* before a Load began is behind the anchor, and so behind what the anchor then
\* confirmed to that Load.
AnsweredAt(p) ==
    /\ call[p].pc \in {"current", "currentKept", "loadPayload", "loaded"} => Reached(call[p].d)
    /\ call[p].pc = "loadCheck" => \A b \in call[p].since : Reached(b)
    /\ call[p].pc \in {"loadPayload", "loaded"} => \A b \in call[p].since : NotBehind(b, call[p].d)

\* Everything that was ever answered is behind the anchor.
AnsweredInv ==
    /\ \A b \in answered : Reached(b)
    /\ \A p \in Procs : AnsweredAt(p)

\* The anchor does not leave what it has reached.
LEMMA ReachedStays ==
    ASSUME TypeOK, InOrder, [Next]_vars, NEW b \in Digests, Reached(b)
    PROVE  Reached(b)'
<1>1. CASE anchor' = anchor
  BY <1>1 DEF Reached, NotBehind
<1>2. CASE anchor' # anchor
  <2>1. anchor \in Digests /\ anchor' \in Digests /\ NotBehind(anchor, anchor')
    BY <1>2, AnchorMoves, ContinuesForward DEF Reached, Slots
  <2>2. NotBehind(b, anchor')
    BY <2>1, NotBehindTransitive DEF Reached
  <2>3. anchor' # Zero
    BY <2>1, ContentAssumption DEF Digests
  <2> QED
    BY <2>2, <2>3 DEF Reached, NotBehind
<1> QED
  BY <1>1, <1>2

\* A call that does nothing keeps what holds of it.
LEMMA AnsweredOthers ==
    ASSUME TypeOK, InOrder, [Next]_vars, NEW q \in Procs, AnsweredAt(q), call'[q] = call[q]
    PROVE  AnsweredAt(q)'
<1>1. call[q].pc \in {"current", "currentKept", "loadPayload", "loaded"} => call[q].d \in Digests
  BY CallKinds DEF Holding, Loading, HoldCalls, LoadCalls
<1>2. call[q].pc \in Loading => call[q].since \subseteq Digests
  BY CallKinds DEF LoadCalls
<1>3. call[q].pc \in {"current", "currentKept", "loadPayload", "loaded"} => Reached(call[q].d)'
  <2> SUFFICES ASSUME call[q].pc \in {"current", "currentKept", "loadPayload", "loaded"} PROVE Reached(call[q].d)'
    OBVIOUS
  <2>1. Reached(call[q].d)
    BY DEF AnsweredAt
  <2>2. PICK e \in Digests : e = call[q].d
    BY <1>1
  <2>3. Reached(e)'
    BY <2>1, <2>2, ReachedStays
  <2> QED
    BY <2>2, <2>3 DEF Reached, NotBehind
<1>4. call[q].pc = "loadCheck" => \A b \in call[q].since : Reached(b)'
  BY <1>2, ReachedStays DEF AnsweredAt, Loading
<1> QED
  BY <1>3, <1>4 DEF AnsweredAt, NotBehind, Reached

\* Every step keeps answers behind the anchor.
LEMMA AnsweredStep == TypeOK /\ InOrder /\ AnsweredInv /\ [Next]_vars => AnsweredInv'
<1> SUFFICES ASSUME TypeOK, InOrder, AnsweredInv, [Next]_vars PROVE AnsweredInv'
  OBVIOUS
<1>0. \A b \in answered : Reached(b)'
  BY ReachedStays DEF AnsweredInv, TypeOK
<1>1. ASSUME NEW p \in Procs, NextOf(p) PROVE AnsweredInv'
  <2>1. \A q \in Procs : q # p => AnsweredAt(q)'
    BY <1>1, NextOfSteps, AnsweredOthers DEF StepOf, AnsweredInv
  <2>2. SUFFICES (\A b \in answered' : Reached(b)') /\ AnsweredAt(p)'
    BY <2>1 DEF AnsweredInv
  <2>3. AnsweredAt(p)
    BY DEF AnsweredInv
  <2>4. ASSUME answered' = answered, call'[p].pc \notin {"current", "currentKept", "loadCheck", "loadPayload", "loaded"}
        PROVE  (\A b \in answered' : Reached(b)') /\ AnsweredAt(p)'
    BY <2>4, <1>0 DEF AnsweredAt
  <2>5. ASSUME NEW d \in DOMAIN Content, NEW expected \in DOMAIN Content \cup {Zero}, BeginPublish(p, expected, d)
        PROVE  (\A b \in answered' : Reached(b)') /\ AnsweredAt(p)'
    BY <2>5, <2>4, HoldIs DEF BeginPublish, Slots, Digests, Holding
  <2>6. CASE KeepSnapshot(p) \/ KeepManifest(p) \/ WritePending(p)
    BY <2>6, <2>4, HoldGoto DEF KeepSnapshot, KeepManifest, WritePending, At, Holding
  <2>7. CASE Sync(p)
    BY <2>7, <2>4, SyncIs, HoldGoto DEF Holding
  <2>8. CASE Advance(p)
    BY <2>8, <2>4, HoldGoto, CloseIs DEF Advance, At, Holding, Closed
  <2>9. CASE AdvanceUnknown(p) \/ Loaded(p) \/ Fail(p)
    BY <2>9, <2>4, CloseIs DEF AdvanceUnknown, Loaded, Fail, Closed
  <2>10. CASE CheckAdvanced(p)
    <3>1. CASE anchor = call[p].d
      <4>1. anchor \in Digests
        BY <3>1, <2>10, CallKinds DEF CheckAdvanced, At, Holding, HoldCalls
      <4>2. Reached(anchor)
        BY <4>1, NotBehindItself, ContentAssumption DEF Reached, Digests
      <4>3. call'[p].pc = "current" /\ call'[p].d = anchor
        BY <3>1, <2>10, HoldGoto DEF CheckAdvanced, At, Holding
      <4>4. Reached(anchor)'
        BY <4>2, <2>10 DEF CheckAdvanced, Reached, NotBehind
      <4>5. AnsweredAt(p)'
        BY <4>2, <4>3, <2>10 DEF AnsweredAt, CheckAdvanced, Reached, NotBehind
      <4> QED
        BY <4>5, <1>0, <2>10 DEF CheckAdvanced
    <3>2. CASE anchor # call[p].d
      BY <3>2, <2>10, <2>4, CloseIs DEF CheckAdvanced, Closed
    <3> QED
      BY <3>1, <3>2
  <2>11. CASE WriteCurrent(p)
    <3>1. call'[p].pc = "currentKept" /\ call'[p].d = call[p].d
      BY <2>11, HoldGoto DEF WriteCurrent, At, Holding
    <3>2. Reached(call[p].d)
      BY <2>11, <2>3 DEF WriteCurrent, At, AnsweredAt
    <3> QED
      BY <3>1, <3>2, <1>0, <2>11 DEF WriteCurrent, AnsweredAt, Reached, NotBehind
  <2>12. CASE Answer(p)
    <3>1. call'[p] = Closed
      BY <2>12, CloseIs DEF Answer
    <3>2. Reached(call[p].d)
      BY <2>12, <2>3 DEF Answer, At, AnsweredAt
    <3>3. Reached(call[p].d) => \A b \in {call[p].d} : Reached(b)'
      BY <2>12 DEF Answer, Reached, NotBehind
    <3>4. \A b \in answered' : Reached(b)'
      BY <3>2, <3>3, <1>0, <2>12 DEF Answer
    <3> QED
      BY <3>1, <3>4 DEF AnsweredAt, Closed
  <2>13. CASE BeginReconcile(p)
    <3>1. seen.pending = anchor /\ anchor \in Digests /\ seen.current \in Slots /\ anchor' = anchor
      BY <2>13 DEF BeginReconcile, Reconcilable, TypeOK, Files, Slots
    <3>2. Reached(anchor)
      BY <3>1, NotBehindItself, ContentAssumption DEF Reached, Digests
    <3>3. \A b : Reached(b) => Reached(b)'
      BY <3>1 DEF Reached, NotBehind
    <3>4. \A b \in answered' : Reached(b)'
      BY <3>1, <3>2, <3>3, <1>0, <2>13 DEF BeginReconcile
    <3>5. CASE seen.current = seen.pending
      BY <3>5, <3>4, <2>13 DEF BeginReconcile, AnsweredAt, At
    <3>6. CASE seen.current # seen.pending
      <4>1. call'[p].pc = "current" /\ call'[p].d = anchor
        BY <3>6, <3>1, <2>13, HoldIs DEF BeginReconcile, Holding
      <4> QED
        BY <4>1, <3>1, <3>2, <3>4 DEF AnsweredAt, Reached, NotBehind
    <3> QED
      BY <3>5, <3>6
  <2>14. CASE ReadCurrent(p)
    <3>1. call'[p].pc = "loadCheck" /\ call'[p].since = answered /\ answered' = answered
      BY <2>14 DEF ReadCurrent, TypeOK
    <3> QED
      BY <3>1, <1>0 DEF AnsweredAt
  <2>15. CASE CheckLoaded(p)
    <3>1. CASE anchor = call[p].d
      <4>1. anchor \in Digests
        BY <3>1, <2>15, CallKinds DEF CheckLoaded, At, Loading, LoadCalls
      <4>2. Reached(anchor)
        BY <4>1, NotBehindItself, ContentAssumption DEF Reached, Digests
      <4>3. call'[p].pc = "loadPayload" /\ call'[p].d = anchor /\ call'[p].since = call[p].since
        BY <3>1, <2>15, LoadGoto DEF CheckLoaded, At, Loading
      <4>4. \A b \in call[p].since : NotBehind(b, anchor)
        BY <2>15, <2>3 DEF CheckLoaded, At, AnsweredAt, Reached
      <4>5. AnsweredAt(p)'
        BY <4>2, <4>3, <4>4, <2>15 DEF AnsweredAt, CheckLoaded, Reached, NotBehind
      <4> QED
        BY <4>5, <1>0, <2>15 DEF CheckLoaded
    <3>2. CASE anchor # call[p].d
      BY <3>2, <2>15, <2>4, CloseIs DEF CheckLoaded, Closed
    <3> QED
      BY <3>1, <3>2
  <2>16. CASE ReadPayload(p)
    <3>1. Reached(call[p].d) /\ \A b \in call[p].since : NotBehind(b, call[p].d)
      BY <2>16, <2>3 DEF ReadPayload, At, AnsweredAt
    <3>2. Reached(call[p].d) => \A b \in {call[p].d} : Reached(b)'
      BY <2>16 DEF ReadPayload, Reached, NotBehind
    <3>3. \A b \in answered' : Reached(b)'
      BY <3>1, <3>2, <1>0, <2>16 DEF ReadPayload
    <3>4. \/ call'[p] = Closed
          \/ call'[p].pc = "loaded" /\ call'[p].d = call[p].d /\ call'[p].since = call[p].since
      BY <2>16, LoadGoto, CloseIs DEF ReadPayload, At, Loading
    <3> QED
      <4>1. anchor' = anchor
        BY <2>16 DEF ReadPayload
      <4>2. CASE call'[p] = Closed
        BY <3>3, <4>2 DEF AnsweredAt, Closed
      <4>3. CASE call'[p].pc = "loaded" /\ call'[p].d = call[p].d /\ call'[p].since = call[p].since
        BY <4>1, <3>1, <3>3, <4>3 DEF AnsweredAt, Reached, NotBehind
      <4> QED
        BY <3>4, <4>2, <4>3
  <2> QED
    BY <1>1, <2>5, <2>6, <2>7, <2>8, <2>9, <2>10, <2>11, <2>12, <2>13, <2>14, <2>15, <2>16, Zenon DEF NextOf
<1>2. CASE PowerLoss \/ Restore
  BY <1>2, <1>0 DEF PowerLoss, Restore, AnsweredInv, AnsweredAt, Closed
<1>3. ASSUME call' = call, answered' = answered PROVE AnsweredInv'
  BY <1>3, <1>0, AnsweredOthers DEF AnsweredInv
<1>4. CASE Refuse \/ TakeImage
  BY <1>4, <1>3 DEF Refuse, TakeImage
<1>5. ASSUME NEW request \in late, Arrive(request) PROVE AnsweredInv'
  BY <1>5, <1>3 DEF Arrive
<1>6. CASE UNCHANGED vars
  BY <1>6, <1>3 DEF vars
<1> QED
  BY <1>1, <1>2, <1>4, <1>5, <1>6, NextCases

\* What Load answers takes nothing back of what anyone had been answered before it
\* began, in every interleaving with a Publish, with late requests, and after the
\* directory was put back.
THEOREM CheckpointNoRollback == Spec => []NoRollback
<1> DEFINE Base == TypeOK /\ InOrder /\ AnsweredInv
<1>1. Init => Base
  BY BaseInit DEF Init, InOrder, AnsweredInv, AnsweredAt, Closed, Holding
<1>2. Base /\ [Next]_vars => Base'
  BY TypeStep, InOrderStep, AnsweredStep
<1>3. Base => NoRollback
  BY DEF AnsweredInv, AnsweredAt, NoRollback, At
<1> QED
  BY <1>1, <1>2, <1>3, PTL DEF Spec

-----------------------------------------------------------------------------
(* There                                                                   *)

Currents == {seen.current, disk.current}
Pendings == {seen.pending, disk.pending}

\* With these two in the directory and these payloads, the anchored checkpoint is
\* the current one, or Reconcile makes it that.
Leads(current, pending, payloads) ==
    \/ current = anchor /\ (anchor # Zero => Content[anchor].payload \in payloads)
    \/ /\ pending # Zero /\ pending = anchor
       /\ Content[pending].payload \in payloads
       /\ current = pending \/ Continues(current, pending)

\* Whichever of the two writes a power loss takes.
Survives == \A current \in Currents, pending \in Pendings : Leads(current, pending, disk.snapshots)

Generation(b) == IF b = Zero THEN 0 ELSE Content[b].generation

\* A request that is still on its way expects where the anchor is, or was.  If it
\* is where the anchor is, the checkpoint it would anchor is there, pending.
Arrivable ==
    \A r \in late :
        /\ Generation(r[1]) <= Generation(anchor)
        /\ Generation(r[1]) = Generation(anchor) => r[1] = anchor
        /\ r[1] = anchor => /\ Currents = {r[1]} /\ Pendings = {r[2]}
                            /\ Content[r[2]].payload \in disk.snapshots

NoneArrives == \A r \in late : r[1] # anchor

BeforePending == {"snapshot", "snapshotKept", "manifest", "manifestKept", "pending"}
BeforeAnchor  == BeforePending \cup {"pendingKept", "anchor"}
AfterAnchor   == {"check", "current", "currentKept"}

\* How far a call with the lock has come, of what is in the directory and of it on
\* stable storage.  No request can arrive under it.
Staged(p) ==
  LET pc == call[p].pc
      b  == call[p].before
      d  == call[p].d
  IN
    /\ pc \in Holding => NoneArrives
    /\ pc \in BeforeAnchor =>
         /\ anchor = b /\ Currents = {b}
         /\ b # Zero => Content[b].payload \in disk.snapshots
    /\ pc \in BeforePending => seen.pending \in {Zero, b}
    /\ pc \in BeforePending \cup {"pendingKept"} => disk.pending \in {Zero, b}
    /\ pc = "snapshot" => seen.snapshots = disk.snapshots
    /\ pc = "snapshotKept" => Content[d].payload \in seen.snapshots
    /\ pc \in Holding \ {"snapshot", "snapshotKept"} => Content[d].payload \in disk.snapshots
    /\ pc \in {"pendingKept", "anchor"} \cup AfterAnchor => seen.pending = d
    /\ pc \in {"anchor"} \cup AfterAnchor => disk.pending = d
    /\ pc \in AfterAnchor => anchor = d /\ disk.current = b
    /\ pc \in {"check", "current"} => seen.current = b
    /\ pc = "currentKept" => seen.current = d

ThereNow == Survives /\ Arrivable /\ \A p \in Procs : Staged(p)

\* Until an older image is put back.
ThereInv == count.restores = 0 => ThereNow

\* A call that has no lock has staged nothing.
LEMMA StagedFree == ASSUME NEW p \in Procs, call[p].pc \notin Holding PROVE Staged(p)
  BY DEF Staged, Holding, BeforePending, BeforeAnchor, AfterAnchor

\* What continues a checkpoint is of the next generation.
LEMMA ContinuesNext ==
    ASSUME NEW b \in Slots, NEW d \in Digests, Continues(b, d)
    PROVE  Generation(d) = Generation(b) + 1 /\ Generation(b) \in Nat /\ b # d /\ d # Zero
  BY ContinuesForward, ContentAssumption DEF Generation, Slots, Digests

\* Fewer writes of the directory to lose and more payloads in it: it leads where it led.
LEMMA SurvivesMore ==
    ASSUME ThereNow, Currents' \subseteq Currents, Pendings' \subseteq Pendings,
           disk.snapshots \subseteq disk'.snapshots, anchor' = anchor, late' = late
    PROVE  Survives' /\ Arrivable'
<1>1. Survives'
  BY DEF ThereNow, Survives, Leads
<1>2. Currents' # {} /\ Pendings' # {}
  BY DEF Currents, Pendings
<1>3. Arrivable'
  BY <1>2 DEF ThereNow, Arrivable, Generation
<1> QED
  BY <1>1, <1>3

\* While one process has the lock, no other has staged anything.
LEMMA StagedOthers ==
    ASSUME TypeOK, Exclusive, NEW p \in Procs, StepOf(p), call[p].pc \in Holding \/ LockFree
    PROVE  \A q \in Procs : q # p => Staged(q)'
<1> SUFFICES ASSUME NEW q \in Procs, q # p PROVE Staged(q)'
  OBVIOUS
<1>1. call'[q].pc \notin Holding
  BY DEF StepOf, Exclusive, LockFree
<1> QED
  BY <1>1 DEF Staged, Holding, BeforePending, BeforeAnchor, AfterAnchor

\* A step that takes away a call's lock, or leaves it without.
LEMMA StagedClosed ==
    ASSUME NEW p \in Procs, call'[p].pc \notin Holding
    PROVE  Staged(p)'
  BY DEF Staged, Holding, BeforePending, BeforeAnchor, AfterAnchor

\* Publish under the lock: the anchor is at the current checkpoint, whatever was cut
\* off before, and no request is on its way that could move it.
LEMMA PublishThere ==
    ASSUME TypeOK, Exclusive, InOrder, ThereNow, NEW p \in Procs,
           NEW d \in Digests, NEW expected \in Slots, BeginPublish(p, expected, d)
    PROVE  Staged(p)'
<1>1. call'[p].pc = "snapshot" /\ call'[p].before = expected /\ call'[p].d = d
  BY HoldIs DEF BeginPublish, Holding
<1>2. disk' = seen /\ seen' = seen /\ anchor' = anchor /\ late' = late
  BY DEF BeginPublish
<1>3. seen.current = expected /\ seen.pending \in {Zero, expected}
  BY DEF BeginPublish, Publishable
<1>4. Leads(seen.current, seen.pending, disk.snapshots)
  BY DEF ThereNow, Survives, Currents, Pendings
<1>5. anchor = expected
  BY <1>3, <1>4 DEF BeginPublish, Publishable, Leads
<1>6. expected # Zero => Content[expected].payload \in seen.snapshots
  BY <1>4, <1>5 DEF Leads, TypeOK
<1>7. NoneArrives
  <2> SUFFICES ASSUME NEW r \in late, r[1] = anchor PROVE FALSE
    BY DEF NoneArrives
  <2>1. r[2] \in Pendings /\ seen.pending = r[2]
    BY DEF ThereNow, Arrivable, Pendings
  <2>2. r[1] # r[2] /\ r[2] # Zero
    BY ContinuesNext DEF InOrder, TypeOK
  <2> QED
    BY <2>1, <2>2, <1>3, <1>5
<1>8. NoneArrives'
  BY <1>2, <1>7 DEF NoneArrives
<1>9. Currents' = {expected}
  BY <1>2, <1>3 DEF Currents
<1> QED
  BY <1>1, <1>2, <1>3, <1>5, <1>6, <1>8, <1>9
  DEF Staged, Holding, BeforePending, BeforeAnchor, AfterAnchor

\* Reconcile under the lock: what it finds anchored and pending is what it finishes.
LEMMA ReconcileThere ==
    ASSUME TypeOK, Exclusive, InOrder, ThereNow, NEW p \in Procs, BeginReconcile(p)
    PROVE  Staged(p)'
<1>1. seen.pending \in Digests /\ seen.current \in Slots /\ seen.pending = anchor
      /\ Content[seen.pending].payload \in seen.snapshots
  BY DEF BeginReconcile, Reconcilable, TypeOK, Files, Slots
<1>2. disk' = seen /\ seen' = seen /\ anchor' = anchor /\ late' = late
  BY DEF BeginReconcile
<1>3. CASE seen.current = seen.pending
  BY <1>3, StagedClosed DEF BeginReconcile, At, Holding
<1>4. CASE seen.current # seen.pending
  <2>1. call'[p].pc = "current" /\ call'[p].before = seen.current /\ call'[p].d = seen.pending
    BY <1>1, <1>4, HoldIs DEF BeginReconcile, Holding
  <2>2. NoneArrives
    <3> SUFFICES ASSUME NEW r \in late, r[1] = anchor PROVE FALSE
      BY DEF NoneArrives
    <3>1. seen.pending = r[2]
      BY DEF ThereNow, Arrivable, Pendings
    <3>2. r[1] # r[2]
      BY ContinuesNext DEF InOrder, TypeOK
    <3> QED
      BY <3>1, <3>2, <1>1
  <2>3. NoneArrives'
    BY <1>2, <2>2 DEF NoneArrives
  <2> QED
    BY <1>1, <1>2, <2>1, <2>3 DEF Staged, Holding, BeforePending, BeforeAnchor, AfterAnchor
<1> QED
  BY <1>3, <1>4

\* The two files a Publish keeps before it stages anything.
LEMMA KeepThere ==
    ASSUME TypeOK, ThereNow, NEW p \in Procs, KeepSnapshot(p) \/ KeepManifest(p)
    PROVE  Survives' /\ Arrivable' /\ Staged(p)'
<1> USE DEF Staged, Holding, BeforePending, BeforeAnchor, AfterAnchor
<1>1. Staged(p)
  BY Zenon DEF ThereNow
<1>2. disk' = disk /\ anchor' = anchor /\ late' = late
      /\ seen'.current = seen.current /\ seen'.pending = seen.pending
  BY DEF KeepSnapshot, KeepManifest, TypeOK, Files
<1>3. Currents' = Currents /\ Pendings' = Pendings
  BY <1>2 DEF Currents, Pendings
<1>4. NoneArrives' <=> NoneArrives
  BY <1>2 DEF NoneArrives
<1>5. CASE KeepSnapshot(p)
  <2>1. call[p].pc = "snapshot" /\ call'[p].d = call[p].d /\ call'[p].before = call[p].before
    BY <1>5, HoldGoto DEF KeepSnapshot, At
  <2>2. /\ NoneArrives' /\ anchor' = call[p].before /\ Currents' = {call[p].before}
        /\ call[p].before # Zero => Content[call[p].before].payload \in disk.snapshots
        /\ seen'.pending \in {Zero, call[p].before} /\ disk.pending \in {Zero, call[p].before}
        /\ seen.snapshots = disk.snapshots
    BY <1>1, <1>2, <1>3, <1>4, <2>1
  <2>3. ASSUME Content[call[p].d].payload \in seen.snapshots PROVE Staged(p)'
    <3>1. call'[p].pc = "manifest"
      BY <1>5, <2>3, HoldGoto DEF KeepSnapshot, At
    <3> QED
      BY <1>2, <2>1, <2>3, <2>2, <3>1
  <2>4. ASSUME Content[call[p].d].payload \notin seen.snapshots PROVE Staged(p)'
    <3>1. call'[p].pc = "snapshotKept"
      BY <1>5, <2>4, HoldGoto DEF KeepSnapshot, At
    <3>2. Content[call[p].d].payload \in seen'.snapshots
      BY <1>5 DEF KeepSnapshot, TypeOK, Files
    <3> QED
      BY <1>2, <2>1, <2>2, <3>1, <3>2
  <2> QED
    BY <2>3, <2>4, <1>2, <1>3, SurvivesMore
<1>6. CASE KeepManifest(p)
  <2>1. call[p].pc = "manifest" /\ call'[p].d = call[p].d /\ call'[p].before = call[p].before
        /\ call'[p].pc \in {"pending", "manifestKept"}
    BY <1>6, HoldGoto DEF KeepManifest, At
  <2>2. Staged(p)'
    BY <1>1, <1>2, <1>3, <1>4, <2>1
  <2> QED
    BY <2>2, <1>2, <1>3, SurvivesMore
<1> QED
  BY <1>5, <1>6

\* The candidate is staged over one that is the current checkpoint, or over none.
LEMMA PendingThere ==
    ASSUME TypeOK, ThereNow, NEW p \in Procs, WritePending(p)
    PROVE  Survives' /\ Arrivable' /\ Staged(p)'
<1> USE DEF Staged, Holding, BeforePending, BeforeAnchor, AfterAnchor
<1>1. Staged(p)
  BY Zenon DEF ThereNow
<1>2. disk' = disk /\ anchor' = anchor /\ late' = late
      /\ seen'.current = seen.current /\ seen'.pending = call[p].d
  BY DEF WritePending, TypeOK, Files
<1>3. call[p].pc = "pending" /\ call'[p].pc = "pendingKept" /\ call'[p].d = call[p].d /\ call'[p].before = call[p].before
  BY HoldGoto DEF WritePending, At
<1>4. Currents' = Currents
  BY <1>2 DEF Currents
<1>5. NoneArrives' /\ NoneArrives
  BY <1>1, <1>2, <1>3 DEF NoneArrives
<1>6. Staged(p)'
  BY <1>1, <1>2, <1>3, <1>4, <1>5
<1>7. Currents = {anchor} /\ (anchor # Zero => Content[anchor].payload \in disk.snapshots)
  BY <1>1, <1>3
<1>8. Survives'
  BY <1>2, <1>4, <1>7 DEF Survives, Leads
<1>9. Arrivable'
  BY <1>2, <1>5 DEF ThereNow, Arrivable, NoneArrives, Generation
<1> QED
  BY <1>6, <1>8, <1>9

\* The fsync after a rename.
LEMMA SyncThere ==
    ASSUME TypeOK, ThereNow, NEW p \in Procs, Sync(p)
    PROVE  Survives' /\ Arrivable' /\ Staged(p)'
<1> USE DEF Staged, Holding, BeforePending, BeforeAnchor, AfterAnchor
<1>1. Staged(p)
  BY Zenon DEF ThereNow
<1>2. disk' = seen /\ seen' = seen /\ anchor' = anchor /\ late' = late
  BY SyncIs
<1>3. Currents' \subseteq Currents /\ Pendings' \subseteq Pendings /\ Currents' # {} /\ disk.snapshots \subseteq seen.snapshots
  BY <1>2 DEF Currents, Pendings, TypeOK
<1>4. NoneArrives' <=> NoneArrives
  BY <1>2 DEF NoneArrives
<1>5. call'[p].d = call[p].d /\ call'[p].before = call[p].before
      /\ \/ call[p].pc = "snapshotKept" /\ call'[p].pc = "manifest"
         \/ call[p].pc = "manifestKept" /\ call'[p].pc = "pending"
         \/ call[p].pc = "pendingKept" /\ call'[p].pc = "anchor"
  BY SyncIs, HoldGoto
<1>6. Staged(p)'
  <2>1. Currents' = {call[p].before}
    BY <1>1, <1>3, <1>5
  <2>2. NoneArrives' /\ anchor' = call[p].before
        /\ (call[p].before # Zero => Content[call[p].before].payload \in seen.snapshots)
    BY <1>1, <1>2, <1>3, <1>4, <1>5
  <2>3. Content[call[p].d].payload \in seen.snapshots
    BY <1>1, <1>3, <1>5
  <2>4. CASE call'[p].pc \in {"manifest", "pending"}
    <3>1. seen.pending \in {Zero, call[p].before}
      BY <1>1, <1>5, <2>4
    <3> QED
      BY <1>2, <1>5, <2>1, <2>2, <2>3, <2>4, <3>1
  <2>5. CASE call'[p].pc = "anchor"
    <3>1. seen.pending = call[p].d
      BY <1>1, <1>5, <2>5
    <3> QED
      BY <1>2, <1>5, <2>1, <2>2, <2>3, <2>5, <3>1
  <2> QED
    BY <1>5, <2>4, <2>5
<1> QED
  BY <1>2, <1>3, <1>6, SurvivesMore

\* The anchor moves: to what is pending on stable storage, and past what any request
\* on its way expects.
LEMMA AnchorMovedThere ==
    ASSUME TypeOK, InOrder, Arrivable, NEW b \in Slots, NEW d \in Digests, Continues(b, d), anchor = b,
           anchor' = d, late' \subseteq late, seen' = seen, disk' = disk,
           Currents = {b}, Pendings = {d}, Content[d].payload \in disk.snapshots
    PROVE  Survives' /\ Arrivable' /\ NoneArrives'
<1>1. Generation(d) = Generation(b) + 1 /\ Generation(b) \in Nat /\ d # Zero
  BY ContinuesNext
<1>2. Currents' = {b} /\ Pendings' = {d}
  BY DEF Currents, Pendings
<1>3. Survives'
  BY <1>1, <1>2 DEF Survives, Leads
<1>4. \A r \in late : Generation(r[1]) \in Nat /\ Generation(r[1]) < Generation(d)
  <2> SUFFICES ASSUME NEW r \in late PROVE Generation(r[1]) \in Nat /\ Generation(r[1]) < Generation(d)
    OBVIOUS
  <2>1. Generation(r[1]) <= Generation(b)
    BY DEF Arrivable
  <2>2. Generation(r[1]) \in Nat
    BY ContinuesNext DEF InOrder, TypeOK
  <2> QED
    BY <2>1, <2>2, <1>1
<1>5. \A r \in late' : r[1] # d /\ Generation(r[1]) <= Generation(d) /\ Generation(r[1]) # Generation(d)
  BY <1>1, <1>4
<1>6. Arrivable' /\ NoneArrives'
  BY <1>5 DEF Arrivable, NoneArrives, Generation
<1> QED
  BY <1>3, <1>6

\* Advance_Anchor, when its answer is heard: under the lock the anchor is where the
\* call expects it.
LEMMA AdvanceThere ==
    ASSUME TypeOK, InOrder, ThereNow, NEW p \in Procs, Advance(p)
    PROVE  Survives' /\ Arrivable' /\ Staged(p)'
<1> USE DEF Staged, Holding, BeforePending, BeforeAnchor, AfterAnchor
<1>1. Staged(p)
  BY Zenon DEF ThereNow
<1>2. call[p].pc = "anchor" /\ call[p] \in HoldCalls /\ Continues(call[p].before, call[p].d)
  BY CallKinds DEF Advance, At, InOrder
<1>3. PICK b \in Slots, d \in Digests : b = call[p].before /\ d = call[p].d
  BY <1>2 DEF HoldCalls
<1>4. anchor = b /\ anchor' = d /\ Goto(p, "check") /\ seen' = seen /\ disk' = disk /\ late' = late
  BY <1>1, <1>2, <1>3 DEF Advance
<1>5. Currents = {b} /\ seen.pending = d /\ disk.pending = d /\ Content[d].payload \in disk.snapshots
  BY <1>1, <1>2, <1>3
<1>6. Survives' /\ Arrivable' /\ NoneArrives'
  BY <1>2, <1>3, <1>4, <1>5, AnchorMovedThere DEF ThereNow, Pendings
<1>7. call'[p].pc = "check" /\ call'[p].before = b /\ call'[p].d = d
  BY <1>2, <1>3, <1>4, HoldGoto
<1>8. seen.current = b /\ disk.current = b
  BY <1>5 DEF Currents
<1>9. Staged(p)'
  BY <1>4, <1>5, <1>6, <1>7, <1>8
<1> QED
  BY <1>6, <1>9

\* When nothing is heard of it, the request stays on its way, and what it would
\* anchor stays pending.
LEMMA AdvanceUnknownThere ==
    ASSUME TypeOK, InOrder, ThereNow, NEW p \in Procs, AdvanceUnknown(p)
    PROVE  Survives' /\ Arrivable' /\ Staged(p)'
<1>1. Staged(p)
  BY Zenon DEF ThereNow
<1>2. call[p].pc = "anchor"
  BY DEF AdvanceUnknown, At
<1>3. anchor = call[p].before /\ Currents = {call[p].before} /\ Pendings = {call[p].d}
      /\ Content[call[p].d].payload \in disk.snapshots
  BY <1>1, <1>2 DEF Staged, Holding, BeforePending, BeforeAnchor, AfterAnchor, Pendings
<1>4. late' = late \cup {<<call[p].before, call[p].d>>} /\ anchor' = anchor /\ seen' = seen /\ disk' = disk
  BY DEF AdvanceUnknown
<1>5. Survives' /\ Currents' = Currents /\ Pendings' = Pendings
  BY <1>4 DEF ThereNow, Survives, Leads, Currents, Pendings
<1>6. Generation(anchor) <= Generation(anchor)
  BY <1>2, <1>3, CallKinds, ContinuesNext DEF InOrder, HoldCalls, Holding
<1>7. Arrivable'
  <2>1. \A r \in late : /\ Generation(r[1]) <= Generation(anchor)
                        /\ Generation(r[1]) = Generation(anchor) => r[1] = anchor
                        /\ r[1] = anchor => /\ Currents = {r[1]} /\ Pendings = {r[2]}
                                            /\ Content[r[2]].payload \in disk.snapshots
    BY DEF ThereNow, Arrivable
  <2>2. \A r \in late' : /\ Generation(r[1]) <= Generation(anchor)
                         /\ Generation(r[1]) = Generation(anchor) => r[1] = anchor
                         /\ r[1] = anchor => /\ Currents = {r[1]} /\ Pendings = {r[2]}
                                             /\ Content[r[2]].payload \in disk.snapshots
    BY <1>3, <1>4, <1>6, <2>1
  <2> QED
    BY <1>4, <1>5, <2>2 DEF Arrivable, Generation
<1>8. Staged(p)'
  BY CloseIs, StagedClosed DEF AdvanceUnknown, Closed, Holding
<1> QED
  BY <1>5, <1>7, <1>8

\* A request arrives late: what it anchors is there, and pending.
LEMMA ArriveThere ==
    ASSUME TypeOK, InOrder, ThereNow, NEW request \in late, Arrive(request)
    PROVE  ThereNow'
<1>1. request[1] \in Slots /\ request[2] \in Digests /\ Continues(request[1], request[2])
  BY DEF TypeOK, InOrder
<1>2. late' \subseteq late /\ seen' = seen /\ disk' = disk /\ call' = call
  BY DEF Arrive
<1>3. CASE anchor = request[1]
  <2>1. \A p \in Procs : call[p].pc \notin Holding
    BY <1>3 DEF ThereNow, Staged, NoneArrives
  <2>2. \A p \in Procs : Staged(p)'
    BY <2>1, <1>2, StagedClosed
  <2>3. Currents = {request[1]} /\ Pendings = {request[2]} /\ Content[request[2]].payload \in disk.snapshots
    BY <1>3 DEF ThereNow, Arrivable
  <2>4. Survives' /\ Arrivable'
    BY <1>1, <1>2, <1>3, <2>3, AnchorMovedThere DEF Arrive, ThereNow
  <2> QED
    BY <2>2, <2>4 DEF ThereNow
<1>4. CASE anchor # request[1]
  <2>1. anchor' = anchor
    BY <1>4 DEF Arrive
  <2>2. Currents' = Currents /\ Pendings' = Pendings
    BY <1>2 DEF Currents, Pendings
  <2>3. Survives' /\ Arrivable'
    BY <1>2, <2>1, <2>2 DEF ThereNow, Survives, Leads, Arrivable, Generation
  <2>4. NoneArrives => NoneArrives'
    BY <1>2, <2>1 DEF NoneArrives
  <2>5. \A p \in Procs : Staged(p)'
    BY <1>2, <2>1, <2>2, <2>4 DEF ThereNow, Staged
  <2> QED
    BY <2>3, <2>5 DEF ThereNow
<1> QED
  BY <1>3, <1>4

\* After the anchor has moved: the answer is looked at again, ...
LEMMA CheckThere ==
    ASSUME TypeOK, ThereNow, NEW p \in Procs, CheckAdvanced(p)
    PROVE  Survives' /\ Arrivable' /\ Staged(p)'
<1>1. Staged(p)
  BY Zenon DEF ThereNow
<1>2. call[p].pc = "check" /\ disk' = disk /\ seen' = seen /\ anchor' = anchor /\ late' = late
  BY DEF CheckAdvanced, At
<1>3. Currents' = Currents /\ Pendings' = Pendings
  BY <1>2 DEF Currents, Pendings
<1>4. NoneArrives' <=> NoneArrives
  BY <1>2 DEF NoneArrives
<1>5. \/ call'[p] = Closed
      \/ call'[p].pc = "current" /\ call'[p].d = call[p].d /\ call'[p].before = call[p].before
  BY <1>2, HoldGoto, CloseIs DEF CheckAdvanced, Holding
<1>6. Staged(p)'
  BY <1>1, <1>2, <1>3, <1>4, <1>5 DEF Closed, Staged, Holding, BeforePending, BeforeAnchor, AfterAnchor
<1> QED
  BY <1>2, <1>3, <1>6, SurvivesMore

\* ... and the current checkpoint replaced, while the pending one is still there.
LEMMA CurrentThere ==
    ASSUME TypeOK, InOrder, ThereNow, NEW p \in Procs, WriteCurrent(p)
    PROVE  Survives' /\ Arrivable' /\ Staged(p)'
<1> USE DEF Staged, Holding, BeforePending, BeforeAnchor, AfterAnchor
<1>1. Staged(p)
  BY Zenon DEF ThereNow
<1>2. disk' = disk /\ anchor' = anchor /\ late' = late
      /\ seen'.pending = seen.pending /\ seen'.current = call[p].d
  BY DEF WriteCurrent, TypeOK, Files
<1>3. call[p].pc = "current" /\ call'[p].pc = "currentKept" /\ call'[p].d = call[p].d /\ call'[p].before = call[p].before
  BY HoldGoto DEF WriteCurrent, At
<1>4. call[p] \in HoldCalls /\ Continues(call[p].before, call[p].d)
  BY <1>3, CallKinds DEF InOrder
<1>5. PICK b \in Slots, d \in Digests : b = call[p].before /\ d = call[p].d
  BY <1>4 DEF HoldCalls
<1>6. anchor = d /\ disk.current = b /\ seen.pending = d /\ disk.pending = d /\ Content[d].payload \in disk.snapshots
      /\ NoneArrives
  BY <1>1, <1>3, <1>5
<1>7. Currents' = {d, b} /\ Pendings' = {d} /\ d # Zero
  BY <1>2, <1>5, <1>6, ContentAssumption DEF Currents, Pendings, Digests
<1>8. Survives'
  BY <1>2, <1>4, <1>5, <1>6, <1>7 DEF Survives, Leads
<1>9. NoneArrives'
  BY <1>2, <1>6 DEF NoneArrives
<1>10. Arrivable'
  BY <1>2, <1>9 DEF ThereNow, Arrivable, NoneArrives, Generation
<1>11. Staged(p)'
  BY <1>2, <1>3, <1>5, <1>6, <1>9
<1> QED
  BY <1>8, <1>10, <1>11

\* Steps that leave the directory, the anchor and the requests as they are.
LEMMA StillThere ==
    ASSUME ThereNow, UNCHANGED <<seen, disk, anchor, late>>
    PROVE  Survives' /\ Arrivable'
  BY SurvivesMore DEF Currents, Pendings

\* Every step of a process keeps the anchored checkpoint there.
LEMMA ThereOf ==
    ASSUME TypeOK, Exclusive, InOrder, ThereNow, NEW p \in Procs, NextOf(p)
    PROVE  ThereNow'
<1>1. StepOf(p)
  BY NextOfSteps
<1>2. ASSUME Survives', Arrivable', Staged(p)', call[p].pc \in Holding \/ LockFree PROVE ThereNow'
  BY <1>1, <1>2, StagedOthers DEF ThereNow
<1>3. ASSUME NEW d \in DOMAIN Content, NEW expected \in DOMAIN Content \cup {Zero}, BeginPublish(p, expected, d)
      PROVE  ThereNow'
  <2>1. Staged(p)'
    BY <1>3, PublishThere DEF Digests, Slots
  <2>2. LockFree /\ disk' = seen /\ seen' = seen /\ anchor' = anchor /\ late' = late
    BY <1>3 DEF BeginPublish
  <2>3. Survives' /\ Arrivable'
    BY <2>2, SurvivesMore DEF Currents, Pendings, TypeOK
  <2> QED
    BY <2>1, <2>2, <2>3, <1>2
<1>4. CASE BeginReconcile(p)
  <2>1. Staged(p)'
    BY <1>4, ReconcileThere
  <2>2. LockFree /\ disk' = seen /\ seen' = seen /\ anchor' = anchor /\ late' = late
    BY <1>4 DEF BeginReconcile
  <2>3. Survives' /\ Arrivable'
    BY <2>2, SurvivesMore DEF Currents, Pendings, TypeOK
  <2> QED
    BY <2>1, <2>2, <2>3, <1>2
<1>5. CASE KeepSnapshot(p) \/ KeepManifest(p)
  BY <1>5, <1>2, KeepThere DEF KeepSnapshot, KeepManifest, At, Holding
<1>6. CASE WritePending(p)
  BY <1>6, <1>2, PendingThere DEF WritePending, At, Holding
<1>7. CASE Sync(p)
  BY <1>7, <1>2, SyncThere, SyncIs DEF Holding
<1>8. CASE Advance(p)
  BY <1>8, <1>2, AdvanceThere DEF Advance, At, Holding
<1>9. CASE AdvanceUnknown(p)
  BY <1>9, <1>2, AdvanceUnknownThere DEF AdvanceUnknown, At, Holding
<1>10. CASE CheckAdvanced(p)
  BY <1>10, <1>2, CheckThere DEF CheckAdvanced, At, Holding
<1>11. CASE WriteCurrent(p)
  BY <1>11, <1>2, CurrentThere DEF WriteCurrent, At, Holding
<1>12. CASE Answer(p)
  <2>1. call[p].pc \in Holding /\ disk' = seen /\ seen' = seen /\ anchor' = anchor /\ late' = late
    BY <1>12 DEF Answer, At, Holding
  <2>2. Survives' /\ Arrivable'
    BY <2>1, SurvivesMore DEF Currents, Pendings, TypeOK
  <2>3. Staged(p)'
    BY <1>12, CloseIs, StagedClosed DEF Answer, Closed, Holding
  <2> QED
    BY <2>1, <2>2, <2>3, <1>2
<1>13. CASE ReadCurrent(p) \/ CheckLoaded(p) \/ ReadPayload(p) \/ Loaded(p) \/ Fail(p)
  <2>1. UNCHANGED <<seen, disk, anchor, late>>
    BY <1>13 DEF ReadCurrent, CheckLoaded, ReadPayload, Loaded, Fail
  <2>2. call'[p].pc \notin Holding
    <3>1. CASE ReadCurrent(p)
      BY <3>1 DEF ReadCurrent, TypeOK, Holding
    <3>2. CASE CheckLoaded(p) \/ ReadPayload(p)
      BY <3>2, LoadGoto, CloseIs DEF CheckLoaded, ReadPayload, At, Loading, Holding, Closed
    <3>3. CASE Loaded(p) \/ Fail(p)
      BY <3>3, CloseIs DEF Loaded, Fail, Closed, Holding
    <3> QED
      BY <1>13, <3>1, <3>2, <3>3
  <2>3. ASSUME NEW q \in Procs, q # p PROVE Staged(q)'
    BY <1>1, <2>1, <2>3 DEF StepOf, ThereNow, Staged, NoneArrives, Currents
  <2> QED
    BY <2>1, <2>2, <2>3, StillThere, StagedClosed DEF ThereNow
<1> QED
  BY <1>3, <1>4, <1>5, <1>6, <1>7, <1>8, <1>9, <1>10, <1>11, <1>12, <1>13, Zenon DEF NextOf

\* Every step keeps the anchored checkpoint there, as long as no image is put back.
LEMMA ThereStep == TypeOK /\ Exclusive /\ InOrder /\ ThereInv /\ [Next]_vars => ThereInv'
<1> SUFFICES ASSUME TypeOK, Exclusive, InOrder, ThereInv, [Next]_vars, count'.restores = 0 PROVE ThereNow'
  BY Zenon DEF ThereInv
<1>1. ~Restore
  BY DEF Restore, TypeOK
<1>2. count'.restores = count.restores
  <2>1. CASE Next
    BY <2>1, <1>1 DEF Next, TypeOK, Called, BeginPublish, KeepSnapshot, KeepManifest, WritePending, Sync, Advance,
       AdvanceUnknown, CheckAdvanced, WriteCurrent, Answer, BeginReconcile, ReadCurrent, CheckLoaded, ReadPayload,
       Loaded, Fail, Refuse, PowerLoss, TakeImage, Arrive
  <2>2. CASE UNCHANGED vars
    BY <2>2 DEF vars
  <2> QED
    BY <2>1, <2>2
<1>3. ThereNow
  BY <1>2 DEF ThereInv
<1>4. ASSUME NEW p \in Procs, NextOf(p) PROVE ThereNow'
  BY <1>3, <1>4, ThereOf
<1>5. CASE PowerLoss
  <2>1. /\ Currents' \subseteq Currents /\ Pendings' \subseteq Pendings
        /\ disk.snapshots \subseteq disk'.snapshots /\ anchor' = anchor /\ late' = late
    BY <1>5 DEF PowerLoss, Currents, Pendings, TypeOK
  <2>2. \A p \in Procs : Staged(p)'
    BY <1>5, StagedClosed DEF PowerLoss, Closed, Holding
  <2> QED
    BY <1>3, <2>1, <2>2, SurvivesMore DEF ThereNow
<1>6. CASE Refuse
  <2>1. /\ Currents' \subseteq Currents /\ Pendings' \subseteq Pendings
        /\ disk.snapshots \subseteq disk'.snapshots /\ anchor' = anchor /\ late' = late
    BY <1>6 DEF Refuse, Currents, Pendings, TypeOK
  <2>2. \A p \in Procs : Staged(p)'
    BY <1>6, StagedClosed DEF Refuse, LockFree
  <2> QED
    BY <1>3, <2>1, <2>2, SurvivesMore DEF ThereNow
<1>7. CASE TakeImage \/ UNCHANGED vars
  <2>1. UNCHANGED <<seen, disk, anchor, late, call>>
    BY <1>7 DEF TakeImage, vars
  <2>2. \A p \in Procs : Staged(p)'
    BY <1>3, <2>1 DEF ThereNow, Staged, NoneArrives, Currents
  <2> QED
    BY <1>3, <2>1, <2>2, StillThere DEF ThereNow
<1>8. ASSUME NEW request \in late, Arrive(request) PROVE ThereNow'
  BY <1>3, <1>8, ArriveThere
<1> QED
  BY <1>1, <1>4, <1>5, <1>6, <1>7, <1>8, NextCases, Zenon

\* The checkpoint the anchor accepts is on stable storage and can be read, current or
\* ready for Reconcile, wherever a Publish was cut off, whatever a power loss took and
\* whenever a lost request arrived; so the store never strands what it anchored.
THEOREM CheckpointAnchoredIsThere == Spec => []AnchoredIsThere
<1> DEFINE Base == TypeOK /\ Exclusive /\ InOrder /\ ThereInv
<1>1. Init => Base
  BY BaseInit DEF Init, InOrder, ThereInv, ThereNow, Survives, Leads, Arrivable, Currents, Pendings, Empty, Closed,
     Staged, Holding, BeforePending, BeforeAnchor, AfterAnchor
<1>2. Base /\ [Next]_vars => Base'
  BY TypeStep, ExclusiveStep, InOrderStep, ThereStep
<1>3. Base => AnchoredIsThere
  <2> SUFFICES ASSUME Base, anchor # Zero, count.restores = 0, NEW files \in {seen, disk}
               PROVE  \/ files.current = anchor /\ Content[anchor].payload \in files.snapshots
                      \/ Reconcilable(files)
    BY Zenon DEF AnchoredIsThere
  <2>1. Leads(files.current, files.pending, disk.snapshots)
    BY DEF ThereInv, ThereNow, Survives, Currents, Pendings
  <2>2. disk.snapshots \subseteq files.snapshots
    BY DEF TypeOK
  <2> QED
    BY <2>1, <2>2 DEF Leads, Reconcilable
<1> QED
  BY <1>1, <1>2, <1>3, PTL DEF Spec

=============================================================================
