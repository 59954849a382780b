-------------------------- MODULE CheckpointStore --------------------------
(***************************************************************************)
(* MC_Checkpoint_Store: checkpoints of a stream in a directory, and an     *)
(* anchor outside of it that says which of them counts.  Publish stages a  *)
(* checkpoint as pending, moves the anchor by compare-and-swap and then    *)
(* replaces the current one; Reconcile finishes what a Publish left after  *)
(* the anchor had moved; Load answers only what the anchor confirms.       *)
(*                                                                         *)
(* Processes are killed, calls fail, power is lost; the answer of the      *)
(* anchor is lost and the request arrives late; and the whole directory is *)
(* put back to an older image, which only the anchor can tell.             *)
(*                                                                         *)
(* Files are `seen' by readers, and what of them is on stable storage is   *)
(* `disk'.  They share a directory, so that one fsync takes them all.      *)
(***************************************************************************)
EXTENDS Integers, FiniteSets

CONSTANTS
    Procs,      \* processes that use the store
    Content,    \* digest of a descriptor -> the descriptor
    Zero,       \* Zero_Digest; as the content of a file: there is none
    MaxCalls,   \* bound: calls made
    MaxFaults,  \* bound: kills, failing calls and refused authorizations
    MaxLosses,  \* bound: power losses
    MaxRestores \* bound: older images put back

Fields == {"generation", "previous", "payload", "records", "head", "trust", "replay"}

ASSUME ContentAssumption ==
    /\ Zero \notin DOMAIN Content
    /\ \A d \in DOMAIN Content :
         /\ DOMAIN Content[d] = Fields /\ Content[d].payload # Zero
         /\ {Content[d].generation, Content[d].records, Content[d].trust} \subseteq Nat
         /\ {Content[d].replay.epoch, Content[d].replay.token, Content[d].replay.sequence} \subseteq Nat
ASSUME CheckpointBoundsAssumption == {MaxCalls, MaxFaults, MaxLosses, MaxRestores} \subseteq Nat

VARIABLES
    seen, disk,  \* [current, pending, snapshots, manifests]
    anchor,      \* the manifest the external anchor accepts, or Zero
    late,        \* requests to it that may still arrive
    call,        \* what each process is doing
    answered,    \* history: checkpoints that were answered OK to anyone
    image,       \* an older state of the directory
    count        \* bounds: [calls, faults, losses, restores]

vars == <<seen, disk, anchor, late, call, answered, image, count>>

Closed == [pc |-> "closed"]
Empty  == [current |-> Zero, pending |-> Zero, snapshots |-> {}, manifests |-> {}]

Init ==
    /\ seen = Empty /\ disk = Empty /\ image = Empty
    /\ anchor = Zero
    /\ late = {}
    /\ call = [p \in Procs |-> Closed]
    /\ answered = {}
    /\ count = [calls |-> 0, faults |-> 0, losses |-> 0, restores |-> 0]

-----------------------------------------------------------------------------
(* MC_Checkpoint                                                           *)

\* Valid, of what a descriptor says of its place.
Valid(d) ==
    /\ Content[d].generation > 0 /\ Content[d].trust > 0
    /\ Content[d].records = 0 \/ Content[d].head # Zero
    /\ Content[d].generation = 1 <=> Content[d].previous = Zero

\* Fault: a checkpoint may begin the replay window again.
FollowsAnyReplay(b, d) ==
    /\ Valid(b) /\ Valid(d)
    /\ Content[d].generation = Content[b].generation + 1
    /\ Content[d].previous = b
    /\ Content[d].records >= Content[b].records
    /\ Content[d].records = Content[b].records => Content[d].head = Content[b].head
    /\ Content[d].trust >= Content[b].trust

Follows(b, d) ==
    LET x == Content[b].replay
        y == Content[d].replay
    IN  /\ Valid(b) /\ Valid(d)
        /\ Content[d].generation = Content[b].generation + 1
        /\ Content[d].previous = b
        /\ Content[d].records >= Content[b].records
        /\ Content[d].records = Content[b].records => Content[d].head = Content[b].head
        /\ Content[d].trust >= Content[b].trust
        /\ y.epoch >= x.epoch /\ y.token >= x.token
        /\ y.epoch > x.epoch \/ y.token > x.token \/ y.sequence >= x.sequence

\* The first checkpoint, or one that follows the current one.
Continues(b, d) == IF b = Zero THEN Valid(d) /\ Content[d].generation = 1 ELSE Follows(b, d)

-----------------------------------------------------------------------------
(* Publish                                                                 *)

Holding == {"snapshot", "snapshotKept", "manifest", "manifestKept", "pending", "pendingKept",
            "anchor", "check", "current", "currentKept"}

LockFree == \A p \in Procs : call[p].pc \notin Holding

At(p, pc)     == call[p].pc = pc
Goto(p, pc)   == call' = [call EXCEPT ![p].pc = pc]
Close(p)      == call' = [call EXCEPT ![p] = Closed]
Hold(p, pc, b, d) == call' = [call EXCEPT ![p] = [pc |-> pc, before |-> b, d |-> d]]

Called == count.calls < MaxCalls /\ count' = [count EXCEPT !.calls = @ + 1]

\* Fault: whatever is pending is staged over.
PublishableOverPending(expected, d) ==
    /\ seen.current # Zero => anchor = seen.current
    /\ expected = seen.current
    /\ Continues(seen.current, d)

\* What Publish checks under the lock.  A pending checkpoint that is not the
\* current one stands in the way: it may have been anchored.
Publishable(expected, d) ==
    /\ seen.current # Zero => anchor = seen.current
    /\ expected = seen.current
    /\ Continues(seen.current, d)
    /\ seen.pending \in {Zero, seen.current}

\* Opening checkpoint.lock makes durable what others left.
BeginPublish(p, expected, d) ==
    /\ At(p, "closed") /\ LockFree /\ Publishable(expected, d)
    /\ Called
    /\ disk' = seen
    /\ Hold(p, "snapshot", expected, d)
    /\ UNCHANGED <<seen, anchor, late, answered, image>>

\* A Publish or a Reconcile that is refused has opened the lock all the same.
Refuse ==
    /\ LockFree
    /\ disk' = seen
    /\ UNCHANGED <<seen, anchor, late, call, answered, image, count>>

\* Keep: the file is there already, and is the same, or it is put there.
KeepSnapshot(p) ==
    /\ At(p, "snapshot")
    /\ IF Content[call[p].d].payload \in seen.snapshots THEN Goto(p, "manifest") ELSE Goto(p, "snapshotKept")
    /\ seen' = [seen EXCEPT !.snapshots = @ \cup {Content[call[p].d].payload}]
    /\ UNCHANGED <<disk, anchor, late, answered, image, count>>

KeepManifest(p) ==
    /\ At(p, "manifest")
    /\ IF call[p].d \in seen.manifests THEN Goto(p, "pending") ELSE Goto(p, "manifestKept")
    /\ seen' = [seen EXCEPT !.manifests = @ \cup {call[p].d}]
    /\ UNCHANGED <<disk, anchor, late, answered, image, count>>

WritePending(p) ==
    /\ At(p, "pending")
    /\ seen' = [seen EXCEPT !.pending = call[p].d]
    /\ Goto(p, "pendingKept")
    /\ UNCHANGED <<disk, anchor, late, answered, image, count>>

\* The fsync of the directory after each rename.
Sync(p) ==
    /\ call[p].pc \in {"snapshotKept", "manifestKept", "pendingKept"}
    /\ disk' = seen
    /\ Goto(p, CASE At(p, "snapshotKept") -> "manifest"
                 [] At(p, "manifestKept") -> "pending"
                 [] At(p, "pendingKept")  -> "anchor")
    /\ UNCHANGED <<seen, anchor, late, answered, image, count>>

\* Advance_Anchor: the anchor moves if it is still where it was expected, ...
Advance(p) ==
    /\ At(p, "anchor")
    /\ IF anchor = call[p].before
       THEN anchor' = call[p].d /\ Goto(p, "check")
       ELSE Close(p) /\ UNCHANGED anchor
    /\ UNCHANGED <<seen, disk, late, answered, image, count>>

\* ... or nothing is heard of it, and the request may still arrive.
AdvanceUnknown(p) ==
    /\ At(p, "anchor")
    /\ late' = late \cup {<<call[p].before, call[p].d>>}
    /\ Close(p)
    /\ UNCHANGED <<seen, disk, anchor, answered, image, count>>

Arrive(request) ==
    /\ late' = late \ {request}
    /\ anchor' = IF anchor = request[1] THEN request[2] ELSE anchor
    /\ UNCHANGED <<seen, disk, call, answered, image, count>>

CheckAdvanced(p) ==
    /\ At(p, "check")
    /\ IF anchor = call[p].d THEN Goto(p, "current") ELSE Close(p)
    /\ UNCHANGED <<seen, disk, anchor, late, answered, image, count>>

WriteCurrent(p) ==
    /\ At(p, "current")
    /\ seen' = [seen EXCEPT !.current = call[p].d]
    /\ Goto(p, "currentKept")
    /\ UNCHANGED <<disk, anchor, late, answered, image, count>>

\* Durable, and answered OK: by Publish and by Reconcile.
Answer(p) ==
    /\ At(p, "currentKept")
    /\ disk' = seen
    /\ answered' = answered \cup {call[p].d}
    /\ Close(p)
    /\ UNCHANGED <<seen, anchor, late, image, count>>

-----------------------------------------------------------------------------
(* Reconcile                                                               *)

\* What Reconcile checks of a directory: an anchored candidate with its payload
\* that is, or continues, the current checkpoint.
Reconcilable(files) ==
    /\ files.pending # Zero /\ files.pending = anchor
    /\ Content[files.pending].payload \in files.snapshots
    /\ files.current = files.pending \/ Continues(files.current, files.pending)

BeginReconcile(p) ==
    /\ At(p, "closed") /\ LockFree /\ Reconcilable(seen)
    /\ Called
    /\ disk' = seen
    /\ IF seen.current = seen.pending
       THEN answered' = answered \cup {seen.pending} /\ UNCHANGED call
       ELSE Hold(p, "current", seen.current, seen.pending) /\ UNCHANGED answered
    /\ UNCHANGED <<seen, anchor, late, image>>

-----------------------------------------------------------------------------
(* Load, without the lock                                                  *)

ReadCurrent(p) ==
    /\ At(p, "closed") /\ seen.current # Zero
    /\ Called
    /\ call' = [call EXCEPT ![p] = [pc |-> "loadCheck", d |-> seen.current, since |-> answered]]
    /\ UNCHANGED <<seen, disk, anchor, late, answered, image>>

\* Fault: what was published once is taken for accepted.
LoadUnchecked(p) ==
    /\ At(p, "loadCheck")
    /\ IF call[p].d \in answered \cup {anchor} THEN Goto(p, "loadPayload") ELSE Close(p)
    /\ UNCHANGED <<seen, disk, anchor, late, answered, image, count>>

CheckLoaded(p) ==
    /\ At(p, "loadCheck")
    /\ IF anchor = call[p].d THEN Goto(p, "loadPayload") ELSE Close(p)
    /\ UNCHANGED <<seen, disk, anchor, late, answered, image, count>>

ReadPayload(p) ==
    /\ At(p, "loadPayload")
    /\ IF Content[call[p].d].payload \in seen.snapshots
       THEN Goto(p, "loaded") /\ answered' = answered \cup {call[p].d}
       ELSE Close(p) /\ UNCHANGED answered
    /\ UNCHANGED <<seen, disk, anchor, late, image, count>>

Loaded(p) ==
    /\ At(p, "loaded")
    /\ Close(p)
    /\ UNCHANGED <<seen, disk, anchor, late, answered, image, count>>

-----------------------------------------------------------------------------
(* Faults                                                                  *)

\* A kill, a failing call, or an authorization that is refused.
Fail(p) ==
    /\ ~At(p, "closed")
    /\ count.faults < MaxFaults /\ count' = [count EXCEPT !.faults = @ + 1]
    /\ Close(p)
    /\ UNCHANGED <<seen, disk, anchor, late, answered, image>>

\* Of what is not on stable storage any part is lost.
PowerLoss ==
    /\ count.losses < MaxLosses /\ count' = [count EXCEPT !.losses = @ + 1]
    /\ \E current \in {seen.current, disk.current}, pending \in {seen.pending, disk.pending},
          lost \in SUBSET (seen.snapshots \ disk.snapshots), gone \in SUBSET (seen.manifests \ disk.manifests) :
         seen' = [current |-> current, pending |-> pending,
                  snapshots |-> seen.snapshots \ lost, manifests |-> seen.manifests \ gone]
    /\ disk' = seen'
    /\ call' = [p \in Procs |-> Closed]
    /\ UNCHANGED <<anchor, late, answered, image>>

\* Somebody takes an image of the directory, and puts it back later.
TakeImage ==
    /\ count.restores < MaxRestores /\ LockFree /\ image # disk
    /\ image' = disk
    /\ UNCHANGED <<seen, disk, anchor, late, call, answered, count>>

Restore ==
    /\ count.restores < MaxRestores /\ count' = [count EXCEPT !.restores = @ + 1]
    /\ seen' = image /\ disk' = image
    /\ call' = [p \in Procs |-> Closed]
    /\ UNCHANGED <<anchor, late, answered, image>>

-----------------------------------------------------------------------------

Next ==
    \/ \E p \in Procs :
         \/ \E d \in DOMAIN Content, expected \in DOMAIN Content \cup {Zero} : BeginPublish(p, expected, d)
         \/ KeepSnapshot(p) \/ KeepManifest(p) \/ WritePending(p) \/ Sync(p)
         \/ Advance(p) \/ AdvanceUnknown(p) \/ CheckAdvanced(p) \/ WriteCurrent(p) \/ Answer(p)
         \/ BeginReconcile(p)
         \/ ReadCurrent(p) \/ CheckLoaded(p) \/ ReadPayload(p) \/ Loaded(p)
         \/ Fail(p)
    \/ Refuse \/ PowerLoss \/ TakeImage \/ Restore
    \/ \E request \in late : Arrive(request)

Spec == Init /\ [][Next]_vars

-----------------------------------------------------------------------------

\* Checkpoint d takes nothing back that b has: no record, no trust epoch, and no
\* request of its replay window.
NotBehind(b, d) ==
    LET x == Content[b].replay
        y == Content[d].replay
    IN  /\ Content[d].generation >= Content[b].generation
        /\ Content[d].records >= Content[b].records
        /\ Content[d].trust >= Content[b].trust
        /\ y.epoch >= x.epoch /\ y.token >= x.token
        /\ y.epoch = x.epoch /\ y.token = x.token => y.sequence >= x.sequence

\* Wherever a Publish was cut off and whatever a power loss took, the checkpoint
\* the anchor accepts is on stable storage, current or ready for Reconcile: the
\* anchor never moves to a checkpoint that is not there, and a candidate that may
\* yet be anchored is never written over.  (Not after an older image was put back.)
AnchoredIsThere ==
    anchor # Zero /\ count.restores = 0 =>
        \A files \in {seen, disk} :
            \/ files.current = anchor /\ Content[anchor].payload \in files.snapshots
            \/ Reconcilable(files)

\* What Load answers takes nothing back of what anyone was answered before that
\* Load began, not even when the directory was put back to an older image.
NoRollback ==
    \A p \in Procs : At(p, "loaded") => \A b \in call[p].since : NotBehind(b, call[p].d)

\* The anchor moves from each checkpoint only to one made to follow it, whatever
\* requests arrive late or for a second time.
AnchorOnlyForward ==
    [][anchor' # anchor => IF anchor = Zero THEN Content[anchor'].generation = 1
                           ELSE Content[anchor'].previous = anchor /\ NotBehind(anchor, anchor')]_vars
=============================================================================
