--------------------------- MODULE CohortRebuild ---------------------------
(***************************************************************************)
(* nia_recovery.py reconstruct: an authenticated cohort rebuilt from       *)
(* damaged replicas into an empty candidate directory, file by file down   *)
(* to the system call (recovery_io.py Directory.create, write_new), while  *)
(* calls fail, the process is killed and power is lost, and while a second *)
(* run may have been given the same candidate.                             *)
(*                                                                         *)
(* Every file of the candidate has the bytes a reader sees, whether these  *)
(* are known to be on stable storage (`synced'), and whether its directory *)
(* entry is (`entered').  A power loss takes what is not.                  *)
(***************************************************************************)
EXTENDS CohortManifest

CONSTANTS
    Runs,           \* invocations of reconstruct; each is started once
    Manifests,      \* digest of a manifest -> the manifest
    Replicas,       \* how many replicas every run is given
    Media,          \* what the replicas may hold: replica -> digest -> copy
    Unreadable,     \* no file, or one that cannot be read: no bytes
    EvidenceLimit,  \* 2 * LIMIT: bytes of bad copies that are kept
    Torn            \* what is left of an interrupted write

ASSUME ReplicasAssumption == Replicas \in 1 .. 16
ASSUME ManifestsAssumption ==
    \A m \in DOMAIN Manifests : /\ Len(Manifests[m].objects) \in Nat
                                /\ DOMAIN Manifests[m].objects = 1 .. Len(Manifests[m].objects)
ASSUME EvidenceAssumption == EvidenceLimit \in Nat
ASSUME UnreadableAssumption == Unreadable \notin Bytes

VARIABLES
    media,    \* replica -> digest of a chunk -> what its objects/ file holds
    files,    \* the candidate's visible files
    dirs,     \* its visible directories
    kept,     \* those whose entry is on stable storage
    run       \* what each run has reached

vars == <<media, files, dirs, kept, run>>

-----------------------------------------------------------------------------
(* Names in the candidate                                                  *)

Root(name)     == <<"root", name>>
Payload(path)  == <<"payload", path>>
Evidence(b)    == <<"evidence", b>>

Intent == Root("intent.json")
Report == Root("report.json")
Ready  == Root("candidate-ready.json")

\* The directories a name lies in, "payload" and "evidence" among them.
Above(name) ==
    CASE name[1] = "root"     -> {}
      [] name[1] = "payload"  -> {<<"payload", p>> : p \in {<<>>} \cup Ancestors(name[2])}
      [] name[1] = "evidence" -> {<<"evidence", <<>>>>}

\* The objects of a run's manifest, and the one it is at.
Objects(r) == Manifests[run[r].anchor].objects
Object(r)  == Objects(r)[run[r].object]

-----------------------------------------------------------------------------

NoJob == [name |-> Intent, data |-> <<>>, then |-> "idle"]

Idle == [pc |-> "idle", anchor |-> CHOOSE m \in DOMAIN Manifests : TRUE, object |-> 1, chunk |-> 1, replica |-> 1,
         selected |-> Unreadable, hashed |-> <<>>, verified |-> <<>>,
         evidence |-> 0, met |-> {}, job |-> NoJob]

Ended == {"refused", "exists", "exhausted", "stopped", "incomplete", "ready"}
Live(r) == run[r].pc \notin Ended \cup {"idle"}

Init ==
    /\ media \in Media
    /\ files = <<>>
    /\ dirs = {} /\ kept = {}
    /\ run = [r \in Runs |-> Idle]

Goto(r, pc) == run' = [run EXCEPT ![r].pc = pc]

\* The process is gone; how it ended and which bad copies it met are remembered.
Over(r, pc) == [Idle EXCEPT !.pc = pc, !.anchor = run[r].anchor, !.met = run[r].met]
End(r, pc)  == run' = [run EXCEPT ![r] = Over(r, pc)]

\* Hand a file to write_new and go on at `then'.
WriteNew(r, name, data, then) ==
    run' = [run EXCEPT ![r].pc = "create", ![r].job = [name |-> name, data |-> data, then |-> then]]

\* reconstruct up to its first write: the manifest is authenticated (the rest
\* of that is CohortTrust), the candidate listed, its free space looked at.
Start(r, m) ==
    /\ run[r].pc = "idle"
    /\ run' = [run EXCEPT ![r].anchor = m,
                          ![r].pc = IF ValidManifest(Manifests[m]) THEN "list" ELSE "refused"]
    /\ UNCHANGED <<media, files, dirs, kept>>

List(r) ==
    /\ run[r].pc = "list"
    /\ \/ /\ DOMAIN files = {} /\ dirs = {}
          /\ WriteNew(r, Intent, <<run[r].anchor>>, "manifest")
       \/ End(r, "refused")   \* not empty, or no room
    /\ UNCHANGED <<media, files, dirs, kept>>

WriteManifest(r) ==
    /\ run[r].pc = "manifest"
    /\ WriteNew(r, Root("manifest.json"), <<run[r].anchor>>, "anchor")
    /\ UNCHANGED <<media, files, dirs, kept>>

WriteAnchor(r) ==
    /\ run[r].pc = "anchor"
    /\ WriteNew(r, Root("anchor.json"), <<run[r].anchor>>, "object")
    /\ UNCHANGED <<media, files, dirs, kept>>

-----------------------------------------------------------------------------
(* Directory.create and write_new                                          *)

\* Fault: O_CREAT without O_EXCL.
TakenNever(name) == Above(name) \cap DOMAIN files # {}

\* A name cannot be created where one is, nor below a file.
Taken(name) == name \in DOMAIN files \cup dirs \/ Above(name) \cap DOMAIN files # {}

\* The file and every directory missing above it; each mkdir is followed by an
\* fsync of the directory it was made in.  Nothing else can reach the new
\* directories before the file is there.
Made(r, name) ==
    /\ files' = [n \in DOMAIN files \cup {name} |->
                   IF n = name THEN [data |-> <<>>, synced |-> FALSE, entered |-> FALSE, by |-> r]
                               ELSE files[n]]
    /\ dirs' = dirs \cup Above(name)
    /\ kept' = kept \cup (Above(name) \ dirs)

Create(r) ==
    /\ run[r].pc = "create"
    /\ ~Taken(run[r].job.name)
    /\ Made(r, run[r].job.name)
    /\ Goto(r, "write")
    /\ UNCHANGED media

\* FileExistsError is an end to the run, except for evidence.
CreateExists(r) ==
    /\ run[r].pc = "create"
    /\ Taken(run[r].job.name)
    /\ IF /\ run[r].job.then = "chunk"
          /\ run[r].job.name \in DOMAIN files
          /\ files[run[r].job.name].data = run[r].job.data
       THEN Goto(r, "chunk")
       ELSE End(r, "exists")
    /\ UNCHANGED <<media, files, dirs, kept>>

Write(r) ==
    /\ run[r].pc = "write"
    /\ files' = [files EXCEPT ![run[r].job.name].data = run[r].job.data]
    /\ Goto(r, "sync")
    /\ UNCHANGED <<media, dirs, kept>>

Sync(r) ==
    /\ run[r].pc = "sync"
    /\ files' = [files EXCEPT ![run[r].job.name].synced = TRUE]
    /\ Goto(r, "syncdir")
    /\ UNCHANGED <<media, dirs, kept>>

\* fsync of the directory the file was created in.
SyncDir(r) ==
    /\ run[r].pc = "syncdir"
    /\ files' = [files EXCEPT ![run[r].job.name].entered = TRUE]
    /\ IF run[r].job.then \in Ended
       THEN End(r, run[r].job.then)
       ELSE run' = [run EXCEPT ![r].pc = run[r].job.then, ![r].job = NoJob,
                               ![r].evidence = IF run[r].job.then = "chunk"
                                               THEN @ + run[r].job.data[1].len ELSE @]
    /\ UNCHANGED <<media, dirs, kept>>

-----------------------------------------------------------------------------
(* The objects                                                             *)

Open(r) ==
    /\ run[r].pc = "object" /\ run[r].object <= Len(Objects(r))
    /\ IF Taken(Payload(Object(r).path))
       THEN End(r, "exists") /\ UNCHANGED <<files, dirs, kept>>
       ELSE /\ Made(r, Payload(Object(r).path))
            /\ run' = [run EXCEPT ![r].pc = "chunk", ![r].chunk = 1, ![r].replica = 1,
                                  ![r].selected = Unreadable, ![r].hashed = <<>>]
    /\ UNCHANGED media

Reading(r) ==
    /\ run[r].pc = "chunk"
    /\ run[r].chunk <= Len(Object(r).chunks) /\ run[r].replica <= Replicas

Wanted(r) == Object(r).chunks[run[r].chunk]
Found(r)  == media[run[r].replica][Wanted(r)]

\* The bytes the manifest asks for here.
Matches(r, b) == b = Wanted(r) /\ b.len = ChunkLength(Object(r).size, run[r].chunk)

\* Fault: an unreadable replica ends the search for the chunk.
ReadUnreadableGivesUp(r) ==
    /\ Reading(r) /\ Found(r) = Unreadable
    /\ run' = [run EXCEPT ![r].replica = Replicas + 1]
    /\ UNCHANGED <<media, files, dirs, kept>>

ReadUnreadable(r) ==
    /\ Reading(r) /\ Found(r) = Unreadable
    /\ run' = [run EXCEPT ![r].replica = @ + 1]
    /\ UNCHANGED <<media, files, dirs, kept>>

\* Every replica is read, also after the first good copy.
ReadGood(r) ==
    /\ Reading(r) /\ Found(r) # Unreadable /\ Matches(r, Found(r))
    /\ run' = [run EXCEPT ![r].replica = @ + 1,
                          ![r].selected = IF @ = Unreadable THEN Found(r) ELSE @]
    /\ UNCHANGED <<media, files, dirs, kept>>

\* Fault: at the limit bad bytes are passed over, as unreadable ones are.
ReadBadUnkept(r) ==
    /\ Reading(r) /\ Found(r) # Unreadable /\ ~Matches(r, Found(r))
    /\ LET b == Found(r)
           seen == [run EXCEPT ![r].replica = @ + 1, ![r].met = @ \cup {b}]
       IN  IF run[r].evidence + b.len > EvidenceLimit
           THEN run' = seen
           ELSE run' = [seen EXCEPT ![r].pc = "create",
                                    ![r].job = [name |-> Evidence(b), data |-> <<b>>, then |-> "chunk"]]
    /\ UNCHANGED <<media, files, dirs, kept>>

\* Bad bytes are put into evidence/ before anything else is read.
ReadBad(r) ==
    /\ Reading(r) /\ Found(r) # Unreadable /\ ~Matches(r, Found(r))
    /\ LET b == Found(r) IN
         IF run[r].evidence + b.len > EvidenceLimit
         THEN End(r, "exhausted")
         ELSE run' = [run EXCEPT ![r].pc = "create", ![r].replica = @ + 1, ![r].met = @ \cup {b},
                                 ![r].job = [name |-> Evidence(b), data |-> <<b>>, then |-> "chunk"]]
    /\ UNCHANGED <<media, files, dirs, kept>>

\* A copy was selected: it is hashed and appended to the payload file.
AppendChunk(r) ==
    /\ run[r].pc = "chunk"
    /\ run[r].chunk <= Len(Object(r).chunks) /\ run[r].replica > Replicas
    /\ run[r].selected # Unreadable
    /\ files' = [files EXCEPT ![Payload(Object(r).path)].data = Append(@, run[r].selected)]
    /\ run' = [run EXCEPT ![r].hashed = Append(@, run[r].selected), ![r].chunk = @ + 1,
                          ![r].replica = 1, ![r].selected = Unreadable]
    /\ UNCHANGED <<media, dirs, kept>>

\* The object is through, or a chunk of it has no intact copy.
LeaveLoop(r) ==
    /\ run[r].pc = "chunk"
    /\ \/ run[r].chunk > Len(Object(r).chunks)
       \/ run[r].replica > Replicas /\ run[r].selected = Unreadable
    /\ run' = [run EXCEPT ![r].pc = "fsync",
                          ![r].verified = Append(@, /\ run[r].chunk > Len(Object(r).chunks)
                                                    /\ run[r].hashed = Object(r).sha256)]
    /\ UNCHANGED <<media, files, dirs, kept>>

\* Fault: without the fsync of the payload file.
FsyncSkipped(r) ==
    /\ run[r].pc = "fsync"
    /\ Goto(r, "fsyncdir")
    /\ UNCHANGED <<media, files, dirs, kept>>

Fsync(r) ==
    /\ run[r].pc = "fsync"
    /\ files' = [files EXCEPT ![Payload(Object(r).path)].synced = TRUE]
    /\ Goto(r, "fsyncdir")
    /\ UNCHANGED <<media, dirs, kept>>

\* Fault: without the fsync of its directory.
FsyncParentSkipped(r) ==
    /\ run[r].pc = "fsyncdir"
    /\ run' = [run EXCEPT ![r].pc = "object", ![r].object = @ + 1]
    /\ UNCHANGED <<media, files, dirs, kept>>

FsyncParent(r) ==
    /\ run[r].pc = "fsyncdir"
    /\ files' = [files EXCEPT ![Payload(Object(r).path)].entered = TRUE]
    /\ run' = [run EXCEPT ![r].pc = "object", ![r].object = @ + 1]
    /\ UNCHANGED <<media, dirs, kept>>

-----------------------------------------------------------------------------
(* The report and the marker                                               *)

Complete(r) == \A i \in DOMAIN run[r].verified : run[r].verified[i]

ReportOf(r) == [anchor |-> run[r].anchor, verified |-> run[r].verified]

WriteReport(r) ==
    /\ run[r].pc = "object" /\ run[r].object > Len(Objects(r))
    /\ WriteNew(r, Report, <<ReportOf(r)>>, IF Complete(r) THEN "marker" ELSE "incomplete")
    /\ UNCHANGED <<media, files, dirs, kept>>

WriteReady(r) ==
    /\ run[r].pc = "marker"
    /\ WriteNew(r, Ready, <<[anchor |-> run[r].anchor, report |-> ReportOf(r)]>>, "ready")
    /\ UNCHANGED <<media, files, dirs, kept>>

-----------------------------------------------------------------------------
(* Faults                                                                  *)

\* SIGKILL, or a call that fails: the exception ends the run where it is, with
\* whatever part of a write got through.
Stop(r) ==
    /\ Live(r)
    /\ End(r, "stopped")
    /\ \/ UNCHANGED files
       \/ /\ run[r].pc = "write"
          /\ files' = [files EXCEPT ![run[r].job.name].data = <<Torn>>]
       \/ /\ run[r].pc = "chunk" /\ run[r].selected # Unreadable
          /\ files' = [files EXCEPT ![Payload(Object(r).path)].data = Append(@, Torn)]
    /\ UNCHANGED <<media, dirs, kept>>

\* The machine loses power: of what had not reached stable storage, any part.
PowerLoss ==
    /\ \E r \in Runs : Live(r)
    /\ \E lostDirs \in SUBSET (dirs \ kept),
          lost \in SUBSET {n \in DOMAIN files : ~files[n].entered},
          torn \in SUBSET {n \in DOMAIN files : ~files[n].synced} :
         LET left == {n \in DOMAIN files \ lost : Above(n) \cap lostDirs = {}} IN
           /\ files' = [n \in left |->
                          [files[n] EXCEPT !.data = IF n \in torn THEN <<Torn>> ELSE @,
                                           !.synced = TRUE, !.entered = TRUE]]
           /\ dirs' = {d \in dirs \ lostDirs : \A e \in lostDirs : d[1] # e[1] \/ e[2] # SubSeq(d[2], 1, Len(e[2]))}
           /\ kept' = dirs'
    /\ run' = [r \in Runs |-> IF Live(r) THEN Over(r, "stopped") ELSE run[r]]
    /\ UNCHANGED media

-----------------------------------------------------------------------------

Step(r) ==
    \/ List(r) \/ WriteManifest(r) \/ WriteAnchor(r)
    \/ Create(r) \/ CreateExists(r) \/ Write(r) \/ Sync(r) \/ SyncDir(r)
    \/ Open(r) \/ ReadUnreadable(r) \/ ReadGood(r) \/ ReadBad(r)
    \/ AppendChunk(r) \/ LeaveLoop(r) \/ Fsync(r) \/ FsyncParent(r)
    \/ WriteReport(r) \/ WriteReady(r)

Next ==
    \/ \E r \in Runs : Step(r) \/ Stop(r) \/ (\E m \in DOMAIN Manifests : Start(r, m))
    \/ PowerLoss

\* A started process is scheduled; nothing makes anyone start it.
Spec == Init /\ [][Next]_vars /\ \A r \in Runs : WF_vars(Step(r))

-----------------------------------------------------------------------------

\* These bytes are there to stay: a power loss takes nothing of them.
Holds(name, data) ==
    /\ name \in DOMAIN files
    /\ files[name].data = data /\ files[name].synced /\ files[name].entered
    /\ Above(name) \subseteq kept

\* The completion marker can be read, and is not the rest of a torn write.
Marked == Ready \in DOMAIN files /\ files[Ready].data \notin {<<>>, <<Torn>>}
Mark   == files[Ready].data[1]

\* A candidate that has a readable candidate-ready.json has every object of the
\* pinned manifest, whole and on stable storage, under the intent and the
\* report of the same anchor: whatever was killed, torn or lost on the way, and
\* however many runs were started on the candidate.
ReadyMeansRebuilt ==
    Marked =>
        LET m == Manifests[Mark.anchor] IN
        /\ Holds(Intent, <<Mark.anchor>>)
        /\ Holds(Root("manifest.json"), <<Mark.anchor>>)
        /\ Holds(Root("anchor.json"), <<Mark.anchor>>)
        /\ Holds(Report, <<Mark.report>>)
        /\ \A i \in DOMAIN m.objects :
             /\ Mark.report.verified[i]
             /\ Holds(Payload(m.objects[i].path), m.objects[i].sha256)

\* Before a run declares the candidate ready, every bad copy it met is in
\* evidence/ and on stable storage ("no READY marker without preserved
\* evidence").
EvidenceBeforeReady ==
    Marked => \A b \in run[files[Ready].by].met : Holds(Evidence(b), <<b>>)

\* All there is in a candidate was written by one run: of two that both found
\* it empty, the one that created intent.json.
OneWriter == \A n, k \in DOMAIN files : files[n].by = files[k].by

\* Once the marker is on stable storage nothing in the candidate changes any
\* more: not by later runs, which refuse it, and not by a power loss.
ReadyIsFinal ==
    [][Marked /\ files[Ready].synced /\ files[Ready].entered => UNCHANGED files]_vars

\* The manifest says the same in every place, and each of its chunks has an
\* intact copy left.
Recoverable(m) ==
    \A i \in DOMAIN Manifests[m].objects :
        LET o == Manifests[m].objects[i] IN
        /\ o.sha256 = o.chunks
        /\ \A k \in DOMAIN o.chunks :
             /\ o.chunks[k].len = ChunkLength(o.size, k)
             /\ \E j \in 1 .. Replicas : media[j][o.chunks[k]] = o.chunks[k]

\* A run that got the candidate and is neither killed nor out of room ends,
\* and ends with the marker as long as one intact copy of every chunk is left,
\* be they on different replicas and all others bad.
Rebuilds ==
    \A r \in Runs :
        run[r].pc = "list" ~>
            \/ run[r].pc \in {"refused", "exists", "exhausted", "stopped"}
            \/ run[r].pc = "ready" /\ Marked
            \/ run[r].pc = "incomplete" /\ ~Recoverable(run[r].anchor)
=============================================================================
