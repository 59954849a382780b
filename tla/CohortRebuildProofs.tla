------------------------ MODULE CohortRebuildProofs ------------------------
(***************************************************************************)
(* What a candidate directory shows is true however many reconstructions   *)
(* were started on it and wherever they were cut off: theorems about       *)
(* CohortRebuild for any number of runs, replicas and manifests.           *)
(***************************************************************************)
EXTENDS CohortRebuild, TLAPS

\* A record with the fields of a file.
IsFile(f) ==
    /\ f = [k \in DOMAIN f |-> f[k]]
    /\ DOMAIN f = {"data", "synced", "entered", "by"}

\* A table of files.
Filed(f) ==
    /\ f = [n \in DOMAIN f |-> f[n]]
    /\ \A n \in DOMAIN f : IsFile(f[n])

\* The tables are tables.
Shape ==
    /\ files = [n \in DOMAIN files |-> files[n]]
    /\ \A n \in DOMAIN files : IsFile(files[n])
    /\ DOMAIN run = Runs
    /\ \A r \in Runs : DOMAIN run[r] = {"pc", "anchor", "object", "chunk", "replica", "selected", "hashed",
                                        "verified", "evidence", "met", "job"}

\* Run r is about to create intent.json.
Claiming(r) == run[r].pc = "create" /\ run[r].job.name = Intent

\* Run r has created intent.json, and is still running.
Begun(r) == Live(r) /\ run[r].pc # "list" /\ ~Claiming(r)

\* Run r is handing a file to write_new; has it open; is within the loop over the
\* chunks of an object; has that object's file open.
Handing(r)  == run[r].pc \in {"create", "write", "sync", "syncdir"}
Writing(r)  == run[r].pc \in {"write", "sync", "syncdir"}
Looping(r)  == run[r].pc = "chunk" \/ (Handing(r) /\ run[r].job.then = "chunk")
InObject(r) == Looping(r) \/ run[r].pc \in {"fsync", "fsyncdir"}

\* Run r has all of its objects, and knows them whole.
Marking(r) == run[r].pc = "marker" \/ (Handing(r) /\ run[r].job.name = Ready)

\* What may be handed to write_new, and where it leads.
Handed(r) ==
    LET j == run[r].job IN
    \/ j.name = Intent /\ j.data = <<run[r].anchor>> /\ j.then = "manifest"
    \/ j.name = Root("manifest.json") /\ j.data = <<run[r].anchor>> /\ j.then = "anchor"
    \/ j.name = Root("anchor.json") /\ j.data = <<run[r].anchor>> /\ j.then = "object"
    \/ j.then = "chunk" /\ \E b \in run[r].met : j.name = Evidence(b) /\ j.data = <<b>>
    \/ j.name = Report /\ j.data = <<ReportOf(r)>> /\ j.then = "incomplete"
    \/ j.name = Report /\ j.data = <<ReportOf(r)>> /\ j.then = "marker" /\ Complete(r)
    \/ j.name = Ready /\ j.data = <<[anchor |-> run[r].anchor, report |-> ReportOf(r)]>> /\ j.then = "ready"

\* A run that has not begun has met nothing and done nothing.
Fresh(r) ==
    /\ run[r].object = 1 /\ run[r].verified = <<>> /\ run[r].met = {}
    /\ run[r].pc # "idle" => run[r].anchor \in DOMAIN Manifests

\* The objects passed are those a verdict was given on.
Counted(r) ==
    /\ run[r].anchor \in DOMAIN Manifests
    /\ run[r].verified \in Seq(BOOLEAN)
    /\ run[r].object \in 1 .. Len(Objects(r)) + 1
    /\ Len(run[r].verified) = IF run[r].pc \in {"fsync", "fsyncdir"} THEN run[r].object ELSE run[r].object - 1
    /\ InObject(r) => run[r].object <= Len(Objects(r))
    /\ Handing(r) /\ run[r].job.name = Report => run[r].object > Len(Objects(r))
    /\ Marking(r) => run[r].object > Len(Objects(r)) /\ Complete(r)

\* What the place of a run says of itself.
Placed(r) ==
    /\ Handing(r) => Handed(r)
    /\ run[r].pc \in {"idle", "list"} \/ Claiming(r) => Fresh(r)
    /\ Begun(r) => Counted(r)

-----------------------------------------------------------------------------

\* The file is on stable storage; run r has it open.
Firm(n)     == files[n].synced = TRUE /\ files[n].entered = TRUE
Loose(r, n) == \/ Writing(r) /\ n = run[r].job.name
               \/ InObject(r) /\ n = Payload(Object(r).path)

\* There is such a file.
Shows(name, data) == name \in DOMAIN files /\ files[name].data = data

\* What a run has open is there, everything else is on stable storage, and nobody
\* goes on after the marker.
Tidy(r) ==
    /\ \A n \in DOMAIN files : Loose(r, n) \/ Firm(n)
    /\ Writing(r) => /\ run[r].job.name \in DOMAIN files /\ files[run[r].job.name].entered = FALSE
                     /\ run[r].pc # "write" => files[run[r].job.name].data = run[r].job.data
                     /\ run[r].pc = "syncdir" => files[run[r].job.name].synced = TRUE
    /\ InObject(r) => Payload(Object(r).path) \in DOMAIN files
    /\ run[r].pc = "fsyncdir" => files[Payload(Object(r).path)].synced = TRUE
    /\ Ready \in DOMAIN files => Writing(r) /\ run[r].job.name = Ready

\* The bad copies a run met are kept, or being kept.
Keeping(r) ==
    \A b \in run[r].met : Shows(Evidence(b), <<b>>) \/ (Handing(r) /\ run[r].job.name = Evidence(b))

\* What a run has written so far.
Headed(r) ==
    /\ ~(Handing(r) /\ run[r].job.name = Intent) => Shows(Intent, <<run[r].anchor>>)
    /\ run[r].pc # "manifest" /\ ~(Handing(r) /\ run[r].job.then \in {"manifest", "anchor"})
         => Shows(Root("manifest.json"), <<run[r].anchor>>)
    /\ run[r].pc \notin {"manifest", "anchor"}
         /\ ~(Handing(r) /\ run[r].job.then \in {"manifest", "anchor", "object"})
         => Shows(Root("anchor.json"), <<run[r].anchor>>)
    /\ Marking(r) => Shows(Report, <<ReportOf(r)>>)

\* The objects it has passed are there as their verdict says; the one it is at has
\* been hashed as it was written, and is another than those before it.
Passed(r) ==
    /\ \A i \in 1 .. Len(run[r].verified) :
         /\ Payload(Objects(r)[i].path) \in DOMAIN files
         /\ run[r].verified[i] => files[Payload(Objects(r)[i].path)].data = Objects(r)[i].sha256
    /\ Looping(r) => /\ files[Payload(Object(r).path)].data = run[r].hashed
                     /\ \A i \in 1 .. Len(run[r].verified) : Objects(r)[i].path # Object(r).path

RunInv(r) == Begun(r) => Tidy(r) /\ Keeping(r) /\ Headed(r) /\ Passed(r)

-----------------------------------------------------------------------------

\* A run that has begun owns all there is; who still claims an occupied candidate
\* will find intent.json there.
Owned ==
    /\ \A r \in Runs : Begun(r) => Intent \in DOMAIN files /\ \A n \in DOMAIN files : files[n].by = r
    /\ \A r \in Runs : Claiming(r) /\ DOMAIN files # {} => Intent \in DOMAIN files
    /\ OneWriter

\* Every directory made is on stable storage.
Grounded ==
    /\ kept = dirs
    /\ \A n \in DOMAIN files : Above(n) \subseteq dirs /\ files[n].by \in Runs

\* Everything ReadyMeansRebuilt says of a marker but its being on stable storage.
Whole(mark) ==
    LET m == Manifests[mark.anchor] IN
    /\ Shows(Intent, <<mark.anchor>>)
    /\ Shows(Root("manifest.json"), <<mark.anchor>>)
    /\ Shows(Root("anchor.json"), <<mark.anchor>>)
    /\ Shows(Report, <<mark.report>>)
    /\ \A i \in DOMAIN m.objects : /\ mark.report.verified[i]
                                   /\ Shows(Payload(m.objects[i].path), m.objects[i].sha256)

\* Where the marker's file is, all others are on stable storage.
Last ==
    Ready \in DOMAIN files =>
        /\ \A n \in DOMAIN files : n # Ready => Firm(n)
        /\ \A b \in run[files[Ready].by].met : Shows(Evidence(b), <<b>>)
        /\ files[Ready].data \in {<<>>, <<Torn>>} \/ Whole(Mark)

Inv ==
    /\ Shape /\ Owned /\ Grounded /\ Last
    /\ \A r \in Runs : Placed(r) /\ RunInv(r)

-----------------------------------------------------------------------------

\* The names in a candidate differ.
LEMMA Names ==
  /\ \A p, n : Payload(p) # Root(n)
  /\ \A b, n : Evidence(b) # Root(n)
  /\ \A b, p : Evidence(b) # Payload(p)
  /\ Intent # Ready /\ Intent # Report /\ Report # Ready
  /\ Root("manifest.json") \notin {Intent, Ready, Report}
  /\ Root("anchor.json") \notin {Intent, Ready, Report, Root("manifest.json")}
  /\ \A b, c : Evidence(b) = Evidence(c) => b = c
BY DEF Payload, Root, Evidence, Intent, Ready, Report

\* A file that is made is a file.
LEMMA FileMade ==
  ASSUME NEW a, NEW b, NEW c, NEW d
  PROVE  IsFile([data |-> a, synced |-> b, entered |-> c, by |-> d])
BY DEF IsFile

\* So is one that is changed in one field.
LEMMA FileChanged ==
  ASSUME NEW f, IsFile(f), NEW v, NEW g,
         g = [f EXCEPT !.data = v] \/ g = [f EXCEPT !.synced = v] \/ g = [f EXCEPT !.entered = v]
  PROVE  IsFile(g)
BY DEF IsFile

\* So is one as a power loss leaves it.
LEMMA FileSettled ==
  ASSUME NEW f, IsFile(f), NEW v, NEW g, g = [f EXCEPT !.data = v, !.synced = TRUE, !.entered = TRUE]
  PROVE  IsFile(g)
BY DEF IsFile

\* A file on stable storage is the same after a power loss.
LEMMA FileFirm ==
  ASSUME NEW f, IsFile(f), NEW v, NEW g, g = [f EXCEPT !.data = v, !.synced = TRUE, !.entered = TRUE],
         v = f.data, f.synced = TRUE, f.entered = TRUE
  PROVE  g = f
BY DEF IsFile

\* The table of files stays one when a file is created.
LEMMA FiledMade ==
  ASSUME Shape, NEW r \in Runs, NEW name, Made(r, name)
  PROVE  Filed(files')
<1>1. /\ files' = [n \in DOMAIN files' |-> files'[n]] /\ DOMAIN files' = DOMAIN files \cup {name}
      /\ files'[name] = [data |-> <<>>, synced |-> FALSE, entered |-> FALSE, by |-> r]
      /\ \A n \in DOMAIN files \ {name} : files'[n] = files[n]
  BY DEF Made
<1>2. IsFile(files'[name])
  BY <1>1, FileMade
<1> QED BY <1>1, <1>2 DEF Filed, Shape

\* So it does when a field of one changes.
LEMMA FiledChanged ==
  ASSUME Shape, NEW name, NEW v,
         \/ files' = [files EXCEPT ![name].data = v]
         \/ files' = [files EXCEPT ![name].synced = v]
         \/ files' = [files EXCEPT ![name].entered = v]
  PROVE  Filed(files')
<1>1. /\ files' = [n \in DOMAIN files' |-> files'[n]] /\ DOMAIN files' = DOMAIN files
      /\ \A n \in DOMAIN files \ {name} : files'[n] = files[n]
      /\ name \in DOMAIN files => \/ files'[name] = [files[name] EXCEPT !.data = v]
                                  \/ files'[name] = [files[name] EXCEPT !.synced = v]
                                  \/ files'[name] = [files[name] EXCEPT !.entered = v]
  OBVIOUS
<1>2. ASSUME name \in DOMAIN files
      PROVE  IsFile(files'[name])
  <2>1. IsFile(files[name])
    BY <1>2 DEF Shape
  <2> QED BY <1>1, <1>2, <2>1, FileChanged
<1> QED BY <1>1, <1>2 DEF Filed, Shape

\* A step of one run leaves the others' places alone, and the tables tables.
LEMMA ShapeStep ==
  ASSUME Shape, NEW r \in Runs, Step(r) \/ Stop(r) \/ \E m \in DOMAIN Manifests : Start(r, m)
  PROVE  Shape' /\ \A s \in Runs \ {r} : run'[s] = run[s]
<1> USE DEF Shape, Goto, End, Over, WriteNew, Idle, NoJob
<1>1. CASE \E m \in DOMAIN Manifests : Start(r, m)
  BY <1>1 DEF Start
<1>2. CASE List(r)
  BY <1>2 DEF List
<1>3. CASE WriteManifest(r) \/ WriteAnchor(r) \/ WriteReport(r) \/ WriteReady(r)
  BY <1>3 DEF WriteManifest, WriteAnchor, WriteReport, WriteReady
<1>4. CASE Create(r)
  <2>1. Filed(files') /\ Goto(r, "write")
    BY <1>4, FiledMade DEF Create
  <2> QED BY <2>1 DEF Filed
<1>5. CASE CreateExists(r)
  BY <1>5 DEF CreateExists
<1>6. CASE Write(r) \/ Sync(r) \/ SyncDir(r) \/ AppendChunk(r) \/ Fsync(r) \/ FsyncParent(r)
  <2>1. Filed(files')
    <3>1. CASE Write(r)
      BY <3>1, FiledChanged DEF Write
    <3>2. CASE Sync(r) \/ Fsync(r)
      BY <3>2, FiledChanged DEF Sync, Fsync
    <3>3. CASE SyncDir(r) \/ FsyncParent(r)
      BY <3>3, FiledChanged DEF SyncDir, FsyncParent
    <3>4. CASE AppendChunk(r)
      BY <3>4, FiledChanged DEF AppendChunk
    <3> QED BY <1>6, <3>1, <3>2, <3>3, <3>4
  <2>2. DOMAIN run' = Runs /\ (\A s \in Runs : DOMAIN run'[s] = DOMAIN run[s])
        /\ \A s \in Runs \ {r} : run'[s] = run[s]
    <3>1. CASE Write(r) \/ Sync(r) \/ Fsync(r)
      BY <3>1 DEF Write, Sync, Fsync
    <3>2. CASE SyncDir(r)
      BY <3>2 DEF SyncDir
    <3>3. CASE AppendChunk(r) \/ FsyncParent(r)
      BY <3>3 DEF AppendChunk, FsyncParent
    <3> QED BY <1>6, <3>1, <3>2, <3>3
  <2> QED BY <2>1, <2>2 DEF Filed
<1>7. CASE Open(r)
  <2>1. CASE Taken(Payload(Object(r).path))
    BY <1>7, <2>1 DEF Open
  <2>2. CASE ~Taken(Payload(Object(r).path))
    <3>1. Made(r, Payload(Object(r).path))
          /\ run' = [run EXCEPT ![r].pc = "chunk", ![r].chunk = 1, ![r].replica = 1,
                                ![r].selected = Unreadable, ![r].hashed = <<>>]
      BY <1>7, <2>2 DEF Open
    <3>2. Filed(files')
      BY <3>1, FiledMade
    <3> QED BY <3>1, <3>2 DEF Filed
  <2> QED BY <2>1, <2>2
<1>8. CASE ReadUnreadable(r) \/ ReadGood(r)
  BY <1>8 DEF ReadUnreadable, ReadGood
<1>9. CASE ReadBad(r)
  BY <1>9 DEF ReadBad
<1>10. CASE LeaveLoop(r)
  BY <1>10 DEF LeaveLoop
<1>11. CASE Stop(r)
  <2>1. Filed(files')
    <3>1. CASE UNCHANGED files
      BY <3>1 DEF Filed
    <3>2. CASE ~UNCHANGED files
      BY <1>11, <3>2, FiledChanged DEF Stop
    <3> QED BY <3>1, <3>2
  <2>2. DOMAIN run' = Runs /\ (\A s \in Runs : DOMAIN run'[s] = DOMAIN run[s])
        /\ \A s \in Runs \ {r} : run'[s] = run[s]
    BY <1>11 DEF Stop
  <2> QED BY <2>1, <2>2 DEF Filed
<1> QED BY <1>1, <1>2, <1>3, <1>4, <1>5, <1>6, <1>7, <1>8, <1>9, <1>10, <1>11 DEF Step

-----------------------------------------------------------------------------

\* A run whose place does not change is where it was.
LEMMA Alike ==
  ASSUME NEW s \in Runs, run'[s] = run[s]
  PROVE  /\ Begun(s)' = Begun(s) /\ Claiming(s)' = Claiming(s) /\ Placed(s)' = Placed(s)
         /\ files' = files => RunInv(s)' = RunInv(s)
<1>1. Begun(s)' = Begun(s) /\ Claiming(s)' = Claiming(s)
  BY DEF Begun, Live, Claiming
<1>2. /\ Handing(s)' = Handing(s) /\ Looping(s)' = Looping(s) /\ InObject(s)' = InObject(s)
      /\ Writing(s)' = Writing(s) /\ Marking(s)' = Marking(s)
      /\ Objects(s)' = Objects(s) /\ Object(s)' = Object(s)
      /\ ReportOf(s)' = ReportOf(s) /\ Complete(s)' = Complete(s)
  BY DEF Handing, Writing, Looping, InObject, Marking, Objects, Object, ReportOf, Complete
<1>3. Handed(s)' = Handed(s) /\ Fresh(s)' = Fresh(s) /\ Counted(s)' = Counted(s)
  BY <1>2 DEF Handed, Fresh, Counted
<1>4. Placed(s)' = Placed(s)
  BY <1>1, <1>2, <1>3 DEF Placed
<1>5. ASSUME files' = files
      PROVE  RunInv(s)' = RunInv(s)
  <2>1. Tidy(s)' = Tidy(s)
    BY <1>2, <1>5 DEF Tidy, Loose, Firm
  <2>2. Keeping(s)' = Keeping(s) /\ Headed(s)' = Headed(s) /\ Passed(s)' = Passed(s)
    BY <1>2, <1>5 DEF Keeping, Headed, Passed, Shows
  <2> QED BY <1>1, <2>1, <2>2 DEF RunInv
<1> QED BY <1>1, <1>4, <1>5

\* While one run is on its way and no other is, what it leaves behind is all there
\* is to look at.
LEMMA Frame ==
  ASSUME Inv, NEW r \in Runs, Shape', \A s \in Runs \ {r} : ~Begun(s) /\ run'[s] = run[s],
         Placed(r)', RunInv(r)', Grounded', Last',
         Intent \in DOMAIN files', \A n \in DOMAIN files' : files'[n].by = r
  PROVE  Inv'
<1>1. \A s \in Runs \ {r} : ~Begun(s)' /\ Placed(s)'
  BY Alike DEF Inv
<1>2. \A s \in Runs : RunInv(s)' /\ Placed(s)'
  BY <1>1 DEF RunInv
<1>3. OneWriter'
  BY DEF OneWriter
<1>4. Owned'
  BY <1>1, <1>3 DEF Owned
<1> QED BY <1>2, <1>4 DEF Inv

\* Of two runs at most one has begun.
LEMMA Alone ==
  ASSUME Inv, NEW r \in Runs, Begun(r)
  PROVE  \A s \in Runs \ {r} : ~Begun(s)
BY DEF Inv, Owned

\* A run that goes on without touching a file.
LEMMA Still ==
  ASSUME Inv, NEW r \in Runs, Begun(r), ~Writing(r), UNCHANGED <<files, dirs, kept>>,
         Shape', \A s \in Runs \ {r} : run'[s] = run[s], Placed(r)', RunInv(r)'
  PROVE  Inv'
<1>1. Ready \notin DOMAIN files
  BY DEF Inv, RunInv, Tidy
<1>2. Last'
  BY <1>1 DEF Last
<1>3. Grounded'
  BY DEF Inv, Grounded
<1>4. Intent \in DOMAIN files' /\ \A n \in DOMAIN files' : files'[n].by = r
  BY DEF Inv, Owned
<1> QED BY <1>2, <1>3, <1>4, Alone, Frame

\* A run that has not begun, or is over, and touches no file.
LEMMA Aside ==
  ASSUME Inv, NEW r \in Runs, UNCHANGED <<files, dirs, kept>>, Shape',
         \A s \in Runs \ {r} : run'[s] = run[s], run'[r].met = run[r].met, Placed(r)', ~Begun(r)',
         Claiming(r)' /\ DOMAIN files # {} => Intent \in DOMAIN files
  PROVE  Inv'
<1>1. \A s \in Runs : Placed(s)' /\ RunInv(s)'
  BY Alike DEF Inv, RunInv
<1>2. Grounded' /\ Owned'
  BY Alike DEF Inv, Owned, Grounded, OneWriter
<1>3. \A s \in Runs : run'[s].met = run[s].met
  OBVIOUS
<1>4. Last'
  BY <1>3 DEF Inv, Grounded, Last, Firm, Shows, Whole, Mark
<1> QED BY <1>1, <1>2, <1>4 DEF Inv

\* What is left of a run that has ended asks nothing.
LEMMA Gone ==
  ASSUME NEW r \in Runs, run'[r].pc \in Ended
  PROVE  Placed(r)' /\ RunInv(r)' /\ ~Begun(r)' /\ ~Claiming(r)'
<1>1. /\ ~Begun(r)' /\ ~Claiming(r)' /\ ~Handing(r)'
      /\ run'[r].pc \notin {"idle", "list"}
  BY DEF Begun, Live, Ended, Handing, Claiming
<1> QED BY <1>1 DEF Placed, RunInv

\* What is known of a run that has begun.
LEMMA Known ==
  ASSUME Inv, NEW r \in Runs, Begun(r)
  PROVE  /\ Tidy(r) /\ Keeping(r) /\ Headed(r) /\ Passed(r) /\ Counted(r)
         /\ Handing(r) => Handed(r)
         /\ Intent \in DOMAIN files /\ \A n \in DOMAIN files : files[n].by = r
         /\ Ready \in DOMAIN files => Writing(r)
BY DEF Inv, RunInv, Placed, Owned, Tidy

\* As long as it is at the same place of the same manifest, it means the same objects.
LEMMA SameObject ==
  ASSUME NEW r \in Runs, run'[r].anchor = run[r].anchor
  PROVE  /\ Objects(r)' = Objects(r)
         /\ run'[r].object = run[r].object => Object(r)' = Object(r)
         /\ run'[r].verified = run[r].verified
              => (ReportOf(r)' = ReportOf(r) /\ Complete(r)' = Complete(r))
BY DEF Objects, Object, ReportOf, Complete

\* Within an object nothing is open but its file.
LEMMA SameTidy ==
  ASSUME NEW r \in Runs, Tidy(r), ~Writing(r), ~Writing(r)', InObject(r), InObject(r)', files' = files,
         run'[r].pc # "fsyncdir", run'[r].anchor = run[r].anchor, run'[r].object = run[r].object
  PROVE  Tidy(r)'
<1>1. Object(r)' = Object(r)
  BY SameObject
<1>2. \A n : Loose(r, n)' = Loose(r, n)
  BY <1>1 DEF Loose
<1>3. \A n \in DOMAIN files' : Loose(r, n)' \/ Firm(n)'
  BY <1>2 DEF Tidy, Firm
<1>4. Ready \notin DOMAIN files'
  BY DEF Tidy
<1>5. Payload(Object(r).path)' \in DOMAIN files'
  BY <1>1 DEF Tidy
<1> QED BY <1>3, <1>4, <1>5 DEF Tidy

\* A file that is handed to write_new is known by its name.
LEMMA NameTells ==
  ASSUME NEW r \in Runs, Handed(r)
  PROVE  /\ run[r].job.name = Intent => run[r].job.then = "manifest" /\ run[r].job.data = <<run[r].anchor>>
         /\ run[r].job.name = Root("manifest.json")
              => run[r].job.then = "anchor" /\ run[r].job.data = <<run[r].anchor>>
         /\ run[r].job.name = Root("anchor.json")
              => run[r].job.then = "object" /\ run[r].job.data = <<run[r].anchor>>
         /\ run[r].job.name = Report
              => run[r].job.then \in {"marker", "incomplete"} /\ run[r].job.data = <<ReportOf(r)>>
         /\ run[r].job.name = Ready
              => /\ run[r].job.then = "ready"
                 /\ run[r].job.data = <<[anchor |-> run[r].anchor, report |-> ReportOf(r)]>>
         /\ run[r].job.then = "chunk" => \E b \in run[r].met : run[r].job.name = Evidence(b)
         /\ \A b : run[r].job.name = Evidence(b) => run[r].job.then = "chunk" /\ run[r].job.data = <<b>>
         /\ \A p : run[r].job.name # Payload(p)
<1> DEFINE name == run[r].job.name
           data == run[r].job.data
           then == run[r].job.then
<1>1. \/ name = Intent /\ data = <<run[r].anchor>> /\ then = "manifest"
      \/ name = Root("manifest.json") /\ data = <<run[r].anchor>> /\ then = "anchor"
      \/ name = Root("anchor.json") /\ data = <<run[r].anchor>> /\ then = "object"
      \/ then = "chunk" /\ \E b \in run[r].met : name = Evidence(b) /\ data = <<b>>
      \/ name = Report /\ data = <<ReportOf(r)>> /\ then \in {"incomplete", "marker"}
      \/ name = Ready /\ data = <<[anchor |-> run[r].anchor, report |-> ReportOf(r)]>> /\ then = "ready"
  BY DEF Handed
<1>2. \A n : (\A p : Payload(p) # Root(n)) /\ (\A b : Evidence(b) # Root(n))
  BY Names
<1>3. /\ \A p : Payload(p) \notin {Intent, Ready, Report}
      /\ \A b : Evidence(b) \notin {Intent, Ready, Report}
  BY Names DEF Intent, Ready, Report
<1> QED BY <1>1, <1>2, <1>3, Names

\* The manifest and the anchor are handed over.
LEMMA HeaderStep ==
  ASSUME Inv, NEW r \in Runs, Begun(r), WriteManifest(r) \/ WriteAnchor(r)
  PROVE  Inv'
<1>1. Shape' /\ \A s \in Runs \ {r} : run'[s] = run[s]
  BY ShapeStep DEF Inv, Step
<1>2. UNCHANGED <<files, dirs, kept>> /\ ~Writing(r)
  BY DEF WriteManifest, WriteAnchor, Writing
<1>3. PICK name, then :
        /\ \/ run[r].pc = "manifest" /\ name = Root("manifest.json") /\ then = "anchor"
           \/ run[r].pc = "anchor" /\ name = Root("anchor.json") /\ then = "object"
        /\ run'[r].pc = "create" /\ run'[r].job = [name |-> name, data |-> <<run[r].anchor>>, then |-> then]
        /\ run'[r].anchor = run[r].anchor /\ run'[r].object = run[r].object
        /\ run'[r].verified = run[r].verified /\ run'[r].met = run[r].met
  BY DEF WriteManifest, WriteAnchor, WriteNew, Inv, Shape, IsFile
<1>4. /\ name \notin {Intent, Ready, Report} /\ name = run'[r].job.name /\ then = run'[r].job.then
      /\ run'[r].job.data = <<run[r].anchor>>
  BY <1>3 DEF Root, Intent, Ready, Report
<1>5. /\ ~Handing(r) /\ ~InObject(r) /\ ~Looping(r) /\ ~Marking(r)
      /\ Handing(r)' /\ ~Writing(r)' /\ ~InObject(r)' /\ ~Looping(r)' /\ ~Marking(r)'
  BY <1>3, <1>4 DEF Handing, Writing, Looping, InObject, Marking
<1>6. Placed(r)'
  <2>1. Handed(r)'
    BY <1>3, <1>4 DEF Handed
  <2>2. run'[r].pc \notin {"idle", "list"} /\ ~Claiming(r)'
    BY <1>3, <1>4 DEF Claiming
  <2>3. Counted(r)'
    BY <1>3, <1>4, <1>5, Known, SameObject DEF Counted
  <2> QED BY <2>1, <2>2, <2>3 DEF Placed
<1>7. Tidy(r)'
  BY <1>2, <1>5, <1>3, Known DEF Tidy, Loose, Firm
<1>8. Keeping(r)'
  BY <1>2, <1>3, <1>5, Known DEF Keeping, Shows
<1>9. Headed(r)'
  BY <1>2, <1>3, <1>4, <1>5, Known DEF Headed, Shows
<1>10. Passed(r)'
  BY <1>2, <1>3, <1>5, Known, SameObject DEF Passed
<1> QED BY <1>1, <1>2, <1>6, <1>7, <1>8, <1>9, <1>10, Still DEF RunInv

-----------------------------------------------------------------------------
(* Steps that touch no file                                                *)

\* A run is started on the candidate.
LEMMA StartStep ==
  ASSUME Inv, NEW r \in Runs, NEW m \in DOMAIN Manifests, Start(r, m)
  PROVE  Inv'
<1>1. Shape' /\ \A s \in Runs \ {r} : run'[s] = run[s]
  BY ShapeStep DEF Inv
<1>2. /\ run[r].pc = "idle" /\ run'[r].pc \in {"list", "refused"} /\ run'[r].anchor = m
      /\ run'[r].object = run[r].object /\ run'[r].verified = run[r].verified /\ run'[r].met = run[r].met
      /\ UNCHANGED <<files, dirs, kept>>
  BY DEF Start, Inv, Shape, IsFile
<1>3. ~Begun(r)' /\ ~Claiming(r)' /\ ~Handing(r)'
  BY <1>2 DEF Begun, Live, Ended, Claiming, Handing
<1>4. Fresh(r)'
  BY <1>2 DEF Inv, Placed, Fresh
<1>5. Placed(r)'
  BY <1>3, <1>4 DEF Placed
<1> QED BY <1>1, <1>2, <1>3, <1>5, Aside

\* A run ends without touching a file.
LEMMA EndStep ==
  ASSUME Inv, NEW r \in Runs, NEW pc \in Ended, End(r, pc), UNCHANGED <<files, dirs, kept>>,
         Shape', \A s \in Runs \ {r} : run'[s] = run[s]
  PROVE  Inv'
<1>1. run'[r].pc \in Ended /\ run'[r].met = run[r].met
  BY DEF End, Over, Idle, Inv, Shape, IsFile
<1> QED BY <1>1, Gone, Aside

\* A run lists the candidate.
LEMMA ListStep ==
  ASSUME Inv, NEW r \in Runs, List(r)
  PROVE  Inv'
<1>1. Shape' /\ \A s \in Runs \ {r} : run'[s] = run[s]
  BY ShapeStep DEF Inv, Step
<1>2. CASE DOMAIN files = {} /\ WriteNew(r, Intent, <<run[r].anchor>>, "manifest")
  <2>1. /\ run[r].pc = "list" /\ run'[r].pc = "create"
        /\ run'[r].job = [name |-> Intent, data |-> <<run[r].anchor>>, then |-> "manifest"]
        /\ run'[r].anchor = run[r].anchor /\ run'[r].object = run[r].object
        /\ run'[r].verified = run[r].verified /\ run'[r].met = run[r].met
        /\ UNCHANGED <<files, dirs, kept>>
    BY <1>2 DEF List, WriteNew, Inv, Shape, IsFile
  <2>2. Claiming(r)' /\ ~Begun(r)'
    BY <2>1 DEF Claiming, Begun
  <2>3. Fresh(r)'
    BY <2>1 DEF Inv, Placed, Fresh
  <2>4. Handed(r)'
    BY <2>1 DEF Handed
  <2>5. Placed(r)'
    BY <2>2, <2>3, <2>4 DEF Placed
  <2> QED BY <1>1, <1>2, <2>1, <2>2, <2>5, Aside
<1>3. CASE End(r, "refused")
  BY <1>1, <1>3, EndStep DEF List, Ended
<1> QED BY <1>2, <1>3 DEF List

\* A name is found taken.
LEMMA CreateExistsStep ==
  ASSUME Inv, NEW r \in Runs, CreateExists(r)
  PROVE  Inv'
<1>1. Shape' /\ \A s \in Runs \ {r} : run'[s] = run[s]
  BY ShapeStep DEF Inv, Step
<1>2. UNCHANGED <<files, dirs, kept>> /\ run[r].pc = "create"
  BY DEF CreateExists
<1>3. CASE End(r, "exists")
  BY <1>1, <1>2, <1>3, EndStep DEF Ended
<1>4. CASE /\ run[r].job.then = "chunk" /\ run[r].job.name \in DOMAIN files
           /\ files[run[r].job.name].data = run[r].job.data
           /\ Goto(r, "chunk")
  <2>1. /\ run'[r].pc = "chunk" /\ run'[r].job = run[r].job /\ run'[r].hashed = run[r].hashed
        /\ run'[r].anchor = run[r].anchor /\ run'[r].object = run[r].object
        /\ run'[r].verified = run[r].verified /\ run'[r].met = run[r].met
    BY <1>4 DEF Goto, Inv, Shape, IsFile
  <2>2. Handing(r) /\ ~Writing(r)
    BY <1>2 DEF Handing, Writing
  <2>3. PICK b \in run[r].met : run[r].job.name = Evidence(b) /\ run[r].job.data = <<b>>
    BY <1>4, <2>2 DEF Inv, Placed, Handed
  <2>4. run[r].job.name \notin {Intent, Ready, Report, Root("manifest.json"), Root("anchor.json")}
    BY <2>3, Names DEF Intent, Ready, Report
  <2>5. Begun(r)
    BY <1>2, <2>4 DEF Begun, Live, Ended, Claiming
  <2>6. /\ Looping(r) /\ InObject(r) /\ ~Marking(r)
        /\ ~Handing(r)' /\ ~Writing(r)' /\ InObject(r)' /\ Looping(r)' /\ ~Marking(r)'
    BY <1>2, <1>4, <2>1, <2>2, <2>4 DEF Handing, Writing, Looping, InObject, Marking
  <2>7. Placed(r)'
    <3>1. Counted(r)'
      BY <1>2, <2>1, <2>5, <2>6, Known, SameObject DEF Counted
    <3> QED BY <2>1, <2>6, <3>1 DEF Placed, Claiming
  <2>8. Tidy(r)'
    BY <1>2, <2>1, <2>2, <2>5, <2>6, Known, SameTidy
  <2>9. Keeping(r)'
    BY <1>2, <1>4, <2>1, <2>3, <2>5, Known, Names DEF Keeping, Shows
  <2>10. Headed(r)'
    BY <1>2, <1>4, <2>1, <2>4, <2>5, <2>6, Known DEF Headed, Shows
  <2>11. Passed(r)'
    BY <1>2, <2>1, <2>5, <2>6, Known, SameObject DEF Passed
  <2> QED BY <1>1, <1>2, <2>2, <2>5, <2>7, <2>8, <2>9, <2>10, <2>11, Still DEF RunInv
<1> QED BY <1>3, <1>4 DEF CreateExists

\* A replica is read: nothing, or a good copy.
LEMMA ReadStep ==
  ASSUME Inv, NEW r \in Runs, ReadUnreadable(r) \/ ReadGood(r)
  PROVE  Inv'
<1>1. Shape' /\ \A s \in Runs \ {r} : run'[s] = run[s]
  BY ShapeStep DEF Inv, Step
<1>2. /\ UNCHANGED <<files, dirs, kept>> /\ run[r].pc = "chunk" /\ run'[r].pc = "chunk"
      /\ run'[r].job = run[r].job /\ run'[r].hashed = run[r].hashed
      /\ run'[r].anchor = run[r].anchor /\ run'[r].object = run[r].object
      /\ run'[r].verified = run[r].verified /\ run'[r].met = run[r].met
  BY DEF ReadUnreadable, ReadGood, Reading, Inv, Shape, IsFile
<1>3. Begun(r) /\ ~Claiming(r)'
  BY <1>2 DEF Begun, Live, Ended, Claiming
<1>4. /\ ~Handing(r) /\ ~Writing(r) /\ InObject(r) /\ Looping(r) /\ ~Marking(r)
      /\ ~Handing(r)' /\ ~Writing(r)' /\ InObject(r)' /\ Looping(r)' /\ ~Marking(r)'
  BY <1>2 DEF Handing, Writing, Looping, InObject, Marking
<1>5. Placed(r)'
  <2>1. Counted(r)'
    BY <1>2, <1>3, <1>4, Known, SameObject DEF Counted
  <2> QED BY <1>2, <1>3, <1>4, <2>1 DEF Placed
<1>6. Tidy(r)'
  BY <1>2, <1>3, <1>4, Known, SameTidy
<1>7. Keeping(r)' /\ Headed(r)'
  BY <1>2, <1>3, <1>4, Known DEF Keeping, Headed, Shows
<1>8. Passed(r)'
  BY <1>2, <1>3, <1>4, Known, SameObject DEF Passed
<1> QED BY <1>1, <1>2, <1>3, <1>4, <1>5, <1>6, <1>7, <1>8, Still DEF RunInv

\* A bad copy is met.
LEMMA ReadBadStep ==
  ASSUME Inv, NEW r \in Runs, ReadBad(r)
  PROVE  Inv'
<1>1. Shape' /\ \A s \in Runs \ {r} : run'[s] = run[s]
  BY ShapeStep DEF Inv, Step
<1>2. UNCHANGED <<files, dirs, kept>> /\ run[r].pc = "chunk"
  BY DEF ReadBad, Reading
<1>3. CASE End(r, "exhausted")
  BY <1>1, <1>2, <1>3, EndStep DEF Ended
<1>4. CASE ~End(r, "exhausted")
  <2> DEFINE b == Found(r)
  <2>1. /\ run'[r].pc = "create" /\ run'[r].job = [name |-> Evidence(b), data |-> <<b>>, then |-> "chunk"]
        /\ run'[r].met = run[r].met \cup {b} /\ run'[r].hashed = run[r].hashed
        /\ run'[r].anchor = run[r].anchor /\ run'[r].object = run[r].object
        /\ run'[r].verified = run[r].verified
    BY <1>4 DEF ReadBad, Inv, Shape, IsFile
  <2> HIDE DEF b
  <2>2. /\ run'[r].job.name = Evidence(b) /\ run'[r].job.data = <<b>> /\ run'[r].job.then = "chunk"
        /\ Evidence(b) \notin {Intent, Ready, Report, Root("manifest.json"), Root("anchor.json")}
    BY <2>1, Names DEF Intent, Ready, Report
  <2>3. Begun(r) /\ ~Claiming(r)'
    BY <1>2, <2>2 DEF Begun, Live, Ended, Claiming
  <2>4. /\ ~Handing(r) /\ ~Writing(r) /\ InObject(r) /\ Looping(r) /\ ~Marking(r)
        /\ Handing(r)' /\ ~Writing(r)' /\ InObject(r)' /\ Looping(r)' /\ ~Marking(r)'
    BY <1>2, <2>1, <2>2 DEF Handing, Writing, Looping, InObject, Marking
  <2>5. Placed(r)'
    <3>1. Handed(r)'
      BY <2>1, <2>2 DEF Handed
    <3>2. Counted(r)'
      BY <1>2, <2>1, <2>2, <2>3, <2>4, Known, SameObject DEF Counted
    <3> QED BY <2>1, <2>3, <3>1, <3>2 DEF Placed
  <2>6. Tidy(r)'
    BY <1>2, <2>1, <2>3, <2>4, Known, SameTidy
  <2>7. Keeping(r)'
    BY <1>2, <2>1, <2>2, <2>3, <2>4, Known DEF Keeping, Shows
  <2>8. Headed(r)'
    BY <1>2, <2>1, <2>2, <2>3, <2>4, Known DEF Headed, Shows
  <2>9. Passed(r)'
    BY <1>2, <2>1, <2>3, <2>4, Known, SameObject DEF Passed
  <2> QED BY <1>1, <1>2, <2>3, <2>4, <2>5, <2>6, <2>7, <2>8, <2>9, Still DEF RunInv
<1> QED BY <1>3, <1>4

\* The loop over an object's chunks is left, and the object given a verdict.
LEMMA LeaveLoopStep ==
  ASSUME Inv, NEW r \in Runs, LeaveLoop(r)
  PROVE  Inv'
<1>1. Shape' /\ \A s \in Runs \ {r} : run'[s] = run[s]
  BY ShapeStep DEF Inv, Step
<1> DEFINE whole == run[r].chunk > Len(Object(r).chunks) /\ run[r].hashed = Object(r).sha256
<1>2. /\ UNCHANGED <<files, dirs, kept>> /\ run[r].pc = "chunk" /\ run'[r].pc = "fsync"
      /\ run'[r].job = run[r].job /\ run'[r].hashed = run[r].hashed
      /\ run'[r].anchor = run[r].anchor /\ run'[r].object = run[r].object
      /\ run'[r].verified = Append(run[r].verified, whole) /\ run'[r].met = run[r].met
  BY DEF LeaveLoop, Inv, Shape, IsFile
<1>3. whole \in BOOLEAN /\ (whole => run[r].hashed = Object(r).sha256)
  OBVIOUS
<1> HIDE DEF whole
<1>4. Begun(r) /\ ~Claiming(r)'
  BY <1>2 DEF Begun, Live, Ended, Claiming
<1>5. /\ ~Handing(r) /\ ~Writing(r) /\ InObject(r) /\ Looping(r) /\ ~Marking(r)
      /\ ~Handing(r)' /\ ~Writing(r)' /\ InObject(r)' /\ ~Looping(r)' /\ ~Marking(r)'
  BY <1>2 DEF Handing, Writing, Looping, InObject, Marking
<1>6. Objects(r)' = Objects(r) /\ Object(r) = Objects(r)[run[r].object]
  BY <1>2, SameObject DEF Object
<1>7. /\ run[r].verified \in Seq(BOOLEAN) /\ Len(run[r].verified) = run[r].object - 1
      /\ run[r].object \in 1 .. Len(Objects(r)) + 1 /\ run[r].object <= Len(Objects(r))
      /\ run[r].anchor \in DOMAIN Manifests
  BY <1>2, <1>4, <1>5, Known DEF Counted
<1>8. Len(Objects(r)) \in Nat
  BY <1>7, ManifestsAssumption DEF Objects
<1>9. /\ run'[r].verified \in Seq(BOOLEAN) /\ Len(run'[r].verified) = run[r].object
      /\ \A i \in 1 .. Len(run[r].verified) : run'[r].verified[i] = run[r].verified[i]
      /\ run'[r].verified[run[r].object] = whole
  BY <1>2, <1>3, <1>7, <1>8
<1>10. Placed(r)'
  <2>1. Counted(r)'
    BY <1>2, <1>5, <1>6, <1>7, <1>9 DEF Counted
  <2> QED BY <1>2, <1>4, <1>5, <2>1 DEF Placed
<1>11. Tidy(r)'
  BY <1>2, <1>4, <1>5, Known, SameTidy
<1>12. Keeping(r)' /\ Headed(r)'
  BY <1>2, <1>4, <1>5, Known DEF Keeping, Headed, Shows
<1>13. Passed(r)'
  <2>1. ASSUME NEW i \in 1 .. Len(run'[r].verified)
        PROVE  /\ Payload(Objects(r)[i].path) \in DOMAIN files
               /\ run'[r].verified[i] => files[Payload(Objects(r)[i].path)].data = Objects(r)[i].sha256
    <3>1. CASE i = run[r].object
      <4>1. Payload(Object(r).path) \in DOMAIN files
        BY <1>4, <1>5, Known DEF Tidy
      <4>2. files[Payload(Object(r).path)].data = run[r].hashed
        BY <1>4, <1>5, Known DEF Passed
      <4> QED BY <1>3, <1>6, <1>9, <3>1, <4>1, <4>2
    <3>2. CASE i # run[r].object
      <4>1. i \in 1 .. Len(run[r].verified)
        BY <1>7, <1>8, <1>9, <3>2
      <4> QED BY <1>4, <1>9, <4>1, Known DEF Passed
    <3> QED BY <3>1, <3>2
  <2> QED BY <1>2, <1>5, <1>6, <2>1 DEF Passed
<1> QED BY <1>1, <1>2, <1>4, <1>5, <1>10, <1>11, <1>12, <1>13, Still DEF RunInv

\* The report is handed over.
LEMMA WriteReportStep ==
  ASSUME Inv, NEW r \in Runs, WriteReport(r)
  PROVE  Inv'
<1>1. Shape' /\ \A s \in Runs \ {r} : run'[s] = run[s]
  BY ShapeStep DEF Inv, Step
<1>2. PICK then : then = IF Complete(r) THEN "marker" ELSE "incomplete"
  OBVIOUS
<1>3. /\ UNCHANGED <<files, dirs, kept>> /\ run[r].pc = "object" /\ run[r].object > Len(Objects(r))
      /\ run'[r].pc = "create" /\ run'[r].job = [name |-> Report, data |-> <<ReportOf(r)>>, then |-> then]
      /\ run'[r].anchor = run[r].anchor /\ run'[r].object = run[r].object
      /\ run'[r].verified = run[r].verified /\ run'[r].met = run[r].met
  BY <1>2 DEF WriteReport, WriteNew, Inv, Shape, IsFile
<1>4. /\ run'[r].job.name = Report /\ run'[r].job.data = <<ReportOf(r)>> /\ run'[r].job.then = then
      /\ then \in {"marker", "incomplete"}
  BY <1>2, <1>3
<1>5. Begun(r) /\ ~Claiming(r)'
  BY <1>3, <1>4, Names DEF Begun, Live, Ended, Claiming
<1>6. /\ ~Handing(r) /\ ~Writing(r) /\ ~InObject(r) /\ ~Looping(r) /\ ~Marking(r)
      /\ Handing(r)' /\ ~Writing(r)' /\ ~InObject(r)' /\ ~Looping(r)' /\ ~Marking(r)'
  BY <1>3, <1>4, Names DEF Handing, Writing, Looping, InObject, Marking
<1>7. Objects(r)' = Objects(r) /\ ReportOf(r)' = ReportOf(r) /\ Complete(r)' = Complete(r)
  BY <1>3, SameObject
<1>8. Placed(r)'
  <2>1. Handed(r)'
    BY <1>2, <1>4, <1>7 DEF Handed
  <2>2. Counted(r)'
    BY <1>3, <1>5, <1>6, <1>7, Known DEF Counted
  <2> QED BY <1>3, <1>5, <2>1, <2>2 DEF Placed
<1>9. Tidy(r)'
  BY <1>3, <1>5, <1>6, Known DEF Tidy, Loose, Firm
<1>10. Keeping(r)'
  BY <1>3, <1>5, <1>6, Known DEF Keeping, Shows
<1>11. Headed(r)'
  BY <1>3, <1>4, <1>5, <1>6, Known, Names DEF Headed, Shows
<1>12. Passed(r)'
  BY <1>3, <1>5, <1>6, <1>7, Known DEF Passed
<1> QED BY <1>1, <1>3, <1>5, <1>6, <1>8, <1>9, <1>10, <1>11, <1>12, Still DEF RunInv

\* The marker is handed over.
LEMMA WriteReadyStep ==
  ASSUME Inv, NEW r \in Runs, WriteReady(r)
  PROVE  Inv'
<1>1. Shape' /\ \A s \in Runs \ {r} : run'[s] = run[s]
  BY ShapeStep DEF Inv, Step
<1>2. /\ UNCHANGED <<files, dirs, kept>> /\ run[r].pc = "marker" /\ run'[r].pc = "create"
      /\ run'[r].job = [name |-> Ready, data |-> <<[anchor |-> run[r].anchor, report |-> ReportOf(r)]>>,
                        then |-> "ready"]
      /\ run'[r].anchor = run[r].anchor /\ run'[r].object = run[r].object
      /\ run'[r].verified = run[r].verified /\ run'[r].met = run[r].met
  BY DEF WriteReady, WriteNew, Inv, Shape, IsFile
<1>3. /\ run'[r].job.name = Ready /\ run'[r].job.then = "ready"
      /\ run'[r].job.data = <<[anchor |-> run[r].anchor, report |-> ReportOf(r)]>>
  BY <1>2
<1>4. Begun(r) /\ ~Claiming(r)'
  BY <1>2, <1>3, Names DEF Begun, Live, Ended, Claiming
<1>5. /\ ~Handing(r) /\ ~Writing(r) /\ ~InObject(r) /\ ~Looping(r) /\ Marking(r)
      /\ Handing(r)' /\ ~Writing(r)' /\ ~InObject(r)' /\ ~Looping(r)' /\ Marking(r)'
  BY <1>2, <1>3, Names DEF Handing, Writing, Looping, InObject, Marking
<1>6. Objects(r)' = Objects(r) /\ ReportOf(r)' = ReportOf(r) /\ Complete(r)' = Complete(r)
  BY <1>2, SameObject
<1>7. Placed(r)'
  <2>1. Handed(r)'
    BY <1>2, <1>3, <1>6 DEF Handed
  <2>2. Counted(r)'
    BY <1>2, <1>3, <1>4, <1>5, <1>6, Known, Names DEF Counted
  <2> QED BY <1>2, <1>4, <2>1, <2>2 DEF Placed
<1>8. Tidy(r)'
  BY <1>2, <1>4, <1>5, Known DEF Tidy, Loose, Firm
<1>9. Keeping(r)'
  BY <1>2, <1>4, <1>5, Known DEF Keeping, Shows
<1>10. Headed(r)'
  BY <1>2, <1>3, <1>4, <1>5, <1>6, Known, Names DEF Headed, Shows
<1>11. Passed(r)'
  BY <1>2, <1>4, <1>5, <1>6, Known DEF Passed
<1> QED BY <1>1, <1>2, <1>4, <1>5, <1>7, <1>8, <1>9, <1>10, <1>11, Still DEF RunInv

-----------------------------------------------------------------------------
(* Steps that create a file                                                *)

\* What creating a file adds, and what it leaves.
LEMMA MadeFile ==
  ASSUME Inv, NEW r \in Runs, NEW name, name \notin DOMAIN files, Made(r, name)
  PROVE  /\ DOMAIN files' = DOMAIN files \cup {name}
         /\ \A n \in DOMAIN files : files'[n] = files[n]
         /\ files'[name].data = <<>> /\ files'[name].synced = FALSE
         /\ files'[name].entered = FALSE /\ files'[name].by = r
         /\ Grounded'
<1>1. /\ DOMAIN files' = DOMAIN files \cup {name}
      /\ \A n \in DOMAIN files : files'[n] = files[n]
      /\ files'[name] = [data |-> <<>>, synced |-> FALSE, entered |-> FALSE, by |-> r]
      /\ dirs' = dirs \cup Above(name) /\ kept' = kept \cup (Above(name) \ dirs)
  BY DEF Made
<1>2. /\ files'[name].data = <<>> /\ files'[name].synced = FALSE
      /\ files'[name].entered = FALSE /\ files'[name].by = r
  BY <1>1
<1>3. kept = dirs /\ \A n \in DOMAIN files : Above(n) \subseteq dirs /\ files[n].by \in Runs
  BY DEF Inv, Grounded
<1>4. kept' = dirs'
  BY <1>1, <1>3
<1>5. \A n \in DOMAIN files' : Above(n) \subseteq dirs' /\ files'[n].by \in Runs
  BY <1>1, <1>2, <1>3
<1> QED BY <1>1, <1>2, <1>4, <1>5 DEF Grounded

\* intent.json: the candidate is this run's from here on.
LEMMA ClaimStep ==
  ASSUME Inv, NEW r \in Runs, Create(r), Claiming(r)
  PROVE  Inv'
<1>1. Shape' /\ \A s \in Runs \ {r} : run'[s] = run[s]
  BY ShapeStep DEF Inv, Step
<1>2. /\ run[r].pc = "create" /\ run[r].job.name = Intent /\ Intent \notin DOMAIN files
      /\ run'[r].pc = "write" /\ run'[r].job = run[r].job
      /\ run'[r].anchor = run[r].anchor /\ run'[r].object = run[r].object
      /\ run'[r].verified = run[r].verified /\ run'[r].met = run[r].met
      /\ Made(r, Intent)
  BY DEF Create, Claiming, Taken, Goto, Inv, Shape, IsFile
<1>3. /\ DOMAIN files' = DOMAIN files \cup {Intent}
      /\ files'[Intent].entered = FALSE /\ files'[Intent].by = r /\ Grounded'
  BY <1>2, MadeFile
<1>4. DOMAIN files = {} /\ \A s \in Runs : ~Begun(s)
  BY <1>2 DEF Inv, Owned
<1>5. Fresh(r) /\ Handed(r) /\ Handing(r)
  BY <1>2 DEF Inv, Placed, Claiming, Handing
<1>6. run[r].job.then = "manifest" /\ run[r].job.data = <<run[r].anchor>>
  BY <1>2, <1>5, NameTells
<1>7. /\ Handing(r)' /\ Writing(r)' /\ ~InObject(r)' /\ ~Looping(r)' /\ ~Marking(r)' /\ ~Claiming(r)'
  BY <1>2, <1>6, Names DEF Handing, Writing, InObject, Looping, Marking, Claiming
<1>8. Handed(r)'
  BY <1>2, <1>6 DEF Handed
<1>9. Counted(r)'
  <2>1. run[r].anchor \in DOMAIN Manifests /\ run[r].object = 1 /\ run[r].verified = <<>>
    BY <1>2, <1>5 DEF Fresh
  <2>2. Len(Objects(r)) \in Nat /\ Objects(r)' = Objects(r)
    BY <1>2, <2>1, ManifestsAssumption, SameObject DEF Objects
  <2>3. run'[r].job.name # Report /\ run'[r].verified \in Seq(BOOLEAN) /\ Len(run'[r].verified) = 0
    BY <1>2, <2>1, Names
  <2> QED BY <1>2, <1>7, <2>1, <2>2, <2>3 DEF Counted
<1>10. Placed(r)'
  BY <1>2, <1>7, <1>8, <1>9 DEF Placed
<1>11. Tidy(r)'
  BY <1>2, <1>3, <1>4, <1>7, Names DEF Tidy, Loose
<1>12. Keeping(r)' /\ Headed(r)' /\ Passed(r)'
  BY <1>2, <1>5, <1>6, <1>7 DEF Keeping, Headed, Passed, Fresh
<1>13. Last'
  BY <1>3, <1>4, Names DEF Last
<1>14. Intent \in DOMAIN files' /\ \A n \in DOMAIN files' : files'[n].by = r
  BY <1>3, <1>4
<1> QED BY <1>1, <1>3, <1>4, <1>10, <1>11, <1>12, <1>13, <1>14, Frame DEF RunInv

\* Any other file that is handed to write_new.
LEMMA CreateStep ==
  ASSUME Inv, NEW r \in Runs, Create(r), Begun(r)
  PROVE  Inv'
<1>1. Shape' /\ \A s \in Runs \ {r} : run'[s] = run[s]
  BY ShapeStep DEF Inv, Step
<1> DEFINE name == run[r].job.name
<1>2. /\ run[r].pc = "create" /\ name \notin DOMAIN files
      /\ run'[r].pc = "write" /\ run'[r].job = run[r].job /\ run'[r].hashed = run[r].hashed
      /\ run'[r].anchor = run[r].anchor /\ run'[r].object = run[r].object
      /\ run'[r].verified = run[r].verified /\ run'[r].met = run[r].met
      /\ Made(r, name)
  BY DEF Create, Taken, Goto, Inv, Shape, IsFile
<1>3. /\ DOMAIN files' = DOMAIN files \cup {name}
      /\ \A n \in DOMAIN files : files'[n] = files[n]
      /\ files'[name].data = <<>> /\ files'[name].entered = FALSE /\ files'[name].by = r
      /\ Grounded'
  BY <1>2, MadeFile
<1>4. /\ Handing(r)' /\ Writing(r)' /\ InObject(r)' = InObject(r) /\ Looping(r)' = Looping(r)
      /\ Marking(r)' = Marking(r) /\ ~Claiming(r)' /\ Handing(r) /\ ~Writing(r)
      /\ InObject(r) = Looping(r)
  BY <1>2 DEF Handing, Writing, InObject, Looping, Marking, Claiming
<1>5. Ready \notin DOMAIN files
  BY <1>4, Known
<1>6. /\ Objects(r)' = Objects(r) /\ Object(r)' = Object(r) /\ ReportOf(r)' = ReportOf(r)
      /\ Complete(r)' = Complete(r)
  BY <1>2, SameObject
<1>7. Placed(r)'
  <2>1. Handed(r)'
    BY <1>2, <1>4, <1>6, Known DEF Handed
  <2>2. Counted(r)'
    BY <1>2, <1>4, <1>6, Known DEF Counted
  <2> QED BY <1>2, <1>4, <2>1, <2>2 DEF Placed
<1>8. Tidy(r)'
  <2>1. \A n \in DOMAIN files : Loose(r, n)' \/ Firm(n)'
    <3>1. \A n \in DOMAIN files : Loose(r, n) \/ Firm(n)
      BY Known DEF Tidy
    <3>2. \A n \in DOMAIN files : Loose(r, n) => Loose(r, n)'
      BY <1>4, <1>6 DEF Loose
    <3>3. \A n \in DOMAIN files : Firm(n) => Firm(n)'
      BY <1>3 DEF Firm
    <3> QED BY <3>1, <3>2, <3>3
  <2>2. InObject(r)' => Payload(Object(r).path)' \in DOMAIN files'
    BY <1>3, <1>4, <1>6, Known DEF Tidy
  <2> QED BY <1>2, <1>3, <1>4, <1>5, <2>1, <2>2 DEF Tidy, Loose
<1>9. Keeping(r)'
  BY <1>2, <1>3, <1>4, Known DEF Keeping, Shows
<1>10. Headed(r)'
  <2>1. \A n, data : Shows(n, data) => Shows(n, data)'
    BY <1>3 DEF Shows
  <2> QED BY <1>2, <1>4, <1>6, <2>1, Known DEF Headed
<1>11. Passed(r)'
  <2>1. Looping(r) => Payload(Object(r).path) \in DOMAIN files
    BY <1>4, Known DEF Tidy
  <2> QED BY <1>2, <1>3, <1>4, <1>6, <2>1, Known DEF Passed
<1>12. Last'
  <2> SUFFICES ASSUME Ready \in DOMAIN files'
               PROVE  Last'
    BY DEF Last
  <2>1. name = Ready
    BY <1>3, <1>5
  <2>2. run[r].job.then = "ready"
    BY <1>4, <2>1, Known, NameTells
  <2>3. ~InObject(r)
    BY <1>2, <2>2 DEF InObject, Looping
  <2>4. \A n \in DOMAIN files : Firm(n)'
    <3>1. \A n \in DOMAIN files : Loose(r, n) \/ Firm(n)
      BY Known DEF Tidy
    <3>2. \A n \in DOMAIN files : ~Loose(r, n)
      BY <1>4, <2>3 DEF Loose
    <3> QED BY <1>3, <3>1, <3>2 DEF Firm
  <2>5. \A b \in run'[r].met : Shows(Evidence(b), <<b>>)'
    <3>1. Keeping(r)
      BY Known
    <3>2. \A b : Evidence(b) # name
      BY <2>1, Names DEF Ready
    <3> QED BY <1>2, <1>3, <3>1, <3>2 DEF Keeping, Shows
  <2> QED BY <1>3, <2>1, <2>4, <2>5 DEF Last
<1>13. Intent \in DOMAIN files' /\ \A n \in DOMAIN files' : files'[n].by = r
  BY <1>3, Known
<1> QED BY <1>1, <1>3, <1>7, <1>8, <1>9, <1>10, <1>11, <1>12, <1>13, Alone, Frame DEF RunInv

\* The payload file of the next object, or the end of the run where there is one.
LEMMA OpenStep ==
  ASSUME Inv, NEW r \in Runs, Open(r)
  PROVE  Inv'
<1>1. Shape' /\ \A s \in Runs \ {r} : run'[s] = run[s]
  BY ShapeStep DEF Inv, Step
<1>2. CASE Taken(Payload(Object(r).path))
  BY <1>1, <1>2, EndStep DEF Open, Ended
<1>3. CASE ~Taken(Payload(Object(r).path))
  <2> DEFINE name == Payload(Object(r).path)
  <2>1. /\ run[r].pc = "object" /\ run[r].object <= Len(Objects(r)) /\ name \notin DOMAIN files
        /\ run'[r].pc = "chunk" /\ run'[r].job = run[r].job /\ run'[r].hashed = <<>>
        /\ run'[r].anchor = run[r].anchor /\ run'[r].object = run[r].object
        /\ run'[r].verified = run[r].verified /\ run'[r].met = run[r].met
        /\ Made(r, name)
    BY <1>3 DEF Open, Taken, Inv, Shape, IsFile
  <2>2. Begun(r) /\ ~Claiming(r)'
    BY <2>1 DEF Begun, Live, Ended, Claiming
  <2>3. /\ DOMAIN files' = DOMAIN files \cup {name}
        /\ \A n \in DOMAIN files : files'[n] = files[n]
        /\ files'[name].data = <<>> /\ files'[name].entered = FALSE /\ files'[name].by = r
        /\ Grounded'
    BY <2>1, MadeFile
  <2>4. /\ ~Handing(r) /\ ~Writing(r) /\ ~InObject(r) /\ ~Marking(r)
        /\ ~Handing(r)' /\ ~Writing(r)' /\ InObject(r)' /\ Looping(r)' /\ ~Marking(r)'
    BY <2>1 DEF Handing, Writing, InObject, Looping, Marking
  <2>5. Objects(r)' = Objects(r) /\ Object(r)' = Object(r)
    BY <2>1, SameObject
  <2>6. Ready \notin DOMAIN files'
    BY <2>2, <2>3, <2>4, Known, Names DEF Ready
  <2>7. Placed(r)'
    <3>1. Counted(r)'
      BY <2>1, <2>2, <2>4, <2>5, Known DEF Counted
    <3> QED BY <2>1, <2>2, <2>4, <3>1 DEF Placed
  <2>8. Tidy(r)'
    <3>1. \A n \in DOMAIN files : Firm(n)'
      BY <2>2, <2>3, <2>4, Known DEF Tidy, Loose, Firm
    <3>2. Loose(r, name)'
      BY <2>4, <2>5 DEF Loose
    <3> QED BY <2>1, <2>3, <2>4, <2>5, <2>6, <3>1, <3>2 DEF Tidy
  <2>9. Keeping(r)' /\ Headed(r)'
    <3>1. \A n, data : Shows(n, data) => Shows(n, data)'
      BY <2>3 DEF Shows
    <3> QED BY <2>1, <2>2, <2>4, <3>1, Known DEF Keeping, Headed
  <2>10. Passed(r)'
    BY <2>1, <2>2, <2>3, <2>4, <2>5, Known DEF Passed
  <2>11. Last'
    BY <2>6 DEF Last
  <2>12. Intent \in DOMAIN files' /\ \A n \in DOMAIN files' : files'[n].by = r
    BY <2>2, <2>3, Known
  <2> QED BY <1>1, <2>2, <2>3, <2>7, <2>8, <2>9, <2>10, <2>11, <2>12, Alone, Frame DEF RunInv
<1> QED BY <1>2, <1>3

-----------------------------------------------------------------------------
(* Steps that change a file                                                *)

\* Where no bytes change, the candidate shows what it showed.
LEMMA SameBytes ==
  ASSUME Inv, DOMAIN files' = DOMAIN files,
         \A n \in DOMAIN files : /\ files'[n].data = files[n].data /\ files'[n].by = files[n].by
                                 /\ Firm(n) => Firm(n)',
         \A s \in Runs : run'[s].met = run[s].met, UNCHANGED <<dirs, kept>>
  PROVE  /\ Last' /\ Grounded'
         /\ \A n, data : Shows(n, data)' = Shows(n, data)
<1>1. \A n, data : Shows(n, data)' = Shows(n, data)
  BY DEF Shows
<1>2. Grounded'
  BY DEF Inv, Grounded
<1>3. ASSUME Ready \in DOMAIN files
      PROVE  Last'
  <2>1. Last /\ files[Ready].by \in Runs
    BY <1>3 DEF Inv, Grounded
  <2>2. \A b \in run'[files'[Ready].by].met : Shows(Evidence(b), <<b>>)'
    BY <1>1, <1>3, <2>1 DEF Last
  <2>3. Mark' = Mark
    BY <1>3 DEF Mark
  <2>4. Whole(Mark) => Whole(Mark)'
    BY <2>3 DEF Whole, Shows
  <2> QED BY <1>3, <2>1, <2>2, <2>4 DEF Last
<1> QED BY <1>1, <1>2, <1>3 DEF Last

\* The bytes of a file that was handed to write_new.
LEMMA WriteStep ==
  ASSUME Inv, NEW r \in Runs, Write(r)
  PROVE  Inv'
<1>1. Shape' /\ \A s \in Runs \ {r} : run'[s] = run[s]
  BY ShapeStep DEF Inv, Step
<1> DEFINE name == run[r].job.name
<1>2. /\ run[r].pc = "write" /\ run'[r].pc = "sync"
      /\ run'[r].job = run[r].job /\ run'[r].hashed = run[r].hashed
      /\ run'[r].anchor = run[r].anchor /\ run'[r].object = run[r].object
      /\ run'[r].verified = run[r].verified /\ run'[r].met = run[r].met
      /\ UNCHANGED <<dirs, kept>>
  BY DEF Write, Goto, Inv, Shape, IsFile
<1>3. Begun(r) /\ ~Claiming(r)'
  BY <1>2 DEF Begun, Live, Ended, Claiming
<1>4. /\ Handing(r) /\ Handing(r)' /\ Writing(r) /\ Writing(r)' /\ InObject(r)' = InObject(r)
      /\ Looping(r)' = Looping(r) /\ InObject(r) = Looping(r) /\ Marking(r)' = Marking(r)
  BY <1>2 DEF Handing, Writing, InObject, Looping, Marking
<1>5. name \in DOMAIN files /\ files[name].entered = FALSE
  BY <1>3, <1>4, Known DEF Tidy
<1>6. /\ DOMAIN files' = DOMAIN files /\ \A n \in DOMAIN files \ {name} : files'[n] = files[n]
      /\ files'[name].data = run[r].job.data /\ files'[name].by = files[name].by
      /\ files'[name].entered = files[name].entered /\ files'[name].synced = files[name].synced
  BY <1>5 DEF Write, Inv, Shape, IsFile
<1>7. /\ Objects(r)' = Objects(r) /\ Object(r)' = Object(r) /\ ReportOf(r)' = ReportOf(r)
      /\ Complete(r)' = Complete(r)
  BY <1>2, SameObject
<1>8. Placed(r)'
  <2>1. Handed(r)'
    BY <1>2, <1>3, <1>4, <1>7, Known DEF Handed
  <2>2. Counted(r)'
    BY <1>2, <1>3, <1>4, <1>7, Known DEF Counted
  <2> QED BY <1>2, <1>3, <2>1, <2>2 DEF Placed
<1>9. Handed(r) /\ \A p : name # Payload(p)
  BY <1>3, <1>4, Known, NameTells
<1>10. Tidy(r)'
  <2>1. \A n \in DOMAIN files : Loose(r, n) \/ Firm(n)
    BY <1>3, Known DEF Tidy
  <2>2. \A n \in DOMAIN files : Loose(r, n)' \/ Firm(n)'
    BY <1>2, <1>4, <1>6, <1>7, <2>1 DEF Loose, Firm
  <2>3. InObject(r)' => Payload(Object(r).path)' \in DOMAIN files'
    BY <1>3, <1>4, <1>6, <1>7, Known DEF Tidy
  <2>4. Ready \in DOMAIN files' => name = Ready
    BY <1>3, <1>6, Known DEF Tidy
  <2> QED BY <1>2, <1>4, <1>5, <1>6, <2>2, <2>3, <2>4 DEF Tidy
<1>11. Keeping(r)'
  BY <1>2, <1>3, <1>4, <1>6, Known DEF Keeping, Shows
<1>12. Headed(r)'
  <2>1. \A n, data : Shows(n, data) /\ n # name => Shows(n, data)'
    BY <1>6 DEF Shows
  <2> QED BY <1>2, <1>3, <1>4, <1>7, <1>9, <2>1, Known, NameTells, Names DEF Headed, Marking
<1>13. Passed(r)'
  <2>1. Looping(r) => Payload(Object(r).path) \in DOMAIN files
    BY <1>3, <1>4, Known DEF Tidy
  <2> QED BY <1>2, <1>3, <1>4, <1>6, <1>7, <1>9, <2>1, Known DEF Passed
<1>14. Intent \in DOMAIN files' /\ \A n \in DOMAIN files' : files'[n].by = r
  BY <1>3, <1>5, <1>6, Known
<1>15. Grounded'
  BY <1>2, <1>5, <1>6 DEF Inv, Grounded
<1>16. Last'
  <2> SUFFICES ASSUME Ready \in DOMAIN files'
               PROVE  Last'
    BY DEF Last
  <2>1. name = Ready
    BY <1>3, <1>6, Known DEF Tidy
  <2>2. /\ run[r].job.then = "ready" /\ Marking(r)
        /\ files'[Ready].data = <<[anchor |-> run[r].anchor, report |-> ReportOf(r)]>>
    BY <1>4, <1>6, <1>9, <2>1, NameTells DEF Marking
  <2>3. ~InObject(r)
    BY <1>2, <2>2 DEF InObject, Looping
  <2>4. \A n \in DOMAIN files : n # Ready => Firm(n)'
    BY <1>3, <1>6, <2>1, <2>3, Known DEF Tidy, Loose, Firm
  <2>5. \A b \in run'[r].met : Shows(Evidence(b), <<b>>)'
    BY <1>2, <1>3, <1>6, <2>1, Known, Names DEF Keeping, Shows, Ready
  <2>6. Mark' = [anchor |-> run[r].anchor, report |-> ReportOf(r)]
    BY <2>2 DEF Mark
  <2>7. Whole(Mark)'
    <3>1. /\ Mark'.anchor = run[r].anchor /\ Mark'.report = ReportOf(r)
          /\ Mark'.report.verified = run[r].verified
      BY <2>6 DEF ReportOf
    <3>2. \A n, data : Shows(n, data) /\ n # Ready => n \in DOMAIN files' /\ files'[n].data = data
      BY <1>6, <2>1 DEF Shows
    <3>3. /\ Shows(Intent, <<run[r].anchor>>) /\ Shows(Root("manifest.json"), <<run[r].anchor>>)
          /\ Shows(Root("anchor.json"), <<run[r].anchor>>) /\ Shows(Report, <<ReportOf(r)>>)
      BY <1>2, <1>3, <2>1, <2>2, Known, Names DEF Headed
    <3>4. \A i \in DOMAIN Objects(r) :
            /\ run[r].verified[i]
            /\ Shows(Payload(Objects(r)[i].path), Objects(r)[i].sha256)
      <4>1. /\ run[r].object > Len(Objects(r)) /\ run[r].object \in 1 .. Len(Objects(r)) + 1 /\ Complete(r)
            /\ Len(run[r].verified) = run[r].object - 1 /\ run[r].anchor \in DOMAIN Manifests
            /\ run[r].verified \in Seq(BOOLEAN)
        BY <1>2, <1>3, <2>2, Known DEF Counted
      <4>2. Len(Objects(r)) \in Nat /\ DOMAIN Objects(r) = 1 .. Len(Objects(r))
        BY <4>1, ManifestsAssumption DEF Objects
      <4>3. DOMAIN Objects(r) = 1 .. Len(run[r].verified) /\ DOMAIN run[r].verified = DOMAIN Objects(r)
        BY <4>1, <4>2
      <4> QED BY <1>3, <4>1, <4>3, Known DEF Complete, Passed, Shows
    <3>5. /\ \A n \in {Intent, Root("manifest.json"), Root("anchor.json")} :
               n \in DOMAIN files' /\ files'[n].data = <<run[r].anchor>>
          /\ Report \in DOMAIN files' /\ files'[Report].data = <<ReportOf(r)>>
      BY <3>2, <3>3, Names
    <3>6. \A i \in DOMAIN Objects(r) :
            /\ Payload(Objects(r)[i].path) \in DOMAIN files'
            /\ files'[Payload(Objects(r)[i].path)].data = Objects(r)[i].sha256
      BY <3>2, <3>4, Names DEF Ready
    <3> QED BY <3>1, <3>4, <3>5, <3>6 DEF Whole, Shows, Objects
  <2> QED BY <1>2, <1>6, <1>14, <2>4, <2>5, <2>7 DEF Last
<1> QED BY <1>1, <1>3, <1>8, <1>10, <1>11, <1>12, <1>13, <1>14, <1>15, <1>16, Alone, Frame DEF RunInv

\* fsync of the file.
LEMMA SyncStep ==
  ASSUME Inv, NEW r \in Runs, Sync(r)
  PROVE  Inv'
<1>1. Shape' /\ \A s \in Runs \ {r} : run'[s] = run[s]
  BY ShapeStep DEF Inv, Step
<1> DEFINE name == run[r].job.name
<1>2. /\ run[r].pc = "sync" /\ run'[r].pc = "syncdir"
      /\ run'[r].job = run[r].job /\ run'[r].hashed = run[r].hashed
      /\ run'[r].anchor = run[r].anchor /\ run'[r].object = run[r].object
      /\ run'[r].verified = run[r].verified /\ run'[r].met = run[r].met
      /\ UNCHANGED <<dirs, kept>>
  BY DEF Sync, Goto, Inv, Shape, IsFile
<1>3. Begun(r) /\ ~Claiming(r)'
  BY <1>2 DEF Begun, Live, Ended, Claiming
<1>4. /\ Handing(r) /\ Handing(r)' /\ Writing(r) /\ Writing(r)' /\ InObject(r)' = InObject(r)
      /\ Looping(r)' = Looping(r) /\ InObject(r) = Looping(r) /\ Marking(r)' = Marking(r)
  BY <1>2 DEF Handing, Writing, InObject, Looping, Marking
<1>5. name \in DOMAIN files /\ files[name].entered = FALSE /\ files[name].data = run[r].job.data
  BY <1>2, <1>3, <1>4, Known DEF Tidy
<1>6. /\ DOMAIN files' = DOMAIN files /\ \A n \in DOMAIN files \ {name} : files'[n] = files[n]
      /\ files'[name].data = files[name].data /\ files'[name].by = files[name].by
      /\ files'[name].entered = files[name].entered /\ files'[name].synced = TRUE
  BY <1>5 DEF Sync, Inv, Shape, IsFile
<1>7. /\ Objects(r)' = Objects(r) /\ Object(r)' = Object(r) /\ ReportOf(r)' = ReportOf(r)
      /\ Complete(r)' = Complete(r)
  BY <1>2, SameObject
<1>8. Last' /\ Grounded' /\ \A n, data : Shows(n, data)' = Shows(n, data)
  <2>1. \A n \in DOMAIN files : /\ files'[n].data = files[n].data /\ files'[n].by = files[n].by
                                /\ Firm(n) => Firm(n)'
    BY <1>6 DEF Firm
  <2>2. \A s \in Runs : run'[s].met = run[s].met
    BY <1>1, <1>2
  <2> QED BY <1>2, <1>6, <2>1, <2>2, SameBytes
<1>9. Placed(r)'
  <2>1. Handed(r)'
    BY <1>2, <1>3, <1>4, <1>7, Known DEF Handed
  <2>2. Counted(r)'
    BY <1>2, <1>3, <1>4, <1>7, Known DEF Counted
  <2> QED BY <1>2, <1>3, <2>1, <2>2 DEF Placed
<1>10. Tidy(r)'
  <2>1. \A n \in DOMAIN files : Loose(r, n) \/ Firm(n)
    BY <1>3, Known DEF Tidy
  <2>2. \A n \in DOMAIN files : Loose(r, n)' \/ Firm(n)'
    BY <1>2, <1>4, <1>6, <1>7, <2>1 DEF Loose, Firm
  <2>3. InObject(r)' => Payload(Object(r).path)' \in DOMAIN files'
    BY <1>3, <1>4, <1>6, <1>7, Known DEF Tidy
  <2>4. Ready \in DOMAIN files' => name = Ready
    BY <1>3, <1>6, Known DEF Tidy
  <2> QED BY <1>2, <1>4, <1>5, <1>6, <2>2, <2>3, <2>4 DEF Tidy
<1>11. Keeping(r)' /\ Headed(r)'
  BY <1>2, <1>3, <1>4, <1>7, <1>8, Known DEF Keeping, Headed
<1>12. Passed(r)'
  <2>1. Looping(r) => Payload(Object(r).path) \in DOMAIN files
    BY <1>3, <1>4, Known DEF Tidy
  <2> QED BY <1>2, <1>3, <1>4, <1>6, <1>7, <2>1, Known DEF Passed
<1>13. Intent \in DOMAIN files' /\ \A n \in DOMAIN files' : files'[n].by = r
  BY <1>3, <1>5, <1>6, Known
<1> QED BY <1>1, <1>3, <1>8, <1>9, <1>10, <1>11, <1>12, <1>13, Alone, Frame DEF RunInv

\* fsync of its directory: the file is there to stay, and the run goes on or ends.
LEMMA SyncDirStep ==
  ASSUME Inv, NEW r \in Runs, SyncDir(r)
  PROVE  Inv'
<1>1. Shape' /\ \A s \in Runs \ {r} : run'[s] = run[s]
  BY ShapeStep DEF Inv, Step
<1> DEFINE name == run[r].job.name
<1> DEFINE then == run[r].job.then
<1>2. /\ run[r].pc = "syncdir" /\ run'[r].met = run[r].met /\ UNCHANGED <<dirs, kept>>
      /\ then \in Ended => run'[r].pc = then
      /\ then \notin Ended => /\ run'[r].pc = then /\ run'[r].hashed = run[r].hashed
                              /\ run'[r].anchor = run[r].anchor /\ run'[r].object = run[r].object
                              /\ run'[r].verified = run[r].verified
  <2>1. CASE then \in Ended
    <3>1. run' = [run EXCEPT ![r] = [Idle EXCEPT !.pc = then, !.anchor = run[r].anchor, !.met = run[r].met]]
      BY <2>1 DEF SyncDir, End, Over
    <3>2. run'[r].pc = then /\ run'[r].met = run[r].met
      BY <3>1 DEF Idle, Inv, Shape, IsFile
    <3> QED BY <2>1, <3>2 DEF SyncDir
  <2>2. CASE then \notin Ended
    <3>1. PICK k : run' = [run EXCEPT ![r].pc = then, ![r].job = NoJob, ![r].evidence = k]
      BY <2>2 DEF SyncDir
    <3>2. /\ run'[r].pc = then /\ run'[r].hashed = run[r].hashed /\ run'[r].met = run[r].met
          /\ run'[r].anchor = run[r].anchor /\ run'[r].object = run[r].object
          /\ run'[r].verified = run[r].verified
      BY <3>1 DEF Inv, Shape, IsFile
    <3> QED BY <2>2, <3>2 DEF SyncDir
  <2> QED BY <2>1, <2>2
<1>3. Begun(r) /\ Handing(r) /\ Writing(r) /\ InObject(r) = Looping(r)
  BY <1>2 DEF Begun, Live, Ended, Claiming, Handing, Writing, InObject, Looping
<1>4. Handed(r) /\ \A p : name # Payload(p)
  BY <1>3, Known, NameTells
<1>5. name \in DOMAIN files /\ files[name].synced = TRUE /\ files[name].data = run[r].job.data
  BY <1>2, <1>3, Known DEF Tidy
<1>6. /\ DOMAIN files' = DOMAIN files /\ \A n \in DOMAIN files \ {name} : files'[n] = files[n]
      /\ files'[name].data = files[name].data /\ files'[name].by = files[name].by
      /\ files'[name].entered = TRUE /\ files'[name].synced = TRUE
  BY <1>5 DEF SyncDir, Inv, Shape, IsFile
<1>7. Last' /\ Grounded' /\ \A n, data : Shows(n, data)' = Shows(n, data)
  <2>1. \A n \in DOMAIN files : /\ files'[n].data = files[n].data /\ files'[n].by = files[n].by
                                /\ Firm(n) => Firm(n)'
    BY <1>6 DEF Firm
  <2>2. \A s \in Runs : run'[s].met = run[s].met
    BY <1>1, <1>2
  <2> QED BY <1>2, <1>6, <2>1, <2>2, SameBytes
<1>8. Intent \in DOMAIN files' /\ \A n \in DOMAIN files' : files'[n].by = r
  BY <1>3, <1>5, <1>6, Known
<1>9. CASE then \in Ended
  <2>1. Placed(r)' /\ RunInv(r)'
    BY <1>2, <1>9, Gone
  <2> QED BY <1>1, <1>3, <1>7, <1>8, <2>1, Alone, Frame
<1>10. CASE then \notin Ended
  <2>1. /\ then \in {"manifest", "anchor", "object", "chunk", "marker"} /\ name # Ready
        /\ name = Intent => then = "manifest"
        /\ then = "marker" => name = Report /\ Complete(r)
        /\ then = "object" => name = Root("anchor.json")
        /\ then = "anchor" => name = Root("manifest.json")
        /\ then = "manifest" => name = Intent
    <3>1. then \in {"manifest", "anchor", "object", "chunk", "marker"}
      BY <1>4, <1>10 DEF Handed, Ended
    <3>2. name # Ready
      BY <1>4, <3>1, NameTells
    <3>3. then = "marker" => name = Report /\ Complete(r)
      BY <1>4 DEF Handed
    <3>4. /\ then = "object" => name = Root("anchor.json")
          /\ then = "anchor" => name = Root("manifest.json")
          /\ then = "manifest" => name = Intent
      BY <1>4 DEF Handed
    <3> QED BY <1>4, <3>1, <3>2, <3>3, <3>4, NameTells
  <2>2. /\ run'[r].pc = then /\ run'[r].hashed = run[r].hashed
        /\ run'[r].anchor = run[r].anchor /\ run'[r].object = run[r].object
        /\ run'[r].verified = run[r].verified
    BY <1>2, <1>10
  <2>3. /\ ~Handing(r)' /\ ~Writing(r)' /\ InObject(r)' = InObject(r) /\ Looping(r)' = Looping(r)
        /\ Marking(r)' = (then = "marker") /\ ~Claiming(r)' /\ ~Marking(r)
        /\ InObject(r) = (then = "chunk")
    BY <1>2, <1>3, <2>1, <2>2 DEF Handing, Writing, InObject, Looping, Marking, Claiming
  <2>4. /\ Objects(r)' = Objects(r) /\ Object(r)' = Object(r) /\ ReportOf(r)' = ReportOf(r)
        /\ Complete(r)' = Complete(r)
    BY <2>2, SameObject
  <2>5. Placed(r)'
    <3>1. Counted(r)'
      BY <1>2, <1>3, <2>1, <2>2, <2>3, <2>4, Known DEF Counted
    <3> QED BY <2>1, <2>2, <2>3, <3>1 DEF Placed
  <2>6. Tidy(r)'
    <3>1. \A n \in DOMAIN files : Loose(r, n) \/ Firm(n)
      BY <1>3, Known DEF Tidy
    <3>2. \A n \in DOMAIN files : Loose(r, n)' \/ Firm(n)'
      BY <1>6, <2>3, <2>4, <3>1 DEF Loose, Firm
    <3>3. InObject(r)' => Payload(Object(r).path)' \in DOMAIN files'
      BY <1>3, <1>6, <2>3, <2>4, Known DEF Tidy
    <3>4. Ready \notin DOMAIN files'
      BY <1>3, <1>6, <2>1, Known DEF Tidy
    <3> QED BY <2>1, <2>2, <2>3, <1>6, <3>2, <3>3, <3>4 DEF Tidy
  <2>7. Keeping(r)'
    <3>1. \A b : name = Evidence(b) => Shows(Evidence(b), <<b>>)
      BY <1>4, <1>5, NameTells DEF Shows
    <3> QED BY <1>2, <1>3, <1>7, <3>1, Known DEF Keeping
  <2>8. Headed(r)'
    <3>1. Shows(Intent, <<run[r].anchor>>)
      BY <1>3, <1>4, <1>5, Known, NameTells DEF Headed, Shows
    <3>2. then # "manifest" => Shows(Root("manifest.json"), <<run[r].anchor>>)
      BY <1>2, <1>3, <1>4, <1>5, <2>1, Known, NameTells DEF Headed, Shows
    <3>3. then \notin {"manifest", "anchor"} => Shows(Root("anchor.json"), <<run[r].anchor>>)
      BY <1>2, <1>3, <1>4, <1>5, <2>1, Known, NameTells DEF Headed, Shows
    <3>4. then = "marker" => Shows(Report, <<ReportOf(r)>>)
      BY <1>4, <1>5, <2>1, NameTells DEF Shows
    <3> QED BY <1>7, <2>2, <2>3, <2>4, <3>1, <3>2, <3>3, <3>4 DEF Headed
  <2>9. Passed(r)'
    <3>1. Looping(r) => Payload(Object(r).path) \in DOMAIN files
      BY <1>3, Known DEF Tidy
    <3>2. \A p : Payload(p) \in DOMAIN files =>
                   Payload(p) \in DOMAIN files' /\ files'[Payload(p)] = files[Payload(p)]
      BY <1>4, <1>6
    <3>3. Passed(r)
      BY <1>3, Known
    <3> QED BY <2>2, <2>3, <2>4, <3>1, <3>2, <3>3 DEF Passed
  <2> QED BY <1>1, <1>3, <1>7, <1>8, <2>5, <2>6, <2>7, <2>8, <2>9, Alone, Frame DEF RunInv
<1> QED BY <1>9, <1>10

\* A chunk is appended to the payload file.
LEMMA AppendStep ==
  ASSUME Inv, NEW r \in Runs, AppendChunk(r)
  PROVE  Inv'
<1>1. Shape' /\ \A s \in Runs \ {r} : run'[s] = run[s]
  BY ShapeStep DEF Inv, Step
<1> DEFINE name == Payload(Object(r).path)
<1>2. /\ run[r].pc = "chunk" /\ run'[r].pc = "chunk" /\ run'[r].met = run[r].met
      /\ run'[r].hashed = Append(run[r].hashed, run[r].selected)
      /\ run'[r].anchor = run[r].anchor /\ run'[r].object = run[r].object
      /\ run'[r].verified = run[r].verified /\ UNCHANGED <<dirs, kept>>
  BY DEF AppendChunk, Inv, Shape, IsFile
<1>3. Begun(r) /\ ~Claiming(r)'
  BY <1>2 DEF Begun, Live, Ended, Claiming
<1>4. /\ ~Handing(r) /\ ~Writing(r) /\ InObject(r) /\ Looping(r) /\ ~Marking(r)
      /\ ~Handing(r)' /\ ~Writing(r)' /\ InObject(r)' /\ Looping(r)' /\ ~Marking(r)'
  BY <1>2 DEF Handing, Writing, Looping, InObject, Marking
<1>5. name \in DOMAIN files
  BY <1>3, <1>4, Known DEF Tidy
<1>6. /\ DOMAIN files' = DOMAIN files /\ \A n \in DOMAIN files \ {name} : files'[n] = files[n]
      /\ files'[name].data = Append(files[name].data, run[r].selected)
      /\ files'[name].by = files[name].by
  BY <1>5 DEF AppendChunk, Inv, Shape, IsFile
<1>7. Objects(r)' = Objects(r) /\ Object(r)' = Object(r) /\ Object(r) = Objects(r)[run[r].object]
  BY <1>2, SameObject DEF Object
<1>8. Ready \notin DOMAIN files'
  BY <1>3, <1>4, <1>6, Known
<1>9. Placed(r)'
  <2>1. Counted(r)'
    BY <1>2, <1>3, <1>4, <1>7, Known DEF Counted
  <2> QED BY <1>2, <1>3, <1>4, <2>1 DEF Placed
<1>10. Tidy(r)'
  <2>1. \A n \in DOMAIN files : n = name \/ Firm(n)
    BY <1>3, <1>4, Known DEF Tidy, Loose
  <2>2. \A n \in DOMAIN files : Loose(r, n)' \/ Firm(n)'
    BY <1>4, <1>6, <1>7, <2>1 DEF Loose, Firm
  <2> QED BY <1>2, <1>4, <1>5, <1>6, <1>7, <1>8, <2>2 DEF Tidy
<1>11. Keeping(r)' /\ Headed(r)'
  <2>1. \A n, data : Shows(n, data) /\ n # name => Shows(n, data)'
    BY <1>6 DEF Shows
  <2>2. Keeping(r)'
    BY <1>2, <1>3, <1>4, <2>1, Known, Names DEF Keeping
  <2>3. Headed(r)'
    BY <1>2, <1>3, <1>4, <2>1, Known, Names DEF Headed, Intent
  <2> QED BY <2>2, <2>3
<1>12. Passed(r)'
  <2>1. Passed(r)
    BY <1>3, Known
  <2>2. files'[name].data = run'[r].hashed
    BY <1>2, <1>4, <1>6, <2>1 DEF Passed
  <2>3. \A i \in 1 .. Len(run[r].verified) : Payload(Objects(r)[i].path) # name
    BY <1>4, <2>1 DEF Passed, Payload
  <2>4. \A i \in 1 .. Len(run[r].verified) :
          /\ Payload(Objects(r)[i].path) \in DOMAIN files'
          /\ run[r].verified[i] => files'[Payload(Objects(r)[i].path)].data = Objects(r)[i].sha256
    BY <1>6, <2>1, <2>3 DEF Passed
  <2>5. \A i \in 1 .. Len(run[r].verified) : Objects(r)[i].path # Object(r).path
    BY <1>4, <2>1 DEF Passed
  <2> QED BY <1>2, <1>7, <2>2, <2>4, <2>5 DEF Passed
<1>13. Intent \in DOMAIN files' /\ \A n \in DOMAIN files' : files'[n].by = r
  BY <1>3, <1>5, <1>6, Known
<1>14. Last' /\ Grounded'
  BY <1>2, <1>5, <1>6, <1>8 DEF Last, Inv, Grounded
<1> QED BY <1>1, <1>3, <1>9, <1>10, <1>11, <1>12, <1>13, <1>14, Alone, Frame DEF RunInv

\* fsync of the payload file, and of its directory.
LEMMA FsyncStep ==
  ASSUME Inv, NEW r \in Runs, Fsync(r) \/ FsyncParent(r)
  PROVE  Inv'
<1>1. Shape' /\ \A s \in Runs \ {r} : run'[s] = run[s]
  BY ShapeStep DEF Inv, Step
<1> DEFINE name == Payload(Object(r).path)
<1>2. /\ run[r].pc \in {"fsync", "fsyncdir"} /\ run'[r].pc \in {"fsyncdir", "object"}
      /\ run'[r].met = run[r].met /\ run'[r].anchor = run[r].anchor /\ run'[r].verified = run[r].verified
      /\ UNCHANGED <<dirs, kept>>
  BY DEF Fsync, FsyncParent, Goto, Inv, Shape, IsFile
<1>3. Begun(r) /\ ~Claiming(r)'
  BY <1>2 DEF Begun, Live, Ended, Claiming
<1>4. /\ ~Handing(r) /\ ~Writing(r) /\ InObject(r) /\ ~Looping(r) /\ ~Marking(r)
      /\ ~Handing(r)' /\ ~Writing(r)' /\ InObject(r)' = (run'[r].pc = "fsyncdir")
      /\ ~Looping(r)' /\ ~Marking(r)'
  BY <1>2 DEF Handing, Writing, Looping, InObject, Marking
<1>5. /\ name \in DOMAIN files /\ \A n \in DOMAIN files : n = name \/ Firm(n)
      /\ run[r].pc = "fsyncdir" => files[name].synced = TRUE
  BY <1>3, <1>4, Known DEF Tidy, Loose
<1>6. /\ DOMAIN files' = DOMAIN files /\ \A n \in DOMAIN files \ {name} : files'[n] = files[n]
      /\ files'[name].data = files[name].data /\ files'[name].by = files[name].by
      /\ Firm(name) => files'[name].synced = TRUE /\ files'[name].entered = TRUE
      /\ Fsync(r) => files'[name].synced = TRUE
      /\ FsyncParent(r) => files'[name].synced = files[name].synced /\ files'[name].entered = TRUE
  <2>1. CASE Fsync(r)
    BY <1>5, <2>1 DEF Fsync, FsyncParent, Firm, Inv, Shape, IsFile
  <2>2. CASE FsyncParent(r)
    BY <1>5, <2>2 DEF Fsync, FsyncParent, Firm, Inv, Shape, IsFile
  <2> QED BY <2>1, <2>2
<1>7. Last' /\ Grounded' /\ \A n, data : Shows(n, data)' = Shows(n, data)
  <2>1. \A n \in DOMAIN files : /\ files'[n].data = files[n].data /\ files'[n].by = files[n].by
                                /\ Firm(n) => Firm(n)'
    BY <1>6 DEF Firm
  <2>2. \A s \in Runs : run'[s].met = run[s].met
    BY <1>1, <1>2
  <2> QED BY <1>2, <1>6, <2>1, <2>2, SameBytes
<1>8. /\ Objects(r)' = Objects(r) /\ ReportOf(r)' = ReportOf(r) /\ Complete(r)' = Complete(r)
      /\ run[r].object \in 1 .. Len(Objects(r)) + 1 /\ run[r].object <= Len(Objects(r))
      /\ Len(run[r].verified) = run[r].object /\ run[r].anchor \in DOMAIN Manifests
      /\ run[r].verified \in Seq(BOOLEAN)
  BY <1>2, <1>3, <1>4, SameObject, Known DEF Counted
<1>9. Len(Objects(r)) \in Nat
  BY <1>8, ManifestsAssumption DEF Objects
<1>10. Keeping(r)' /\ Headed(r)'
  BY <1>2, <1>3, <1>4, <1>7, Known DEF Keeping, Headed
<1>11. Passed(r)'
  <2>1. Passed(r)
    BY <1>3, Known
  <2> QED BY <1>2, <1>4, <1>6, <1>8, <2>1 DEF Passed
<1>12. Intent \in DOMAIN files' /\ \A n \in DOMAIN files' : files'[n].by = r
  BY <1>3, <1>5, <1>6, Known
<1>13. Ready \notin DOMAIN files'
  BY <1>3, <1>4, <1>6, Known
<1>14. CASE Fsync(r)
  <2>1. run'[r].pc = "fsyncdir" /\ run'[r].object = run[r].object /\ run[r].pc = "fsync"
    BY <1>14 DEF Fsync, Goto, Inv, Shape, IsFile
  <2>2. Object(r)' = Object(r)
    BY <1>2, <2>1, SameObject
  <2>3. Placed(r)'
    <3>1. Counted(r)'
      BY <1>2, <1>4, <1>8, <2>1 DEF Counted
    <3> QED BY <1>3, <1>4, <2>1, <3>1 DEF Placed
  <2>4. Tidy(r)'
    <3>1. \A n \in DOMAIN files : Loose(r, n)' \/ Firm(n)'
      BY <1>4, <1>5, <1>6, <2>1, <2>2 DEF Loose, Firm
    <3> QED BY <1>4, <1>5, <1>6, <1>13, <1>14, <2>1, <2>2, <3>1 DEF Tidy
  <2> QED BY <1>1, <1>3, <1>7, <1>10, <1>11, <1>12, <2>3, <2>4, Alone, Frame DEF RunInv
<1>15. CASE FsyncParent(r)
  <2>1. run'[r].pc = "object" /\ run'[r].object = run[r].object + 1 /\ run[r].pc = "fsyncdir"
    BY <1>15 DEF FsyncParent, Inv, Shape, IsFile
  <2>2. Placed(r)'
    <3>1. /\ run'[r].object \in 1 .. Len(Objects(r)) + 1
          /\ Len(run[r].verified) = run'[r].object - 1
      BY <1>8, <1>9, <2>1
    <3>2. Counted(r)'
      BY <1>2, <1>4, <1>8, <2>1, <3>1 DEF Counted
    <3> QED BY <1>3, <1>4, <2>1, <3>2 DEF Placed
  <2>3. Tidy(r)'
    <3>1. \A n \in DOMAIN files : Firm(n)'
      BY <1>5, <1>6, <1>15, <2>1 DEF Firm
    <3> QED BY <1>4, <1>6, <1>13, <2>1, <3>1 DEF Tidy
  <2> QED BY <1>1, <1>3, <1>7, <1>10, <1>11, <1>12, <2>2, <2>3, Alone, Frame DEF RunInv
<1> QED BY <1>14, <1>15

-----------------------------------------------------------------------------
(* Faults                                                                  *)

\* A run is killed, or fails.
LEMMA StopStep ==
  ASSUME Inv, NEW r \in Runs, Stop(r)
  PROVE  Inv'
<1>1. Shape' /\ \A s \in Runs \ {r} : run'[s] = run[s]
  BY ShapeStep DEF Inv
<1>2. /\ run'[r].pc = "stopped" /\ run'[r].met = run[r].met /\ UNCHANGED <<dirs, kept>>
      /\ "stopped" \in Ended
  BY DEF Stop, End, Over, Idle, Ended, Inv, Shape, IsFile
<1>3. Placed(r)' /\ RunInv(r)'
  BY <1>2, Gone
<1>4. CASE UNCHANGED files
  BY <1>1, <1>2, <1>4, EndStep DEF Stop
<1>5. ASSUME NEW name, NEW data, name \in DOMAIN files, Begun(r),
             \/ Writing(r) /\ name = run[r].job.name /\ data = <<Torn>>
             \/ run[r].pc = "chunk" /\ name # Ready,
             files' = [files EXCEPT ![name].data = data]
      PROVE  Inv'
  <2>1. /\ DOMAIN files' = DOMAIN files /\ \A n \in DOMAIN files \ {name} : files'[n] = files[n]
        /\ files'[name].data = data /\ files'[name].by = files[name].by
    BY <1>5 DEF Inv, Shape, IsFile
  <2>2. Intent \in DOMAIN files' /\ \A n \in DOMAIN files' : files'[n].by = r
    BY <1>5, <2>1, Known
  <2>3. Grounded'
    BY <1>2, <1>5, <2>1 DEF Inv, Grounded
  <2>4. Last'
    <3> SUFFICES ASSUME Ready \in DOMAIN files
                 PROVE  Last'
      BY <2>1 DEF Last
    <3>1. Writing(r) /\ name = Ready /\ data = <<Torn>>
      BY <1>5, Known DEF Tidy, Writing
    <3>2. \A n \in DOMAIN files : n # Ready => Firm(n) /\ Firm(n)'
      BY <2>1, <3>1 DEF Inv, Last, Firm
    <3>3. \A b \in run[r].met : Shows(Evidence(b), <<b>>)
      BY <1>5, Known DEF Inv, Last
    <3>4. \A b \in run[r].met : Shows(Evidence(b), <<b>>)'
      BY <2>1, <3>1, <3>3, Names DEF Shows, Ready
    <3> QED BY <1>2, <2>1, <2>2, <3>1, <3>2, <3>4 DEF Last
  <2> QED BY <1>1, <1>3, <1>5, <2>2, <2>3, <2>4, Alone, Frame
<1>6. CASE run[r].pc = "write" /\ files' = [files EXCEPT ![run[r].job.name].data = <<Torn>>]
  <2>1. Begun(r) /\ Writing(r)
    BY <1>6 DEF Begun, Live, Ended, Claiming, Writing
  <2>2. run[r].job.name \in DOMAIN files
    BY <2>1, Known DEF Tidy
  <2> QED BY <1>5, <1>6, <2>1, <2>2
<1>7. CASE run[r].pc = "chunk" /\ files' = [files EXCEPT ![Payload(Object(r).path)].data = Append(@, Torn)]
  <2>1. Begun(r) /\ InObject(r)
    BY <1>7 DEF Begun, Live, Ended, Claiming, InObject, Looping
  <2>2. Payload(Object(r).path) \in DOMAIN files /\ Payload(Object(r).path) # Ready
    BY <2>1, Known, Names DEF Tidy, Ready
  <2> QED BY <1>5, <1>7, <2>1, <2>2
<1> QED BY <1>4, <1>6, <1>7 DEF Stop

\* Every directory is on stable storage: a power loss takes files only.
LEMMA PowerLossKeeps ==
  ASSUME Inv, PowerLoss
  PROVE  \E lost \in SUBSET {n \in DOMAIN files : ~files[n].entered},
            torn \in SUBSET {n \in DOMAIN files : ~files[n].synced} :
           /\ files' = [n \in DOMAIN files \ lost |->
                          [files[n] EXCEPT !.data = IF n \in torn THEN <<Torn>> ELSE @,
                                           !.synced = TRUE, !.entered = TRUE]]
           /\ dirs' = dirs /\ kept' = dirs
<1>1. kept = dirs
  BY DEF Inv, Grounded
<1>2. PICK lostDirs \in SUBSET (dirs \ kept),
           lost \in SUBSET {n \in DOMAIN files : ~files[n].entered},
           torn \in SUBSET {n \in DOMAIN files : ~files[n].synced} :
        /\ files' = [n \in {n \in DOMAIN files \ lost : Above(n) \cap lostDirs = {}} |->
                       [files[n] EXCEPT !.data = IF n \in torn THEN <<Torn>> ELSE @,
                                        !.synced = TRUE, !.entered = TRUE]]
        /\ dirs' = {d \in dirs \ lostDirs :
                      \A e \in lostDirs : d[1] # e[1] \/ e[2] # SubSeq(d[2], 1, Len(e[2]))}
        /\ kept' = dirs'
  BY DEF PowerLoss
<1>3. lostDirs = {}
  BY <1>1, <1>2
<1>4. dirs' = dirs /\ {n \in DOMAIN files \ lost : Above(n) \cap lostDirs = {}} = DOMAIN files \ lost
  BY <1>2, <1>3
<1> QED BY <1>2, <1>4

\* Power is lost: what is on stable storage stays as it is.
LEMMA PowerLossStep ==
  ASSUME Inv, PowerLoss
  PROVE  Inv'
<1>1. PICK lost \in SUBSET {n \in DOMAIN files : ~files[n].entered},
           torn \in SUBSET {n \in DOMAIN files : ~files[n].synced} :
        /\ files' = [n \in DOMAIN files \ lost |->
                       [files[n] EXCEPT !.data = IF n \in torn THEN <<Torn>> ELSE @,
                                        !.synced = TRUE, !.entered = TRUE]]
        /\ dirs' = dirs /\ kept' = dirs
  BY PowerLossKeeps
<1>2. DOMAIN files' = DOMAIN files \ lost
  BY <1>1
<1>3. \A n \in DOMAIN files' :
        /\ IsFile(files'[n])
        /\ files'[n].by = files[n].by /\ files'[n].synced = TRUE /\ files'[n].entered = TRUE
        /\ files'[n].data = IF n \in torn THEN <<Torn>> ELSE files[n].data
  <2> SUFFICES ASSUME NEW n \in DOMAIN files'
               PROVE  /\ IsFile(files'[n])
                      /\ files'[n].by = files[n].by /\ files'[n].synced = TRUE /\ files'[n].entered = TRUE
                      /\ files'[n].data = IF n \in torn THEN <<Torn>> ELSE files[n].data
    OBVIOUS
  <2>1. IsFile(files[n])
    BY <1>2 DEF Inv, Shape
  <2>2. PICK d : /\ d = IF n \in torn THEN <<Torn>> ELSE files[n].data
                 /\ files'[n] = [files[n] EXCEPT !.data = d, !.synced = TRUE, !.entered = TRUE]
    BY <1>1, <1>2
  <2>3. IsFile(files'[n])
    BY <2>1, <2>2, FileSettled
  <2>4. /\ files'[n].by = files[n].by /\ files'[n].synced = TRUE /\ files'[n].entered = TRUE
        /\ files'[n].data = d
    BY <2>1, <2>2 DEF IsFile
  <2> QED BY <2>2, <2>3, <2>4
<1>4. \A n \in DOMAIN files : Firm(n) => n \in DOMAIN files' /\ files'[n].data = files[n].data
  BY <1>2, <1>3 DEF Firm
<1>5. run' = [r \in Runs |-> IF Live(r) THEN Over(r, "stopped") ELSE run[r]]
  BY DEF PowerLoss
<1>6. \A r \in Runs : /\ Live(r) => run'[r].pc = "stopped" /\ run'[r].met = run[r].met
                      /\ ~Live(r) => run'[r] = run[r]
  BY <1>5 DEF Over, Idle
<1>7. \A r \in Runs : run'[r].met = run[r].met /\ ~Begun(r)' /\ ~Claiming(r)' /\ Placed(r)'
  <2> SUFFICES ASSUME NEW r \in Runs
               PROVE  run'[r].met = run[r].met /\ ~Begun(r)' /\ ~Claiming(r)' /\ Placed(r)'
    OBVIOUS
  <2>1. CASE Live(r)
    BY <1>6, <2>1, Gone DEF Ended
  <2>2. CASE ~Live(r)
    <3>1. ~Begun(r) /\ ~Claiming(r)
      BY <2>2 DEF Begun, Claiming, Live, Ended
    <3> QED BY <1>6, <2>2, <3>1, Alike DEF Inv
  <2> QED BY <2>1, <2>2
<1>8. Shape'
  <2>1. files' = [n \in DOMAIN files' |-> files'[n]]
    BY <1>1
  <2>2. DOMAIN run' = Runs /\ \A r \in Runs : DOMAIN run'[r] = DOMAIN run[r]
    BY <1>5 DEF Inv, Shape, IsFile, Over, Idle
  <2> QED BY <1>3, <2>1, <2>2 DEF Inv, Shape, IsFile
<1>9. Owned'
  BY <1>2, <1>3, <1>7 DEF Inv, Owned, OneWriter
<1>10. Grounded'
  BY <1>1, <1>2, <1>3 DEF Inv, Grounded
<1>11. Last'
  <2> SUFFICES ASSUME Ready \in DOMAIN files'
               PROVE  Last'
    BY DEF Last
  <2>1. /\ Ready \in DOMAIN files /\ files[Ready].by \in Runs
        /\ \A n \in DOMAIN files : n # Ready => Firm(n)
        /\ \A b \in run[files[Ready].by].met : Shows(Evidence(b), <<b>>)
        /\ files[Ready].data \in {<<>>, <<Torn>>} \/ Whole(Mark)
    BY <1>2 DEF Inv, Last, Grounded
  <2>2. \A n \in DOMAIN files' : Firm(n)'
    BY <1>3 DEF Firm
  <2>3. \A n, data : n # Ready /\ Shows(n, data) => n \in DOMAIN files' /\ files'[n].data = data
    BY <1>4, <2>1 DEF Shows
  <2>4. \A b \in run'[files'[Ready].by].met : Shows(Evidence(b), <<b>>)'
    <3>1. files'[Ready].by = files[Ready].by /\ run'[files[Ready].by].met = run[files[Ready].by].met
      BY <1>3, <1>7, <2>1
    <3>2. \A b : Evidence(b) # Ready
      BY Names DEF Ready
    <3> QED BY <2>1, <2>3, <3>1, <3>2 DEF Shows
  <2>5. files'[Ready].data \in {<<>>, <<Torn>>} \/ Whole(Mark)'
    <3>1. CASE files'[Ready].data = <<Torn>>
      BY <3>1
    <3>2. CASE files'[Ready].data = files[Ready].data /\ Whole(Mark)
      <4>1. Mark' = Mark
        BY <3>2 DEF Mark
      <4>2. /\ \A n \in {Intent, Root("manifest.json"), Root("anchor.json")} :
                 n \in DOMAIN files' /\ files'[n].data = <<Mark.anchor>>
            /\ Report \in DOMAIN files' /\ files'[Report].data = <<Mark.report>>
        BY <2>3, <3>2, Names DEF Whole
      <4>3. \A i \in DOMAIN Manifests[Mark.anchor].objects :
              LET o == Manifests[Mark.anchor].objects[i] IN
              /\ Mark.report.verified[i]
              /\ Payload(o.path) \in DOMAIN files' /\ files'[Payload(o.path)].data = o.sha256
        BY <2>3, <3>2, Names DEF Whole, Ready
      <4> QED BY <4>1, <4>2, <4>3 DEF Whole, Shows
    <3>3. CASE files'[Ready].data = files[Ready].data /\ files[Ready].data \in {<<>>, <<Torn>>}
      BY <3>3
    <3> QED BY <1>3, <2>1, <3>1, <3>2, <3>3
  <2> QED BY <2>2, <2>4, <2>5 DEF Last
<1> QED BY <1>7, <1>8, <1>9, <1>10, <1>11 DEF Inv, RunInv

-----------------------------------------------------------------------------
(* The invariant                                                           *)

\* An empty candidate nobody was started on.
LEMMA InvInit ==
  Init => Inv
<1> SUFFICES ASSUME Init
             PROVE  Inv
  OBVIOUS
<1>1. DOMAIN files = {} /\ files = [n \in DOMAIN files |-> files[n]]
  BY DEF Init
<1>2. \A r \in Runs : run[r] = Idle
  BY DEF Init
<1>3. Shape
  BY <1>1 DEF Init, Shape, IsFile, Idle
<1>4. \A r \in Runs : /\ run[r].pc = "idle" /\ ~Begun(r) /\ ~Claiming(r) /\ ~Handing(r)
                      /\ Fresh(r)
  <2>1. Idle.pc = "idle" /\ Idle.object = 1 /\ Idle.verified = <<>> /\ Idle.met = {}
    BY DEF Idle
  <2>2. \A r \in Runs : run[r].pc = "idle" /\ run[r].object = 1 /\ run[r].verified = <<>> /\ run[r].met = {}
    BY <1>2, <2>1
  <2> QED BY <2>2 DEF Begun, Live, Claiming, Handing, Fresh
<1>5. Owned /\ Grounded /\ Last
  BY <1>1, <1>4 DEF Owned, OneWriter, Grounded, Last, Init
<1> QED BY <1>3, <1>4, <1>5 DEF Inv, Placed, RunInv

\* Every step keeps it.
LEMMA InvNext ==
  Inv /\ [Next]_vars => Inv'
<1> SUFFICES ASSUME Inv, [Next]_vars
             PROVE  Inv'
  OBVIOUS
<1>1. ASSUME NEW r \in Runs, Step(r)
      PROVE  Inv'
  <2>1. CASE List(r)
    BY <2>1, ListStep
  <2>2. CASE WriteManifest(r) \/ WriteAnchor(r)
    <3>1. Begun(r)
      BY <2>2 DEF WriteManifest, WriteAnchor, Begun, Live, Ended, Claiming
    <3> QED BY <2>2, <3>1, HeaderStep
  <2>3. CASE Create(r)
    <3>1. Claiming(r) \/ Begun(r)
      BY <2>3 DEF Create, Begun, Live, Ended
    <3> QED BY <2>3, <3>1, ClaimStep, CreateStep
  <2>4. CASE CreateExists(r)
    BY <2>4, CreateExistsStep
  <2>5. CASE Write(r)
    BY <2>5, WriteStep
  <2>6. CASE Sync(r)
    BY <2>6, SyncStep
  <2>7. CASE SyncDir(r)
    BY <2>7, SyncDirStep
  <2>8. CASE Open(r)
    BY <2>8, OpenStep
  <2>9. CASE ReadUnreadable(r) \/ ReadGood(r)
    BY <2>9, ReadStep
  <2>10. CASE ReadBad(r)
    BY <2>10, ReadBadStep
  <2>11. CASE AppendChunk(r)
    BY <2>11, AppendStep
  <2>12. CASE LeaveLoop(r)
    BY <2>12, LeaveLoopStep
  <2>13. CASE Fsync(r) \/ FsyncParent(r)
    BY <2>13, FsyncStep
  <2>14. CASE WriteReport(r)
    BY <2>14, WriteReportStep
  <2>15. CASE WriteReady(r)
    BY <2>15, WriteReadyStep
  <2> QED BY <1>1, <2>1, <2>2, <2>3, <2>4, <2>5, <2>6, <2>7, <2>8, <2>9, <2>10, <2>11, <2>12, <2>13,
             <2>14, <2>15 DEF Step
<1>2. ASSUME NEW r \in Runs, Stop(r) \/ \E m \in DOMAIN Manifests : Start(r, m)
      PROVE  Inv'
  BY <1>2, StopStep, StartStep
<1>3. CASE PowerLoss
  BY <1>3, PowerLossStep
<1>4. CASE UNCHANGED vars
  <2>1. files' = files /\ dirs' = dirs /\ kept' = kept /\ run' = run
    BY <1>4 DEF vars
  <2>2. \A r \in Runs : Placed(r)' /\ RunInv(r)'
    BY <2>1, Alike DEF Inv
  <2>3. Owned' /\ Grounded'
    BY <2>1, Alike DEF Inv, Owned, OneWriter, Grounded
  <2>4. Last' /\ Shape'
    <3>1. Shape'
      BY <2>1 DEF Inv, Shape, IsFile
    <3>2. Last'
      BY <2>1 DEF Inv, Last, Firm, Shows, Whole, Mark
    <3> QED BY <3>1, <3>2
  <2> QED BY <2>2, <2>3, <2>4 DEF Inv
<1> QED BY <1>1, <1>2, <1>3, <1>4 DEF Next

\* So it holds throughout.
LEMMA InvAlways ==
  Spec => []Inv
<1>1. Init => Inv
  BY InvInit
<1>2. Inv /\ [Next]_vars => Inv'
  BY InvNext
<1> QED BY <1>1, <1>2, PTL DEF Spec

-----------------------------------------------------------------------------

\* All there is in a candidate was written by one run of reconstruct: O_EXCL on
\* intent.json decides between all that found it empty.
THEOREM OneWriterAlways ==
  Spec => []OneWriter
<1>1. Inv => OneWriter
  BY DEF Inv, Owned
<1> QED BY <1>1, InvAlways, PTL

\* A readable candidate-ready.json means a candidate with every object of its
\* manifest whole and on stable storage, wherever runs were killed and power lost.
THEOREM ReadyRebuilt ==
  Spec => []ReadyMeansRebuilt
<1>1. Inv => ReadyMeansRebuilt
  <2> SUFFICES ASSUME Inv, Marked
               PROVE  ReadyMeansRebuilt
    BY DEF ReadyMeansRebuilt
  <2>1. Ready \in DOMAIN files /\ Whole(Mark) /\ \A n \in DOMAIN files : n # Ready => Firm(n)
    BY DEF Inv, Last, Marked
  <2>2. \A n, data : n # Ready /\ Shows(n, data) => Holds(n, data)
    BY <2>1 DEF Shows, Holds, Firm, Inv, Grounded
  <2>3. \A i \in DOMAIN Manifests[Mark.anchor].objects :
          /\ Mark.report.verified[i]
          /\ Holds(Payload(Manifests[Mark.anchor].objects[i].path), Manifests[Mark.anchor].objects[i].sha256)
    BY <2>1, <2>2, Names DEF Whole, Ready
  <2>4. /\ Holds(Intent, <<Mark.anchor>>) /\ Holds(Root("manifest.json"), <<Mark.anchor>>)
        /\ Holds(Root("anchor.json"), <<Mark.anchor>>) /\ Holds(Report, <<Mark.report>>)
    BY <2>1, <2>2, Names DEF Whole
  <2> QED BY <2>3, <2>4 DEF ReadyMeansRebuilt
<1> QED BY <1>1, InvAlways, PTL

\* No marker without the evidence: every bad copy its run met is kept first.
THEOREM EvidencePreserved ==
  Spec => []EvidenceBeforeReady
<1>1. Inv => EvidenceBeforeReady
  <2> SUFFICES ASSUME Inv, Marked, NEW b \in run[files[Ready].by].met
               PROVE  Holds(Evidence(b), <<b>>)
    BY DEF EvidenceBeforeReady
  <2>1. Shows(Evidence(b), <<b>>) /\ Evidence(b) # Ready /\ \A n \in DOMAIN files : n # Ready => Firm(n)
    BY Names DEF Inv, Last, Marked, Ready
  <2> QED BY <2>1 DEF Shows, Holds, Firm, Inv, Grounded
<1> QED BY <1>1, InvAlways, PTL

\* Where a marker is on stable storage, nobody is at work on the candidate and
\* nothing of it can be lost.
LEMMA FinalStep ==
  Inv /\ [Next]_vars => [Marked /\ files[Ready].synced /\ files[Ready].entered => UNCHANGED files]_vars
<1> SUFFICES ASSUME Inv, Next, Marked, files[Ready].synced, files[Ready].entered
             PROVE  UNCHANGED files
  BY DEF vars
<1>1. /\ Ready \in DOMAIN files /\ (Intent \in DOMAIN files \/ \A r \in Runs : ~Claiming(r))
      /\ \A r \in Runs : ~Begun(r)
  <2>1. ASSUME NEW r \in Runs, Begun(r)
        PROVE  FALSE
    BY <2>1, Known DEF Tidy, Marked
  <2> QED BY <2>1 DEF Inv, Owned, Marked
<1>2. ASSUME NEW r \in Runs, Step(r) \/ Stop(r) \/ \E m \in DOMAIN Manifests : Start(r, m)
      PROVE  UNCHANGED files
  <2>1. run[r].pc \in {"idle", "list"} \cup Ended \/ Claiming(r)
    BY <1>1 DEF Begun, Live
  <2>2. ~Create(r)
    BY <1>1, <2>1 DEF Create, Claiming, Taken, Ended
  <2> QED BY <1>2, <2>1, <2>2 DEF Step, Start, List, WriteManifest, WriteAnchor, CreateExists, Write, Sync,
       SyncDir, Open, ReadUnreadable, ReadGood, ReadBad, Reading, AppendChunk, LeaveLoop, Fsync, FsyncParent,
       WriteReport, WriteReady, Stop, Claiming, Ended
<1>3. CASE PowerLoss
  <2>1. \A n \in DOMAIN files : files[n].synced = TRUE /\ files[n].entered = TRUE
    BY DEF Inv, Last, Firm, Marked
  <2>2. PICK lost \in SUBSET {n \in DOMAIN files : ~files[n].entered},
             torn \in SUBSET {n \in DOMAIN files : ~files[n].synced} :
          files' = [n \in DOMAIN files \ lost |->
                      [files[n] EXCEPT !.data = IF n \in torn THEN <<Torn>> ELSE @,
                                       !.synced = TRUE, !.entered = TRUE]]
    BY <1>3, PowerLossKeeps
  <2> lost = {} /\ torn = {}
    BY <2>1
  <2>3. \A n \in DOMAIN files : files'[n] = files[n]
    <3> SUFFICES ASSUME NEW n \in DOMAIN files
                 PROVE  files'[n] = files[n]
      OBVIOUS
    <3>1. IsFile(files[n])
      BY DEF Inv, Shape
    <3>2. PICK v : /\ v = files[n].data
                   /\ files'[n] = [files[n] EXCEPT !.data = v, !.synced = TRUE, !.entered = TRUE]
      BY <2>2
    <3>3. files[n].synced = TRUE /\ files[n].entered = TRUE
      BY <2>1
    <3> QED BY <3>1, <3>2, <3>3, FileFirm
  <2>4. DOMAIN files' = DOMAIN files /\ files' = [n \in DOMAIN files' |-> files'[n]]
    BY <2>2
  <2> QED BY <2>3, <2>4 DEF Inv, Shape, IsFile
<1> QED BY <1>2, <1>3 DEF Next

\* Once the marker is on stable storage nothing in the candidate changes any more.
THEOREM ReadyFinal ==
  Spec => ReadyIsFinal
BY FinalStep, InvAlways, PTL DEF Spec, ReadyIsFinal
=============================================================================
