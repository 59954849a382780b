---------------------------- MODULE CohortSource ----------------------------
(***************************************************************************)
(* The two tools that read a closed source directory while somebody may    *)
(* still be writing to it: export, which copies it into chunks and then    *)
(* publishes a manifest, and inspect_original, which compares it with an   *)
(* authenticated manifest.  Both take an inventory of the whole tree       *)
(* (closed_inventory) before and after they read its files one by one.     *)
(*                                                                         *)
(* A file is an inode, found under a path; os.read sees what the inode     *)
(* holds at that moment.  `ver' stands for the fields snapshot compares    *)
(* (size, mtime, ctime, mode, owner): every change is taken to give a new  *)
(* one, as it does when the clock behind the timestamps advances.          *)
(***************************************************************************)
EXTENDS CohortManifest

CONSTANTS
    Trees,        \* source trees to start from, see Tree
    Anchored,     \* the manifest: for export, its paths and modes are the spec
    Contents,     \* bytes a writer may put where a chunk is
    Attributes,   \* file and directory attributes, [mode, xattrs]
    Spare,        \* paths a writer may create a file or a directory at
    MaxChanges    \* bound: changes a writer makes

\* A tree is the files' bytes and attributes and the directories' attributes;
\* the root is the directory <<>>.
Files       == PathSet(Anchored.objects)
Directories == PathSet(Anchored.directories) \cup {<<>>}

ASSUME AnchoredAssumption ==
    /\ ValidManifest(Anchored)
    /\ \A entries \in {Anchored.objects, Anchored.directories} :
         entries \in Seq({entries[i] : i \in DOMAIN entries})
    /\ Files \cup Directories \subseteq Seq(Nat)
    /\ \A i \in DOMAIN Anchored.objects :     \* the digest is of the bytes listed
         Len(Anchored.objects[i].sha256) <= Len(Anchored.objects[i].chunks)

\* Files are found below directories, and nothing is both.
ASSUME TreesAssumption ==
    \A t \in Trees :
        /\ DOMAIN t = {"files", "dirs"} /\ IsFiniteSet(DOMAIN t.files)
        /\ t.files \in [DOMAIN t.files -> [data : Seq(Contents), attr : Attributes]]
        /\ t.dirs \in [DOMAIN t.dirs -> Attributes]
        /\ DOMAIN t.files \cup DOMAIN t.dirs \subseteq Seq(Nat)
        /\ DOMAIN t.files \cap DOMAIN t.dirs = {} /\ <<>> \in DOMAIN t.dirs
        /\ \A p \in DOMAIN t.files \cup DOMAIN t.dirs : Ancestors(p) \subseteq DOMAIN t.dirs
ASSUME SpareAssumption == Spare \subseteq Seq(Nat) \ {<<>>}
ASSUME ChangesAssumption == MaxChanges \in Nat

VARIABLES
    files,     \* path -> inode
    dirs,      \* path of a directory -> its `ver' and attributes
    inodes,    \* inode -> bytes, `ver', attributes
    clock,     \* how many changes were made
    tool,      \* the running tool
    walk,      \* its inventory under way
    stored,    \* chunks the export has written
    result,    \* the manifest, or the report, once there is one
    past       \* everything each path has held since the tool started

sourceVars == <<files, dirs, inodes, clock, tool, walk, stored, result, past>>

treeVars == <<files, dirs, inodes, clock, past>>

None == [op |-> "none"]

Here(p) == inodes[files[p]]

\* The tree as it is now.
Now == [files |-> [p \in DOMAIN files |-> [data |-> Here(p).data, attr |-> Here(p).attr]],
        dirs  |-> [d \in DOMAIN dirs |-> dirs[d].attr]]

Children(d) == {p \in DOMAIN files \cup (DOMAIN dirs \ {<<>>}) :
                  Len(p) = Len(d) + 1 /\ SubSeq(p, 1, Len(d)) = d}
Parent(p)   == SubSeq(p, 1, Len(p) - 1)

\* Inodes for a set of paths.
Numbered(paths) ==
    CHOOSE f \in [paths -> 1 .. Cardinality(paths)] : \A p, q \in paths : p # q => f[p] # f[q]

-----------------------------------------------------------------------------
(* The writer                                                              *)

SourceInit ==
    /\ \E t \in Trees :
         /\ dirs = [d \in DOMAIN t.dirs |-> [ver |-> 0, attr |-> t.dirs[d]]]
         /\ files = Numbered(DOMAIN t.files)
         /\ inodes = [i \in 1 .. Cardinality(DOMAIN t.files) |->
                        LET p == CHOOSE q \in DOMAIN t.files : Numbered(DOMAIN t.files)[q] = i IN
                        [data |-> t.files[p].data, ver |-> 0, attr |-> t.files[p].attr]]
         /\ past = {<<p, t.files[p]>> : p \in DOMAIN t.files}
    /\ clock = 0
    /\ tool = [pc |-> "idle", op |-> "none", object |-> 1, fd |-> 0, seen |-> None, buf |-> <<>>,
               before |-> None, after |-> None, attrs |-> <<>>, again |-> {}, items |-> <<>>]
    /\ walk = [stack |-> <<>>, files |-> {}, dirs |-> {}]
    /\ stored = {}
    /\ result = None

Changes ==
    /\ clock < MaxChanges
    /\ tool.pc \notin {"idle", "end"}
    /\ clock' = clock + 1
    /\ past' = past \cup {<<p, Now'.files[p]>> : p \in DOMAIN files'}
    /\ UNCHANGED <<tool, walk, stored, result>>

Touched(d) == [dirs EXCEPT ![d].ver = clock + 1]

\* One chunk overwritten in place.
Overwrite(p, k, b) ==
    /\ k \in DOMAIN Here(p).data /\ b # Here(p).data[k]
    /\ inodes' = [inodes EXCEPT ![files[p]].data[k] = b, ![files[p]].ver = clock + 1]
    /\ UNCHANGED <<files, dirs>>

Chmod(p, a) ==
    /\ a # Here(p).attr
    /\ inodes' = [inodes EXCEPT ![files[p]].attr = a, ![files[p]].ver = clock + 1]
    /\ UNCHANGED <<files, dirs>>

ChmodDir(d, a) ==
    /\ a # dirs[d].attr
    /\ dirs' = [dirs EXCEPT ![d] = [ver |-> clock + 1, attr |-> a]]
    /\ UNCHANGED <<files, inodes>>

\* A file that takes another's place, as an atomic rename does, with the same
\* attributes; a new file.
Replace(p, b) ==
    /\ p \in DOMAIN files \cup Spare /\ Parent(p) \in DOMAIN dirs /\ p \notin DOMAIN dirs
    /\ LET i == Cardinality(DOMAIN inodes) + 1
           a == IF p \in DOMAIN files THEN Here(p).attr ELSE CHOOSE x \in Attributes : TRUE
       IN
         /\ inodes' = [j \in 1 .. i |-> IF j = i THEN [data |-> <<b>>, ver |-> clock + 1, attr |-> a]
                                                ELSE inodes[j]]
         /\ files' = [q \in DOMAIN files \cup {p} |-> IF q = p THEN i ELSE files[q]]
    /\ dirs' = Touched(Parent(p))

Unlink(p) ==
    /\ files' = [q \in DOMAIN files \ {p} |-> files[q]]
    /\ dirs' = Touched(Parent(p))
    /\ UNCHANGED inodes

Mkdir(p, a) ==
    /\ p \in Spare \ (DOMAIN files \cup DOMAIN dirs) /\ Parent(p) \in DOMAIN dirs
    /\ dirs' = [d \in DOMAIN dirs \cup {p} |->
                  IF d = p THEN [ver |-> clock + 1, attr |-> a] ELSE Touched(Parent(p))[d]]
    /\ UNCHANGED <<files, inodes>>

Write ==
    /\ \/ \E p \in DOMAIN files, k \in 1 .. 2, b \in Contents : Overwrite(p, k, b)
       \/ \E p \in DOMAIN files, a \in Attributes : Chmod(p, a)
       \/ \E d \in DOMAIN dirs, a \in Attributes : ChmodDir(d, a)
       \/ \E p \in DOMAIN files \cup Spare, b \in Contents : Replace(p, b)
       \/ \E p \in DOMAIN files : Unlink(p)
       \/ \E p \in Spare, a \in Attributes : Mkdir(p, a)
    /\ Changes

-----------------------------------------------------------------------------
(* closed_inventory                                                        *)

Goto(pc) == tool' = [tool EXCEPT !.pc = pc]

Frame(d) == [dir |-> d, ver |-> dirs[d].ver, names |-> Children(d), todo |-> Children(d)]

NewWalk == walk' = [stack |-> <<Frame(<<>>)>>, files |-> {}, dirs |-> {}]

Walking == tool.pc \in {"before", "after"} /\ walk.stack # <<>>
Top     == walk.stack[Len(walk.stack)]
Below   == SubSeq(walk.stack, 1, Len(walk.stack) - 1)
Next1   == CHOOSE p \in Top.todo : \A q \in Top.todo : p[Len(p)] <= q[Len(q)]
Did(p)  == Append(Below, [Top EXCEPT !.todo = @ \ {p}])

\* What the walk has found, once nothing is left of it.
Inventory == [op |-> "inventory", files |-> walk.files, dirs |-> walk.dirs]

\* Gone since the names were listed, or changed since.  An export is given up;
\* an inspection goes on without an inventory.
NoInventory ==
    IF tool.op = "export" THEN Goto("end") /\ UNCHANGED walk
    ELSE /\ tool' = [tool EXCEPT !.pc = IF tool.pc = "before" THEN "objects" ELSE "attributes",
                                 !.before = None]
         /\ walk' = [stack |-> <<>>, files |-> {}, dirs |-> {}]

Visit ==
    /\ Walking /\ Top.todo # {}
    /\ LET p == Next1 IN
         \/ /\ p \in DOMAIN files
            /\ walk' = [walk EXCEPT !.stack = Did(p), !.files = @ \cup {p}]
            /\ UNCHANGED tool
         \/ /\ p \in DOMAIN dirs
            /\ walk' = [walk EXCEPT !.stack = Append(Did(p), Frame(p)), !.dirs = @ \cup {p}]
            /\ UNCHANGED tool
         \/ /\ p \notin DOMAIN files \cup DOMAIN dirs
            /\ NoInventory
    /\ UNCHANGED <<treeVars, stored, result>>

\* The names and the directory itself are as they were when it was entered.
Leave ==
    /\ Walking /\ Top.todo = {}
    /\ IF Top.dir \in DOMAIN dirs /\ Top.names = Children(Top.dir) /\ Top.ver = dirs[Top.dir].ver
       THEN /\ walk' = [walk EXCEPT !.stack = Below]
            /\ UNCHANGED tool
       ELSE NoInventory
    /\ UNCHANGED <<treeVars, stored, result>>

-----------------------------------------------------------------------------
(* What export and inspect_original have in common                         *)

Start(op) ==
    /\ tool.pc = "idle"
    /\ tool' = [tool EXCEPT !.pc = "before", !.op = op]
    /\ NewWalk
    /\ UNCHANGED <<treeVars, stored, result>>

\* The inventory before the copying.  An export wants exactly the files of its
\* spec, and reads the attributes of the directories first.
EndBefore ==
    /\ tool.pc = "before" /\ walk.stack = <<>>
    /\ tool' = [tool EXCEPT !.before = Inventory,
                            !.pc = CASE tool.op = "inspect" -> "objects"
                                     [] tool.op = "export" /\ walk.files # Files -> "end"
                                     [] OTHER -> "attributes"]
    /\ UNCHANGED <<treeVars, walk, stored, result>>

Object == Anchored.objects[tool.object]

\* Directory.open_file: the path is looked up once and the file read from the
\* inode it then led to.
Open ==
    /\ tool.pc = "objects" /\ tool.object <= Len(Anchored.objects)
    /\ LET p  == Object.path
           ok == /\ p \in DOMAIN files
                 /\ tool.op = "export" => Here(p).attr.mode = Object.attributes.mode
                 /\ tool.op = "inspect" => Len(Here(p).data) <= Len(Object.chunks)
       IN  IF ok THEN tool' = [tool EXCEPT !.pc = "read", !.fd = files[p],
                                           !.seen = [ver |-> Here(p).ver, attr |-> Here(p).attr],
                                           !.buf = <<>>]
           ELSE IF tool.op = "export" THEN Goto("end")
           ELSE tool' = [tool EXCEPT !.object = @ + 1, !.items = Append(@, FALSE)]
    /\ UNCHANGED <<treeVars, walk, stored, result>>

\* A chunk; an export writes it to objects/ at once (write_new, CohortRebuild).
Read ==
    /\ tool.pc = "read" /\ Len(tool.buf) < Len(inodes[tool.fd].data)
    /\ LET b == inodes[tool.fd].data[Len(tool.buf) + 1] IN
         /\ tool' = [tool EXCEPT !.buf = Append(@, b)]
         /\ stored' = IF tool.op = "export" THEN stored \cup {b} ELSE stored
    /\ UNCHANGED <<treeVars, walk, result>>

\* Fault: only the path is looked up again.
UndisturbedPath == Object.path \in DOMAIN files /\ files[Object.path] = tool.fd

\* Neither the inode nor what the path leads to has changed since Open.
Undisturbed ==
    /\ inodes[tool.fd].ver = tool.seen.ver
    /\ Object.path \in DOMAIN files /\ files[Object.path] = tool.fd

CloseFile ==
    /\ tool.pc = "read" /\ Len(tool.buf) = Len(inodes[tool.fd].data)
    /\ IF tool.op = "export"
       THEN tool' = [tool EXCEPT !.pc = IF Undisturbed THEN "objects" ELSE "end",
                                 !.object = @ + 1,
                                 !.items = Append(@, [data |-> tool.buf, attr |-> tool.seen.attr])]
       ELSE tool' = [tool EXCEPT !.pc = "objects", !.object = @ + 1,
                                 !.items = Append(@, /\ Undisturbed
                                                     /\ tool.buf = Object.sha256
                                                     /\ tool.seen.attr = Object.attributes)]
    /\ UNCHANGED <<treeVars, walk, stored, result>>

\* Every object done: the inventory is taken again.
Again ==
    /\ tool.pc = "objects" /\ tool.object > Len(Anchored.objects)
    /\ Goto("after")
    /\ NewWalk
    /\ UNCHANGED <<treeVars, stored, result>>

EndAfter ==
    /\ tool.pc = "after" /\ walk.stack = <<>>
    /\ tool' = [tool EXCEPT !.after = Inventory,
                            !.pc = IF tool.op = "export" /\ Inventory # tool.before
                                   THEN "end" ELSE "attributes"]
    /\ UNCHANGED <<treeVars, walk, stored, result>>

\* directory_attributes, of the root and then of each directory in order: an
\* export reads them before the objects and compares them after; an inspection
\* compares them with the manifest's.
Wanted == IF tool.op = "export" THEN {<<>>} \cup tool.before.dirs ELSE Directories
First(S) == CHOOSE d \in S : \A e \in S \ {d} : PathBefore(d, e)
Copied   == tool.object > Len(Anchored.objects)

AnchoredAttributes(d) ==
    IF d = <<>> THEN Anchored.root_attributes
    ELSE LET i == CHOOSE j \in DOMAIN Anchored.directories : Anchored.directories[j].path = d
         IN  Anchored.directories[i].attributes

ReadAttributes ==
    /\ tool.pc = "attributes" /\ ~Copied
    /\ LET left == Wanted \ DOMAIN tool.attrs IN
         IF left = {} THEN Goto("objects")
         ELSE LET d == First(left) IN
              IF d \in DOMAIN dirs
              THEN tool' = [tool EXCEPT !.attrs = [e \in DOMAIN @ \cup {d} |->
                                                     IF e = d THEN dirs[d].attr ELSE @[e]]]
              ELSE Goto("end")
    /\ UNCHANGED <<treeVars, walk, stored, result>>

\* The attributes an export read, or those of the manifest.
Expected(d) == IF tool.op = "export" THEN tool.attrs[d] ELSE AnchoredAttributes(d)

CompareAttributes ==
    /\ tool.pc = "attributes" /\ Copied /\ Wanted # tool.again
    /\ LET d == First(Wanted \ tool.again)
           same == d \in DOMAIN dirs /\ dirs[d].attr = Expected(d)
       IN  CASE same                              -> /\ tool' = [tool EXCEPT !.again = @ \cup {d}]
                                                     /\ UNCHANGED result
             [] ~same /\ tool.op = "export"       -> Goto("end") /\ UNCHANGED result
             [] ~same /\ tool.op = "inspect"      -> /\ Goto("end")
                                                     /\ result' = [op |-> "report", complete |-> FALSE]
    /\ UNCHANGED <<treeVars, walk, stored>>

\* The manifest is the last file an export writes.
Publish ==
    /\ tool.pc = "attributes" /\ Copied /\ Wanted = tool.again /\ tool.op = "export"
    /\ result' = [op |-> "manifest",
                  files |-> [p \in Files |-> LET i == CHOOSE j \in DOMAIN Anchored.objects :
                                                        Anchored.objects[j].path = p
                                             IN  tool.items[i]],
                  dirs |-> tool.attrs]
    /\ Goto("end")
    /\ UNCHANGED <<treeVars, walk, stored>>

\* Fault: the two inventories are compared with each other only.
ExactTwice == tool.before # None /\ tool.before = tool.after

\* Both inventories say what the manifest says.
Exact ==
    /\ tool.before # None /\ tool.before = tool.after
    /\ tool.before.files = Files /\ tool.before.dirs = Directories \ {<<>>}

ReportInspection ==
    /\ tool.pc = "attributes" /\ Copied /\ Wanted = tool.again /\ tool.op = "inspect"
    /\ result' = [op |-> "report", complete |-> Exact /\ \A i \in DOMAIN tool.items : tool.items[i]]
    /\ Goto("end")
    /\ UNCHANGED <<treeVars, walk, stored>>

SourceNext ==
    \/ Write
    \/ \E op \in {"export", "inspect"} : Start(op)
    \/ Visit \/ Leave
    \/ EndBefore \/ Open \/ Read \/ CloseFile \/ Again \/ EndAfter
    \/ ReadAttributes \/ CompareAttributes \/ Publish \/ ReportInspection

SourceSpec == SourceInit /\ [][SourceNext]_sourceVars

-----------------------------------------------------------------------------

Quiet == clock = 0

\* With a quiet source an export publishes exactly the tree or nothing: no file
\* or directory more or less than there is.
ExportExact == result.op = "manifest" /\ Quiet =>
    /\ DOMAIN result.files = DOMAIN files /\ result.files = Now.files
    /\ result.dirs = Now.dirs

\* The tree the manifest describes.
AnchoredTree ==
    [files |-> [p \in Files |-> LET i == CHOOSE j \in DOMAIN Anchored.objects :
                                          Anchored.objects[j].path = p
                               IN  [data |-> Anchored.objects[i].sha256, attr |-> Anchored.objects[i].attributes]],
     dirs  |-> [d \in Directories |-> AnchoredAttributes(d)]]

\* With a quiet source an inspection reports completeness exactly when the tree
\* is the anchored one: nothing missing, changed, or there besides.
InspectionExact == result.op = "report" /\ Quiet => (result.complete <=> Now = AnchoredTree)

\* Both: what the tool says of a source left alone is so.
QuietExact == ExportExact /\ InspectionExact

\* Whatever a writer does meanwhile, a manifest lists no file in a state it never
\* had, and completeness is never reported unless each file of the manifest was,
\* at some time of the inspection, as listed: bytes read while the file was
\* overwritten, or of a file replaced meanwhile, make the run fail.  Every chunk
\* a manifest names was written before it.
OnceAsRecorded ==
    /\ result.op = "manifest" =>
         \A p \in Files : /\ <<p, result.files[p]>> \in past
                          /\ \A k \in DOMAIN result.files[p].data : result.files[p].data[k] \in stored
    /\ result.op = "report" /\ result.complete =>
         \A p \in Files : <<p, AnchoredTree.files[p]>> \in past
=============================================================================
