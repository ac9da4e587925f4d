--------------------------- MODULE RuntimeInstall ---------------------------
(***************************************************************************)
(* First-run installation of the bundled runtime                           *)
(* (crates/runtime-manager/src/install.rs and integrity.rs).               *)
(*                                                                         *)
(* A task is one call of install_bundled_runtime or                        *)
(* reinstall_bundled_runtime on a blocking thread.  The front end calls    *)
(* the first at every launch, start_session before every start, and the    *)
(* health banner the second; nothing keeps two calls of one process apart, *)
(* and they share the staging directory, which is named after the process. *)
(*                                                                         *)
(* A step is one file operation, and a file being written is a step of its *)
(* own: the application may crash between any two.  A file is told by what *)
(* verify and verify_quick see of it: size and hash.                       *)
(***************************************************************************)
EXTENDS Naturals

CONSTANTS
  Task,        \* calls of the installer that can run together
  Part,        \* required packaged files: QEMU, the kernel, ...
  Bundled,     \* what a file of the bundle may be in this instance
  Faults,      \* what may go wrong outside the installer
  MaxMishaps   \* bound on the number of times it does

Manifest == "checksums.json"
Compressed == "debian-base.raw.zst"
Raw == "debian-base.raw"

(* part: smaller than the manifest says.  wrong: the size is right, the    *)
(* hash is not; for the manifest itself, another runtime version.          *)
Content == {"absent", "part", "good", "wrong"}

ASSUME PartAssumption == Part \cap {Manifest, Compressed, Raw} = {}
ASSUME BundledAssumption == Bundled \subseteq Content
ASSUME MishapsAssumption == MaxMishaps \in Nat

(* crash: the application ends and is launched again.  io: a file          *)
(* operation fails.  quarantine: a file of the live runtime disappears.    *)
(* corrupt: one changes and keeps its size.  kill: a machine outlives its  *)
(* stop.                                                                   *)
AllFaults == {"crash", "io", "quarantine", "corrupt", "kill"}
ASSUME FaultsAssumption == Faults \subseteq AllFaults

VARIABLES
  bundle,    \* the packaged files, read-only
  root,      \* the live runtime directory
  staging,   \* the staging directory of this process
  running,   \* the virtual machines that run from the live directory
  pc,        \* control state of each task
  todo,      \* the files the task's current loop has not come to
  open,      \* the file the task is writing, and the directory it is in now
  mishaps    \* faults so far

dirs == <<root, staging, open>>
vars == <<bundle, dirs, running, pc, todo, mishaps>>

Packaged == Part \cup {Manifest, Compressed}
File == Packaged \cup {Raw}
Required == Part \cup {Manifest, Raw}

Directory == [exists : BOOLEAN, file : [File -> Content]]
Empty == [f \in File |-> "absent"]
NoDir == [exists |-> FALSE, file |-> Empty]

(* own: the application supervises it.  stray: it outlived the application *)
(* that did, or its stop.                                                  *)
Machine == {"own", "stray"}

Closed == [file |-> Raw, dir |-> "none"]
Handle == [file : File, dir : {"none", "staging", "root", "gone"}]

(* Past the verification of the packaged files, and past both.             *)
VerifiedPc == {"unpack", "unpacking", "drop", "verifyRaw", "retire", "activate"}
ReadyPc == {"retire", "activate"}
WritingPc == {"copying", "unpacking"}
StagePc == {"mkdir", "copy", "verify", "unpack", "drop", "verifyRaw"} \cup WritingPc
Pc == {"idle", "check", "clear", "cleanup"} \cup StagePc \cup ReadyPc

TypeOK ==
  /\ bundle \in [Packaged -> Content]
  /\ root \in Directory
  /\ staging \in Directory
  /\ running \subseteq Machine
  /\ pc \in [Task -> Pc]
  /\ todo \in [Task -> SUBSET Packaged]
  /\ open \in [Task -> Handle]
  /\ mishaps \in 0..MaxMishaps

Init ==
  /\ bundle \in [Packaged -> Bundled]
  /\ root = NoDir
  /\ staging = NoDir
  /\ running = {}
  /\ pc = [t \in Task |-> "idle"]
  /\ todo = [t \in Task |-> {}]
  /\ open = [t \in Task |-> Closed]
  /\ mishaps = 0

At(t, l) == pc[t] = l
Goto(t, l) == pc' = [pc EXCEPT ![t] = l]
Put(d, f, c) == [d EXCEPT !.file[f] = c]

SizeOk(c) == c \in {"good", "wrong"}

(* installed_runtime_is_complete: the manifest is the right version and    *)
(* every file it lists has its size; optional files may be missing.        *)
QuickOk(d) ==
  /\ d.file[Manifest] = "good"
  /\ \A f \in Required : SizeOk(d.file[f])
  /\ d.file[Compressed] = "absent" \/ SizeOk(d.file[Compressed])

(* What a full verification of the installed runtime requires. *)
Complete(d) == \A f \in Required : d.file[f] = "good"

---------------------------------------------------------------------------
(* Directories that other tasks have files open in.                        *)

Held(d) == \E u \in Task : open[u].dir = d

Moved(from, to) ==
  [u \in Task |-> IF open[u].dir = from THEN [open[u] EXCEPT !.dir = to] ELSE open[u]]

(* remove_dir_all that stops half-way: files that are open may survive. *)
Thinned(d) ==
  {[d EXCEPT !.file = [f \in File |-> IF f \in gone THEN "absent" ELSE d.file[f]]] :
     gone \in SUBSET {f \in File : \A u \in Task : open[u].file # f \/ open[u].dir = "none"}}

(* remove_staging_dir.  Whether a directory with open files can be removed *)
(* depends on the operating system.                                        *)
RemoveStaging ==
  /\ staging' = NoDir
  /\ open' = Moved("staging", "gone")

RemoveStagingFails ==
  /\ Held("staging")
  /\ staging' \in Thinned(staging)
  /\ UNCHANGED open

---------------------------------------------------------------------------
(* The steps of install_runtime.                                           *)

Install(t) ==
  /\ At(t, "idle")
  /\ Goto(t, "check")
  /\ UNCHANGED <<bundle, dirs, running, todo, mishaps>>

Check(t) ==
  /\ At(t, "check")
  /\ Goto(t, IF QuickOk(root) THEN "idle" ELSE "clear")
  /\ UNCHANGED <<bundle, dirs, running, todo, mishaps>>

(* A reinstall is forced: it does not look at what is there. *)
Reinstall(t) ==
  /\ At(t, "idle")
  /\ Goto(t, "clear")
  /\ UNCHANGED <<bundle, dirs, running, todo, mishaps>>

(* Mutant of Clear: a staging directory that is there is left to the call  *)
(* that made it.                                                           *)
ClearUnlessTaken(t) ==
  /\ At(t, "clear")
  /\ Goto(t, IF staging.exists THEN "idle" ELSE "mkdir")
  /\ UNCHANGED <<bundle, dirs, running, todo, mishaps>>

Clear(t) ==
  /\ At(t, "clear")
  /\ \/ RemoveStaging /\ Goto(t, "mkdir")
     \/ RemoveStagingFails /\ Goto(t, "idle")
  /\ UNCHANGED <<bundle, root, running, todo, mishaps>>

Shipped == {f \in Packaged : bundle[f] # "absent"}

(* A loop over files: on to the next one, or out of it and on to all of    *)
(* "then".                                                                 *)
Loop(t, left, body, next, then) ==
  /\ Goto(t, IF left = {} THEN next ELSE body)
  /\ todo' = [todo EXCEPT ![t] = IF left = {} THEN then ELSE left]

Leave(t, l) == Goto(t, l) /\ todo' = [todo EXCEPT ![t] = {}]

Mkdir(t) ==
  /\ At(t, "mkdir")
  /\ staging' = [staging EXCEPT !.exists = TRUE]
  /\ Loop(t, Shipped, "copy", "verify", Packaged)
  /\ UNCHANGED <<bundle, root, running, open, mishaps>>

GiveUp(t) == Leave(t, "cleanup") /\ UNCHANGED dirs

(* Begin to write a file in the staging directory, truncating it. *)
Begin(t, f, body) ==
  /\ staging' = Put(staging, f, "part")
  /\ open' = [open EXCEPT ![t] = [file |-> f, dir |-> "staging"]]
  /\ Goto(t, body)
  /\ UNCHANGED <<root, todo>>

(* The last byte of the open file, wherever its directory is by now. *)
Finish(t, c) ==
  LET f == open[t].file IN
  /\ staging' = IF open[t].dir = "staging" THEN Put(staging, f, c) ELSE staging
  /\ root' = IF open[t].dir = "root" THEN Put(root, f, c) ELSE root
  /\ open' = [open EXCEPT ![t] = Closed]

CopyBegin(t) ==
  /\ At(t, "copy")
  /\ IF staging.exists
     THEN \E f \in todo[t] : Begin(t, f, "copying")
     ELSE GiveUp(t)
  /\ UNCHANGED <<bundle, running, mishaps>>

(* Mutant of CopyEnd: the whole manifest is verified, the image that is    *)
(* still compressed too.                                                   *)
CopyEndAll(t) ==
  /\ At(t, "copying")
  /\ Finish(t, bundle[open[t].file])
  /\ Loop(t, todo[t] \ {open[t].file}, "copy", "verify", File)
  /\ UNCHANGED <<bundle, running, mishaps>>

CopyEnd(t) ==
  /\ At(t, "copying")
  /\ Finish(t, bundle[open[t].file])
  /\ Loop(t, todo[t] \ {open[t].file}, "copy", "verify", Packaged)
  /\ UNCHANGED <<bundle, running, mishaps>>

(* Mutant of Verifies: only the sizes of the packaged files are compared. *)
VerifiesSize(f) ==
  \/ f # Manifest /\ SizeOk(staging.file[f])
  \/ staging.file[f] = "good"
  \/ f = Compressed /\ staging.file[f] = "absent"

(* verify_one, and for the manifest its parse and its version. *)
Verifies(f) ==
  \/ staging.file[f] = "good"
  \/ f = Compressed /\ staging.file[f] = "absent"

(* The manifest is read first, then every packaged file is hashed. *)
Verify(t) ==
  /\ At(t, "verify")
  /\ \E f \in todo[t] :
       /\ Manifest \in todo[t] => f = Manifest
       /\ IF Verifies(f)
          THEN Loop(t, todo[t] \ {f}, "verify", "unpack", {}) /\ UNCHANGED dirs
          ELSE GiveUp(t)
  /\ UNCHANGED <<bundle, running, mishaps>>

UnpackBegin(t) ==
  /\ At(t, "unpack")
  /\ IF staging.file[Compressed] # "absent"
     THEN Begin(t, Raw, "unpacking")
     ELSE GiveUp(t)
  /\ UNCHANGED <<bundle, running, mishaps>>

(* A compressed image that another call removed or rewrites meanwhile may  *)
(* still decode, or end too early.                                         *)
UnpackEnd(t) ==
  /\ At(t, "unpacking")
  /\ \/ Finish(t, "good") /\ Goto(t, "drop")
     \/ staging.file[Compressed] # "good" /\ Finish(t, "part") /\ Goto(t, "cleanup")
  /\ UNCHANGED <<bundle, running, todo, mishaps>>

Drop(t) ==
  /\ At(t, "drop")
  /\ IF staging.file[Compressed] # "absent"
     THEN /\ staging' = Put(staging, Compressed, "absent")
          /\ Goto(t, "verifyRaw")
          /\ UNCHANGED <<root, open, todo>>
     ELSE GiveUp(t)
  /\ UNCHANGED <<bundle, running, mishaps>>

VerifyRaw(t) ==
  /\ At(t, "verifyRaw")
  /\ IF staging.file[Raw] = "good"
     THEN Goto(t, "retire") /\ UNCHANGED <<dirs, todo>>
     ELSE GiveUp(t)
  /\ UNCHANGED <<bundle, running, mishaps>>

Cleanup(t) ==
  /\ At(t, "cleanup")
  /\ RemoveStaging \/ RemoveStagingFails
  /\ Goto(t, "idle")
  /\ UNCHANGED <<bundle, root, running, todo, mishaps>>

---------------------------------------------------------------------------
(* Making the staged runtime live.  Errors from here on return without     *)
(* clearing the staging directory.                                         *)

Present(d) == {f \in File : d.file[f] # "absent"}

(* One file of the live directory at a time; the directory goes last.      *)
RetireFile(t, f) ==
  LET rest == Put(root, f, "absent") IN
  /\ root' = IF Present(rest) = {} THEN NoDir ELSE rest
  /\ open' = [u \in Task |-> IF open[u] = [file |-> f, dir |-> "root"]
                             THEN [open[u] EXCEPT !.dir = "gone"] ELSE open[u]]
  /\ UNCHANGED <<pc, staging>>

Retire(t) ==
  /\ At(t, "retire")
  /\ \/ ~root.exists /\ Goto(t, "activate") /\ UNCHANGED dirs
     \/ \E f \in Present(root) : RetireFile(t, f)
     \/ root.exists /\ Present(root) = {} /\ root' = NoDir /\ UNCHANGED <<pc, staging, open>>
     \/ (running # {} \/ Held("root")) /\ root.exists /\ Goto(t, "idle") /\ UNCHANGED dirs
  /\ UNCHANGED <<bundle, running, todo, mishaps>>

(* Mutant of Activate: the files are copied over, not renamed. *)
ActivateByCopy(t) ==
  /\ At(t, "activate")
  /\ \/ \E f \in File :
          /\ root.file[f] # staging.file[f]
          /\ root' = [exists |-> TRUE, file |-> [root.file EXCEPT ![f] = staging.file[f]]]
          /\ UNCHANGED <<pc, staging>>
     \/ root.file = staging.file /\ staging' = NoDir /\ Goto(t, "idle") /\ UNCHANGED root
  /\ UNCHANGED <<bundle, running, todo, open, mishaps>>

Activate(t) ==
  /\ At(t, "activate")
  /\ Goto(t, "idle")
  /\ \/ /\ staging.exists /\ ~root.exists
        /\ root' = staging
        /\ staging' = NoDir
        /\ open' = Moved("staging", "root")
     \/ /\ ~staging.exists \/ root.exists \/ Held("staging")
        /\ UNCHANGED dirs
  /\ UNCHANGED <<bundle, running, todo, mishaps>>

---------------------------------------------------------------------------
(* Around the installer.                                                   *)

Mishap(f) == f \in Faults /\ mishaps < MaxMishaps /\ mishaps' = mishaps + 1

IoError(t) ==
  /\ Mishap("io")
  /\ \/ pc[t] \in StagePc /\ Leave(t, "cleanup")
     \/ pc[t] \in {"clear", "retire", "activate"} /\ Leave(t, "idle")
  /\ open' = [open EXCEPT ![t] = Closed]
  /\ UNCHANGED <<bundle, root, staging, running>>

(* The next process has another number, or by chance the same one; a       *)
(* virtual machine should end with the application but may survive it,     *)
(* and none is supervised.                                                 *)
Crash ==
  /\ Mishap("crash")
  /\ pc' = [t \in Task |-> "idle"]
  /\ todo' = [t \in Task |-> {}]
  /\ open' = [t \in Task |-> Closed]
  /\ staging' \in {staging, NoDir}
  /\ \/ running' = running \ {"own"}
     \/ "own" \in running /\ running' = {"stray"}
  /\ UNCHANGED <<bundle, root>>

(* The environment damages a file of the live directory. *)
Damage(f) ==
  /\ root.file[f] # "absent"
  /\ \/ Mishap("quarantine") /\ root' = Put(root, f, "absent")
     \/ Mishap("corrupt") /\ root' = Put(root, f, "wrong")
  /\ open' = [u \in Task |-> IF open[u] = [file |-> f, dir |-> "root"]
                             THEN [open[u] EXCEPT !.dir = "gone"] ELSE open[u]]
  /\ UNCHANGED <<bundle, staging, running, pc, todo>>

(* start_session boots what the installer accepted, and has kill_stale end *)
(* a stray machine first; but only then, and it may not find it.           *)
VmStarts ==
  /\ "own" \notin running /\ QuickOk(root)
  /\ running' \in {{"own"}, running \cup {"own"}}
  /\ UNCHANGED <<bundle, dirs, pc, todo, mishaps>>

(* The learner stops the machine of this application, or it ends. *)
VmStops ==
  /\ "own" \in running
  /\ \/ running' = running \ {"own"} /\ UNCHANGED mishaps
     \/ Mishap("kill") /\ running' = {"stray"}
  /\ UNCHANGED <<bundle, dirs, pc, todo>>

(* Nothing in the application makes a stray machine end. *)
StrayEnds ==
  /\ "stray" \in running
  /\ running' = running \ {"stray"}
  /\ UNCHANGED <<bundle, dirs, pc, todo, mishaps>>

Step(t) ==
  \/ Check(t) \/ Clear(t) \/ Mkdir(t) \/ CopyBegin(t) \/ CopyEnd(t)
  \/ Verify(t) \/ UnpackBegin(t) \/ UnpackEnd(t) \/ Drop(t)
  \/ VerifyRaw(t) \/ Cleanup(t) \/ Retire(t) \/ Activate(t)

Next ==
  \/ \E t \in Task : Install(t) \/ Reinstall(t) \/ Step(t) \/ IoError(t)
  \/ Crash
  \/ \E f \in File : Damage(f)
  \/ VmStarts \/ VmStops \/ StrayEnds

Spec == Init /\ [][Next]_vars

(* A call that has begun goes on; the learner tries again after a failure  *)
(* and does not keep a machine of the application running for ever.  A     *)
(* stray machine owes nothing: a start returns the installer's error       *)
(* before it comes to kill_stale (commands.rs:201-212).                    *)
FairSpec ==
  /\ Spec
  /\ \A t \in Task : WF_vars(Step(t)) /\ WF_vars(Install(t))
  /\ WF_vars(VmStops)

---------------------------------------------------------------------------
(* Whatever concurrent calls, crashes and a removed file do to the live    *)
(* directory, one that passes the size check of a launch holds verified    *)
(* files only: the cheap check never accepts what hashing would refuse.    *)
QuickCheckSound == QuickOk(root) => Complete(root)

(* The live directory and the verified replacement, of a call that is      *)
(* alone, behave as RuntimeSlot says.                                      *)
Slot == INSTANCE RuntimeSlot
          WITH live <- Complete(root),
               spare <- \E t \in Task : pc[t] \in ReadyPc /\ Complete(staging)

ActsAsSlot == Slot!Spec

(* Again and again an intact bundle is installed, from whatever crashes,   *)
(* failed operations, machines in use and damaged files leave behind; the  *)
(* one thing that can put it off for ever is a stray machine, whose files  *)
(* cannot be removed and which no call ends.                               *)
Intact == \A f \in Packaged : bundle[f] = "good"

InstallSettles == []<>(Intact => Complete(root) \/ "stray" \in running)
=============================================================================
