----------------------------- MODULE VmManager -----------------------------
(***************************************************************************)
(* The host-side virtual machine manager (crates/vm-manager).              *)
(*                                                                         *)
(* Every public operation of VmManager runs under AppState's vm mutex, so  *)
(* it is written here as a function from the manager's state to its next   *)
(* state; VmSession composes these functions into the lock sections of the *)
(* desktop commands.  start() is two functions, Spawned and Recorded: the  *)
(* process exists before vm.pid names it, and the application can end      *)
(* between the two.                                                        *)
(*                                                                         *)
(* The record also carries the world an operation changes besides its own  *)
(* fields: the content of vm.pid, the QEMU processes that exist (alive),   *)
(* and those of them that have been told to end (doomed).  Ending one is   *)
(* asynchronous: TerminateProcess and the closing of a job return at once, *)
(* and terminate() gives up waiting after five seconds and reports         *)
(* success, so no operation here takes a process out of alive; only its    *)
(* own death does.                                                         *)
(*                                                                         *)
(* A launch configuration is named by the ordinal of the prepare() call    *)
(* that made it: its three ports and its token are fresh, so the ordinal   *)
(* stands for all of them, and for the process spawned from it.            *)
(*                                                                         *)
(* TLC runs this module through VmSession; it declares no variables.       *)
(***************************************************************************)
EXTENDS Naturals

CONSTANTS
  Lesson,        \* the lessons of the catalogue
  FreePractice,  \* the session kind (and overlay) that is not a lesson
  Whpx           \* TRUE when accel::detect reports the hypervisor platform

ASSUME FreePracticeAssumption == FreePractice \notin Lesson
ASSUME WhpxAssumption == Whpx \in BOOLEAN

NoRun == 0
Run == Nat \ {NoRun}

(* SessionKind: one overlay file per kind. *)
Overlay == Lesson \cup {FreePractice}

Accel == {"whpx", "tcg"}

VmState == {"Stopped", "Starting", "BootingGuest", "Ready", "Paused",
            "Stopping", "Unbootable", "Failed"}

(* VmState::is_transitional; the front end polls while it holds. *)
Transitional(s) == s \in {"Starting", "BootingGuest", "Stopping"}

(* VmState::accepts_commands. *)
AcceptsCommands(s) == s = "Ready"

(* The states in which health_check takes the disks to be unused. *)
Down(s) == s \in {"Stopped", "Failed", "Unbootable"}

Manager == [supervised : Run \cup {NoRun},
            state      : VmState,
            config     : Run \cup {NoRun},
            accel      : Accel,
            pidFile    : Run \cup {NoRun},
            alive      : SUBSET Run,
            doomed     : SUBSET Run]

(* The QEMU processes that nobody has told to end. *)
Running(m) == m.alive \ m.doomed

(* VmManager::new, over the vm.pid and the QEMU processes that the previous *)
(* process of the application left behind, told to end or not.             *)
NewManager(pid, survivors, ending) ==
  [supervised |-> NoRun,
   state      |-> "Stopped",
   config     |-> NoRun,
   accel      |-> IF Whpx THEN "whpx" ELSE "tcg",
   pidFile    |-> pid,
   alive      |-> survivors,
   doomed     |-> ending]

---------------------------------------------------------------------------
(* Operations.  m is the manager before the call.                          *)

(* A process is told to end; one that has gone already is none to tell. *)
Told(m, r) == [m EXCEPT !.doomed = @ \cup ({r} \cap m.alive)]

(* Mutant of ReapStaleProcess: the file is cleared, the process left. *)
ReapFileOnly(m, killed) == [m EXCEPT !.pidFile = NoRun]

(* kill_stale terminates any process whose image is our QEMU: the pid in   *)
(* the file may be that of the machine this manager supervises.  When the  *)
(* process cannot be opened or inspected, and off Windows always, it       *)
(* reports that there was nothing to kill; vm.pid is cleared all the same. *)
ReapStaleProcess(m, killed) ==
  IF m.pidFile = NoRun
  THEN m
  ELSE [(IF killed THEN Told(m, m.pidFile) ELSE m) EXCEPT !.pidFile = NoRun]

MarkExited(m, booted) ==
  [m EXCEPT !.supervised = NoRun,
            !.pidFile    = NoRun,
            !.state      = IF booted THEN "Unbootable" ELSE "Failed"]

(* The supervised child has been found dead. *)
HasExited(m) == m.supervised # NoRun /\ m.supervised \notin m.alive

PollExited(m) == IF HasExited(m) THEN MarkExited(m, FALSE) ELSE m

(* The last thing prepare() does once the overlay and the ports exist. *)
SetConfig(m, r) == [m EXCEPT !.config = r]

(* Mutant of AlreadyRunning: a second machine is not refused. *)
NeverRunning(m) == FALSE

(* start() polls first, then refuses to launch a second machine. *)
AlreadyRunning(m) == PollExited(m).supervised # NoRun

(* start() once process::spawn has returned: QEMU runs, in its job.  The   *)
(* manager has only its state set.                                         *)
Spawned(m, r) == [PollExited(m) EXCEPT !.state = "Starting",
                                       !.alive = @ \cup {r}]

(* Mutant of Recorded: vm.pid is not written. *)
RecordedNowhere(m, r, pidWritten) ==
  [m EXCEPT !.supervised = r, !.state = "BootingGuest"]

(* The rest of start().  A failed write of vm.pid is ignored. *)
Recorded(m, r, pidWritten) ==
  [m EXCEPT !.supervised = r,
            !.state      = "BootingGuest",
            !.pidFile    = IF pidWritten THEN r ELSE @]

(* start() when process::spawn fails: the early return leaves Starting. *)
SpawnFailed(m) == [PollExited(m) EXCEPT !.state = "Starting"]

MarkReady(m) == [m EXCEPT !.state = "Ready"]

MarkFailed(m) == [m EXCEPT !.state = "Failed"]

(* Mutant of Stop: the child handle is dropped, the process not killed. *)
StopForgets(m, killed) ==
  IF m.config = NoRun \/ m.supervised = NoRun
  THEN m
  ELSE [m EXCEPT !.supervised = NoRun, !.pidFile = NoRun, !.state = "Stopped"]

(* stop() never fails and forgets the machine whatever became of it.  The  *)
(* process is told to end by the kill, whose error is ignored, or else by  *)
(* its job object, whose handle is dropped here; killed is FALSE when      *)
(* neither worked.                                                         *)
Stop(m, killed) ==
  IF m.config = NoRun \/ m.supervised = NoRun
  THEN m
  ELSE [(IF killed THEN Told(m, m.supervised) ELSE m) EXCEPT
          !.supervised = NoRun,
          !.pidFile    = NoRun,
          !.state      = "Stopped"]

UseSoftwareAcceleration(m) == [m EXCEPT !.accel = "tcg"]
=============================================================================
