------------------------- MODULE PracticeSnapshots -------------------------
(***************************************************************************)
(* The disk of the Free Practice environment and the copies kept of it:    *)
(* create_snapshot, restore_snapshot and factory_reset_practice of the     *)
(* application, the file operations of OverlayManager under them, and the  *)
(* snapshots table of the progress store.                                  *)
(*                                                                         *)
(* A snapshot is a file copied while the manager is locked and a row       *)
(* written once it is there; a restore moves the disk aside before it      *)
(* copies a snapshot over it.  A copy takes time: the application may end  *)
(* in the middle, and a machine that runs writes to what is being copied.  *)
(* VmSession has the machine's own start and stop; here it runs, and keeps *)
(* its disk from being renamed or removed, or not.                         *)
(***************************************************************************)
EXTENDS Integers

CONSTANTS
  Caller,      \* commands that can be in flight together
  Path,        \* snapshot files; names that sanitise_id maps together share one
  ResetPath,   \* "before-factory-reset"
  MaxWork,     \* bound on the versions of the disk the guest writes
  Faults,      \* what may go wrong in this instance
  MaxMishaps   \* bound on the number of times it does

(* crash: the application ends.  kill: a machine outlives it, or a stop.   *)
(* copy: a copy fails part-way, for want of space.  store: the row cannot  *)
(* be written.                                                             *)
AllFaults == {"crash", "kill", "copy", "store"}

ASSUME BoundAssumption == MaxWork \in Nat /\ MaxMishaps \in Nat
ASSUME PathAssumption == ResetPath \in Path
ASSUME CallerAssumption == "free" \notin Caller
ASSUME FaultsAssumption == Faults \subseteq AllFaults

(* What a file holds: the version of the learner's work, 0 for a disk      *)
(* fresh from the base image.  A file may be absent, or a part of a copy.  *)
Version == 0..MaxWork
None == -1
Torn == -2
File == Version \cup {None, Torn}

VARIABLES
  live,     \* free-practice.qcow2
  salvage,  \* free-practice.qcow2.prerestore
  snap,     \* the files of the snapshots directory
  rows,     \* the snapshots table; holds: what was copied for the row.  Two rows
            \* that offer the same are not told apart
  running,  \* whether a machine has the live disk open
  work,     \* the last version the guest wrote
  vm,       \* who holds the manager's mutex
  call,     \* the commands in flight
  mishaps,  \* faults so far
  reused,   \* files that a later copy was written over
  before,   \* what the last restore or reset took away
  excused   \* whether that was lost in a known way

vars == <<live, salvage, snap, rows, running, work, vm, call, mishaps, reused, before, excused>>
history == <<reused, before, excused>>

Free == "free"
Row == [path : Path, holds : File]

Op == {"none", "create", "restore", "reset"}
Pc == {"idle", "copy", "copying", "record", "remove", "stop", "restore", "restoring"}

(* holds: what the copy was of, and then what it came to.  dirty: the disk *)
(* was written to under the copy, or the copy's file was taken again.      *)
Idle == [op |-> "none", pc |-> "idle", path |-> ResetPath, holds |-> None, dirty |-> FALSE]
CallState == [op : Op, pc : Pc, path : Path, holds : File, dirty : BOOLEAN]

TypeOK ==
  /\ live \in File /\ salvage \in File
  /\ snap \in [Path -> File]
  /\ rows \subseteq Row
  /\ running \in BOOLEAN /\ work \in Version
  /\ vm \in Caller \cup {Free}
  /\ call \in [Caller -> CallState]
  /\ mishaps \in 0..MaxMishaps
  /\ reused \subseteq Path /\ before \in File /\ excused \in BOOLEAN

Init ==
  /\ live = None /\ salvage = None
  /\ snap = [p \in Path |-> None]
  /\ rows = {}
  /\ running = FALSE /\ work = 0
  /\ vm = Free
  /\ call = [c \in Caller |-> Idle]
  /\ mishaps = 0
  /\ reused = {} /\ before = None /\ excused = FALSE

Mishap(f) == f \in Faults /\ mishaps < MaxMishaps /\ mishaps' = mishaps + 1
NoMishap == UNCHANGED mishaps

At(c, l) == call[c].pc = l
Goto(c, l) == call' = [call EXCEPT ![c].pc = l]
Return(c) == call' = [call EXCEPT ![c] = Idle]
Disk == <<live, salvage, snap, rows>>
Machine == <<running, work>>

(* A file has what the last restore or reset took away. *)
Holds(f) == before # None /\ f = before

---------------------------------------------------------------------------
(* The machine.                                                            *)

(* Mutant of Boot: a disk that is created counts as work of its own. *)
BootAnew ==
  /\ ~running /\ vm = Free /\ live # Torn
  /\ live' = IF live = None THEN work + 1 ELSE live
  /\ running' = TRUE
  /\ UNCHANGED <<salvage, snap, rows, work, vm, call, mishaps, history>>

(* A start creates the disk when there is none and refuses one that fails  *)
(* its check.                                                              *)
Boot ==
  /\ ~running /\ vm = Free /\ live # Torn
  /\ live' = IF live = None THEN 0 ELSE live
  /\ running' = TRUE
  /\ UNCHANGED <<salvage, snap, rows, work, vm, call, mishaps, history>>

(* The guest writes whenever it runs, under a copy of its disk too. *)
GuestWrites ==
  /\ running /\ work < MaxWork
  /\ work' = work + 1
  /\ live' = work + 1
  /\ call' = [c \in Caller |-> [call[c] EXCEPT !.dirty = @ \/ call[c].pc = "copying"]]
  /\ UNCHANGED <<salvage, snap, rows, running, vm, mishaps, history>>

(* The learner stops it, or it dies. *)
PowerOff ==
  /\ running
  /\ running' = FALSE
  /\ UNCHANGED <<Disk, work, vm, call, mishaps, history>>

---------------------------------------------------------------------------
(* The commands.                                                           *)

Issue(c, op, pc, p) ==
  /\ At(c, "idle")
  /\ call' = [call EXCEPT ![c] = [Idle EXCEPT !.op = op, !.pc = pc, !.path = p]]
  /\ UNCHANGED <<Disk, Machine, vm, mishaps, history>>

(* create_snapshot; Dangerous Mode issues one of its own. *)
Create(c, p) == live # None /\ Issue(c, "create", "copy", p)

(* restore_snapshot, of a row the page lists. *)
Restore(c, r) == r \in rows /\ Issue(c, "restore", "stop", r.path)

(* factory_reset_practice *)
Reset(c) == Issue(c, "reset", "stop", ResetPath)

(* stop_session_inner; a reset has nothing to do when there is no disk. *)
Stop(c) ==
  /\ At(c, "stop") /\ vm = Free
  /\ \/ running' = FALSE /\ NoMishap
     \/ running /\ Mishap("kill") /\ UNCHANGED running
  /\ IF call[c].op = "restore" THEN Goto(c, "restore") ELSE Goto(c, "copy")
  /\ UNCHANGED <<Disk, work, vm, history>>

(* A copy begins: those that wait to remove the disk they have copied to   *)
(* the same file have it no more.                                          *)
Copying(c) ==
  [d \in Caller |->
     IF d = c THEN [call[c] EXCEPT !.pc = "copying", !.holds = live]
     ELSE [call[d] EXCEPT !.dirty =
             @ \/ (call[d].pc = "remove" /\ call[d].path = call[c].path)]]

(* OverlayManager::snapshot: the target is truncated, then filled. *)
CopyBegin(c) ==
  LET p == call[c].path IN
  /\ At(c, "copy") /\ vm = Free /\ live # None
  /\ vm' = c
  /\ snap' = [snap EXCEPT ![p] = Torn]
  /\ call' = Copying(c)
  /\ reused' = IF snap[p] = None THEN reused ELSE reused \cup {p}
  /\ excused' = (excused \/ Holds(snap[p]))
  /\ UNCHANGED <<live, salvage, rows, Machine, mishaps, before>>

(* Nothing to copy any more: create_snapshot fails, a reset has ended. *)
CopyNothing(c) ==
  /\ At(c, "copy") /\ live = None
  /\ Return(c)
  /\ UNCHANGED <<Disk, Machine, vm, mishaps, history>>

(* What the copy holds: of a disk written to meanwhile, anything. *)
Copied(c) == IF call[c].dirty THEN {call[c].holds, Torn} ELSE {call[c].holds}

(* The copy is over, and the mutex free: a snapshot goes on to its row, a  *)
(* reset to the removal of the disk.                                       *)
Over(c, f) ==
  call' = [call EXCEPT ![c].pc = IF call[c].op = "create" THEN "record" ELSE "remove",
                       ![c].holds = f,
                       ![c].dirty = FALSE]

CopyEnd(c) ==
  /\ At(c, "copying")
  /\ vm' = Free
  /\ \E f \in Copied(c) : snap' = [snap EXCEPT ![call[c].path] = f] /\ Over(c, f)
  /\ UNCHANGED <<live, salvage, rows, Machine, mishaps, history>>

(* Mutant of CopyFails: create_snapshot goes on too. *)
CopyFailsLogged(c) ==
  /\ At(c, "copying") /\ Mishap("copy")
  /\ vm' = Free
  /\ snap' \in {[snap EXCEPT ![call[c].path] = f] : f \in {None, Torn}}
  /\ Over(c, None)
  /\ UNCHANGED <<live, salvage, rows, Machine, history>>

(* A reset logs a copy that failed, and goes on. *)
CopyFails(c) ==
  /\ At(c, "copying") /\ Mishap("copy")
  /\ vm' = Free
  /\ snap' \in {[snap EXCEPT ![call[c].path] = f] : f \in {None, Torn}}
  /\ IF call[c].op = "create" THEN Return(c) ELSE Over(c, None)
  /\ UNCHANGED <<live, salvage, rows, Machine, history>>

(* The end of a reset, which holds no mutex any more: the disk may have    *)
(* been written to or replaced since it was copied, and the copy's file    *)
(* taken again.  A machine or a restore that has it open does not let go   *)
(* of it; a copy of it may.                                                *)
Remove(c) ==
  /\ At(c, "remove")
  /\ \/ /\ ~running /\ live # None /\ \A d \in Caller : ~At(d, "restoring")
        /\ live' = None
        /\ IF live = Torn
           THEN UNCHANGED <<before, excused>>
           ELSE before' = live /\ excused' = (call[c].dirty \/ call[c].holds # live)
     \/ /\ running \/ live = None \/ \E d \in Caller : call[d].pc \in {"copying", "restoring"}
        /\ UNCHANGED <<live, before, excused>>
  /\ Return(c)
  /\ UNCHANGED <<salvage, snap, rows, Machine, vm, mishaps, reused>>

(* record_snapshot *)
Record(c) ==
  /\ At(c, "record")
  /\ \/ /\ rows' = rows \cup {[path |-> call[c].path, holds |-> call[c].holds]}
        /\ NoMishap
     \/ Mishap("store") /\ UNCHANGED rows
  /\ Return(c)
  /\ UNCHANGED <<live, salvage, snap, Machine, vm, history>>

(* The row was read again under the store's lock: nothing deletes one. *)
NoSnapshot(c) ==
  /\ At(c, "restore") /\ vm = Free /\ snap[call[c].path] = None
  /\ Return(c)
  /\ UNCHANGED <<Disk, Machine, vm, mishaps, history>>

(* Mutant of MoveAside: the snapshot is copied over the disk. *)
MoveNothing(c) ==
  /\ At(c, "restore") /\ vm = Free /\ snap[call[c].path] # None /\ ~running
  /\ vm' = c
  /\ before' = live /\ excused' = FALSE
  /\ live' = Torn
  /\ Goto(c, "restoring")
  /\ UNCHANGED <<salvage, snap, rows, Machine, mishaps, reused>>

(* OverlayManager::restore: the disk is moved aside, then the snapshot is  *)
(* copied in its place.                                                    *)
MoveAside(c) ==
  /\ At(c, "restore") /\ vm = Free /\ snap[call[c].path] # None /\ ~running
  /\ vm' = c
  /\ IF live = None
     THEN UNCHANGED <<salvage, before, excused>>
     ELSE /\ salvage' = live
          /\ IF live = Torn
             THEN excused' = (excused \/ Holds(salvage)) /\ UNCHANGED before
             ELSE before' = live /\ excused' = FALSE
  /\ live' = Torn
  /\ Goto(c, "restoring")
  /\ UNCHANGED <<snap, rows, Machine, mishaps, reused>>

(* A machine that came up meanwhile, or did not go, keeps the disk: the    *)
(* rename fails, the copy aside may succeed, the removal fails.            *)
MoveRefused(c) ==
  /\ At(c, "restore") /\ vm = Free /\ snap[call[c].path] # None /\ running
  /\ salvage' \in {salvage, live, Torn}
  /\ excused' = (excused \/ (salvage' # salvage /\ Holds(salvage)))
  /\ Return(c)
  /\ UNCHANGED <<live, snap, rows, Machine, vm, mishaps, reused, before>>

PutBack(c) ==
  /\ At(c, "restoring")
  /\ \/ live' = snap[call[c].path] /\ NoMishap
     \/ live' \in {None, Torn} /\ Mishap("copy")
  /\ vm' = Free
  /\ Return(c)
  /\ UNCHANGED <<salvage, snap, rows, Machine, history>>

(* The files stay as they are; the machine should go with the application. *)
Crash ==
  /\ Mishap("crash")
  /\ running' \in IF "kill" \in Faults THEN {FALSE, running} ELSE {FALSE}
  /\ vm' = Free
  /\ call' = [c \in Caller |-> Idle]
  /\ UNCHANGED <<Disk, work, history>>

Command(c) ==
  \/ Stop(c) \/ CopyBegin(c) \/ CopyNothing(c) \/ CopyEnd(c) \/ CopyFails(c)
  \/ Remove(c) \/ Record(c) \/ NoSnapshot(c) \/ MoveAside(c) \/ MoveRefused(c) \/ PutBack(c)

Next ==
  \/ Boot \/ GuestWrites \/ PowerOff \/ Crash
  \/ \E c \in Caller :
       \/ Command(c)
       \/ Reset(c)
       \/ \E p \in Path : Create(c, p)
       \/ \E r \in rows : Restore(c, r)

Spec == Init /\ [][Next]_vars

---------------------------------------------------------------------------
Complete(f) == f \in Version
Kept(f) == live = f \/ salvage = f \/ \E p \in Path : snap[p] = f

(* A snapshot the learner is offered is the file that was copied for it,   *)
(* whatever ended in the middle: a crash, a copy or a statement that       *)
(* fails, a restore of another.  Only a later snapshot of the same name    *)
(* changes it.                                                             *)
RowHoldsItsCopy == \A r \in rows : r.path \notin reused => snap[r.path] = r.holds

(* What the last restore or reset took away can be brought back, through   *)
(* commands that wait for each other, fail or crash half-way, and starts   *)
(* that slip in between.  It is lost in five ways only (excused):          *)
(*   - a restore is retried over the disk a failed one left torn;          *)
(*   - a restore that a running machine refuses has copied that machine's  *)
(*     disk over the one moved aside;                                      *)
(*   - a snapshot, a reset's own included, is taken over the file that     *)
(*     holds it;                                                           *)
(*   - the disk a reset removes is not the one it copied: the copy failed, *)
(*     or the disk was written to or replaced meanwhile;                   *)
(*   - another snapshot of the name was begun after a reset had copied the *)
(*     disk and before it removed it.                                      *)
OneStepBack == Complete(before) => (Kept(before) \/ excused)
=============================================================================
