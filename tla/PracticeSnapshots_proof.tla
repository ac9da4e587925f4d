---------------------- MODULE PracticeSnapshots_proof ----------------------
(***************************************************************************)
(* Proofs about PracticeSnapshots, for any number of commands in flight,   *)
(* any snapshot names, any amount of work and any number of mishaps.       *)
(***************************************************************************)
EXTENDS PracticeSnapshots, TLAPS

LEMMA Kinds ==
  /\ None \in File /\ Torn \in File /\ 0 \in File /\ 0 \in Version
  /\ None \notin Version /\ Torn \notin Version /\ None # Torn
  /\ Version \subseteq File
BY BoundAssumption DEF None, Torn, File, Version

LEMMA IdleOK == Idle \in CallState /\ Idle.pc = "idle"
BY Kinds, PathAssumption DEF Idle, CallState, Op, Pc

(* What each way to change a call does to the others and to its fields. *)
LEMMA GotoOK ==
  ASSUME TypeOK, NEW c \in Caller, NEW l \in Pc, Goto(c, l)
  PROVE  /\ call' \in [Caller -> CallState]
         /\ call'[c].pc = l /\ \A d \in Caller : d # c => call'[d] = call[d]
BY DEF TypeOK, Goto, CallState

LEMMA ReturnOK ==
  ASSUME TypeOK, NEW c \in Caller, Return(c)
  PROVE  /\ call' \in [Caller -> CallState]
         /\ call'[c].pc = "idle" /\ \A d \in Caller : d # c => call'[d] = call[d]
BY IdleOK DEF TypeOK, Return

LEMMA IssueOK ==
  ASSUME TypeOK, NEW c \in Caller, NEW op \in Op, NEW pc \in Pc, NEW p \in Path, Issue(c, op, pc, p)
  PROVE  /\ call' \in [Caller -> CallState]
         /\ call'[c].pc = pc /\ \A d \in Caller : d # c => call'[d] = call[d]
<1>1. [Idle EXCEPT !.op = op, !.pc = pc, !.path = p] \in CallState
  BY IdleOK DEF CallState
<1>2. [Idle EXCEPT !.op = op, !.pc = pc, !.path = p].pc = pc
  BY IdleOK DEF CallState
<1> QED
  BY <1>1, <1>2 DEF TypeOK, Issue

LEMMA WriteOK ==
  ASSUME TypeOK, GuestWrites
  PROVE  /\ call' \in [Caller -> CallState]
         /\ \A c \in Caller :
              /\ call'[c].pc = call[c].pc /\ call'[c].path = call[c].path
              /\ call'[c].op = call[c].op /\ call'[c].holds = call[c].holds
              /\ call[c].dirty \/ call[c].pc = "copying" => call'[c].dirty
<1>1. \A c \in Caller : call[c] \in CallState
  BY DEF TypeOK
<1>2. \A c \in Caller : (call[c].dirty \/ call[c].pc = "copying") \in BOOLEAN
  OBVIOUS
<1>3. call' = [c \in Caller |-> [call[c] EXCEPT !.dirty = @ \/ call[c].pc = "copying"]]
  BY DEF GuestWrites
<1> QED
  BY <1>1, <1>2, <1>3 DEF CallState

LEMMA BeginOK ==
  ASSUME TypeOK, NEW c \in Caller, CopyBegin(c)
  PROVE  /\ call' \in [Caller -> CallState]
         /\ call'[c].pc = "copying" /\ call'[c].holds = live
         /\ call'[c].path = call[c].path /\ call'[c].op = call[c].op
         /\ \A d \in Caller : d # c =>
              /\ call'[d].pc = call[d].pc /\ call'[d].path = call[d].path
              /\ call'[d].op = call[d].op /\ call'[d].holds = call[d].holds
              /\ \/ call[d].dirty
                 \/ call[d].pc = "remove" /\ call[d].path = call[c].path
                 => call'[d].dirty
<1>1. \A d \in Caller : call[d] \in CallState
  BY DEF TypeOK
<1>2. live \in File /\ "copying" \in Pc
  BY DEF TypeOK, Pc
<1>3. call' = [d \in Caller |->
                 IF d = c THEN [call[c] EXCEPT !.pc = "copying", !.holds = live]
                 ELSE [call[d] EXCEPT !.dirty =
                         @ \/ (call[d].pc = "remove" /\ call[d].path = call[c].path)]]
  BY DEF CopyBegin, Copying
<1>4. \A d \in Caller :
        (call[d].dirty \/ (call[d].pc = "remove" /\ call[d].path = call[c].path)) \in BOOLEAN
  OBVIOUS
<1>5. call' \in [Caller -> CallState]
  BY <1>1, <1>2, <1>3, <1>4 DEF CallState
<1>6. ASSUME NEW d \in Caller, d # c
      PROVE  /\ call'[d].pc = call[d].pc /\ call'[d].path = call[d].path
             /\ call'[d].op = call[d].op /\ call'[d].holds = call[d].holds
             /\ \/ call[d].dirty
                \/ call[d].pc = "remove" /\ call[d].path = call[c].path
                => call'[d].dirty
  BY <1>1, <1>3, <1>4, <1>6 DEF CallState
<1>7. call'[c] = [call[c] EXCEPT !.pc = "copying", !.holds = live]
  BY <1>3
<1>8. /\ call'[c].pc = "copying" /\ call'[c].holds = live
      /\ call'[c].path = call[c].path /\ call'[c].op = call[c].op
  BY <1>1, <1>7 DEF CallState
<1> QED
  BY <1>5, <1>6, <1>8

LEMMA CopiedOK ==
  ASSUME TypeOK, NEW c \in Caller, NEW f \in Copied(c)
  PROVE  f \in File /\ (~call[c].dirty => f = call[c].holds)
BY Kinds DEF TypeOK, Copied, CallState

LEMMA OverOK ==
  ASSUME TypeOK, NEW c \in Caller, NEW f \in File, Over(c, f)
  PROVE  /\ call' \in [Caller -> CallState]
         /\ call'[c].pc \in {"record", "remove"}
         /\ call'[c].holds = f /\ call'[c].path = call[c].path
         /\ \A d \in Caller : d # c => call'[d] = call[d]
<1> DEFINE l == IF call[c].op = "create" THEN "record" ELSE "remove"
<1>1. l \in {"record", "remove"} /\ l \in Pc
  BY DEF Pc
<1>2. call' = [call EXCEPT ![c].pc = l, ![c].holds = f, ![c].dirty = FALSE]
  BY DEF Over
<1> HIDE DEF l
<1> QED
  BY <1>1, <1>2 DEF TypeOK, CallState

---------------------------------------------------------------------------
(* Type correctness.                                                       *)

LEMMA TypeStep ==
  ASSUME TypeOK, [Next]_vars
  PROVE  TypeOK'
<1> USE DEF TypeOK
<1>1. CASE Boot
  BY <1>1, Kinds DEF Boot, history
<1>2. CASE GuestWrites
  <2>1. work + 1 \in Version /\ work + 1 \in File
    BY <1>2, BoundAssumption DEF GuestWrites, Version, File
  <2>2. call' \in [Caller -> CallState]
    BY <1>2, WriteOK
  <2>3. live' \in File /\ work' \in Version
    BY <1>2, <2>1 DEF GuestWrites
  <2>4. UNCHANGED <<salvage, snap, rows, running, vm, mishaps, reused, before, excused>>
    BY <1>2 DEF GuestWrites, history
  <2> QED
    BY <2>2, <2>3, <2>4
<1>3. CASE PowerOff
  BY <1>3 DEF PowerOff, Disk, history
<1>4. CASE Crash
  <2>1. mishaps' \in 0..MaxMishaps
    BY <1>4, BoundAssumption DEF Crash, Mishap
  <2>2. call' \in [Caller -> CallState]
    BY <1>4, IdleOK DEF Crash
  <2>3. /\ vm' = Free /\ running' \in BOOLEAN
        /\ UNCHANGED <<live, salvage, snap, rows, work, reused, before, excused>>
    BY <1>4 DEF Crash, Disk, history
  <2> QED
    BY <2>1, <2>2, <2>3
<1>5. ASSUME NEW c \in Caller, Reset(c) PROVE TypeOK'
  <2>1. "reset" \in Op /\ "stop" \in Pc
    BY DEF Op, Pc
  <2> QED
    BY <1>5, <2>1, IssueOK, PathAssumption DEF Reset, Issue, Disk, Machine, history
<1>6. ASSUME NEW c \in Caller, NEW p \in Path, Create(c, p) PROVE TypeOK'
  <2>1. "create" \in Op /\ "copy" \in Pc
    BY DEF Op, Pc
  <2> QED
    BY <1>6, <2>1, IssueOK DEF Create, Issue, Disk, Machine, history
<1>7. ASSUME NEW c \in Caller, NEW r \in rows, Restore(c, r) PROVE TypeOK'
  <2>1. "restore" \in Op /\ "stop" \in Pc /\ r.path \in Path
    BY DEF Op, Pc, Row
  <2> QED
    BY <1>7, <2>1, IssueOK DEF Restore, Issue, Disk, Machine, history
<1>8. ASSUME NEW c \in Caller, Stop(c) PROVE TypeOK'
  <2>1. "restore" \in Pc /\ "copy" \in Pc
    BY DEF Pc
  <2>2. running' = FALSE \/ running' = running
    BY <1>8 DEF Stop
  <2>3. mishaps' = mishaps \/ Mishap("kill")
    BY <1>8 DEF Stop, NoMishap
  <2>4. mishaps' \in 0..MaxMishaps
    BY <2>3, BoundAssumption DEF Mishap
  <2> QED
    BY <1>8, <2>1, <2>2, <2>4, GotoOK DEF Stop, Disk, history
<1>9. ASSUME NEW c \in Caller, CopyBegin(c) PROVE TypeOK'
  <2>1. call[c].path \in Path
    BY DEF CallState
  <2>2. before' \in File /\ excused' \in BOOLEAN
    BY <1>9, Kinds DEF CopyBegin
  <2>3. snap' \in [Path -> File] /\ reused' \subseteq Path
    BY <1>9, <2>1, Kinds DEF CopyBegin
  <2> QED
    BY <1>9, <2>2, <2>3, BeginOK DEF CopyBegin, Machine
<1>10. ASSUME NEW c \in Caller, CopyNothing(c) PROVE TypeOK'
  BY <1>10, ReturnOK DEF CopyNothing, Disk, Machine, history
<1>11. ASSUME NEW c \in Caller, CopyEnd(c) PROVE TypeOK'
  <2>1. PICK f \in Copied(c) : snap' = [snap EXCEPT ![call[c].path] = f] /\ Over(c, f)
    BY <1>11 DEF CopyEnd
  <2>2. f \in File
    BY CopiedOK
  <2>3. snap' \in [Path -> File] /\ call' \in [Caller -> CallState]
    BY <2>1, <2>2, OverOK
  <2> QED
    BY <1>11, <2>3 DEF CopyEnd, Machine, history
<1>12. ASSUME NEW c \in Caller, CopyFails(c) PROVE TypeOK'
  <2>1. snap' \in [Path -> File]
    BY <1>12, Kinds DEF CopyFails
  <2>2. mishaps' \in 0..MaxMishaps
    BY <1>12, BoundAssumption DEF CopyFails, Mishap
  <2>3. call' \in [Caller -> CallState]
    BY <1>12, Kinds, OverOK, ReturnOK DEF CopyFails
  <2> QED
    BY <1>12, <2>1, <2>2, <2>3 DEF CopyFails, Machine, history
<1>20. ASSUME NEW c \in Caller, Remove(c) PROVE TypeOK'
  <2>1. live' \in File /\ before' \in File /\ excused' \in BOOLEAN
    BY <1>20, Kinds DEF Remove, CallState
  <2> QED
    BY <1>20, <2>1, ReturnOK DEF Remove, Machine
<1>13. ASSUME NEW c \in Caller, Record(c) PROVE TypeOK'
  <2>1. [path |-> call[c].path, holds |-> call[c].holds] \in Row
    BY DEF CallState, Row
  <2>2. rows' \subseteq Row
    BY <1>13, <2>1 DEF Record
  <2>3. mishaps' \in 0..MaxMishaps
    BY <1>13, BoundAssumption DEF Record, Mishap, NoMishap
  <2> QED
    BY <1>13, <2>2, <2>3, ReturnOK DEF Record, Machine, history
<1>14. ASSUME NEW c \in Caller, NoSnapshot(c) PROVE TypeOK'
  BY <1>14, ReturnOK DEF NoSnapshot, Disk, Machine, history
<1>15. ASSUME NEW c \in Caller, MoveAside(c) PROVE TypeOK'
  <2>1. "restoring" \in Pc
    BY DEF Pc
  <2>2. salvage' \in File /\ before' \in File /\ excused' \in BOOLEAN /\ live' \in File
    BY <1>15, Kinds DEF MoveAside
  <2> QED
    BY <1>15, <2>1, <2>2, GotoOK DEF MoveAside, Machine
<1>16. ASSUME NEW c \in Caller, MoveRefused(c) PROVE TypeOK'
  BY <1>16, Kinds, ReturnOK DEF MoveRefused, Machine
<1>17. ASSUME NEW c \in Caller, PutBack(c) PROVE TypeOK'
  <2>1. live' \in File
    BY <1>17, Kinds DEF PutBack, CallState
  <2>2. mishaps' \in 0..MaxMishaps
    BY <1>17, BoundAssumption DEF PutBack, Mishap, NoMishap
  <2> QED
    BY <1>17, <2>1, <2>2, ReturnOK DEF PutBack, Machine, history
<1>18. CASE UNCHANGED vars
  BY <1>18 DEF vars
<1>19. ASSUME NEW c \in Caller, Command(c) PROVE TypeOK'
  BY <1>8, <1>9, <1>10, <1>11, <1>12, <1>13, <1>14, <1>15, <1>16, <1>17, <1>19,
     <1>20 DEF Command
<1> HIDE DEF TypeOK
<1> QED
  BY <1>1, <1>2, <1>3, <1>4, <1>5, <1>6, <1>7, <1>18, <1>19 DEF Next

LEMMA TypeInit == Init => TypeOK
<1> SUFFICES ASSUME Init PROVE TypeOK
  OBVIOUS
<1>1. snap \in [Path -> File] /\ call \in [Caller -> CallState]
  BY Kinds, IdleOK DEF Init
<1>2. mishaps \in 0..MaxMishaps
  BY BoundAssumption DEF Init
<1> QED
  BY <1>1, <1>2, Kinds DEF Init, TypeOK

(* Whatever is in flight and whatever goes wrong, every file, row and      *)
(* command keeps its type.                                                 *)
THEOREM TypeCorrect == Spec => []TypeOK
<1>1. TypeOK /\ [Next]_vars => TypeOK'
  BY TypeStep
<1> QED
  BY <1>1, TypeInit, PTL DEF Spec

---------------------------------------------------------------------------
(* A copy into the snapshots directory or over the disk is done under the  *)
(* manager's mutex, so two are never under way.                            *)

LockInv == \A c \in Caller : call[c].pc \in {"copying", "restoring"} => vm = c

(* The commands that leave their caller outside of a copy. *)
Settling(c) ==
  \/ Stop(c) \/ CopyNothing(c) \/ CopyEnd(c) \/ CopyFails(c) \/ Remove(c) \/ Record(c)
  \/ NoSnapshot(c) \/ MoveRefused(c) \/ PutBack(c)
  \/ Reset(c) \/ (\E p \in Path : Create(c, p)) \/ (\E r \in rows : Restore(c, r))

LEMMA StepCases ==
  ASSUME Next
  PROVE  \/ Boot \/ GuestWrites \/ PowerOff \/ Crash
         \/ \E c \in Caller : Settling(c) \/ CopyBegin(c) \/ MoveAside(c)
BY DEF Next, Command, Settling

LEMMA SettlingCall ==
  ASSUME TypeOK, NEW c \in Caller, Settling(c)
  PROVE  /\ call'[c].pc \notin {"copying", "restoring"}
         /\ \A d \in Caller : d # c => call'[d] = call[d]
<1>1. CASE Reset(c)
  <2>1. "reset" \in Op /\ "stop" \in Pc
    BY DEF Op, Pc
  <2> QED
    BY <1>1, <2>1, IssueOK, PathAssumption DEF Reset
<1>2. CASE \E p \in Path : Create(c, p)
  <2>1. "create" \in Op /\ "copy" \in Pc
    BY DEF Op, Pc
  <2> QED
    BY <1>2, <2>1, IssueOK DEF Create
<1>3. CASE \E r \in rows : Restore(c, r)
  <2>1. "restore" \in Op /\ "stop" \in Pc /\ \A r \in rows : r.path \in Path
    BY DEF Op, Pc, TypeOK, Row
  <2> QED
    BY <1>3, <2>1, IssueOK DEF Restore
<1>4. CASE Stop(c)
  <2>1. "restore" \in Pc /\ "copy" \in Pc
    BY DEF Pc
  <2> QED
    BY <1>4, <2>1, GotoOK DEF Stop
<1>5. CASE CopyEnd(c) \/ (CopyFails(c) /\ ~Return(c))
  <2>1. PICK f \in File : Over(c, f)
    BY <1>5, CopiedOK, Kinds DEF CopyEnd, CopyFails
  <2> QED
    BY <2>1, OverOK
<1>6. CASE \/ CopyNothing(c) \/ (CopyFails(c) /\ Return(c)) \/ Remove(c) \/ Record(c)
           \/ NoSnapshot(c) \/ MoveRefused(c) \/ PutBack(c)
  <2>1. Return(c)
    BY <1>6 DEF CopyNothing, Remove, Record, NoSnapshot, MoveRefused, PutBack
  <2> QED
    BY <2>1, ReturnOK
<1> QED
  BY <1>1, <1>2, <1>3, <1>4, <1>5, <1>6 DEF Settling

LEMMA SettlingLock ==
  ASSUME LockInv, NEW c \in Caller, Settling(c)
  PROVE  \A d \in Caller : d # c /\ call[d].pc \in {"copying", "restoring"} => vm' = d
<1>1. CASE CopyEnd(c) \/ CopyFails(c) \/ PutBack(c)
  <2>1. vm = c
    BY <1>1 DEF LockInv, CopyEnd, CopyFails, PutBack, At
  <2> QED
    BY <2>1 DEF LockInv
<1>2. CASE ~(CopyEnd(c) \/ CopyFails(c) \/ PutBack(c))
  <2>1. vm' = vm
    BY <1>2 DEF Settling, Stop, CopyNothing, Remove, Record, NoSnapshot, MoveRefused, Reset,
                Create, Restore, Issue
  <2> QED
    BY <2>1 DEF LockInv
<1> QED
  BY <1>1, <1>2

(* With the mutex free there is no copy; the one that copies is alone. *)
LEMMA NoCopy ==
  ASSUME LockInv, vm = Free
  PROVE  \A c \in Caller : call[c].pc \notin {"copying", "restoring"}
BY CallerAssumption DEF LockInv, Free

LEMMA LockStep ==
  ASSUME TypeOK, LockInv, [Next]_vars
  PROVE  LockInv'
<1>1. CASE Boot \/ PowerOff
  BY <1>1 DEF LockInv, Boot, PowerOff
<1>2. CASE GuestWrites
  <2>1. vm' = vm
    BY <1>2 DEF GuestWrites
  <2> QED
    BY <1>2, <2>1, WriteOK DEF LockInv
<1>3. CASE Crash
  BY <1>3, IdleOK DEF LockInv, Crash
<1>4. ASSUME NEW c \in Caller, Settling(c) PROVE LockInv'
  BY <1>4, SettlingCall, SettlingLock DEF LockInv
<1>5. ASSUME NEW c \in Caller, CopyBegin(c) PROVE LockInv'
  <2>1. vm = Free /\ vm' = c
    BY <1>5 DEF CopyBegin
  <2> QED
    BY <1>5, <2>1, BeginOK, NoCopy DEF LockInv
<1>6. ASSUME NEW c \in Caller, MoveAside(c) PROVE LockInv'
  <2>1. vm = Free /\ vm' = c /\ Goto(c, "restoring") /\ "restoring" \in Pc
    BY <1>6 DEF MoveAside, Pc
  <2> QED
    BY <2>1, GotoOK, NoCopy DEF LockInv
<1>7. CASE UNCHANGED vars
  BY <1>7 DEF LockInv, vars
<1> QED
  BY <1>1, <1>2, <1>3, <1>4, <1>5, <1>6, <1>7, StepCases

---------------------------------------------------------------------------
(* The copy under way: its target is not a snapshot yet.                   *)

CopyInv ==
  \A c \in Caller :
    At(c, "copying") =>
      /\ snap[call[c].path] = Torn
      /\ call[c].holds # None

(* What a command does to the snapshots while another one copies: nothing. *)
LEMMA CopyAlone ==
  ASSUME TypeOK, LockInv, NEW c \in Caller, Settling(c), NEW d \in Caller, d # c, At(d, "copying")
  PROVE  snap' = snap
<1>1. vm = d /\ vm # c /\ vm # Free
  BY CallerAssumption DEF LockInv, At, Free
<1> QED
  BY <1>1 DEF Settling, Stop, CopyNothing, CopyEnd, CopyFails, Remove, Record, NoSnapshot, MoveRefused,
              PutBack, Reset, Create, Restore, Issue, Disk, LockInv, At

LEMMA CopyStep ==
  ASSUME TypeOK, LockInv, CopyInv, [Next]_vars
  PROVE  CopyInv'
<1>1. CASE Boot
  BY <1>1, NoCopy DEF CopyInv, Boot, At
<1>2. CASE PowerOff
  BY <1>2 DEF CopyInv, PowerOff, At, Disk
<1>3. CASE GuestWrites
  <2>1. snap' = snap
    BY <1>3 DEF GuestWrites
  <2> QED
    BY <1>3, <2>1, WriteOK DEF CopyInv, At
<1>4. CASE Crash
  BY <1>4, IdleOK DEF CopyInv, Crash, At
<1>5. ASSUME NEW c \in Caller, Settling(c) PROVE CopyInv'
  BY <1>5, SettlingCall, CopyAlone DEF CopyInv, At
<1>6. ASSUME NEW c \in Caller, CopyBegin(c) PROVE CopyInv'
  <2>1. /\ vm = Free /\ live # None /\ live' = live
        /\ snap' = [snap EXCEPT ![call[c].path] = Torn]
    BY <1>6 DEF CopyBegin
  <2>2. snap'[call[c].path] = Torn
    BY <2>1 DEF TypeOK, CallState
  <2> QED
    BY <1>6, <2>1, <2>2, BeginOK, NoCopy DEF CopyInv, At
<1>7. ASSUME NEW c \in Caller, MoveAside(c) PROVE CopyInv'
  <2>1. vm = Free /\ Goto(c, "restoring") /\ "restoring" \in Pc
    BY <1>7 DEF MoveAside, Pc
  <2> QED
    BY <2>1, GotoOK, NoCopy DEF CopyInv, At
<1>8. CASE UNCHANGED vars
  BY <1>8 DEF CopyInv, vars, At
<1> QED
  BY <1>1, <1>2, <1>3, <1>4, <1>5, <1>6, <1>7, <1>8, StepCases

---------------------------------------------------------------------------
(* Snapshots hold what was copied for them.  A file that is not reused has *)
(* one owner: the command that copies it, the one about to record it, or   *)
(* its rows.                                                               *)

RowsFaithful ==
  \A r \in rows : r.path \notin reused => snap[r.path] = r.holds /\ r.holds # None

RecordFaithful ==
  \A c \in Caller :
    At(c, "record") /\ call[c].path \notin reused
      => snap[call[c].path] = call[c].holds /\ call[c].holds # None

OneOwner ==
  \A c \in Caller :
    At(c, "copying") /\ call[c].path \notin reused =>
      /\ \A r \in rows : r.path # call[c].path
      /\ \A d \in Caller : At(d, "record") => call[d].path # call[c].path

FaithInv == RowsFaithful /\ RecordFaithful /\ OneOwner

(* The commands that touch neither the snapshots nor the table. *)
Bystander(c) ==
  \/ Stop(c) \/ CopyNothing(c) \/ Remove(c) \/ NoSnapshot(c) \/ MoveAside(c) \/ MoveRefused(c)
  \/ PutBack(c)
  \/ Reset(c) \/ (\E p \in Path : Create(c, p)) \/ (\E r \in rows : Restore(c, r))

LEMMA BystanderCall ==
  ASSUME TypeOK, NEW c \in Caller, Bystander(c)
  PROVE  /\ call'[c].pc \notin {"copying", "record", "remove"}
         /\ \A d \in Caller : d # c => call'[d] = call[d]
<1>1. CASE Reset(c)
  <2>1. "reset" \in Op /\ "stop" \in Pc
    BY DEF Op, Pc
  <2> QED
    BY <1>1, <2>1, IssueOK, PathAssumption DEF Reset
<1>2. CASE \E p \in Path : Create(c, p)
  <2>1. "create" \in Op /\ "copy" \in Pc
    BY DEF Op, Pc
  <2> QED
    BY <1>2, <2>1, IssueOK DEF Create
<1>3. CASE \E r \in rows : Restore(c, r)
  <2>1. "restore" \in Op /\ "stop" \in Pc /\ \A r \in rows : r.path \in Path
    BY DEF Op, Pc, TypeOK, Row
  <2> QED
    BY <1>3, <2>1, IssueOK DEF Restore
<1>4. CASE Stop(c) \/ MoveAside(c)
  <2>1. "restore" \in Pc /\ "copy" \in Pc /\ "restoring" \in Pc
    BY DEF Pc
  <2> QED
    BY <1>4, <2>1, GotoOK DEF Stop, MoveAside
<1>5. CASE CopyNothing(c) \/ Remove(c) \/ NoSnapshot(c) \/ MoveRefused(c) \/ PutBack(c)
  <2>1. Return(c)
    BY <1>5 DEF CopyNothing, Remove, NoSnapshot, MoveRefused, PutBack
  <2> QED
    BY <2>1, ReturnOK
<1> QED
  BY <1>1, <1>2, <1>3, <1>4, <1>5 DEF Bystander

LEMMA BystanderDisk ==
  ASSUME NEW c \in Caller, Bystander(c)
  PROVE  snap' = snap /\ rows' = rows /\ reused' = reused
BY DEF Bystander, Stop, CopyNothing, Remove, NoSnapshot, MoveAside, MoveRefused, PutBack, Reset, Create,
       Restore, Issue, Disk, history

LEMMA FaithBegin ==
  ASSUME TypeOK, LockInv, FaithInv, NEW c \in Caller, CopyBegin(c)
  PROVE  FaithInv'
<1> DEFINE p == call[c].path
<1>1. /\ p \in Path /\ rows' = rows
      /\ snap' = [snap EXCEPT ![p] = Torn]
      /\ reused' = IF snap[p] = None THEN reused ELSE reused \cup {p}
      /\ \A d \in Caller : call[d].pc # "copying"
  BY NoCopy DEF CopyBegin, TypeOK, CallState
<1>2. /\ call'[c].pc = "copying" /\ call'[c].path = p
      /\ \A d \in Caller : d # c =>
           call'[d].pc = call[d].pc /\ call'[d].path = call[d].path /\ call'[d].holds = call[d].holds
  BY BeginOK
<1>3. \A q \in Path : q # p => snap'[q] = snap[q]
  BY <1>1 DEF TypeOK
<1>4. ASSUME p \notin reused'
      PROVE  /\ \A r \in rows : r.path # p
             /\ \A d \in Caller : At(d, "record") => call[d].path # p
  <2>1. snap[p] = None /\ p \notin reused
    BY <1>1, <1>4
  <2> QED
    BY <2>1 DEF FaithInv, RowsFaithful, RecordFaithful
<1>5. \A r \in rows : r.path \in Path
  BY DEF TypeOK, Row
<1>6. \A d \in Caller : call[d].path \in Path
  BY DEF TypeOK, CallState
<1>7. \A q \in Path : q \notin reused' => q \notin reused
  BY <1>1
<1> HIDE DEF p
<1>8. RowsFaithful'
  BY <1>1, <1>3, <1>4, <1>5, <1>7 DEF FaithInv, RowsFaithful
<1>9. RecordFaithful'
  <2> SUFFICES ASSUME NEW d \in Caller, At(d, "record")', (call[d].path \notin reused)'
               PROVE  (snap[call[d].path] = call[d].holds /\ call[d].holds # None)'
    BY DEF RecordFaithful
  <2>1. /\ d # c /\ At(d, "record") /\ call[d].path \notin reused
        /\ call'[d].path = call[d].path /\ call'[d].holds = call[d].holds
    BY <1>2, <1>6, <1>7 DEF At
  <2>2. call[d].path # p
    BY <1>4, <2>1
  <2> QED
    BY <1>3, <1>6, <2>1, <2>2 DEF FaithInv, RecordFaithful
<1>10. OneOwner'
  BY <1>1, <1>2, <1>4 DEF OneOwner, At
<1> QED
  BY <1>8, <1>9, <1>10 DEF FaithInv

LEMMA FaithEnd ==
  ASSUME TypeOK, LockInv, CopyInv, FaithInv, NEW c \in Caller, CopyEnd(c) \/ CopyFails(c)
  PROVE  FaithInv'
<1> DEFINE p == call[c].path
<1>1. /\ p \in Path /\ At(c, "copying") /\ call[c].holds # None
      /\ rows' = rows /\ reused' = reused
      /\ \A d \in Caller : d # c => call[d].pc # "copying"
  BY DEF CopyEnd, CopyFails, TypeOK, CallState, CopyInv, LockInv, At, history
<1>2. \A q \in Path : q # p => snap'[q] = snap[q]
  BY <1>1 DEF TypeOK, CopyEnd, CopyFails
<1>3. /\ \A d \in Caller : d # c => call'[d] = call[d]
      /\ call'[c].pc # "copying"
  BY SettlingCall DEF Settling
<1>4. call'[c].pc = "record" => /\ call'[c].path = p /\ call'[c].holds # None
                                /\ snap'[p] = call'[c].holds
  <2>1. CASE CopyEnd(c)
    <3>1. PICK f \in Copied(c) : snap' = [snap EXCEPT ![p] = f] /\ Over(c, f)
      BY <2>1 DEF CopyEnd
    <3>2. f \in File /\ f # None
      BY <1>1, CopiedOK, Kinds DEF Copied
    <3> QED
      BY <1>1, <3>1, <3>2, OverOK DEF TypeOK
  <2>2. CASE CopyFails(c)
    <3>1. CASE call[c].op = "create"
      BY <2>2, <3>1, ReturnOK DEF CopyFails
    <3>2. CASE call[c].op # "create"
      BY <2>2, <3>2 DEF CopyFails, Over, TypeOK, CallState
    <3> QED
      BY <3>1, <3>2
  <2> QED
    BY <2>1, <2>2
<1>5. p \notin reused => /\ \A r \in rows : r.path # p
                         /\ \A d \in Caller : At(d, "record") => call[d].path # p
  BY <1>1 DEF FaithInv, OneOwner
<1>6. (\A r \in rows : r.path \in Path) /\ (\A d \in Caller : call[d].path \in Path)
  BY DEF TypeOK, Row, CallState
<1> HIDE DEF p
<1>7. RowsFaithful'
  BY <1>1, <1>2, <1>5, <1>6 DEF FaithInv, RowsFaithful
<1>8. RecordFaithful'
  <2> SUFFICES ASSUME NEW d \in Caller, At(d, "record")', (call[d].path \notin reused)'
               PROVE  (snap[call[d].path] = call[d].holds /\ call[d].holds # None)'
    BY DEF RecordFaithful
  <2>1. CASE d = c
    BY <1>4, <2>1 DEF At
  <2>2. CASE d # c
    <3>1. At(d, "record") /\ call'[d] = call[d] /\ call[d].path \notin reused
      BY <1>1, <1>3, <2>2 DEF At
    <3>2. call[d].path # p
      BY <1>5, <3>1
    <3> QED
      BY <1>2, <1>6, <3>1, <3>2 DEF FaithInv, RecordFaithful
  <2> QED
    BY <2>1, <2>2
<1>9. OneOwner'
  BY <1>1, <1>3 DEF OneOwner, At
<1> QED
  BY <1>7, <1>8, <1>9 DEF FaithInv

LEMMA FaithStep ==
  ASSUME TypeOK, LockInv, CopyInv, FaithInv, [Next]_vars
  PROVE  FaithInv'
<1> USE DEF FaithInv, RowsFaithful, RecordFaithful, OneOwner
<1>1. CASE Boot \/ PowerOff
  BY <1>1 DEF Boot, PowerOff, Disk, history, At
<1>2. CASE GuestWrites
  <2>1. snap' = snap /\ rows' = rows /\ reused' = reused
    BY <1>2 DEF GuestWrites, history
  <2> QED
    BY <1>2, <2>1, WriteOK DEF At
<1>3. CASE Crash
  BY <1>3, IdleOK DEF Crash, At, Disk, history
<1>4. ASSUME NEW c \in Caller, Bystander(c) PROVE FaithInv'
  <2>1. snap' = snap /\ rows' = rows /\ reused' = reused
    BY <1>4, BystanderDisk
  <2> QED
    BY <1>4, <2>1, BystanderCall DEF At
<1>5. ASSUME NEW c \in Caller, CopyBegin(c) PROVE FaithInv'
  BY <1>5, FaithBegin
<1>6. ASSUME NEW c \in Caller, CopyEnd(c) \/ CopyFails(c) PROVE FaithInv'
  BY <1>6, FaithEnd
<1>7. ASSUME NEW c \in Caller, Record(c) PROVE FaithInv'
  <2> DEFINE new == [path |-> call[c].path, holds |-> call[c].holds]
  <2>1. /\ snap' = snap /\ reused' = reused /\ At(c, "record")
        /\ rows' = rows \/ rows' = rows \cup {new}
        /\ call'[c].pc = "idle" /\ \A d \in Caller : d # c => call'[d] = call[d]
    BY <1>7, ReturnOK DEF Record, history
  <2>2. RowsFaithful'
    BY <2>1
  <2>3. RecordFaithful'
    BY <2>1 DEF At
  <2>4. OneOwner'
    BY <2>1 DEF At
  <2> QED
    BY <2>2, <2>3, <2>4
<1>8. CASE UNCHANGED vars
  BY <1>8 DEF vars, At
<1>9. Next => \/ Boot \/ GuestWrites \/ PowerOff \/ Crash
              \/ \E c \in Caller : Bystander(c) \/ CopyBegin(c) \/ CopyEnd(c) \/ CopyFails(c) \/ Record(c)
  BY DEF Next, Command, Bystander
<1> HIDE DEF FaithInv, RowsFaithful, RecordFaithful, OneOwner
<1> QED
  BY <1>1, <1>2, <1>3, <1>4, <1>5, <1>6, <1>7, <1>8, <1>9

---------------------------------------------------------------------------
(* A reset that has copied the disk and not removed it yet has the copy,   *)
(* unless another one is taken over it.                                    *)

RemoveInv ==
  \A c \in Caller :
    At(c, "remove") /\ ~call[c].dirty /\ Complete(call[c].holds)
      => snap[call[c].path] = call[c].holds

LEMMA RemoveEnd ==
  ASSUME TypeOK, LockInv, CopyInv, RemoveInv, NEW c \in Caller, CopyEnd(c) \/ CopyFails(c)
  PROVE  RemoveInv'
<1> DEFINE p == call[c].path
<1>1. p \in Path /\ snap[p] = Torn
  BY DEF CopyEnd, CopyFails, TypeOK, CallState, CopyInv, At
<1>2. \A q \in Path : q # p => snap'[q] = snap[q]
  BY <1>1 DEF TypeOK, CopyEnd, CopyFails
<1>3. \A d \in Caller : d # c => call'[d] = call[d]
  BY SettlingCall DEF Settling
<1>4. ASSUME call'[c].pc = "remove", Complete(call'[c].holds)
      PROVE  snap'[call'[c].path] = call'[c].holds
  <2>1. CASE CopyEnd(c)
    <3>1. PICK f \in Copied(c) : snap' = [snap EXCEPT ![p] = f] /\ Over(c, f)
      BY <2>1 DEF CopyEnd
    <3>2. f \in File
      BY CopiedOK
    <3> QED
      BY <1>1, <3>1, <3>2, OverOK DEF TypeOK
  <2>2. CASE CopyFails(c)
    <3>1. CASE Return(c)
      BY <1>4, <3>1, ReturnOK
    <3>2. CASE Over(c, None)
      BY <1>4, <3>2, OverOK, Kinds DEF Complete
    <3> QED
      BY <2>2, <3>1, <3>2 DEF CopyFails
  <2> QED
    BY <2>1, <2>2
<1>5. \A d \in Caller : call[d].path \in Path
  BY DEF TypeOK, CallState
<1> HIDE DEF p
<1>6. ASSUME NEW d \in Caller, d # c, At(d, "remove")', ~call'[d].dirty, Complete(call'[d].holds)
      PROVE  snap'[call'[d].path] = call'[d].holds
  <2>1. snap[call[d].path] = call[d].holds /\ call'[d] = call[d]
    BY <1>3, <1>6 DEF RemoveInv, At
  <2>2. call[d].path # p
    BY <1>1, <1>3, <1>6, <2>1, Kinds DEF Complete
  <2> QED
    BY <1>2, <1>5, <2>1, <2>2
<1> QED
  BY <1>4, <1>6 DEF RemoveInv, At, Complete

LEMMA RemoveStep ==
  ASSUME TypeOK, LockInv, CopyInv, RemoveInv, [Next]_vars
  PROVE  RemoveInv'
<1> USE DEF RemoveInv, Complete
<1>1. CASE Boot \/ PowerOff
  BY <1>1 DEF Boot, PowerOff, Disk, At
<1>2. CASE GuestWrites
  <2>1. snap' = snap
    BY <1>2 DEF GuestWrites
  <2> QED
    BY <1>2, <2>1, WriteOK DEF At
<1>3. CASE Crash
  BY <1>3, IdleOK DEF Crash, At, Disk
<1>4. ASSUME NEW c \in Caller, Bystander(c) \/ Record(c) PROVE RemoveInv'
  <2>1. snap' = snap
    BY <1>4, BystanderDisk DEF Record
  <2>2. call'[c].pc # "remove" /\ \A d \in Caller : d # c => call'[d] = call[d]
    BY <1>4, BystanderCall, ReturnOK DEF Record
  <2> QED
    BY <2>1, <2>2 DEF At
<1>5. ASSUME NEW c \in Caller, CopyBegin(c) PROVE RemoveInv'
  <2>1. snap' = [snap EXCEPT ![call[c].path] = Torn]
    BY <1>5 DEF CopyBegin
  <2>2. \A d \in Caller : call[d].path \in Path
    BY DEF TypeOK, CallState
  <2> SUFFICES ASSUME NEW d \in Caller, At(d, "remove")', ~call'[d].dirty, call'[d].holds \in Version
               PROVE  snap'[call'[d].path] = call'[d].holds
    OBVIOUS
  <2>3. d # c
    BY <1>5, BeginOK DEF At
  <2>4. /\ At(d, "remove") /\ call'[d].path = call[d].path /\ call'[d].holds = call[d].holds
        /\ ~call[d].dirty /\ call[d].path # call[c].path
    BY <1>5, <2>3, BeginOK DEF At
  <2> QED
    BY <2>1, <2>2, <2>4 DEF TypeOK
<1>6. ASSUME NEW c \in Caller, CopyEnd(c) \/ CopyFails(c) PROVE RemoveInv'
  BY <1>6, RemoveEnd
<1>7. CASE UNCHANGED vars
  BY <1>7 DEF vars, At
<1>8. Next => \/ Boot \/ GuestWrites \/ PowerOff \/ Crash
              \/ \E c \in Caller : \/ Bystander(c) \/ Record(c) \/ CopyBegin(c)
                                  \/ CopyEnd(c) \/ CopyFails(c)
  BY DEF Next, Command, Bystander
<1> HIDE DEF RemoveInv, Complete
<1> QED
  BY <1>1, <1>2, <1>3, <1>4, <1>5, <1>6, <1>7, <1>8

---------------------------------------------------------------------------
(* What a restore or a reset took away.  The disk itself does not count:   *)
(* the guest writes over it.                                               *)

PutAside == salvage = before \/ \E p \in Path : snap[p] = before

BackInv == Complete(before) => (PutAside \/ excused)

LEMMA BackCopied ==
  ASSUME TypeOK, CopyInv, BackInv, NEW c \in Caller, CopyEnd(c) \/ CopyFails(c)
  PROVE  BackInv'
<1> DEFINE p == call[c].path
<1>1. p \in Path /\ snap[p] = Torn /\ UNCHANGED <<salvage, before, excused>>
  BY DEF CopyEnd, CopyFails, TypeOK, CallState, CopyInv, At, history
<1>2. \A q \in Path : q # p => snap'[q] = snap[q]
  BY <1>1 DEF TypeOK, CopyEnd, CopyFails
<1>3. ASSUME Complete(before), NEW q \in Path, snap[q] = before PROVE snap'[q] = before
  BY <1>1, <1>2, <1>3, Kinds DEF Complete
<1> QED
  BY <1>1, <1>3 DEF BackInv, PutAside, Complete

LEMMA BackStep ==
  ASSUME TypeOK, CopyInv, RemoveInv, BackInv, [Next]_vars
  PROVE  BackInv'
<1> USE DEF BackInv, PutAside, Complete
<1>1. CASE Boot \/ GuestWrites \/ PowerOff \/ Crash
  <2>1. UNCHANGED <<salvage, snap, before, excused>>
    BY <1>1 DEF Boot, GuestWrites, PowerOff, Crash, Disk, history
  <2> QED
    BY <2>1
<1>2. ASSUME NEW c \in Caller,
             \/ Stop(c) \/ CopyNothing(c) \/ Record(c) \/ NoSnapshot(c) \/ PutBack(c)
             \/ Reset(c) \/ (\E p \in Path : Create(c, p)) \/ (\E r \in rows : Restore(c, r))
      PROVE  BackInv'
  <2>1. UNCHANGED <<salvage, snap, before, excused>>
    BY <1>2 DEF Stop, CopyNothing, Record, NoSnapshot, PutBack, Reset, Create, Restore, Issue,
                Disk, history
  <2> QED
    BY <2>1
<1>3. ASSUME NEW c \in Caller, CopyBegin(c) PROVE BackInv'
  <2>1. /\ before' = before /\ salvage' = salvage
        /\ excused' = (excused \/ Holds(snap[call[c].path]))
        /\ snap' = [snap EXCEPT ![call[c].path] = Torn]
    BY <1>3 DEF CopyBegin
  <2>2. \A q \in Path : q # call[c].path => snap'[q] = snap[q]
    BY <2>1 DEF TypeOK
  <2> QED
    BY <2>1, <2>2, Kinds DEF TypeOK, Holds
<1>4. ASSUME NEW c \in Caller, CopyEnd(c) \/ CopyFails(c) PROVE BackInv'
  BY <1>4, BackCopied
<1>5. ASSUME NEW c \in Caller, MoveAside(c) PROVE BackInv'
  BY <1>5, Kinds DEF MoveAside, Holds
<1>6. ASSUME NEW c \in Caller, MoveRefused(c) PROVE BackInv'
  <2>1. /\ before' = before /\ snap' = snap
        /\ excused' = (excused \/ (salvage' # salvage /\ Holds(salvage)))
    BY <1>6 DEF MoveRefused
  <2> QED
    BY <2>1, Kinds DEF Holds
<1>8. ASSUME NEW c \in Caller, Remove(c) PROVE BackInv'
  <2>1. salvage' = salvage /\ snap' = snap /\ call[c].path \in Path /\ At(c, "remove")
    BY <1>8 DEF Remove, TypeOK, CallState
  <2>2. CASE UNCHANGED <<before, excused>>
    BY <2>1, <2>2
  <2>3. CASE before' = live /\ excused' = (call[c].dirty \/ call[c].holds # live)
    BY <2>1, <2>3 DEF RemoveInv
  <2> QED
    BY <1>8, <2>2, <2>3 DEF Remove
<1>7. CASE UNCHANGED vars
  BY <1>7 DEF vars
<1> HIDE DEF BackInv, PutAside, Complete
<1> QED
  BY <1>1, <1>2, <1>3, <1>4, <1>5, <1>6, <1>7, <1>8 DEF Next, Command

---------------------------------------------------------------------------
IInv == TypeOK /\ LockInv /\ CopyInv /\ FaithInv /\ RemoveInv /\ BackInv

LEMMA Inductive == Spec => []IInv
<1>1. Init => IInv
  <2> SUFFICES ASSUME Init PROVE IInv
    OBVIOUS
  <2>1. TypeOK
    BY TypeInit
  <2>2. \A c \in Caller : call[c].pc = "idle"
    BY IdleOK DEF Init
  <2>3. rows = {} /\ before = None
    BY DEF Init
  <2> QED
    BY <2>1, <2>2, <2>3, Kinds DEF IInv, LockInv, CopyInv, FaithInv, RowsFaithful, RecordFaithful,
       OneOwner, RemoveInv, BackInv, Complete, At
<1>2. IInv /\ [Next]_vars => IInv'
  BY TypeStep, LockStep, CopyStep, FaithStep, RemoveStep, BackStep DEF IInv
<1> QED
  BY <1>1, <1>2, PTL DEF Spec

(* For any number of commands, names, crashes and failures: a snapshot     *)
(* that is offered is what was copied for it, unless a later snapshot took *)
(* its name.                                                               *)
THEOREM SnapshotsAreFaithful == Spec => []RowHoldsItsCopy
<1>1. IInv => RowHoldsItsCopy
  BY DEF IInv, FaithInv, RowsFaithful, RowHoldsItsCopy
<1> QED
  BY <1>1, Inductive, PTL

(* What the last restore or reset took away is still there, or went in one *)
(* of the five known ways (OneStepBack names them).                        *)
THEOREM StepBackIsKept == Spec => []OneStepBack
<1>1. IInv => OneStepBack
  BY DEF IInv, BackInv, PutAside, OneStepBack, Kept
<1> QED
  BY <1>1, Inductive, PTL
=============================================================================
