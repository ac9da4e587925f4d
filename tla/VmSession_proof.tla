-------------------------- MODULE VmSession_proof --------------------------
(***************************************************************************)
(* Proofs about VmSession, for any lessons, faults and number of starts,   *)
(* and for any number of tasks until Alone says that there is one.         *)
(***************************************************************************)
EXTENDS VmSession, TLAPS

(* Some containment of QEMU works: the job object; or vm.pid with          *)
(* kill_stale, where stop() kills what it forgets and no crash comes       *)
(* before vm.pid is written.                                               *)
Contained ==
  "job" \notin Faults \/ Faults \cap {"reap", "miss", "kill", "pidWrite", "gap"} = {}

---------------------------------------------------------------------------
(* The operations of the manager, one lemma each: the result is a manager, *)
(* and what the invariants need of its fields.                             *)

(* What every manager satisfies between two operations. *)
MgrOK(m) ==
  /\ m \in Manager
  /\ m.state = "BootingGuest" => m.supervised # NoRun
  /\ Down(m.state) => m.supervised = NoRun
  /\ m.supervised # NoRun => m.config # NoRun

LEMMA NewManagerOK ==
  ASSUME NEW p \in Run \cup {NoRun}, NEW s \in SUBSET Run, NEW d \in SUBSET Run
  PROVE  /\ MgrOK(NewManager(p, s, d))
         /\ NewManager(p, s, d).supervised = NoRun
         /\ NewManager(p, s, d).state = "Stopped"
         /\ NewManager(p, s, d).pidFile = p
         /\ NewManager(p, s, d).alive = s
         /\ Running(NewManager(p, s, d)) = s \ d
BY WhpxAssumption DEF MgrOK, NewManager, Manager, VmState, Accel, Down, NoRun, Running

LEMMA ToldOK ==
  ASSUME NEW m, MgrOK(m), NEW r
  PROVE  /\ Told(m, r) \in Manager
         /\ Told(m, r).supervised = m.supervised
         /\ Told(m, r).state = m.state
         /\ Told(m, r).config = m.config
         /\ Told(m, r).pidFile = m.pidFile
         /\ Told(m, r).alive = m.alive
         /\ Running(Told(m, r)) = Running(m) \ {r}
BY DEF MgrOK, Told, Manager, Running

LEMMA ReapOK ==
  ASSUME NEW m, MgrOK(m), NEW k \in BOOLEAN
  PROVE  /\ MgrOK(ReapStaleProcess(m, k))
         /\ ReapStaleProcess(m, k).supervised = m.supervised
         /\ ReapStaleProcess(m, k).state = m.state
         /\ ReapStaleProcess(m, k).config = m.config
         /\ ReapStaleProcess(m, k).alive = m.alive
         /\ Running(ReapStaleProcess(m, k)) =
              (IF k THEN Running(m) \ {m.pidFile} ELSE Running(m))
<1> DEFINE n == IF k THEN Told(m, m.pidFile) ELSE m
<1>1. /\ n \in Manager
      /\ n.supervised = m.supervised
      /\ n.state = m.state
      /\ n.config = m.config
      /\ n.alive = m.alive
      /\ Running(n) = (IF k THEN Running(m) \ {m.pidFile} ELSE Running(m))
  BY ToldOK DEF MgrOK
<1>2. CASE m.pidFile = NoRun
  <2>1. ReapStaleProcess(m, k) = m
    BY <1>2 DEF ReapStaleProcess
  <2>2. Running(m) \ {m.pidFile} = Running(m)
    BY <1>2 DEF Running, MgrOK, Manager, Run
  <2> QED
    BY <2>1, <2>2
<1>3. CASE m.pidFile # NoRun
  <2>1. ReapStaleProcess(m, k) = [n EXCEPT !.pidFile = NoRun]
    BY <1>3 DEF ReapStaleProcess
  <2> HIDE DEF n
  <2> QED
    BY <1>1, <2>1 DEF MgrOK, Manager, Running, NoRun
<1> QED
  BY <1>2, <1>3

LEMMA PollOK ==
  ASSUME NEW m, MgrOK(m)
  PROVE  /\ MgrOK(PollExited(m))
         /\ PollExited(m).alive = m.alive
         /\ PollExited(m).doomed = m.doomed
         /\ Running(PollExited(m)) = Running(m)
         /\ PollExited(m).config = m.config
         /\ PollExited(m) # m => /\ HasExited(m)
                                 /\ PollExited(m).supervised = NoRun
                                 /\ PollExited(m).pidFile = NoRun
                                 /\ PollExited(m).state = "Failed"
BY DEF MgrOK, PollExited, MarkExited, HasExited, Manager, Down, VmState, NoRun, Running

LEMMA SetConfigOK ==
  ASSUME NEW m, MgrOK(m), NEW r \in Run
  PROVE  /\ MgrOK(SetConfig(m, r))
         /\ SetConfig(m, r).config = r
         /\ SetConfig(m, r).supervised = m.supervised
         /\ SetConfig(m, r).state = m.state
         /\ SetConfig(m, r).pidFile = m.pidFile
         /\ SetConfig(m, r).alive = m.alive
         /\ Running(SetConfig(m, r)) = Running(m)
BY DEF MgrOK, SetConfig, Manager, Down, NoRun, Run, Running

LEMMA SpawnedOK ==
  ASSUME NEW m, MgrOK(m), NEW r \in Run, PollExited(m).supervised = NoRun
  PROVE  /\ MgrOK(Spawned(m, r))
         /\ Spawned(m, r).supervised = NoRun
         /\ Spawned(m, r).state = "Starting"
         /\ Spawned(m, r).config = m.config
         /\ Spawned(m, r).alive = m.alive \cup {r}
         /\ Running(Spawned(m, r)) \subseteq Running(m) \cup {r}
<1> DEFINE p == PollExited(m)
<1>1. MgrOK(p) /\ p.alive = m.alive /\ p.doomed = m.doomed /\ p.config = m.config
  BY PollOK
<1>2. Spawned(m, r) = [p EXCEPT !.state = "Starting", !.alive = @ \cup {r}]
  BY DEF Spawned
<1>3. p.supervised = NoRun
  OBVIOUS
<1> DEFINE q == Spawned(m, r)
<1> HIDE DEF p, q
<1>4. /\ q \in Manager
      /\ q.supervised = NoRun
      /\ q.state = "Starting"
      /\ q.config = m.config
      /\ q.alive = m.alive \cup {r}
      /\ q.doomed = m.doomed
  <2>1. q = [p EXCEPT !.state = "Starting", !.alive = @ \cup {r}]
    BY <1>2 DEF q
  <2> QED
    BY <1>1, <1>3, <2>1 DEF MgrOK, Manager, VmState
<1>5. Running(q) \subseteq Running(m) \cup {r}
  BY <1>4 DEF Running
<1>6. MgrOK(q)
  BY <1>4 DEF MgrOK, Down, NoRun
<1> QED
  BY <1>4, <1>5, <1>6 DEF q

LEMMA RecordedOK ==
  ASSUME NEW m, MgrOK(m), NEW r \in Run, NEW w \in BOOLEAN, m.config # NoRun
  PROVE  /\ MgrOK(Recorded(m, r, w))
         /\ Recorded(m, r, w).supervised = r
         /\ Recorded(m, r, w).state = "BootingGuest"
         /\ Recorded(m, r, w).config = m.config
         /\ w => Recorded(m, r, w).pidFile = r
         /\ Recorded(m, r, w).alive = m.alive
         /\ Running(Recorded(m, r, w)) = Running(m)
<1>1. PICK f \in Run \cup {NoRun} :
        /\ w => f = r
        /\ Recorded(m, r, w) = [m EXCEPT !.supervised = r,
                                         !.state      = "BootingGuest",
                                         !.pidFile    = f]
  <2> SUFFICES (IF w THEN r ELSE m.pidFile) \in Run \cup {NoRun}
    BY DEF Recorded
  <2> QED
    BY DEF MgrOK, Manager
<1> DEFINE q == Recorded(m, r, w)
<1> HIDE DEF q
<1>2. /\ q \in Manager
      /\ q.supervised = r
      /\ q.state = "BootingGuest"
      /\ q.config = m.config
      /\ q.pidFile = f
      /\ q.alive = m.alive
      /\ q.doomed = m.doomed
  <2>1. q = [m EXCEPT !.supervised = r, !.state = "BootingGuest", !.pidFile = f]
    BY <1>1 DEF q
  <2> QED
    BY <2>1 DEF MgrOK, Manager, VmState
<1>3. MgrOK(q) /\ Running(q) = Running(m)
  BY <1>2 DEF MgrOK, Down, Run, NoRun, Running
<1> QED
  BY <1>1, <1>2, <1>3 DEF q

LEMMA SpawnFailedOK ==
  ASSUME NEW m, MgrOK(m)
  PROVE  /\ MgrOK(SpawnFailed(m))
         /\ SpawnFailed(m).supervised = PollExited(m).supervised
         /\ SpawnFailed(m).pidFile = PollExited(m).pidFile
         /\ SpawnFailed(m).config = m.config
         /\ SpawnFailed(m).state = "Starting"
         /\ SpawnFailed(m).alive = m.alive
         /\ Running(SpawnFailed(m)) = Running(m)
<1> DEFINE p == PollExited(m)
<1>1. MgrOK(p) /\ p.alive = m.alive /\ p.doomed = m.doomed /\ p.config = m.config
  BY PollOK
<1>2. SpawnFailed(m) = [p EXCEPT !.state = "Starting"]
  BY DEF SpawnFailed
<1> HIDE DEF p
<1>3. /\ MgrOK(SpawnFailed(m))
      /\ SpawnFailed(m).supervised = p.supervised
      /\ SpawnFailed(m).pidFile = p.pidFile
      /\ SpawnFailed(m).config = m.config
      /\ SpawnFailed(m).state = "Starting"
      /\ SpawnFailed(m).alive = m.alive
      /\ Running(SpawnFailed(m)) = Running(m)
  BY <1>1, <1>2 DEF MgrOK, Manager, Down, VmState, NoRun, Run, Running
<1> QED
  BY <1>3 DEF p

LEMMA MarkReadyOK ==
  ASSUME NEW m, MgrOK(m)
  PROVE  /\ MgrOK(MarkReady(m))
         /\ MarkReady(m).supervised = m.supervised
         /\ MarkReady(m).state = "Ready"
         /\ MarkReady(m).config = m.config
         /\ MarkReady(m).pidFile = m.pidFile
         /\ MarkReady(m).alive = m.alive
         /\ Running(MarkReady(m)) = Running(m)
BY DEF MgrOK, MarkReady, Manager, Down, VmState, NoRun, Run, Running

LEMMA StopOK ==
  ASSUME NEW m, MgrOK(m), NEW k \in BOOLEAN
  PROVE  /\ MgrOK(Stop(m, k))
         /\ Stop(m, k).supervised = NoRun
         /\ Stop(m, k).config = m.config
         /\ Stop(m, k).alive = m.alive
         /\ m.supervised = NoRun => Stop(m, k) = m
         /\ m.supervised # NoRun => /\ Stop(m, k).pidFile = NoRun
                                    /\ Stop(m, k).state = "Stopped"
         /\ Running(Stop(m, k)) \subseteq Running(m)
         /\ k => Running(Stop(m, k)) \subseteq Running(m) \ {m.supervised}
<1> DEFINE n == IF k THEN Told(m, m.supervised) ELSE m
<1>1. /\ n \in Manager
      /\ n.config = m.config
      /\ n.alive = m.alive
      /\ Running(n) \subseteq Running(m)
      /\ k => Running(n) = Running(m) \ {m.supervised}
  BY ToldOK DEF MgrOK
<1>2. CASE m.supervised = NoRun
  <2>1. Stop(m, k) = m
    BY <1>2 DEF Stop
  <2>2. Running(m) \ {m.supervised} = Running(m)
    BY <1>2 DEF Running, MgrOK, Manager, Run
  <2> QED
    BY <1>2, <2>1, <2>2
<1>3. CASE m.supervised # NoRun
  <2>1. Stop(m, k) = [n EXCEPT !.supervised = NoRun, !.pidFile = NoRun, !.state = "Stopped"]
    BY <1>3 DEF Stop, MgrOK
  <2> HIDE DEF n
  <2> QED
    BY <1>1, <1>3, <2>1 DEF MgrOK, Manager, VmState, Down, Running, NoRun
<1> QED
  BY <1>2, <1>3

LEMMA MarkFailedOK ==
  ASSUME NEW m, MgrOK(m), m.supervised = NoRun
  PROVE  /\ MgrOK(MarkFailed(m))
         /\ MarkFailed(m).supervised = NoRun
         /\ MarkFailed(m).state = "Failed"
         /\ MarkFailed(m).config = m.config
         /\ MarkFailed(m).pidFile = m.pidFile
         /\ MarkFailed(m).alive = m.alive
         /\ Running(MarkFailed(m)) = Running(m)
BY DEF MgrOK, MarkFailed, Manager, Down, VmState, NoRun, Run, Running

LEMMA UseTcgOK ==
  ASSUME NEW m, MgrOK(m)
  PROVE  /\ MgrOK(UseSoftwareAcceleration(m))
         /\ UseSoftwareAcceleration(m).supervised = m.supervised
         /\ UseSoftwareAcceleration(m).state = m.state
         /\ UseSoftwareAcceleration(m).config = m.config
         /\ UseSoftwareAcceleration(m).pidFile = m.pidFile
         /\ UseSoftwareAcceleration(m).alive = m.alive
         /\ Running(UseSoftwareAcceleration(m)) = Running(m)
BY DEF MgrOK, UseSoftwareAcceleration, Manager, Down, Accel, VmState, NoRun, Run, Running

---------------------------------------------------------------------------
(* The invariant on which the others rest: types, a sound manager, and a   *)
(* configuration behind every start about to be made.                      *)
SessionInv ==
  /\ TypeOK
  /\ MgrOK(vm)
  /\ \A t \in Task :
       pc[t] \in {"start", "record", "rerecord"} => run[t] # NoRun /\ vm.config # NoRun

Launching == {"start", "record", "rerecord"}

LocalsOK ==
  /\ pc \in [Task -> Pc]
  /\ op \in [Task -> AllOps]
  /\ kind \in [Task -> Overlay]
  /\ run \in [Task -> Run \cup {NoRun}]
  /\ cli \in [Task -> Run \cup {NoRun}]

SharedOK ==
  /\ launch \in Seq([overlay : Overlay, accel : Accel])
  /\ up \subseteq Run
  /\ disk \in [Overlay -> DiskContent]
  /\ open \subseteq Run
  /\ agent \in Run \cup {NoRun}
  /\ session \in Overlay \cup {NoSession}
  /\ prepared \subseteq Run \X Overlay \X AllOps
  /\ unclean \in BOOLEAN
  /\ starts \in 0..MaxStarts

LEMMA SessionInvParts ==
  SessionInv <=>
    /\ LocalsOK /\ SharedOK /\ MgrOK(vm)
    /\ \A t \in Task : pc[t] \in Launching => run[t] # NoRun /\ vm.config # NoRun
BY DEF SessionInv, TypeOK, LocalsOK, SharedOK, MgrOK, Launching

LEMMA SessionInvInit == Init => SessionInv
<1> SUFFICES ASSUME Init PROVE SessionInv
  OBVIOUS
<1>1. MgrOK(vm)
  BY NewManagerOK DEF Init
<1>2. SharedOK
  <2>1. launch \in Seq([overlay : Overlay, accel : Accel])
    BY DEF Init
  <2>2. prepared \subseteq Run \X Overlay \X AllOps /\ unclean \in BOOLEAN
    BY Zenon DEF Init
  <2> QED
    BY <2>1, <2>2, MaxStartsAssumption
    DEF Init, SharedOK, DiskContent, NoSession, NoRun
<1>3. LocalsOK
  BY DEF Init, LocalsOK, Overlay, NoRun, Pc, AllOps
<1>4. \A t \in Task : pc[t] \notin Launching
  BY DEF Init, Launching
<1> QED
  BY <1>1, <1>2, <1>3, <1>4, SessionInvParts

(* A task returns, or moves on with its locals, and not to a launch. *)
Moves(t) == Return(t) \/ \E l \in Pc \ Launching : Continue(t, l)

LEMMA MovesOK ==
  ASSUME LocalsOK, NEW t \in Task, Moves(t)
  PROVE  /\ LocalsOK'
         /\ \A u \in Task : pc'[u] \in Launching => pc[u] \in Launching /\ run'[u] = run[u]
BY DEF LocalsOK, Moves, Return, Continue, Goto, locals, Launching, Pc, AllOps, Overlay

(* A step of a task that launches nothing. *)
LEMMA SessionInvFrame ==
  ASSUME SessionInv, NEW t \in Task, Moves(t), SharedOK',
         MgrOK(vm'), vm.config # NoRun => vm'.config # NoRun
  PROVE  SessionInv'
<1>1. LocalsOK /\ \A u \in Task : pc[u] \in Launching => run[u] # NoRun /\ vm.config # NoRun
  BY SessionInvParts
<1>2. /\ LocalsOK'
      /\ \A u \in Task : pc'[u] \in Launching => run'[u] # NoRun /\ vm'.config # NoRun
  BY <1>1, MovesOK
<1> QED
  BY <1>2, SessionInvParts DEF SessionInv, TypeOK, LocalsOK, SharedOK, MgrOK, Launching

(* The steps that leave the manager alone. *)
QuietStep(t) ==
  \/ Publish(t)
  \/ Attach(t)
  \/ Ping(t)
  \/ PingLost(t)
  \/ Pong(t)
  \/ WaitTimeout(t)
  \/ Fallback(t)
  \/ Republish(t)
  \/ Fail(t)
  \/ Ask(t)
  \/ AskSend(t)
  \/ AskDone(t)
  \/ Unpublish(t)
  \/ RestoreDisk(t)
  \/ ResetDisk(t)
  \/ RequireReady(t)
  \/ GetAgent(t)
  \/ PrepareSend(t)
  \/ PrepareDone(t)

(* Where a step can go without launching or recording anything. *)
Elsewhere == {"prepare", "publish", "attach", "wait", "pinging", "ready",
              "fallback", "swap", "fail", "failStop", "askLock", "askReply",
              "unpublish", "stopVm", "reap", "restoreDisk", "resetDisk",
              "requireReady", "getAgent", "prepareLock", "preparing"}

LEMMA ElsewhereOK == Elsewhere \subseteq Pc \ Launching
BY DEF Elsewhere, Pc, LaunchedPc, StopPc, Launching

(* Every quiet step but two moves. *)
LEMMA QuietMoves ==
  ASSUME NEW t \in Task, QuietStep(t)
  PROVE  \/ Return(t)
         \/ \E l \in Elsewhere : Continue(t, l)
         \/ Ask(t)
         \/ GetAgent(t)
<1> USE DEF Continue, Elsewhere, locals
<1>1. CASE \/ Publish(t) \/ Attach(t) \/ Ping(t) \/ PingLost(t) \/ Pong(t)
           \/ Fallback(t) \/ Republish(t) \/ Fail(t)
  BY <1>1 DEF Publish, Attach, Ping, PingLost, Pong, Fallback, Republish, Fail
<1>2. CASE WaitTimeout(t)
  BY <1>2 DEF WaitTimeout, NotReady
<1>3. CASE AskSend(t) \/ AskDone(t) \/ Unpublish(t) \/ RestoreDisk(t) \/ ResetDisk(t)
  BY <1>3 DEF AskSend, AskDone, Unpublish, RestoreDisk, ResetDisk
<1>4. CASE RequireReady(t) \/ PrepareSend(t) \/ PrepareDone(t)
  BY <1>4 DEF RequireReady, PrepareSend, PrepareDone
<1> QED
  BY <1>1, <1>2, <1>3, <1>4 DEF QuietStep

LEMMA QuietShared ==
  ASSUME SessionInv, NEW t \in Task, QuietStep(t)
  PROVE  SharedOK' /\ vm' = vm
<1> USE DEF SharedOK, host, app
<1>1. SharedOK /\ LocalsOK /\ vm.alive \subseteq Run
  BY SessionInvParts DEF MgrOK, Manager
<1>2. run[t] \in Run \cup {NoRun} /\ kind[t] \in Overlay /\ cli[t] \in Run \cup {NoRun}
      /\ op[t] \in AllOps
  BY <1>1 DEF LocalsOK
<1>3. CASE Publish(t) \/ Fallback(t) \/ Republish(t) \/ Fail(t) \/ Unpublish(t)
  BY <1>1, <1>2, <1>3 DEF Publish, Fallback, Republish, Fail, Unpublish
<1>4. CASE \/ Attach(t) \/ Ping(t) \/ PingLost(t) \/ Pong(t) \/ WaitTimeout(t)
           \/ Ask(t) \/ AskSend(t) \/ AskDone(t)
           \/ RequireReady(t) \/ GetAgent(t) \/ PrepareSend(t)
  BY <1>1, <1>4 DEF Attach, Ping, PingLost, Pong, WaitTimeout, Ask, AskSend, AskDone,
                    RequireReady, GetAgent, PrepareSend
<1>5. CASE RestoreDisk(t) \/ ResetDisk(t)
  BY <1>1, <1>5 DEF RestoreDisk, ResetDisk, DiskContent
<1>6. CASE PrepareDone(t)
  <2>1. prepared' \subseteq Run \X Overlay \X AllOps
    BY <1>1, <1>2, <1>6 DEF PrepareDone, Answers
  <2> QED
    BY <1>1, <1>6, <2>1 DEF PrepareDone
<1> QED
  BY <1>3, <1>4, <1>5, <1>6 DEF QuietStep

LEMMA QuietStepOK ==
  ASSUME SessionInv, NEW t \in Task, QuietStep(t)
  PROVE  SessionInv'
<1>1. SharedOK' /\ vm' = vm
  BY QuietShared
<1>2. CASE Return(t) \/ \E l \in Elsewhere : Continue(t, l)
  <2>1. Moves(t)
    BY <1>2, ElsewhereOK DEF Moves
  <2> QED
    BY <1>1, <2>1, SessionInvFrame DEF SessionInv
<1>3. CASE Ask(t) \/ GetAgent(t)
  <2>1. CASE Return(t)
    BY <1>2, <2>1
  <2>2. CASE ~Return(t)
    <3>1. /\ cli' = [cli EXCEPT ![t] = agent]
          /\ \E l \in Elsewhere : Goto(t, l)
          /\ UNCHANGED <<op, kind, run>>
      BY <1>3, <2>2 DEF Ask, GetAgent, Elsewhere, app
    <3>2. PICK l \in Pc \ Launching : Goto(t, l)
      BY <3>1, ElsewhereOK
    <3>3. LocalsOK /\ SharedOK
      BY SessionInvParts
    <3>4. LocalsOK' /\ \A u \in Task : pc'[u] \in Launching => pc[u] \in Launching
      BY <3>1, <3>2, <3>3 DEF LocalsOK, SharedOK, Goto
    <3> QED
      BY <1>1, <3>1, <3>4 DEF SessionInv, TypeOK, LocalsOK, SharedOK, Launching
  <2> QED
    BY <2>1, <2>2
<1> QED
  BY <1>2, <1>3, QuietMoves

(* A new launch configuration. *)
LEMMA ConfigureOK ==
  ASSUME SessionInv, NEW k \in Overlay, NEW a \in Accel, Configure(k, a)
  PROVE  /\ launch' \in Seq([overlay : Overlay, accel : Accel])
         /\ NewRun \in Run
<1>1. launch \in Seq([overlay : Overlay, accel : Accel])
  BY DEF SessionInv, TypeOK
<1>2. [overlay |-> k, accel |-> a] \in [overlay : Overlay, accel : Accel]
  OBVIOUS
<1>3. Len(launch) \in Nat
  BY <1>1
<1> QED
  BY <1>1, <1>2, <1>3 DEF Configure, NewRun, Run, NoRun

(* Whether prepare() succeeds or not, the disks stay typed. *)
LEMMA LayerOK ==
  ASSUME SessionInv, NEW o \in Overlay
  PROVE  /\ OverlayReady(disk, o) \in [Overlay -> DiskContent]
         /\ StillOpen(o) \subseteq open
         /\ open \subseteq Run
         /\ LayerMade(o) \/ LayerLost(o) =>
              disk' \in [Overlay -> DiskContent] /\ open' \subseteq open
BY DEF SessionInv, TypeOK, OverlayReady, StillOpen, LayerMade, LayerLost, DiskContent

(* A step that makes a configuration for its task and goes on with it. *)
LEMMA ConfiguredFrame ==
  ASSUME SessionInv, NEW t \in Task, NEW l \in Launching, SharedOK',
         run' = [run EXCEPT ![t] = NewRun], NewRun \in Run, Goto(t, l),
         UNCHANGED <<op, kind, cli>>,
         MgrOK(vm'), vm'.config # NoRun
  PROVE  SessionInv'
<1>1. LocalsOK
  BY SessionInvParts
<1>2. l \in Pc
  BY DEF Launching, Pc, LaunchedPc
<1>3. LocalsOK' /\ \A u \in Task : pc'[u] \in Launching => run'[u] # NoRun
  <2>1. LocalsOK'
    BY <1>1, <1>2 DEF LocalsOK, Goto
  <2>2. \A u \in Task : u # t => pc'[u] = pc[u] /\ run'[u] = run[u]
    BY <1>1 DEF LocalsOK, Goto
  <2>3. run'[t] # NoRun
    BY <1>1 DEF LocalsOK, Run
  <2> QED
    BY <2>1, <2>2, <2>3 DEF SessionInv, Launching
<1> QED
  BY <1>3 DEF SessionInv, TypeOK, LocalsOK, SharedOK, MgrOK, Launching

LEMMA PrepareOK ==
  ASSUME SessionInv, NEW t \in Task, Prepare(t)
  PROVE  SessionInv'
<1>1. /\ kind[t] \in Overlay /\ vm.accel \in Accel /\ MgrOK(vm) /\ SharedOK
  BY SessionInvParts DEF LocalsOK, MgrOK, Manager
<1>2. CASE /\ LayerMade(kind[t])
           /\ Configure(kind[t], vm.accel)
           /\ vm' = SetConfig(vm, NewRun)
           /\ run' = [run EXCEPT ![t] = NewRun]
           /\ Goto(t, "start")
           /\ UNCHANGED <<op, kind, cli>>
  <2>1. launch' \in Seq([overlay : Overlay, accel : Accel]) /\ NewRun \in Run
    BY <1>1, <1>2, ConfigureOK
  <2>2. SharedOK'
    BY <1>1, <1>2, <2>1, LayerOK DEF Prepare, SharedOK, app
  <2>3. MgrOK(vm') /\ vm'.config # NoRun
    BY <1>1, <1>2, <2>1, SetConfigOK DEF Run
  <2> QED
    BY <1>2, <2>1, <2>2, <2>3, ConfiguredFrame DEF Launching
<1>3. CASE /\ LayerLost(kind[t])
           /\ Return(t)
           /\ UNCHANGED <<vm, launch>>
  <2>1. SharedOK'
    BY <1>1, <1>3, LayerOK DEF Prepare, SharedOK, app
  <2> QED
    BY <1>1, <1>3, <2>1, SessionInvFrame DEF Moves
<1> QED
  BY <1>2, <1>3 DEF Prepare

LEMMA KillsBoolean == Kills \subseteq BOOLEAN
BY Zenon DEF Kills

LEMMA OutcomesBoolean ==
  ASSUME NEW f
  PROVE  Outcomes(f) \subseteq BOOLEAN /\ (f \notin Faults => Outcomes(f) = {TRUE})
BY Zenon DEF Outcomes

(* The two outcomes of the fallback that end in a machine, or in an error; *)
(* ready is the manager they start from.                                   *)
LEMMA SwapCases ==
  ASSUME SessionInv, NEW t \in Task, Swap(t)
  PROVE  \E killed, down, ready :
           /\ killed \in Kills
           /\ down = UseSoftwareAcceleration(Stop(vm, killed))
           /\ ready = SetConfig(down, NewRun)
           /\ MgrOK(down) /\ down.supervised = NoRun
           /\ down.alive = vm.alive
           /\ down.config = vm.config
           /\ Running(down) \subseteq Running(vm)
           /\ killed => Running(down) \subseteq Running(vm) \ {vm.supervised}
           /\ \/ /\ disk' = OverlayReady(disk, kind[t])
                 /\ Configure(kind[t], "tcg")
                 /\ NewRun \in Run
                 /\ MgrOK(ready) /\ ready.config = NewRun /\ ready.supervised = NoRun
                 /\ ready.alive = vm.alive /\ Running(ready) = Running(down)
                 /\ \/ /\ vm' = Spawned(ready, NewRun)
                       /\ open' = StillOpen(kind[t]) \cup {NewRun}
                       /\ run' = [run EXCEPT ![t] = NewRun]
                       /\ Goto(t, "rerecord")
                       /\ UNCHANGED <<op, kind, cli>>
                    \/ /\ "spawn" \in Faults
                       /\ vm' = SpawnFailed(ready)
                       /\ open' = StillOpen(kind[t])
                       /\ Return(t)
              \/ /\ LayerLost(kind[t])
                 /\ vm' = down
                 /\ Return(t)
                 /\ UNCHANGED launch
<1>1. PICK killed \in Kills :
         \/ /\ disk' = OverlayReady(disk, kind[t])
            /\ Configure(kind[t], "tcg")
            /\ \/ /\ vm' = Spawned(SetConfig(UseSoftwareAcceleration(Stop(vm, killed)), NewRun), NewRun)
                  /\ open' = StillOpen(kind[t]) \cup {NewRun}
                  /\ run' = [run EXCEPT ![t] = NewRun]
                  /\ Goto(t, "rerecord")
                  /\ UNCHANGED <<op, kind, cli>>
               \/ /\ "spawn" \in Faults
                  /\ vm' = SpawnFailed(SetConfig(UseSoftwareAcceleration(Stop(vm, killed)), NewRun))
                  /\ open' = StillOpen(kind[t])
                  /\ Return(t)
         \/ /\ LayerLost(kind[t])
            /\ vm' = UseSoftwareAcceleration(Stop(vm, killed))
            /\ Return(t)
            /\ UNCHANGED launch
  BY DEF Swap
<1> DEFINE down == UseSoftwareAcceleration(Stop(vm, killed))
           ready == SetConfig(down, NewRun)
<1>2. killed \in BOOLEAN
  BY KillsBoolean
<1>3. /\ MgrOK(down) /\ down.supervised = NoRun
      /\ down.alive = vm.alive
      /\ down.config = vm.config
      /\ Running(down) \subseteq Running(vm)
      /\ killed => Running(down) \subseteq Running(vm) \ {vm.supervised}
  BY <1>2, StopOK, UseTcgOK DEF SessionInv
<1>4. kind[t] \in Overlay /\ "tcg" \in Accel
  BY DEF SessionInv, TypeOK, Accel
<1> HIDE DEF down
<1>5. ASSUME Configure(kind[t], "tcg")
      PROVE  /\ NewRun \in Run
             /\ MgrOK(ready) /\ ready.config = NewRun /\ ready.supervised = NoRun
             /\ ready.alive = vm.alive /\ Running(ready) = Running(down)
  <2>1. NewRun \in Run
    BY <1>4, <1>5, ConfigureOK
  <2> QED
    BY <2>1, <1>3, SetConfigOK
<1>6. ready = SetConfig(down, NewRun)
  OBVIOUS
<1> HIDE DEF ready
<1>7. /\ down = UseSoftwareAcceleration(Stop(vm, killed))
      /\ \/ /\ disk' = OverlayReady(disk, kind[t])
            /\ Configure(kind[t], "tcg")
            /\ \/ /\ vm' = Spawned(ready, NewRun)
                  /\ open' = StillOpen(kind[t]) \cup {NewRun}
                  /\ run' = [run EXCEPT ![t] = NewRun]
                  /\ Goto(t, "rerecord")
                  /\ UNCHANGED <<op, kind, cli>>
               \/ /\ "spawn" \in Faults
                  /\ vm' = SpawnFailed(ready)
                  /\ open' = StillOpen(kind[t])
                  /\ Return(t)
         \/ /\ LayerLost(kind[t])
            /\ vm' = down
            /\ Return(t)
            /\ UNCHANGED launch
  BY <1>1 DEF down, ready
<1> WITNESS killed, down, ready
<1> QED
  BY <1>1, <1>3, <1>5, <1>6, <1>7

LEMMA SwapOK ==
  ASSUME SessionInv, NEW t \in Task, Swap(t)
  PROVE  SessionInv'
<1>1. PICK down, ready :
           /\ MgrOK(down) /\ down.config = vm.config
           /\ \/ /\ disk' = OverlayReady(disk, kind[t])
                 /\ Configure(kind[t], "tcg")
                 /\ NewRun \in Run
                 /\ MgrOK(ready) /\ ready.config = NewRun /\ ready.supervised = NoRun
                 /\ \/ /\ vm' = Spawned(ready, NewRun)
                       /\ open' = StillOpen(kind[t]) \cup {NewRun}
                       /\ run' = [run EXCEPT ![t] = NewRun]
                       /\ Goto(t, "rerecord")
                       /\ UNCHANGED <<op, kind, cli>>
                    \/ /\ vm' = SpawnFailed(ready)
                       /\ open' = StillOpen(kind[t])
                       /\ Return(t)
              \/ /\ LayerLost(kind[t])
                 /\ vm' = down
                 /\ Return(t)
                 /\ UNCHANGED launch
  BY SwapCases
<1>2. kind[t] \in Overlay /\ "tcg" \in Accel /\ SharedOK
  BY SessionInvParts DEF LocalsOK, Accel
<1>3. UNCHANGED <<up, app>>
  BY DEF Swap
<1>4. CASE /\ disk' = OverlayReady(disk, kind[t])
           /\ Configure(kind[t], "tcg")
           /\ NewRun \in Run
           /\ MgrOK(ready) /\ ready.config = NewRun /\ ready.supervised = NoRun
           /\ \/ /\ vm' = Spawned(ready, NewRun)
                 /\ open' = StillOpen(kind[t]) \cup {NewRun}
                 /\ run' = [run EXCEPT ![t] = NewRun]
                 /\ Goto(t, "rerecord")
                 /\ UNCHANGED <<op, kind, cli>>
              \/ /\ vm' = SpawnFailed(ready)
                 /\ open' = StillOpen(kind[t])
                 /\ Return(t)
  <2>1. launch' \in Seq([overlay : Overlay, accel : Accel])
    BY <1>2, <1>4, ConfigureOK
  <2>2. SharedOK'
    BY <1>2, <1>3, <1>4, <2>1, LayerOK DEF SharedOK, app
  <2>3. CASE /\ vm' = Spawned(ready, NewRun)
             /\ run' = [run EXCEPT ![t] = NewRun]
             /\ Goto(t, "rerecord")
             /\ UNCHANGED <<op, kind, cli>>
    <3>1. PollExited(ready) = ready
      BY <1>4 DEF PollExited, HasExited
    <3>2. MgrOK(vm') /\ vm'.config # NoRun
      BY <1>4, <2>3, <3>1, SpawnedOK DEF Run
    <3> QED
      BY <1>4, <2>2, <2>3, <3>2, ConfiguredFrame DEF Launching
  <2>4. CASE /\ vm' = SpawnFailed(ready)
             /\ Return(t)
    <3>1. MgrOK(vm') /\ vm'.config # NoRun
      BY <1>4, <2>4, SpawnFailedOK DEF Run
    <3> QED
      BY <2>2, <2>4, <3>1, SessionInvFrame DEF Moves
  <2> QED
    BY <1>4, <2>3, <2>4
<1>5. CASE /\ LayerLost(kind[t])
           /\ vm' = down
           /\ Return(t)
           /\ UNCHANGED launch
  <2>1. SharedOK'
    BY <1>2, <1>3, <1>5, LayerOK DEF SharedOK, app
  <2> QED
    BY <1>1, <1>5, <2>1, SessionInvFrame DEF Moves
<1> QED
  BY <1>1, <1>4, <1>5

(* A launch goes on to be recorded, with the mutex held. *)
LEMMA StartOK ==
  ASSUME SessionInv, NEW t \in Task, Start(t)
  PROVE  SessionInv'
<1>1. /\ run[t] \in Run /\ vm.config # NoRun /\ pc[t] = "start"
      /\ MgrOK(vm) /\ SharedOK /\ LocalsOK
  BY SessionInvParts DEF Start, At, LocalsOK, Launching
<1>2. UNCHANGED <<launch, up, disk, app>> /\ open' \subseteq open \cup {run[t]}
  BY Zenon DEF Start, Opens
<1>3. SharedOK'
  BY <1>1, <1>2 DEF SharedOK, app
<1>4. CASE vm' = PollExited(vm) /\ Return(t)
  BY <1>1, <1>3, <1>4, PollOK, SessionInvFrame DEF Moves
<1>5. CASE ~AlreadyRunning(vm) /\ vm' = Spawned(vm, run[t]) /\ Continue(t, "record")
  <2>1. MgrOK(vm') /\ vm'.config # NoRun
    BY <1>1, <1>5, SpawnedOK DEF AlreadyRunning
  <2>2. LocalsOK' /\ \A u \in Task : pc'[u] \in Launching => pc[u] \in Launching
    BY <1>1, <1>5 DEF LocalsOK, Continue, Goto, locals, Launching, Pc, LaunchedPc
  <2>3. UNCHANGED run
    BY <1>5 DEF Continue, locals
  <2> QED
    BY <1>3, <2>1, <2>2, <2>3
    DEF SessionInv, TypeOK, LocalsOK, SharedOK, MgrOK, Launching
<1>6. CASE vm' = SpawnFailed(vm) /\ Return(t)
  BY <1>1, <1>3, <1>6, SpawnFailedOK, SessionInvFrame DEF Moves
<1> QED
  BY <1>4, <1>5, <1>6 DEF Start

LEMMA RecordOK ==
  ASSUME SessionInv, NEW t \in Task, Record(t)
  PROVE  SessionInv'
<1>1. /\ run[t] \in Run /\ vm.config # NoRun
      /\ MgrOK(vm) /\ SharedOK
  BY SessionInvParts DEF Record, Recording, LocalsOK, Launching
<1>2. PICK w \in BOOLEAN : vm' = Recorded(vm, run[t], w)
  BY OutcomesBoolean DEF Record
<1>3. MgrOK(vm') /\ vm'.config # NoRun
  BY <1>1, <1>2, RecordedOK
<1>4. SharedOK'
  BY <1>1 DEF Record, SharedOK, app
<1>5. \E l \in {"publish", "republish"} : Continue(t, l)
  BY DEF Record, Continue
<1>6. {"publish", "republish"} \subseteq Pc \ Launching
  BY DEF Pc, LaunchedPc, Launching
<1> QED
  BY <1>3, <1>4, <1>5, <1>6, SessionInvFrame DEF Moves

(* The other steps under the vm mutex. *)
LEMMA ManagerStepOK ==
  ASSUME SessionInv, NEW t \in Task,
         Reap(t) \/ WaitExit(t) \/ SetReady(t) \/ FailStop(t) \/ StopVm(t)
  PROVE  SessionInv'
<1>1. MgrOK(vm) /\ SharedOK /\ Kills \subseteq BOOLEAN
  BY SessionInvParts, KillsBoolean
<1>2. SharedOK'
  BY <1>1 DEF SharedOK, app, Reap, WaitExit, SetReady, FailStop, StopVm
<1>3. Return(t) \/ \E l \in Elsewhere : Continue(t, l)
  BY DEF Continue, Elsewhere, locals, Reap, WaitExit, NotReady, SetReady, FailStop,
         StopVm, AfterStop
<1>4. Moves(t)
  BY <1>3, ElsewhereOK DEF Moves
<1>5. MgrOK(vm') /\ vm'.config = vm.config
  <2>1. CASE Reap(t)
    BY <1>1, <2>1, ReapOK, OutcomesBoolean DEF Reap
  <2>2. CASE WaitExit(t)
    BY <1>1, <2>2, PollOK DEF WaitExit
  <2>3. CASE SetReady(t)
    BY <1>1, <2>3, MarkReadyOK DEF SetReady
  <2>4. CASE FailStop(t)
    <3>1. PICK k \in BOOLEAN : vm' = MarkFailed(Stop(vm, k))
      BY <1>1, <2>4 DEF FailStop
    <3> QED
      BY <1>1, <3>1, StopOK, MarkFailedOK
  <2>5. CASE StopVm(t)
    BY <1>1, <2>5, StopOK DEF StopVm
  <2> QED
    BY <2>1, <2>2, <2>3, <2>4, <2>5
<1> QED
  BY <1>2, <1>4, <1>5, SessionInvFrame

LEMMA StepOK ==
  ASSUME SessionInv, NEW t \in Task, Step(t)
  PROVE  SessionInv'
BY QuietStepOK, PrepareOK, StartOK, RecordOK, SwapOK, ManagerStepOK
DEF Step, StartStep, StopStep, PrepareStep, QuietStep

LEMMA InvokeOK ==
  ASSUME SessionInv, NEW t \in Task, Invoke(t)
  PROVE  SessionInv'
<1> USE DEF SessionInv, TypeOK, Goto, At, host, app, locals, Pc, LaunchedPc, StopPc
<1>1. ASSUME NEW o \in Ops, NEW k \in Overlay, NEW l \in {"reap", "ask", "requireReady"},
             Begin(t, o, k, l), starts' = starts \/ CountStart
      PROVE  SessionInv'
  <2>1. o \in AllOps
    BY OpsAssumption
  <2>2. starts' \in 0..MaxStarts
    BY <1>1, MaxStartsAssumption DEF CountStart
  <2> QED
    BY <1>1, <2>1, <2>2 DEF Begin
<1>2. kind[t] \in Overlay /\ FreePractice \in Overlay /\ Lesson \subseteq Overlay
  BY DEF Overlay
<1>3. CASE StartSession(t)
  BY <1>1, <1>3 DEF StartSession, Begin
<1>4. CASE StopSession(t)
  BY <1>1, <1>2, <1>4 DEF StopSession, Begin
<1>5. CASE RestartVm(t)
  BY <1>1, <1>2, <1>5 DEF RestartVm, Begin
<1>6. CASE RestartLesson(t)
  BY <1>1, <1>2, <1>6 DEF RestartLesson, Begin
<1>7. CASE RestoreSnapshot(t)
  BY <1>1, <1>2, <1>7 DEF RestoreSnapshot, Begin
<1>8. CASE FactoryReset(t)
  BY <1>1, <1>2, <1>8 DEF FactoryReset, Begin
<1>9. CASE PrepareLesson(t)
  BY <1>1, <1>2, <1>9 DEF PrepareLesson, Begin
<1>10. CASE HealthCheck(t)
  BY <1>10 DEF HealthCheck
<1> QED
  BY <1>3, <1>4, <1>5, <1>6, <1>7, <1>8, <1>9, <1>10 DEF Invoke

LEMMA GuestOK ==
  ASSUME SessionInv, Guest
  PROVE  SessionInv'
<1> USE DEF SessionInv, TypeOK, At, app, locals
<1>1. PICK r \in vm.alive : GuestUp(r) \/ GuestDies(r) \/ GuestWrites(r)
  BY DEF Guest
<1>2. r \in Run
  BY <1>1 DEF MgrOK, Manager
<1>3. CASE GuestUp(r)
  BY <1>2, <1>3 DEF GuestUp
<1>4. CASE GuestDies(r)
  BY <1>4 DEF GuestDies, MgrOK, Manager
<1>5. CASE GuestWrites(r)
  BY <1>5 DEF GuestWrites, DiskContent
<1> QED
  BY <1>1, <1>3, <1>4, <1>5

LEMMA RelaunchOK ==
  ASSUME SessionInv, Relaunch
  PROVE  SessionInv'
<1>1. MgrOK(vm) /\ SharedOK
  BY SessionInvParts
<1>2. PICK ending \in SUBSET Run : vm' = NewManager(vm.pidFile, vm.alive, ending)
  BY <1>1 DEF Relaunch, MgrOK, Manager
<1>3. MgrOK(vm')
  <2>1. vm.pidFile \in Run \cup {NoRun} /\ vm.alive \in SUBSET Run
    BY <1>1 DEF MgrOK, Manager
  <2> QED
    BY <1>2, <2>1, NewManagerOK
<1>4. unclean' \in BOOLEAN
  BY DEF Relaunch
<1>5. /\ UNCHANGED <<launch, up, disk, open, prepared, starts>>
      /\ agent' = NoRun /\ session' = NoSession
  BY Zenon DEF Relaunch
<1>6. SharedOK'
  BY <1>1, <1>4, <1>5 DEF SharedOK
<1>7. LocalsOK' /\ \A t \in Task : pc'[t] \notin Launching
  BY DEF Relaunch, LocalsOK, NoRun, AllOps, Overlay, Pc, Launching
<1> QED
  BY <1>3, <1>6, <1>7 DEF SessionInv, TypeOK, LocalsOK, SharedOK, MgrOK, Launching

LEMMA SessionInvInductive == SessionInv /\ [Next]_vars => SessionInv'
<1> SUFFICES ASSUME SessionInv, [Next]_vars PROVE SessionInv'
  OBVIOUS
<1>1. CASE UNCHANGED vars
  BY <1>1 DEF SessionInv, TypeOK, At, vars, host, app, locals
<1> QED
  BY <1>1, StepOK, InvokeOK, GuestOK, RelaunchOK DEF Next

LEMMA SessionInvAlways == Spec => []SessionInv
BY SessionInvInit, SessionInvInductive, PTL DEF Spec

(* Every variable keeps its type, for any tasks and faults. *)
THEOREM TypeCorrect == Spec => []TypeOK
BY SessionInvAlways, PTL DEF SessionInv

(* health_check never repairs a disk that a machine of this process has    *)
(* open: Stopped, Failed and Unbootable managers supervise nothing.        *)
THEOREM DownSupervisesNothing == Spec => []DownMeansNoVm
<1>1. SessionInv => DownMeansNoVm
  BY DEF SessionInv, MgrOK, DownMeansNoVm
<1> QED
  BY <1>1, SessionInvAlways, PTL

---------------------------------------------------------------------------
(* At most one QEMU.                                                       *)

(* The tasks that have reaped, and may launch or already have. *)
PastReap == {"prepare", "start"} \cup LaunchedPc

SomeReaped == \E t \in Task : pc[t] \in PastReap

(* Writing vm.pid works, and so does finding the process it names. *)
PidFileWorks == Faults \cap {"pidWrite", "miss"} = {}

(* A QEMU that this process does not own can only be a survivor of the     *)
(* previous one, before anything has been reaped; vm.pid names it.  The    *)
(* launch is recorded before anybody else has the mutex.                   *)
HostInv ==
  /\ ("job" \notin Faults \/ vm.supervised # NoRun \/ SomeReaped) => Running(vm) \subseteq Owned
  /\ \A t \in Task : Recording(t) =>
       /\ vm.supervised = NoRun
       /\ \A u \in Task : Recording(u) => u = t
  /\ PidFileWorks => PidFileNamesVm

(* The launches being recorded are the same as before the step. *)
RecordingSame ==
  \A u \in Task : /\ Recording(u)' <=> Recording(u)
                  /\ Recording(u) => run'[u] = run[u]

LEMMA RecordingFrame ==
  ASSUME LocalsOK, NEW t \in Task, ~Recording(t),
         Return(t) \/ \E l \in Elsewhere : Goto(t, l) /\ run' = run
  PROVE  RecordingSame
BY DEF LocalsOK, Recording, RecordingSame, Return, Goto, Elsewhere

(* Where the steps of one task leave the other tasks and itself. *)
LaunchesKept ==
  /\ RecordingSame
  /\ \A u \in Task : pc'[u] \in PastReap => pc[u] \in PastReap
  /\ \A u \in Task : pc[u] \in LaunchedPc => pc'[u] \in LaunchedPc

(* Quiet steps leave the manager alone, launch nothing and leave a launch  *)
(* under way where the start is still to be decided.                       *)
LEMMA QuietFrame ==
  ASSUME SessionInv, NEW t \in Task, QuietStep(t)
  PROVE  vm' = vm /\ LaunchesKept
<1>1. LocalsOK
  BY SessionInvParts
<1>2. ~Recording(t)
  BY DEF QuietStep, Recording, At, Publish, Attach, Ping, PingLost, Pong, WaitTimeout,
         Fallback, Republish, Fail, Ask, AskSend, AskDone, Unpublish, RestoreDisk,
         ResetDisk, RequireReady, GetAgent, PrepareSend, PrepareDone
<1>3. Return(t) \/ \E l \in Elsewhere : Goto(t, l) /\ run' = run
  BY QuietMoves DEF Continue, locals, Ask, GetAgent, Elsewhere
<1>4. RecordingSame
  BY <1>1, <1>2, <1>3, RecordingFrame
<1>5. SUFFICES /\ \A u \in Task : pc'[u] \in PastReap => pc[u] \in PastReap
               /\ \A u \in Task : pc[u] \in LaunchedPc => pc'[u] \in LaunchedPc
  BY <1>4, QuietShared DEF LaunchesKept
<1> USE DEF LocalsOK, Goto, At, LaunchedPc, PastReap, Return
<1>6. ASSUME NEW l, Goto(t, l) \/ (l = "idle" /\ Return(t)),
             l \in PastReap => pc[t] \in PastReap,
             pc[t] \in LaunchedPc => l \in LaunchedPc
      PROVE  /\ \A u \in Task : pc'[u] \in PastReap => pc[u] \in PastReap
             /\ \A u \in Task : pc[u] \in LaunchedPc => pc'[u] \in LaunchedPc
  BY <1>1, <1>6
<1>7. CASE \/ Publish(t) \/ Attach(t) \/ Ping(t) \/ PingLost(t) \/ Pong(t)
           \/ WaitTimeout(t) \/ Fallback(t) \/ Republish(t) \/ Fail(t)
  BY <1>6, <1>7 DEF Publish, Attach, Ping, PingLost, Pong, WaitTimeout, NotReady,
                    Fallback, Republish, Fail
<1>8. CASE \/ Ask(t) \/ AskSend(t) \/ AskDone(t) \/ Unpublish(t) \/ RestoreDisk(t)
           \/ ResetDisk(t)
  BY <1>6, <1>8 DEF Ask, AskSend, AskDone, Unpublish, RestoreDisk, ResetDisk
<1>9. CASE RequireReady(t) \/ GetAgent(t) \/ PrepareSend(t) \/ PrepareDone(t)
  BY <1>6, <1>9 DEF RequireReady, GetAgent, PrepareSend, PrepareDone, Continue
<1> QED
  BY <1>7, <1>8, <1>9 DEF QuietStep

LEMMA InvokeFrame ==
  ASSUME SessionInv, NEW t \in Task, Invoke(t)
  PROVE  vm' = vm /\ LaunchesKept
<1> USE DEF SessionInv, TypeOK, Goto, At, host, locals, Pc, LaunchedPc, PastReap,
            LaunchesKept, RecordingSame, Recording
<1>1. ASSUME NEW o, NEW k, NEW l \in {"reap", "ask", "requireReady"}, Begin(t, o, k, l)
      PROVE  vm' = vm /\ LaunchesKept
  BY <1>1 DEF Begin
<1>2. CASE HealthCheck(t)
  BY <1>2 DEF HealthCheck
<1> QED
  BY <1>1, <1>2 DEF Invoke, StartSession, StopSession, RestartVm, RestartLesson,
                    RestoreSnapshot, FactoryReset, PrepareLesson

LEMMA HostInvInit == Init => HostInv
BY DEF Init, HostInv, PidFileNamesVm, NewManager, Running, Recording, SomeReaped, PastReap,
       LaunchedPc

(* A step that neither grows the set of processes nor touches what names   *)
(* them keeps the invariant.                                               *)
LEMMA HostInvFrame ==
  ASSUME HostInv,
         vm'.supervised = vm.supervised, vm'.pidFile = vm.pidFile,
         Running(vm') \subseteq Running(vm),
         RecordingSame,
         \A u \in Task : pc'[u] \in PastReap => pc[u] \in PastReap
  PROVE  HostInv'
<1>1. Owned' = Owned
  BY DEF Owned, RecordingSame
<1>2. \A u \in Task : Recording(u)' <=> Recording(u)
  BY DEF RecordingSame
<1>3. SomeReaped' => SomeReaped
  BY DEF SomeReaped
<1>4. \A t \in Task : Recording(t)' =>
        vm'.supervised = NoRun /\ \A u \in Task : Recording(u)' => u = t
  BY <1>2 DEF HostInv
<1>5. PidFileWorks => PidFileNamesVm'
  <2> SUFFICES ASSUME PidFileNamesVm PROVE PidFileNamesVm'
    BY DEF HostInv
  <2> QED
    BY DEF PidFileNamesVm, RecordingSame
<1> QED
  BY <1>1, <1>3, <1>4, <1>5 DEF HostInv

(* With no QEMU running there is nothing to name. *)
LEMMA HostInvNone ==
  ASSUME Running(vm') = {}, \A u \in Task : ~Recording(u)'
  PROVE  HostInv'
BY DEF HostInv, PidFileNamesVm

(* While nobody is recording, the manager owns what it supervises. *)
LEMMA OwnedFree == VmFree => Owned = {vm.supervised}
BY DEF VmFree, Owned

LEMMA NoRunIsNone == SessionInv => NoRun \notin Running(vm)
BY DEF SessionInv, MgrOK, Manager, Run, Running

(* stop() and poll_exited() forget a machine only once it has been told to *)
(* end, or is dead.                                                        *)
LEMMA StopHost ==
  ASSUME Contained, SessionInv, HostInv, VmFree, NEW killed \in Kills
  PROVE  /\ vm.supervised # NoRun \/ "job" \notin Faults => Running(Stop(vm, killed)) = {}
         /\ PollExited(vm) # vm => Running(vm) = {}
<1>1. killed = TRUE \/ "job" \notin Faults
  BY DEF Contained, Kills
<1>2. killed \in BOOLEAN /\ ("job" \notin Faults => killed)
  BY Zenon DEF Kills
<1>3. killed
  BY <1>1, <1>2
<1>4. vm.supervised # NoRun \/ "job" \notin Faults => Running(vm) \subseteq {vm.supervised}
  BY OwnedFree DEF HostInv
<1>5. MgrOK(vm)
  BY DEF SessionInv
<1>6. PollExited(vm) # vm => vm.supervised # NoRun /\ vm.supervised \notin vm.alive
  BY <1>5, PollOK DEF HasExited
<1>7. PollExited(vm) # vm => Running(vm) = {}
  BY <1>4, <1>6 DEF Running
<1>8. Running(Stop(vm, killed)) \subseteq Running(vm) \ {vm.supervised}
  BY <1>2, <1>3, <1>5, StopOK
<1> QED
  BY <1>4, <1>7, <1>8

LEMMA ReapCases ==
  ASSUME NEW t \in Task, Reap(t)
  PROVE  \/ "reap" \in Faults /\ vm' = vm
         \/ /\ "miss" \in Faults
            /\ vm' = ReapStaleProcess(vm, FALSE)
         \/ vm' = ReapStaleProcess(vm, TRUE)
<1>1. \A k \in Outcomes("miss") : k = TRUE \/ (k = FALSE /\ "miss" \in Faults)
  BY Zenon DEF Outcomes
<1> QED
  BY <1>1 DEF Reap

LEMMA ReapKeeps ==
  ASSUME SessionInv, NEW t \in Task, Reap(t)
  PROVE  /\ vm'.supervised = vm.supervised
         /\ vm'.state = vm.state
         /\ vm'.alive = vm.alive
         /\ Running(vm') \subseteq Running(vm)
BY ReapCases, ReapOK DEF SessionInv

LEMMA ReapHost ==
  ASSUME Contained, SessionInv, HostInv, NEW t \in Task, Reap(t)
  PROVE  HostInv'
<1>1. MgrOK(vm) /\ VmFree /\ LocalsOK
  BY SessionInvParts DEF Reap
<1>2. ~Recording(t) /\ Goto(t, "prepare") /\ UNCHANGED run
  BY DEF Reap, Recording, At, locals
<1>3. RecordingSame
  BY <1>1, <1>2, RecordingFrame DEF Elsewhere
<1>4. \A u \in Task : ~Recording(u)'
  BY <1>1, <1>3 DEF RecordingSame, VmFree
<1>5. vm'.supervised = vm.supervised /\ Running(vm') \subseteq Running(vm)
  BY ReapKeeps
<1>6. PidFileWorks /\ "reap" \notin Faults => Running(vm') = {}
  <2> SUFFICES ASSUME PidFileWorks, "reap" \notin Faults PROVE Running(vm') = {}
    OBVIOUS
  <2>1. vm' = ReapStaleProcess(vm, TRUE)
    BY ReapCases DEF PidFileWorks
  <2>2. Running(vm) \subseteq {vm.pidFile}
    BY <1>1 DEF HostInv, PidFileNamesVm, VmFree
  <2> QED
    BY <1>1, <2>1, <2>2, ReapOK
<1>7. CASE "job" \in Faults
  <2>1. PidFileWorks /\ "reap" \notin Faults
    BY <1>7 DEF Contained, PidFileWorks
  <2> QED
    BY <1>4, <1>6, <2>1, HostInvNone
<1>8. CASE "job" \notin Faults
  <2>1. Running(vm) \subseteq {vm.supervised}
    BY <1>1, <1>8, OwnedFree DEF HostInv
  <2>2. Running(vm') \subseteq Owned'
    BY <1>5, <2>1 DEF Owned
  <2>3. PidFileWorks => PidFileNamesVm'
    <3> SUFFICES ASSUME PidFileWorks PROVE PidFileNamesVm'
      OBVIOUS
    <3>1. CASE UNCHANGED vm
      BY <1>1, <3>1 DEF HostInv, PidFileNamesVm, VmFree
    <3>2. CASE vm' = ReapStaleProcess(vm, TRUE)
      <4>1. Running(vm) \subseteq {vm.pidFile}
        BY <1>1 DEF HostInv, PidFileNamesVm, VmFree
      <4> QED
        BY <1>1, <3>2, <4>1, ReapOK DEF PidFileNamesVm
    <3> QED
      BY <3>1, <3>2, ReapCases DEF PidFileWorks
  <2> QED
    BY <1>4, <2>2, <2>3 DEF HostInv
<1> QED
  BY <1>7, <1>8

LEMMA PrepareHost ==
  ASSUME SessionInv, HostInv, NEW t \in Task, Prepare(t)
  PROVE  HostInv'
<1>1. \A u \in Task : pc'[u] \in PastReap => pc[u] \in PastReap
  BY DEF Prepare, Return, Goto, At, PastReap, SessionInv, TypeOK, Pc, LaunchedPc
<1>2. RecordingSame
  <2>1. \/ Return(t)
        \/ run' = [run EXCEPT ![t] = NewRun] /\ Goto(t, "start")
    BY DEF Prepare
  <2>2. LocalsOK /\ ~Recording(t)
    BY SessionInvParts DEF Prepare, At, Recording
  <2> QED
    BY <2>1, <2>2, RecordingFrame DEF LocalsOK, Goto, RecordingSame, Recording
<1>3. CASE vm' = SetConfig(vm, NewRun) /\ Configure(kind[t], vm.accel)
  <2>1. NewRun \in Run
    BY <1>3, ConfigureOK DEF SessionInv, TypeOK, MgrOK, Manager
  <2> QED
    BY <1>1, <1>2, <1>3, <2>1, SetConfigOK, HostInvFrame DEF SessionInv
<1>4. CASE UNCHANGED vm
  BY <1>1, <1>2, <1>4, HostInvFrame
<1> QED
  BY <1>3, <1>4 DEF Prepare

(* A launch leaves one machine, which its task is about to record. *)
LEMMA LaunchHost ==
  ASSUME LocalsOK, NEW t \in Task, VmFree, NEW r \in Run,
         vm'.supervised = NoRun, Running(vm') \subseteq {r},
         run'[t] = r, \E l \in {"record", "rerecord"} : Goto(t, l)
  PROVE  HostInv'
<1>1. Recording(t)' /\ \A u \in Task : Recording(u)' => u = t
  BY DEF LocalsOK, Goto, Recording, VmFree
<1> QED
  BY <1>1 DEF HostInv, Owned, PidFileNamesVm

LEMMA StartHost ==
  ASSUME SessionInv, HostInv, NEW t \in Task, Start(t)
  PROVE  HostInv'
<1>1. /\ run[t] \in Run
      /\ vm.config # NoRun
      /\ MgrOK(vm) /\ LocalsOK /\ VmFree
      /\ ~Recording(t)
  BY SessionInvParts DEF Start, At, LocalsOK, Launching, Recording
<1>2. Running(vm) \subseteq {vm.supervised}
  BY OwnedFree DEF Start, At, HostInv, SomeReaped, PastReap
<1>3. PollExited(vm).supervised = NoRun => Running(vm) = {}
  <2>1. CASE PollExited(vm) = vm
    BY <1>2, <2>1, NoRunIsNone
  <2>2. CASE PollExited(vm) # vm
    BY <1>1, <1>2, <2>2, PollOK DEF HasExited, Running
  <2> QED
    BY <2>1, <2>2
<1>4. CASE AlreadyRunning(vm) /\ vm' = PollExited(vm) /\ Return(t)
  <2>1. vm' = vm
    BY <1>1, <1>4, PollOK DEF AlreadyRunning
  <2>2. RecordingSame
    BY <1>1, <1>4, RecordingFrame
  <2> QED
    BY <1>1, <1>4, <2>1, <2>2, HostInvFrame DEF Return, Goto, PastReap, LocalsOK, LaunchedPc
<1>5. CASE ~AlreadyRunning(vm) /\ vm' = Spawned(vm, run[t]) /\ Continue(t, "record")
  <2>1. vm'.supervised = NoRun /\ Running(vm') \subseteq {run[t]}
    BY <1>1, <1>3, <1>5, SpawnedOK DEF AlreadyRunning
  <2> QED
    BY <1>1, <1>5, <2>1, LaunchHost DEF Continue, locals
<1>6. CASE ~AlreadyRunning(vm) /\ vm' = SpawnFailed(vm) /\ Return(t)
  <2>1. Running(vm') = {}
    BY <1>1, <1>3, <1>6, SpawnFailedOK DEF AlreadyRunning
  <2>2. \A u \in Task : ~Recording(u)'
    BY <1>1, <1>6, RecordingFrame DEF RecordingSame, VmFree
  <2> QED
    BY <2>1, <2>2, HostInvNone
<1> QED
  BY <1>4, <1>5, <1>6 DEF Start

LEMMA RecordHost ==
  ASSUME SessionInv, HostInv, NEW t \in Task, Record(t)
  PROVE  HostInv'
<1>1. /\ run[t] \in Run /\ vm.config # NoRun
      /\ MgrOK(vm) /\ LocalsOK
      /\ Recording(t) /\ pc[t] \in PastReap
  BY SessionInvParts DEF Record, Recording, LocalsOK, Launching, PastReap, LaunchedPc
<1>2. PICK w \in Outcomes("pidWrite") : vm' = Recorded(vm, run[t], w)
  BY DEF Record
<1>3. w \in BOOLEAN /\ ("pidWrite" \notin Faults => w)
  BY <1>2, Zenon DEF Outcomes
<1>4. Running(vm) \subseteq {run[t]}
  <2>1. Running(vm) \subseteq Owned
    BY <1>1 DEF HostInv, SomeReaped
  <2>2. Owned = {NoRun, run[t]}
    BY <1>1 DEF Owned, HostInv
  <2> QED
    BY <2>1, <2>2, NoRunIsNone
<1>5. /\ vm'.supervised = run[t]
      /\ w => vm'.pidFile = run[t]
      /\ Running(vm') \subseteq {run[t]}
  BY <1>1, <1>2, <1>3, <1>4, RecordedOK
<1>6. \A u \in Task : ~Recording(u)'
  BY <1>1 DEF HostInv, Record, Goto, LocalsOK, Recording, At
<1> QED
  BY <1>3, <1>5, <1>6 DEF HostInv, Owned, PidFileNamesVm, PidFileWorks

LEMMA SwapHost ==
  ASSUME Contained, SessionInv, HostInv, NEW t \in Task, Swap(t)
  PROVE  HostInv'
<1>1. /\ LocalsOK /\ VmFree /\ ~Recording(t)
      /\ Running(vm) \subseteq {vm.supervised}
  BY SessionInvParts, OwnedFree
  DEF Swap, At, Recording, HostInv, SomeReaped, PastReap, LaunchedPc
<1>2. PICK killed, down, ready :
           /\ killed \in Kills
           /\ MgrOK(down)
           /\ Running(down) \subseteq Running(vm)
           /\ killed => Running(down) \subseteq Running(vm) \ {vm.supervised}
           /\ \/ /\ NewRun \in Run
                 /\ MgrOK(ready) /\ ready.config = NewRun /\ ready.supervised = NoRun
                 /\ Running(ready) = Running(down)
                 /\ \/ /\ vm' = Spawned(ready, NewRun)
                       /\ run' = [run EXCEPT ![t] = NewRun]
                       /\ Goto(t, "rerecord")
                    \/ /\ vm' = SpawnFailed(ready)
                       /\ Return(t)
              \/ /\ vm' = down
                 /\ Return(t)
  BY SwapCases
<1>3. Running(down) = {}
  <2>1. CASE killed
    BY <1>1, <1>2, <2>1
  <2>2. CASE ~killed
    <3>1. "job" \in Faults /\ "kill" \in Faults
      BY <1>2, <2>2, Zenon DEF Kills
    <3> QED
      BY <3>1 DEF Contained
  <2> QED
    BY <1>2, <2>1, <2>2, KillsBoolean
<1>4. Return(t) => \A u \in Task : ~Recording(u)'
  BY <1>1, RecordingFrame DEF RecordingSame, VmFree
<1>5. CASE vm' = down /\ Return(t)
  BY <1>3, <1>4, <1>5, HostInvNone
<1>6. CASE /\ NewRun \in Run
           /\ MgrOK(ready) /\ ready.config = NewRun /\ ready.supervised = NoRun
           /\ Running(ready) = {}
  <2>1. PollExited(ready) = ready /\ NewRun # NoRun
    BY <1>6 DEF PollExited, HasExited, Run
  <2>2. CASE vm' = SpawnFailed(ready) /\ Return(t)
    BY <1>4, <1>6, <2>2, SpawnFailedOK, HostInvNone
  <2>3. CASE /\ vm' = Spawned(ready, NewRun)
             /\ run' = [run EXCEPT ![t] = NewRun]
             /\ Goto(t, "rerecord")
    <3>1. vm'.supervised = NoRun /\ Running(vm') \subseteq {NewRun}
      BY <1>6, <2>1, <2>3, SpawnedOK
    <3>2. run'[t] = NewRun
      BY <1>1, <2>3 DEF LocalsOK
    <3> QED
      BY <1>1, <1>6, <2>3, <3>1, <3>2, LaunchHost
  <2>4. CASE vm' = down /\ Return(t)
    BY <1>5, <2>4
  <2> QED
    BY <1>2, <2>2, <2>3, <2>4
<1> QED
  BY <1>2, <1>3, <1>5, <1>6

LEMMA EndHost ==
  ASSUME Contained, SessionInv, HostInv, NEW t \in Task,
         WaitExit(t) \/ SetReady(t) \/ FailStop(t) \/ StopVm(t)
  PROVE  HostInv'
<1>1. \A u \in Task : pc'[u] \in PastReap => pc[u] \in PastReap
  BY DEF WaitExit, SetReady, FailStop, StopVm, NotReady, AfterStop, Return, Continue,
         Goto, At, PastReap, SessionInv, TypeOK, Pc, LaunchedPc
<1>2. MgrOK(vm) /\ LocalsOK /\ VmFree /\ ~Recording(t) /\ Kills \subseteq BOOLEAN
  BY SessionInvParts, KillsBoolean
  DEF WaitExit, SetReady, FailStop, StopVm, Recording, At
<1>3. RecordingSame
  <2>1. Return(t) \/ \E l \in Elsewhere : Goto(t, l) /\ run' = run
    BY DEF WaitExit, SetReady, FailStop, StopVm, NotReady, AfterStop, Continue, locals,
           Elsewhere
  <2> QED
    BY <1>2, <2>1, RecordingFrame
<1>4. \A u \in Task : ~Recording(u)'
  BY <1>2, <1>3 DEF RecordingSame, VmFree
<1>5. CASE WaitExit(t)
  <2>1. CASE vm' = vm
    BY <1>1, <1>3, <2>1, HostInvFrame
  <2>2. CASE vm' # vm
    <3>1. Running(vm) = {}
      BY <1>2, <1>5, <2>2, PollOK, OwnedFree DEF WaitExit, HostInv, HasExited, Running
    <3> QED
      BY <1>2, <1>4, <1>5, <3>1, PollOK, HostInvNone DEF WaitExit
  <2> QED
    BY <2>1, <2>2
<1>6. CASE SetReady(t)
  BY <1>1, <1>2, <1>3, <1>6, MarkReadyOK, HostInvFrame DEF SetReady
<1>7. CASE FailStop(t)
  <2>1. PICK k \in Kills : vm' = MarkFailed(Stop(vm, k))
    BY <1>7 DEF FailStop
  <2>2. /\ MgrOK(Stop(vm, k)) /\ Stop(vm, k).supervised = NoRun
        /\ vm'.supervised = NoRun
        /\ vm'.pidFile = Stop(vm, k).pidFile
        /\ Running(vm') = Running(Stop(vm, k))
    BY <1>2, <2>1, StopOK, MarkFailedOK
  <2>3. CASE vm.supervised = NoRun
    <3>1. Stop(vm, k) = vm
      BY <1>2, <2>3, StopOK
    <3> QED
      BY <1>1, <1>3, <2>2, <2>3, <3>1, HostInvFrame
  <2>4. CASE vm.supervised # NoRun
    BY <1>2, <1>4, <2>1, <2>2, <2>4, StopHost, HostInvNone
  <2> QED
    BY <2>3, <2>4
<1>8. CASE StopVm(t)
  <2>1. PICK k \in Kills : vm' = Stop(vm, k)
    BY <1>8 DEF StopVm
  <2>2. CASE vm.supervised = NoRun
    <3>1. vm' = vm
      BY <1>2, <2>1, <2>2, StopOK
    <3> QED
      BY <1>1, <1>3, <3>1, HostInvFrame
  <2>3. CASE vm.supervised # NoRun
    BY <1>2, <1>4, <2>1, <2>3, StopHost, HostInvNone
  <2> QED
    BY <2>2, <2>3
<1> QED
  BY <1>5, <1>6, <1>7, <1>8

(* A relaunch leaves what vm.pid names, or nothing. *)
LEMMA RelaunchHost ==
  ASSUME Contained, SessionInv, HostInv, Relaunch
  PROVE  HostInv'
<1>1. \A u \in Task : pc'[u] = "idle"
  BY DEF Relaunch
<1>2. \A u \in Task : ~Recording(u)'
  BY <1>1 DEF Recording
<1>3. PICK contained \in Contains :
        vm' = NewManager(vm.pidFile, vm.alive,
                         vm.doomed \cup (IF contained THEN Owned \cap vm.alive ELSE {}))
  BY DEF Relaunch
<1>4. /\ vm'.supervised = NoRun
      /\ vm'.pidFile = vm.pidFile
      /\ Running(vm') = IF contained THEN Running(vm) \ Owned ELSE Running(vm)
  BY <1>3 DEF NewManager, Running
<1>5. CASE contained /\ Running(vm) \subseteq Owned
  BY <1>2, <1>4, <1>5, HostInvNone
<1>6. CASE "job" \notin Faults
  <2>1. contained
    BY <1>3, <1>6, Zenon DEF Contains
  <2> QED
    BY <1>5, <1>6, <2>1 DEF HostInv
<1>7. CASE "job" \in Faults /\ ~VmFree
  <2>1. contained
    <3>1. Contains = {TRUE}
      BY <1>7 DEF Contains, Contained
    <3> QED
      BY <1>3, <3>1
  <2>2. SomeReaped
    BY <1>7 DEF VmFree, Recording, SomeReaped, PastReap, LaunchedPc
  <2> QED
    BY <1>5, <2>1, <2>2 DEF HostInv
<1>8. CASE "job" \in Faults /\ VmFree
  <2>1. Running(vm) \subseteq {vm.pidFile}
    BY <1>8 DEF Contained, HostInv, PidFileWorks, PidFileNamesVm, VmFree
  <2>2. ~SomeReaped'
    BY <1>1 DEF SomeReaped, PastReap, LaunchedPc
  <2> QED
    BY <1>2, <1>4, <1>8, <2>1, <2>2 DEF HostInv, PidFileNamesVm
<1> QED
  BY <1>6, <1>7, <1>8

LEMMA GuestHost ==
  ASSUME SessionInv, HostInv, Guest
  PROVE  HostInv'
<1>1. /\ vm'.supervised = vm.supervised
      /\ vm'.pidFile = vm.pidFile
      /\ Running(vm') \subseteq Running(vm)
  BY DEF Guest, GuestUp, GuestDies, GuestWrites, SessionInv, MgrOK, Manager, Running
<1>2. pc' = pc /\ run' = run
  BY DEF Guest, GuestUp, GuestDies, GuestWrites, locals
<1>3. RecordingSame
  BY <1>2 DEF RecordingSame, Recording
<1> QED
  BY <1>1, <1>2, <1>3, HostInvFrame

LEMMA HostInvInductive ==
  ASSUME Contained
  PROVE  SessionInv /\ HostInv /\ [Next]_vars => HostInv'
<1> SUFFICES ASSUME SessionInv, HostInv, [Next]_vars PROVE HostInv'
  OBVIOUS
<1>1. ASSUME NEW t \in Task, Invoke(t) \/ QuietStep(t) PROVE HostInv'
  BY <1>1, InvokeFrame, QuietFrame, HostInvFrame DEF LaunchesKept
<1>2. ASSUME NEW t \in Task, Step(t) PROVE HostInv'
  BY <1>1, <1>2, ReapHost, PrepareHost, StartHost, RecordHost, SwapHost, EndHost
  DEF Step, StartStep, StopStep, PrepareStep, QuietStep
<1>3. CASE UNCHANGED vars
  BY <1>3, HostInvFrame DEF vars, host, locals, RecordingSame, Recording
<1> QED
  BY <1>1, <1>2, <1>3, GuestHost, RelaunchHost DEF Next

LEMMA HostInvAlways ==
  ASSUME Contained
  PROVE  Spec => []HostInv
BY HostInvInit, HostInvInductive, SessionInvAlways, PTL DEF Spec

(* As long as the job object works, or else vm.pid and the kills do, two   *)
(* QEMUs that nobody has told to end never run together, whatever commands *)
(* overlap and whenever the application ends.                              *)
THEOREM AtMostOneVm ==
  ASSUME Contained
  PROVE  Spec => []OneVm
<1>1. SessionInv /\ HostInv => OneVm
  <2> SUFFICES ASSUME SessionInv, HostInv PROVE \E x : Running(vm) \subseteq {x}
    BY DEF OneVm
  <2>1. CASE VmFree /\ "job" \in Faults
    BY <2>1 DEF Contained, HostInv, PidFileWorks, PidFileNamesVm, VmFree
  <2>2. CASE VmFree /\ "job" \notin Faults
    BY <2>2, OwnedFree DEF HostInv
  <2>3. ASSUME NEW t \in Task, Recording(t) PROVE Running(vm) \subseteq {run[t]}
    <3>1. SomeReaped
      BY <2>3 DEF Recording, SomeReaped, PastReap, LaunchedPc
    <3>2. Running(vm) \subseteq Owned
      BY <3>1 DEF HostInv
    <3>3. Owned = {NoRun, run[t]}
      BY <2>3 DEF Owned, HostInv
    <3> QED
      BY <3>2, <3>3, NoRunIsNone
  <2> QED
    BY <2>1, <2>2, <2>3 DEF VmFree
<1> QED
  BY <1>1, SessionInvAlways, HostInvAlways, PTL

(* If vm.pid can be written and the process it names be found, it names    *)
(* every QEMU that nobody has told to end but the one being recorded.      *)
THEOREM SurvivorIsNamed ==
  ASSUME Contained, "pidWrite" \notin Faults, "miss" \notin Faults
  PROVE  Spec => []PidFileNamesVm
<1>1. HostInv => PidFileNamesVm
  BY DEF HostInv, PidFileWorks
<1> QED
  BY <1>1, HostInvAlways, PTL

---------------------------------------------------------------------------
(* Transitional states are always on their way out.                        *)

(* The only transitional state that a task with the mutex can meet is      *)
(* BootingGuest, and the start that caused it, or one that replaced it, is *)
(* under way.                                                              *)
InFlightInv ==
  Transitional(vm.state) =>
    /\ vm.state = "BootingGuest" \/ \E t \in Task : Recording(t)
    /\ \E t \in Task : pc[t] \in LaunchedPc

LEMMA InFlightInit == Init => InFlightInv
BY DEF Init, InFlightInv, NewManager, Transitional

(* A step that keeps the state and ends no launch. *)
LEMMA InFlightFrame ==
  ASSUME InFlightInv, vm'.state = vm.state,
         \A u \in Task : Recording(u) => Recording(u)',
         \A u \in Task : pc[u] \in LaunchedPc => pc'[u] \in LaunchedPc
  PROVE  InFlightInv'
BY DEF InFlightInv

LEMMA InFlightSettled == ~Transitional(vm'.state) => InFlightInv'
BY DEF InFlightInv

LEMMA InFlightLaunched ==
  ASSUME NEW t \in Task, pc'[t] \in LaunchedPc,
         vm'.state = "BootingGuest" \/ Recording(t)'
  PROVE  InFlightInv'
BY DEF InFlightInv

LEMMA PollInFlight ==
  ASSUME SessionInv, InFlightInv, VmFree, vm' = PollExited(vm),
         \A u \in Task : pc[u] \in LaunchedPc => pc'[u] \in LaunchedPc
  PROVE  InFlightInv'
<1>1. CASE vm' = vm
  BY <1>1, InFlightFrame DEF VmFree
<1>2. CASE vm' # vm
  BY <1>2, PollOK, InFlightSettled DEF SessionInv, Transitional
<1> QED
  BY <1>1, <1>2

LEMMA StopInFlight ==
  ASSUME SessionInv, InFlightInv, VmFree, NEW killed \in BOOLEAN
  PROVE  ~Transitional(Stop(vm, killed).state)
<1>1. MgrOK(vm)
  BY DEF SessionInv
<1>2. CASE vm.supervised = NoRun
  BY <1>1, <1>2, StopOK DEF InFlightInv, VmFree, MgrOK, Transitional
<1>3. CASE vm.supervised # NoRun
  BY <1>1, <1>3, StopOK DEF Transitional
<1> QED
  BY <1>2, <1>3

LEMMA SwapInFlight ==
  ASSUME "spawn" \notin Faults, SessionInv, InFlightInv, NEW t \in Task, Swap(t)
  PROVE  InFlightInv'
<1>1. PICK killed, down, ready :
           /\ killed \in Kills
           /\ down = UseSoftwareAcceleration(Stop(vm, killed))
           /\ \/ Goto(t, "rerecord")
              \/ vm' = down
  BY SwapCases
<1>2. CASE vm' = down
  <2>1. killed \in BOOLEAN /\ VmFree /\ MgrOK(vm)
    BY <1>1, KillsBoolean DEF Swap, SessionInv
  <2>2. down.state = Stop(vm, killed).state
    BY <1>1, <2>1, StopOK, UseTcgOK
  <2> QED
    BY <1>2, <2>1, <2>2, StopInFlight, InFlightSettled
<1>3. CASE Goto(t, "rerecord")
  <2>1. pc'[t] = "rerecord"
    BY <1>3 DEF Goto, SessionInv, TypeOK
  <2> QED
    BY <2>1, InFlightLaunched DEF LaunchedPc, Recording
<1> QED
  BY <1>1, <1>2, <1>3

LEMMA TaskInFlight ==
  ASSUME "spawn" \notin Faults, SessionInv, InFlightInv, NEW t \in Task, Step(t)
  PROVE  InFlightInv'
<1> DEFINE Stays == \A u \in Task : pc[u] \in LaunchedPc => pc'[u] \in LaunchedPc
<1>1. MgrOK(vm) /\ LocalsOK
  BY SessionInvParts
<1>2. pc \in [Task -> Pc] /\ pc[t] \in Pc
  BY DEF SessionInv, TypeOK
<1>3. ASSUME NEW l, Goto(t, l), pc[t] \notin LaunchedPc \/ l \in LaunchedPc
      PROVE  Stays
  BY <1>2, <1>3 DEF Goto
<1>4. CASE QuietStep(t)
  BY <1>4, QuietFrame, InFlightFrame DEF LaunchesKept, RecordingSame
<1>5. CASE Reap(t)
  <2>1. Stays
    BY <1>3, <1>5 DEF Reap, At, LaunchedPc
  <2>2. vm'.state = vm.state
    BY <1>5, ReapKeeps
  <2> QED
    BY <1>5, <2>1, <2>2, InFlightFrame DEF Reap, VmFree
<1>6. CASE Prepare(t)
  <2>1. Stays
    BY <1>3, <1>6 DEF Prepare, Return, At, LaunchedPc
  <2>2. vm'.state = vm.state
    <3>1. CASE vm' = SetConfig(vm, NewRun) /\ Configure(kind[t], vm.accel)
      <4>1. NewRun \in Run
        BY <3>1, ConfigureOK DEF SessionInv, TypeOK, MgrOK, Manager
      <4> QED
        BY <1>1, <3>1, <4>1, SetConfigOK
    <3> QED
      BY <1>6, <3>1 DEF Prepare
  <2> QED
    BY <1>6, <2>1, <2>2, InFlightFrame DEF Prepare, VmFree
<1>7. CASE Start(t)
  <2>1. CASE vm' = PollExited(vm) /\ Return(t)
    <3>1. Stays
      BY <1>3, <1>7, <2>1 DEF Start, Return, At, LaunchedPc
    <3> QED
      BY <1>7, <2>1, <3>1, PollInFlight DEF Start
  <2>2. CASE Continue(t, "record")
    <3>1. pc'[t] = "record"
      BY <1>2, <2>2 DEF Goto, Continue
    <3> QED
      BY <3>1, InFlightLaunched DEF LaunchedPc, Recording
  <2> QED
    BY <1>7, <2>1, <2>2 DEF Start
<1>8. CASE Record(t)
  <2>1. run[t] \in Run /\ vm.config # NoRun
    BY <1>8, <1>1 DEF Record, Recording, LocalsOK, SessionInv
  <2>2. vm'.state = "BootingGuest"
    <3>1. PICK w \in BOOLEAN : vm' = Recorded(vm, run[t], w)
      BY <1>8, OutcomesBoolean DEF Record
    <3> QED
      BY <1>1, <2>1, <3>1, RecordedOK
  <2>3. pc'[t] \in LaunchedPc
    BY <1>2, <1>8 DEF Record, Goto, LaunchedPc
  <2> QED
    BY <2>2, <2>3, InFlightLaunched
<1>9. CASE WaitExit(t)
  <2>1. Stays
    BY <1>3, <1>9 DEF WaitExit, NotReady, LaunchedPc
  <2> QED
    BY <1>9, <2>1, PollInFlight DEF WaitExit
<1>10. CASE SetReady(t)
  BY <1>1, <1>10, MarkReadyOK, InFlightSettled DEF SetReady, Transitional
<1>11. CASE FailStop(t)
  <2>1. PICK k \in BOOLEAN : vm' = MarkFailed(Stop(vm, k))
    BY <1>11, KillsBoolean DEF FailStop
  <2> QED
    BY <1>1, <2>1, StopOK, MarkFailedOK, InFlightSettled DEF Transitional
<1>12. CASE StopVm(t)
  <2>1. PICK k \in BOOLEAN : vm' = Stop(vm, k)
    BY <1>12, KillsBoolean DEF StopVm
  <2> QED
    BY <1>12, <2>1, StopInFlight, InFlightSettled DEF StopVm
<1> QED
  BY <1>4, <1>5, <1>6, <1>7, <1>8, <1>9, <1>10, <1>11, <1>12, SwapInFlight
  DEF Step, StartStep, StopStep, PrepareStep, QuietStep

LEMMA InFlightInductive ==
  ASSUME "spawn" \notin Faults
  PROVE  SessionInv /\ InFlightInv /\ [Next]_vars => InFlightInv'
<1> SUFFICES ASSUME SessionInv, InFlightInv, [Next]_vars PROVE InFlightInv'
  OBVIOUS
<1>1. ASSUME NEW t \in Task, Invoke(t) PROVE InFlightInv'
  BY <1>1, InvokeFrame, InFlightFrame DEF LaunchesKept, RecordingSame
<1>2. CASE Guest
  <2>1. vm'.state = vm.state /\ pc' = pc
    BY <1>2 DEF Guest, GuestUp, GuestDies, GuestWrites, SessionInv, MgrOK, Manager
  <2> QED
    BY <2>1, InFlightFrame DEF Recording
<1>3. CASE Relaunch
  BY <1>3, InFlightSettled DEF Relaunch, NewManager, Transitional
<1>4. CASE UNCHANGED vars
  BY <1>4, InFlightFrame DEF vars, host, Recording
<1> QED
  BY <1>1, <1>2, <1>3, <1>4, TaskInFlight DEF Next

(* When QEMU can be launched, a transitional state always has a start      *)
(* under way that will settle it, whatever else runs.                      *)
THEOREM TransitionalIsInFlight ==
  ASSUME "spawn" \notin Faults
  PROVE  Spec => []TransitionalMeansInFlight
<1>1. InFlightInv => TransitionalMeansInFlight
  BY DEF InFlightInv, TransitionalMeansInFlight
<1> QED
  BY <1>1, InFlightInit, InFlightInductive, SessionInvAlways, PTL DEF Spec

---------------------------------------------------------------------------
(* Commands issued one at a time: the application state and the machine.   *)

(* There is one task, which is to say that the front end waits for a       *)
(* command to return before it issues the next.                            *)
Alone == \E t : Task = {t}

(* The shared client and session are those of the supervised machine.      *)
SharedFits ==
  vm.supervised # NoRun =>
    agent = vm.supervised /\ session = launch[vm.supervised].overlay

(* The command's own configuration is of the kind it is about.             *)
OwnConfig(t) ==
  run[t] \in 1..Len(launch) /\ launch[run[t]].overlay = kind[t]

(* Where a command has changed one of machine, client and session, and not *)
(* yet the others.                                                         *)
Halfway == {"publish", "swap", "republish", "failStop", "stopVm"}

(* Where the machine that runs is the one the command started.             *)
OwnMachine == {"publish", "attach", "wait", "pinging", "ready", "republish"}

(* Where the session has been published and not been given up.             *)
Published == (OwnMachine \ {"publish"}) \cup {"fallback", "swap", "rerecord"}

InGuest == {"requireReady", "getAgent", "prepareLock", "preparing"}

TaskInv(t) ==
  /\ pc[t] \notin Halfway => SharedFits
  /\ pc[t] \in OwnMachine \cup Launching => OwnConfig(t)
  /\ pc[t] \in OwnMachine => vm.supervised = run[t]
  /\ pc[t] \in {"record", "rerecord"} => vm.supervised = NoRun
  /\ pc[t] \in Published => session = kind[t]
  /\ pc[t] \in InGuest /\ op[t] = "restartLesson" =>
       /\ OwnConfig(t)
       /\ vm.supervised = run[t]
       /\ pc[t] \in {"prepareLock", "preparing"} => cli[t] = run[t]

AloneInv ==
  /\ vm.state = "Ready" => vm.supervised # NoRun
  /\ vm.supervised # NoRun => vm.supervised \in 1..Len(launch)
  /\ \A p \in prepared : p[3] = "restartLesson" =>
       p[1] \in 1..Len(launch) /\ launch[p[1]].overlay = p[2]
  /\ \A t \in Task : TaskInv(t)

LEMMA AloneInvInit == Init => AloneInv
<1> SUFFICES ASSUME Init PROVE AloneInv
  OBVIOUS
<1>1. vm.supervised = NoRun /\ vm.state = "Stopped" /\ prepared = {}
  BY DEF Init, NewManager
<1>2. \A t \in Task : pc[t] = "idle"
  BY DEF Init
<1> QED
  BY <1>1, <1>2
  DEF AloneInv, TaskInv, SharedFits, Halfway, OwnMachine, Published, InGuest, Launching

(* Where the one task goes.                                                *)
LEMMA AloneGoto ==
  ASSUME Alone, SessionInv, NEW t \in Task
  PROVE  /\ \A u \in Task : u = t
         /\ \A l : Goto(t, l) => \A u \in Task : u = t /\ pc'[u] = l
         /\ Return(t) => \A u \in Task : u = t /\ pc'[u] = "idle"
<1>1. PICK s : Task = {s}
  BY DEF Alone
<1>2. \A u \in Task : u = t
  BY <1>1
<1> QED
  BY <1>2 DEF SessionInv, TypeOK, Goto, Return

(* Appending a configuration leaves the earlier ones as they were.         *)
LEMMA AppendKeeps ==
  ASSUME SessionInv, NEW k \in Overlay, NEW a \in Accel, Configure(k, a)
  PROVE  /\ \A r \in 1..Len(launch) : r \in 1..Len(launch') /\ launch'[r] = launch[r]
         /\ NewRun \in 1..Len(launch')
         /\ launch'[NewRun].overlay = k
         /\ NewRun \in Run
<1>1. launch \in Seq([overlay : Overlay, accel : Accel])
  BY DEF SessionInv, TypeOK
<1>2. [overlay |-> k, accel |-> a] \in [overlay : Overlay, accel : Accel]
  OBVIOUS
<1> DEFINE e == [overlay |-> k, accel |-> a]
<1>3. launch' = Append(launch, e) /\ NewRun = Len(launch) + 1 /\ Len(launch) \in Nat
  BY <1>1 DEF Configure, NewRun
<1>4. e.overlay = k
  OBVIOUS
<1> HIDE DEF e
<1>5. /\ Len(launch') = Len(launch) + 1
      /\ \A r \in 1..Len(launch) : launch'[r] = launch[r]
      /\ launch'[Len(launch) + 1] = e
  BY <1>1, <1>2, <1>3 DEF e
<1> QED
  BY <1>3, <1>4, <1>5, ConfigureOK

(* A command that returns leaves nothing halfway. *)
LEMMA ReturnAlone ==
  ASSUME Alone, SessionInv, AloneInv, NEW t \in Task, Return(t),
         UNCHANGED <<launch, prepared>>,
         vm'.state = "Ready" => vm'.supervised # NoRun,
         vm'.supervised = NoRun \/ vm'.supervised = vm.supervised,
         SharedFits'
  PROVE  AloneInv'
<1>1. \A u \in Task : pc'[u] = "idle"
  BY AloneGoto
<1> QED
  BY <1>1
  DEF AloneInv, TaskInv, Halfway, OwnMachine, Published, InGuest, Launching

(* The quiet steps, which leave the manager and the configurations alone. *)
LEMMA QuietAlone ==
  ASSUME Alone, SessionInv, AloneInv, NEW t \in Task, QuietStep(t)
  PROVE  AloneInv'
<1> USE DEF AloneInv, TaskInv, SharedFits, OwnConfig, Halfway, OwnMachine,
            Published, InGuest, Launching, host, app, locals
<1>0. /\ \A l : Goto(t, l) => \A u \in Task : u = t /\ pc'[u] = l
      /\ Return(t) => \A u \in Task : u = t /\ pc'[u] = "idle"
      /\ \A u \in Task : u = t
      /\ cli \in [Task -> Run \cup {NoRun}]
      /\ launch \in Seq([overlay : Overlay, accel : Accel])
  BY AloneGoto DEF SessionInv, TypeOK
<1>20. \A r \in 1..Len(launch) : r # NoRun
  BY <1>0 DEF NoRun
<1>1. CASE Publish(t)
  BY <1>0, <1>1 DEF Publish, At
<1>2. CASE Attach(t)
  BY <1>0, <1>2 DEF Attach, At
<1>3. CASE Ping(t)
  BY <1>0, <1>3 DEF Ping, At
<1>4. CASE PingLost(t)
  BY <1>0, <1>4 DEF PingLost, At
<1>5. CASE Pong(t)
  BY <1>0, <1>5 DEF Pong, At
<1>6. CASE WaitTimeout(t)
  BY <1>0, <1>6 DEF WaitTimeout, NotReady, At
<1>7. CASE Fallback(t)
  BY <1>0, <1>7 DEF Fallback, At
<1>8. CASE Republish(t)
  BY <1>0, <1>8 DEF Republish, At
<1>9. CASE Fail(t)
  BY <1>0, <1>9 DEF Fail, At
<1>10. CASE Ask(t)
  BY <1>0, <1>10 DEF Ask, At
<1>11. CASE AskSend(t)
  BY <1>0, <1>11 DEF AskSend, At
<1>12. CASE AskDone(t)
  BY <1>0, <1>12 DEF AskDone, At
<1>13. CASE Unpublish(t)
  BY <1>0, <1>13 DEF Unpublish, At
<1>14. CASE RestoreDisk(t)
  BY <1>0, <1>14 DEF RestoreDisk, At
<1>15. CASE ResetDisk(t)
  BY <1>0, <1>15 DEF ResetDisk, At
<1>16. CASE RequireReady(t)
  BY <1>0, <1>16 DEF RequireReady, Continue, At
<1>17. CASE GetAgent(t)
  BY <1>0, <1>20, <1>17 DEF GetAgent, At
<1>18. CASE PrepareSend(t)
  BY <1>0, <1>18 DEF PrepareSend, Continue, At
<1>19. CASE PrepareDone(t)
  <2> DEFINE new == <<cli[t], kind[t], op[t]>>
  <2>1. \A p \in prepared' : p \in prepared \/ p = new
    BY <1>19 DEF PrepareDone
  <2>2. new[1] = cli[t] /\ new[2] = kind[t] /\ new[3] = op[t]
    OBVIOUS
  <2> HIDE DEF new
  <2>3. /\ UNCHANGED <<vm, launch, agent, session>>
        /\ pc[t] = "preparing"
        /\ Return(t)
    BY <1>19 DEF PrepareDone, At
  <2>4. op[t] = "restartLesson" =>
          cli[t] \in 1..Len(launch) /\ launch[cli[t]].overlay = kind[t]
    BY <2>3
  <2> QED
    BY <1>0, <2>1, <2>2, <2>3, <2>4
<1> QED
  BY <1>1, <1>2, <1>3, <1>4, <1>5, <1>6, <1>7, <1>8, <1>9, <1>10, <1>11, <1>12,
     <1>13, <1>14, <1>15, <1>16, <1>17, <1>18, <1>19 DEF QuietStep

(* A command finds the client and the session as the last one left them.   *)
LEMMA InvokeAlone ==
  ASSUME Alone, SessionInv, AloneInv, NEW t \in Task, Invoke(t)
  PROVE  AloneInv'
<1> USE DEF AloneInv, TaskInv, SharedFits, OwnConfig, Halfway, OwnMachine,
            Published, InGuest, Launching, host, app, locals, At
<1>1. /\ \A l : Goto(t, l) => \A u \in Task : u = t /\ pc'[u] = l
      /\ \A u \in Task : u = t
      /\ op \in [Task -> AllOps]
  BY AloneGoto DEF SessionInv, TypeOK
<1>2. ASSUME NEW k, NEW o, NEW l \in {"reap", "ask"}, Begin(t, o, k, l)
      PROVE  AloneInv'
  BY <1>1, <1>2 DEF Begin
<1>3. CASE PrepareLesson(t)
  BY <1>1, <1>3 DEF PrepareLesson, Begin
<1>4. CASE HealthCheck(t)
  BY <1>4 DEF HealthCheck
<1>5. CASE \/ StartSession(t) \/ StopSession(t) \/ RestartVm(t) \/ RestartLesson(t)
           \/ RestoreSnapshot(t) \/ FactoryReset(t)
  BY <1>2, <1>5 DEF StartSession, StopSession, RestartVm, RestartLesson,
                    RestoreSnapshot, FactoryReset
<1> QED
  BY <1>3, <1>4, <1>5 DEF Invoke

LEMMA PrepareAlone ==
  ASSUME Alone, SessionInv, AloneInv, NEW t \in Task, Prepare(t)
  PROVE  AloneInv'
<1>1. /\ \A l : Goto(t, l) => \A u \in Task : u = t /\ pc'[u] = l
      /\ \A u \in Task : u = t
      /\ kind[t] \in Overlay /\ vm.accel \in Accel
      /\ run \in [Task -> Run \cup {NoRun}]
      /\ MgrOK(vm)
  BY AloneGoto DEF SessionInv, TypeOK, MgrOK, Manager
<1>2. CASE /\ Configure(kind[t], vm.accel)
           /\ vm' = SetConfig(vm, NewRun)
           /\ run' = [run EXCEPT ![t] = NewRun]
           /\ Goto(t, "start")
           /\ UNCHANGED <<op, kind, cli>>
  <2>1. /\ \A r \in 1..Len(launch) : r \in 1..Len(launch') /\ launch'[r] = launch[r]
        /\ NewRun \in 1..Len(launch')
        /\ launch'[NewRun].overlay = kind[t]
        /\ NewRun \in Run
    BY <1>1, <1>2, AppendKeeps
  <2>2. vm'.supervised = vm.supervised /\ vm'.state = vm.state
    BY <1>1, <1>2, <2>1, SetConfigOK
  <2>3. run'[t] = NewRun
    BY <1>1, <1>2
  <2> QED
    BY <1>1, <1>2, <2>1, <2>2, <2>3
    DEF Prepare, AloneInv, TaskInv, SharedFits, OwnConfig, Halfway, OwnMachine,
        Published, InGuest, Launching, app, At
<1>3. CASE Return(t) /\ UNCHANGED <<vm, launch>>
  <2>1. SharedFits' /\ UNCHANGED prepared
    BY <1>1, <1>3 DEF Prepare, At, AloneInv, TaskInv, SharedFits, Halfway, app
  <2> QED
    BY <1>3, <2>1, ReturnAlone DEF AloneInv
<1> QED
  BY <1>2, <1>3 DEF Prepare

LEMMA StartAlone ==
  ASSUME Alone, SessionInv, AloneInv, NEW t \in Task, Start(t)
  PROVE  AloneInv'
<1>1. /\ \A l : Goto(t, l) => \A u \in Task : u = t /\ pc'[u] = l
      /\ \A u \in Task : u = t
      /\ run[t] \in Run /\ vm.config # NoRun
      /\ MgrOK(vm)
      /\ pc[t] = "start"
      /\ UNCHANGED <<launch, app>>
  BY AloneGoto DEF SessionInv, TypeOK, Start, At
<1>2. SharedFits /\ OwnConfig(t)
  BY <1>1 DEF AloneInv, TaskInv, Halfway, Launching
<1>3. CASE AlreadyRunning(vm) /\ vm' = PollExited(vm) /\ Return(t)
  <2>1. vm' = vm
    BY <1>1, <1>3, PollOK DEF AlreadyRunning
  <2> QED
    BY <1>1, <1>2, <1>3, <2>1, ReturnAlone DEF SharedFits, app, AloneInv
<1>4. CASE ~AlreadyRunning(vm) /\ vm' = Spawned(vm, run[t]) /\ Continue(t, "record")
  <2>1. vm'.supervised = NoRun /\ vm'.state = "Starting"
    BY <1>1, <1>4, SpawnedOK DEF AlreadyRunning
  <2> QED
    BY <1>1, <1>2, <1>4, <2>1
    DEF Continue, locals, app, AloneInv, TaskInv, SharedFits, OwnConfig, Halfway,
        OwnMachine, Published, InGuest, Launching
<1>5. CASE ~AlreadyRunning(vm) /\ vm' = SpawnFailed(vm) /\ Return(t)
  <2>1. vm'.supervised = NoRun /\ vm'.state = "Starting"
    BY <1>1, <1>5, SpawnFailedOK DEF AlreadyRunning
  <2> QED
    BY <1>1, <1>5, <2>1, ReturnAlone DEF SharedFits, app
<1> QED
  BY <1>3, <1>4, <1>5 DEF Start

(* The machine recorded is the command's own; client and session follow. *)
LEMMA RecordAlone ==
  ASSUME Alone, SessionInv, AloneInv, NEW t \in Task, Record(t)
  PROVE  AloneInv'
<1>1. /\ \A l : Goto(t, l) => \A u \in Task : u = t /\ pc'[u] = l
      /\ \A u \in Task : u = t
      /\ MgrOK(vm)
      /\ pc[t] \in {"record", "rerecord"}
      /\ UNCHANGED <<launch, app, locals>>
      /\ Goto(t, IF At(t, "record") THEN "publish" ELSE "republish")
      /\ run[t] \in Run /\ vm.config # NoRun
  BY AloneGoto DEF Record, Recording, SessionInv, TypeOK
<1>2. PICK w \in BOOLEAN : vm' = Recorded(vm, run[t], w)
  BY OutcomesBoolean DEF Record
<1>3. vm'.supervised = run[t] /\ vm'.state = "BootingGuest"
  BY <1>1, <1>2, RecordedOK
<1>4. /\ OwnConfig(t)
      /\ pc[t] = "rerecord" => session = kind[t]
  BY <1>1 DEF AloneInv, TaskInv, Launching, Published
<1> QED
  BY <1>1, <1>3, <1>4
  DEF At, locals, app, AloneInv, TaskInv, SharedFits, OwnConfig, Halfway, OwnMachine,
      Published, InGuest, Launching

LEMMA SwapAlone ==
  ASSUME Alone, SessionInv, AloneInv, NEW t \in Task, Swap(t)
  PROVE  AloneInv'
<1>1. /\ \A l : Goto(t, l) => \A u \in Task : u = t /\ pc'[u] = l
      /\ \A u \in Task : u = t
      /\ kind[t] \in Overlay /\ "tcg" \in Accel
      /\ run \in [Task -> Run \cup {NoRun}]
      /\ MgrOK(vm)
      /\ pc[t] = "swap"
      /\ UNCHANGED app
  BY AloneGoto DEF SessionInv, TypeOK, Accel, Swap, At
<1>2. PICK killed, down, ready :
           /\ killed \in Kills
           /\ down = UseSoftwareAcceleration(Stop(vm, killed))
           /\ down.supervised = NoRun
           /\ \/ /\ Configure(kind[t], "tcg")
                 /\ MgrOK(ready) /\ ready.supervised = NoRun
                 /\ \/ /\ vm' = Spawned(ready, NewRun)
                       /\ run' = [run EXCEPT ![t] = NewRun]
                       /\ Goto(t, "rerecord")
                       /\ UNCHANGED <<op, kind, cli>>
                    \/ /\ vm' = SpawnFailed(ready)
                       /\ Return(t)
              \/ /\ vm' = down
                 /\ Return(t)
                 /\ UNCHANGED launch
  BY SwapCases
<1>3. session = kind[t]
  BY <1>1 DEF AloneInv, TaskInv, Published
<1>4. CASE Configure(kind[t], "tcg") /\ MgrOK(ready) /\ ready.supervised = NoRun
  <2>1. /\ \A r \in 1..Len(launch) : r \in 1..Len(launch') /\ launch'[r] = launch[r]
        /\ NewRun \in 1..Len(launch')
        /\ launch'[NewRun].overlay = kind[t]
        /\ NewRun \in Run
    BY <1>1, <1>4, AppendKeeps
  <2>2. PollExited(ready) = ready
    BY <1>4 DEF PollExited, HasExited
  <2>3. \A p \in prepared' : p[3] = "restartLesson" =>
          p[1] \in 1..Len(launch') /\ launch'[p[1]].overlay = p[2]
    BY <1>1, <2>1 DEF app, AloneInv
  <2>4. CASE /\ vm' = Spawned(ready, NewRun)
             /\ run' = [run EXCEPT ![t] = NewRun]
             /\ Goto(t, "rerecord")
             /\ UNCHANGED <<op, kind, cli>>
    <3>1. vm'.supervised = NoRun /\ vm'.state = "Starting"
      BY <1>4, <2>1, <2>2, <2>4, SpawnedOK
    <3>2. run'[t] = NewRun
      BY <1>1, <2>4
    <3> QED
      BY <1>1, <1>3, <2>1, <2>3, <2>4, <3>1, <3>2
      DEF app, AloneInv, TaskInv, SharedFits, OwnConfig, Halfway, OwnMachine,
          Published, InGuest, Launching
  <2>5. CASE vm' = SpawnFailed(ready) /\ Return(t)
    <3>1. vm'.supervised = NoRun /\ vm'.state = "Starting"
      BY <1>4, <2>2, <2>5, SpawnFailedOK
    <3>2. \A u \in Task : pc'[u] = "idle"
      BY <2>5, AloneGoto
    <3> QED
      BY <2>3, <3>1, <3>2
      DEF AloneInv, TaskInv, SharedFits, Halfway, OwnMachine, Published, InGuest, Launching
  <2>6. CASE vm' = down /\ Return(t) /\ UNCHANGED launch
    <3>1. Len(launch') # Len(launch)
      BY <1>1, <1>4 DEF Configure, SessionInv, TypeOK
    <3> QED
      BY <2>6, <3>1
  <2> QED
    BY <1>2, <2>4, <2>5, <2>6
<1>5. CASE vm' = down /\ Return(t) /\ UNCHANGED launch
  <2>1. killed \in BOOLEAN
    BY <1>2, KillsBoolean
  <2>2. vm'.state # "Ready"
    BY <1>1, <1>2, <1>5, <2>1, StopOK, UseTcgOK DEF AloneInv
  <2> QED
    BY <1>1, <1>2, <1>5, <2>2, ReturnAlone DEF SharedFits, app
<1> QED
  BY <1>2, <1>4, <1>5

(* The other steps under the vm mutex launch nothing.                      *)
LEMMA EndAlone ==
  ASSUME Alone, SessionInv, AloneInv, NEW t \in Task,
         Reap(t) \/ WaitExit(t) \/ SetReady(t) \/ FailStop(t) \/ StopVm(t)
  PROVE  AloneInv'
<1> USE DEF AloneInv, TaskInv, SharedFits, OwnConfig, Halfway, OwnMachine,
            Published, InGuest, Launching, app, locals, At
<1>1. /\ \A l : Goto(t, l) => \A u \in Task : u = t /\ pc'[u] = l
      /\ Return(t) => \A u \in Task : u = t /\ pc'[u] = "idle"
      /\ \A u \in Task : u = t
      /\ MgrOK(vm)
      /\ launch \in Seq([overlay : Overlay, accel : Accel])
  BY AloneGoto DEF SessionInv, TypeOK
<1>2. \A r \in 1..Len(launch) : r # NoRun
  BY <1>1 DEF NoRun
<1>3. CASE Reap(t)
  <2>1. vm'.supervised = vm.supervised /\ vm'.state = vm.state
    BY <1>3, ReapKeeps
  <2> QED
    BY <1>1, <1>3, <2>1 DEF Reap
<1>4. CASE WaitExit(t)
  <2>1. vm'.supervised = NoRun /\ vm'.state = "Failed"
    BY <1>1, <1>4, PollOK DEF WaitExit, PollExited, MarkExited, MgrOK, Manager
  <2> QED
    BY <1>1, <1>4, <2>1 DEF WaitExit, NotReady
<1>5. CASE SetReady(t)
  <2>1. vm'.supervised = vm.supervised
    BY <1>1, <1>5, MarkReadyOK DEF SetReady
  <2>2. vm.supervised # NoRun
    BY <1>2, <1>5 DEF SetReady
  <2> QED
    BY <1>1, <1>5, <2>1, <2>2 DEF SetReady, Continue
<1>6. CASE FailStop(t)
  <2>1. PICK k \in BOOLEAN : vm' = MarkFailed(Stop(vm, k))
    BY <1>6, KillsBoolean DEF FailStop
  <2>2. vm'.supervised = NoRun /\ vm'.state = "Failed"
    BY <1>1, <2>1, StopOK, MarkFailedOK
  <2> QED
    BY <1>1, <1>6, <2>2 DEF FailStop
<1>7. CASE StopVm(t)
  <2>1. PICK k \in BOOLEAN : vm' = Stop(vm, k)
    BY <1>7, KillsBoolean DEF StopVm
  <2>2. vm'.supervised = NoRun /\ vm'.state # "Ready"
    BY <1>1, <2>1, StopOK
  <2> QED
    BY <1>1, <1>7, <2>2 DEF StopVm, Continue, AfterStop
<1> QED
  BY <1>3, <1>4, <1>5, <1>6, <1>7

LEMMA WorldAlone ==
  ASSUME SessionInv, AloneInv, Guest \/ Relaunch \/ UNCHANGED vars
  PROVE  AloneInv'
<1> USE DEF AloneInv, TaskInv, SharedFits, OwnConfig, Halfway, OwnMachine,
            Published, InGuest, Launching, locals
<1>1. CASE Guest \/ UNCHANGED vars
  <2>1. /\ vm'.supervised = vm.supervised
        /\ vm'.state = vm.state
        /\ UNCHANGED <<launch, agent, session, prepared, pc, op, kind, run, cli>>
    BY <1>1 DEF Guest, GuestUp, GuestDies, GuestWrites, SessionInv, MgrOK, Manager,
                vars, host, app
  <2> QED
    BY <2>1
<1>2. CASE Relaunch
  <2>1. vm'.supervised = NoRun /\ vm'.state = "Stopped"
    BY <1>2 DEF Relaunch, NewManager
  <2>2. \A t \in Task : pc'[t] = "idle"
    BY <1>2 DEF Relaunch
  <2> QED
    BY <1>2, <2>1, <2>2 DEF Relaunch
<1> QED
  BY <1>1, <1>2

LEMMA AloneInvInductive ==
  ASSUME Alone
  PROVE  SessionInv /\ AloneInv /\ [Next]_vars => AloneInv'
<1> SUFFICES ASSUME SessionInv, AloneInv, [Next]_vars PROVE AloneInv'
  OBVIOUS
<1>1. ASSUME NEW t \in Task, Step(t) PROVE AloneInv'
  BY <1>1, QuietAlone, PrepareAlone, StartAlone, RecordAlone, SwapAlone, EndAlone
  DEF Step, StartStep, StopStep, PrepareStep, QuietStep
<1> QED
  BY <1>1, InvokeAlone, WorldAlone DEF Next

LEMMA AloneInvAlways ==
  ASSUME Alone
  PROVE  Spec => []AloneInv
BY AloneInvInit, AloneInvInductive, SessionInvAlways, PTL DEF Spec

(* Between commands issued one at a time, a Ready manager supervises a     *)
(* machine, and the shared client and the session are those of that        *)
(* machine, whatever failed before and whichever commands came.            *)
THEOREM ReadyIsConsistent ==
  ASSUME Alone
  PROVE  Spec => []IdleReadyConsistent
<1>1. AloneInv => IdleReadyConsistent
  <2> SUFFICES ASSUME AloneInv, Idle, vm.state = "Ready"
               PROVE  SharedFits /\ vm.supervised # NoRun
    BY DEF IdleReadyConsistent, SharedFits
  <2>1. PICK t \in Task : pc[t] = "idle"
    BY DEF Alone, Idle, At
  <2> QED
    BY <2>1 DEF AloneInv, TaskInv, Halfway
<1> QED
  BY <1>1, AloneInvAlways, PTL

(* Restarting a lesson sets the lesson up in the machine that the restart  *)
(* has made for it, on the lesson's own overlay, whatever fails, dies or   *)
(* is relaunched on the way and whichever other commands come between.     *)
THEOREM LessonIsSetUpAtHome ==
  ASSUME Alone
  PROVE  Spec => []RestartSetsUpAtHome
<1>1. AloneInv => RestartSetsUpAtHome
  BY DEF AloneInv, RestartSetsUpAtHome
<1> QED
  BY <1>1, AloneInvAlways, PTL

---------------------------------------------------------------------------
(* Commands issued one at a time: the disks.                               *)

(* The layer of a lesson that is about to be launched is clean, and no     *)
(* QEMU could write to it: one that is still on its way out keeps the      *)
(* removed file of its own.                                                *)
LayerInv ==
  /\ open \subseteq 1..Len(launch)
  /\ \A t \in Task : pc[t] = "start" /\ kind[t] \in Lesson =>
       disk[kind[t]] = "clean" /\ On(kind[t]) = {}

LEMMA LayerInvInit == Init => LayerInv
BY DEF Init, LayerInv

LEMMA LayerElsewhere ==
  ASSUME open' \subseteq 1..Len(launch'), \A u \in Task : pc'[u] # "start"
  PROVE  LayerInv'
BY DEF LayerInv

(* Every step of a task but prepare() goes to something other than a       *)
(* launch.                                                                 *)
LEMMA StepLayer ==
  ASSUME Alone, SessionInv, AloneInv, LayerInv, NEW t \in Task,
         \/ QuietStep(t) \/ Reap(t) \/ Start(t) \/ Record(t) \/ WaitExit(t)
         \/ Swap(t) \/ SetReady(t) \/ FailStop(t) \/ StopVm(t)
  PROVE  LayerInv'
<1>1. Return(t) \/ \E l \in Pc \ {"start"} : Goto(t, l)
  <2>1. CASE QuietStep(t)
    BY <2>1, QuietMoves, ElsewhereOK
    DEF Continue, Launching, Ask, GetAgent, Pc, StopPc, LaunchedPc
  <2>2. CASE ~QuietStep(t)
    BY <2>2 DEF Reap, Start, Record, WaitExit, NotReady, Swap, SetReady, FailStop,
                StopVm, AfterStop, Continue, Pc, LaunchedPc, StopPc
  <2> QED
    BY <2>1, <2>2
<1>2. \A u \in Task : pc'[u] # "start"
  BY <1>1, AloneGoto
<1>3. open' \subseteq 1..Len(launch')
  <2>1. CASE QuietStep(t)
    BY <2>1 DEF QuietStep, Publish, Attach, Ping, PingLost, Pong, WaitTimeout,
                Fallback, Republish, Fail, Ask, AskSend, AskDone, Unpublish, RestoreDisk,
                ResetDisk, RequireReady, GetAgent, PrepareSend, PrepareDone, host, LayerInv
  <2>2. CASE Start(t)
    <3>1. pc[t] = "start" /\ launch' = launch /\ open' \subseteq open \cup {run[t]}
      BY <2>2 DEF Start, Opens, At
    <3>2. run[t] \in 1..Len(launch)
      BY <3>1 DEF AloneInv, TaskInv, OwnConfig, Launching
    <3> QED
      BY <3>1, <3>2 DEF LayerInv
  <2>3. CASE Swap(t)
    <3>1. kind[t] \in Overlay /\ "tcg" \in Accel /\ StillOpen(kind[t]) \subseteq open
      BY LayerOK DEF SessionInv, TypeOK, Accel
    <3>2. CASE Configure(kind[t], "tcg") /\ open' \subseteq StillOpen(kind[t]) \cup {NewRun}
      BY <3>1, <3>2, AppendKeeps DEF LayerInv
    <3>3. CASE LayerLost(kind[t]) /\ UNCHANGED launch
      BY <3>1, <3>3, LayerOK DEF LayerInv
    <3> QED
      BY <2>3, <3>2, <3>3, SwapCases
  <2>4. CASE Reap(t) \/ Record(t) \/ WaitExit(t) \/ SetReady(t) \/ FailStop(t) \/ StopVm(t)
    BY <2>4 DEF Reap, Record, WaitExit, SetReady, FailStop, StopVm, LayerInv
  <2> QED
    BY <2>1, <2>2, <2>3, <2>4
<1> QED
  BY <1>2, <1>3, LayerElsewhere

LEMMA InvokeLayer ==
  ASSUME Alone, SessionInv, LayerInv, NEW t \in Task, Invoke(t)
  PROVE  LayerInv'
<1>1. ASSUME NEW o, NEW k, NEW l \in {"reap", "ask", "requireReady"}, Begin(t, o, k, l)
      PROVE  LayerInv'
  BY <1>1, AloneGoto, LayerElsewhere DEF Begin, host, LayerInv
<1>2. CASE HealthCheck(t)
  BY <1>2 DEF HealthCheck, host, locals, LayerInv, On
<1> QED
  BY <1>1, <1>2 DEF Invoke, StartSession, StopSession, RestartVm, RestartLesson,
                    RestoreSnapshot, FactoryReset, PrepareLesson

(* A layer just made is clean, and no QEMU has it open. *)
LEMMA PrepareLayer ==
  ASSUME Alone, SessionInv, LayerInv, NEW t \in Task, Prepare(t)
  PROVE  LayerInv'
<1>1. /\ kind[t] \in Overlay /\ vm.accel \in Accel
      /\ MgrOK(vm)
      /\ disk \in [Overlay -> DiskContent]
  BY DEF SessionInv, TypeOK, MgrOK, Manager
<1>2. CASE /\ LayerMade(kind[t])
           /\ Configure(kind[t], vm.accel)
           /\ Goto(t, "start")
           /\ UNCHANGED kind
  <2>1. \A u \in Task : u = t
    BY <1>2, AloneGoto
  <2>2. \A r \in 1..Len(launch) : r \in 1..Len(launch') /\ launch'[r] = launch[r]
    BY <1>1, <1>2, AppendKeeps
  <2>3. open' \subseteq open
    BY <1>1, <1>2, LayerOK
  <2>4. kind[t] \in Lesson => disk'[kind[t]] = "clean"
    BY <1>1, <1>2, FreePracticeAssumption DEF LayerMade, OverlayReady
  <2>5. kind[t] \in Lesson => On(kind[t])' = {}
    <3> SUFFICES ASSUME kind[t] \in Lesson,
                        NEW r \in open', launch'[r].overlay = kind[t]
                 PROVE  FALSE
      BY <1>2 DEF On
    <3>1. r \in open /\ r \in 1..Len(launch)
      BY <2>3 DEF LayerInv
    <3>2. r \in On(kind[t])
      BY <2>2, <3>1 DEF On
    <3>3. kind[t] # FreePractice
      BY FreePracticeAssumption
    <3> QED
      BY <1>2, <3>2, <3>3 DEF LayerMade, StillOpen
  <2>6. open' \subseteq 1..Len(launch')
    BY <2>2, <2>3 DEF LayerInv
  <2> QED
    BY <1>2, <2>1, <2>4, <2>5, <2>6 DEF LayerInv
<1>3. CASE Return(t) /\ LayerLost(kind[t]) /\ UNCHANGED launch
  BY <1>1, <1>3, LayerOK, AloneGoto, LayerElsewhere DEF LayerInv
<1> QED
  BY <1>2, <1>3 DEF Prepare

(* Only a QEMU that has a layer open writes to it.                         *)
LEMMA WorldLayer ==
  ASSUME SessionInv, LayerInv, Guest \/ Relaunch \/ UNCHANGED vars
  PROVE  LayerInv'
<1>1. CASE Guest \/ UNCHANGED vars
  <2>1. /\ open' \subseteq open
        /\ UNCHANGED <<launch, pc, kind>>
    BY <1>1 DEF Guest, GuestUp, GuestDies, GuestWrites, vars, host, app, locals
  <2>2. ASSUME NEW o \in Overlay, On(o) = {}
        PROVE  disk'[o] = disk[o] /\ On(o)' = {}
    <3>1. On(o)' = {}
      BY <2>1, <2>2 DEF On
    <3>2. CASE \E r \in vm.alive : GuestWrites(r)
      <4>1. PICK r \in open : disk' = [disk EXCEPT ![launch[r].overlay] = "used"]
        BY <3>2 DEF GuestWrites
      <4>2. launch[r].overlay # o
        BY <2>2, <4>1 DEF On
      <4> QED
        BY <3>1, <4>1, <4>2 DEF SessionInv, TypeOK
    <3>3. CASE ~\E r \in vm.alive : GuestWrites(r)
      BY <1>1, <3>1, <3>3 DEF Guest, GuestUp, GuestDies, vars, host
    <3> QED
      BY <3>2, <3>3
  <2>3. Lesson \subseteq Overlay
    BY DEF Overlay
  <2> QED
    BY <2>1, <2>2, <2>3 DEF LayerInv
<1>2. CASE Relaunch
  <2>1. \A t \in Task : pc'[t] = "idle"
    BY <1>2 DEF Relaunch
  <2>2. UNCHANGED <<open, launch>>
    BY <1>2 DEF Relaunch
  <2> QED
    BY <2>1, <2>2, LayerElsewhere DEF LayerInv
<1> QED
  BY <1>1, <1>2

LEMMA LayerInvInductive ==
  ASSUME Alone
  PROVE  SessionInv /\ AloneInv /\ LayerInv /\ [Next]_vars => LayerInv'
<1> SUFFICES ASSUME SessionInv, AloneInv, LayerInv, [Next]_vars PROVE LayerInv'
  OBVIOUS
<1>1. ASSUME NEW t \in Task, Step(t) PROVE LayerInv'
  BY <1>1, StepLayer, PrepareLayer
  DEF Step, StartStep, StopStep, PrepareStep, QuietStep
<1> QED
  BY <1>1, InvokeLayer, WorldLayer DEF Next

LEMMA LayerInvAlways ==
  ASSUME Alone
  PROVE  Spec => []LayerInv
BY LayerInvInit, LayerInvInductive, SessionInvAlways, AloneInvAlways, PTL DEF Spec

(* A machine is launched from a layer made for it, and a lesson's is       *)
(* clean.                                                                  *)
LEMMA LaunchIsClean ==
  ASSUME SessionInv, AloneInv, LayerInv, Next,
         NEW r \in vm'.alive \ vm.alive, launch'[r].overlay \in Lesson
  PROVE  disk'[launch'[r].overlay] = "clean"
<1>1. MgrOK(vm)
  BY DEF SessionInv
<1>2. ASSUME NEW t \in Task, Start(t)
      PROVE  disk'[launch'[r].overlay] = "clean"
  <2>1. run[t] \in Run /\ vm.config # NoRun /\ pc[t] = "start"
    BY <1>2 DEF SessionInv, TypeOK, Start, At
  <2>2. r = run[t]
    BY <1>1, <1>2, <2>1, PollOK, SpawnedOK, SpawnFailedOK DEF Start, AlreadyRunning
  <2>3. launch[r].overlay = kind[t]
    BY <2>1, <2>2 DEF AloneInv, TaskInv, OwnConfig, Launching
  <2>4. UNCHANGED <<launch, disk>>
    BY <1>2 DEF Start
  <2> QED
    BY <2>1, <2>3, <2>4 DEF LayerInv
<1>3. ASSUME NEW t \in Task, Swap(t)
      PROVE  disk'[launch'[r].overlay] = "clean"
  <2>1. kind[t] \in Overlay /\ disk \in [Overlay -> DiskContent] /\ "tcg" \in Accel
    BY DEF SessionInv, TypeOK, Accel
  <2>2. PICK down, ready :
          /\ down.alive = vm.alive
          /\ \/ /\ disk' = OverlayReady(disk, kind[t])
                /\ Configure(kind[t], "tcg")
                /\ NewRun \in Run
                /\ MgrOK(ready) /\ ready.supervised = NoRun /\ ready.alive = vm.alive
                /\ vm' = Spawned(ready, NewRun) \/ vm' = SpawnFailed(ready)
             \/ vm' = down
    BY <1>3, SwapCases
  <2>3. vm' # down
    BY <2>2
  <2>4. PollExited(ready) = ready
    BY <2>2, <2>3 DEF PollExited, HasExited
  <2>5. r = NewRun
    BY <2>2, <2>3, <2>4, SpawnedOK, SpawnFailedOK
  <2>6. launch'[NewRun].overlay = kind[t]
    BY <2>1, <2>2, <2>3, AppendKeeps
  <2> QED
    BY <2>1, <2>2, <2>3, <2>5, <2>6, FreePracticeAssumption DEF OverlayReady
<1>4. ASSUME NEW t \in Task, Invoke(t) \/ QuietStep(t)
      PROVE  FALSE
  BY <1>4, InvokeFrame, QuietFrame
<1>5. ASSUME NEW t \in Task,
             \/ Reap(t) \/ Prepare(t) \/ Record(t) \/ WaitExit(t) \/ SetReady(t)
             \/ FailStop(t) \/ StopVm(t)
      PROVE  vm'.alive \subseteq vm.alive
  <2>1. CASE Prepare(t)
    <3>1. kind[t] \in Overlay /\ vm.accel \in Accel
      BY <1>1 DEF SessionInv, TypeOK, MgrOK, Manager
    <3> QED
      BY <1>1, <2>1, <3>1, ConfigureOK, SetConfigOK DEF Prepare
  <2>2. CASE FailStop(t)
    <3>1. PICK k \in BOOLEAN : vm' = MarkFailed(Stop(vm, k))
      BY <2>2, KillsBoolean DEF FailStop
    <3> QED
      BY <1>1, <3>1, StopOK, MarkFailedOK
  <2>3. CASE StopVm(t)
    <3>1. PICK k \in BOOLEAN : vm' = Stop(vm, k)
      BY <2>3, KillsBoolean DEF StopVm
    <3> QED
      BY <1>1, <3>1, StopOK
  <2>4. CASE Record(t)
    BY <2>4 DEF Record, Recorded
  <2>5. CASE Reap(t) \/ WaitExit(t) \/ SetReady(t)
    BY <1>1, <2>5, ReapKeeps, PollOK, MarkReadyOK DEF WaitExit, SetReady
  <2> QED
    BY <1>5, <2>1, <2>2, <2>3, <2>4, <2>5
<1>6. ASSUME Guest \/ Relaunch PROVE vm'.alive \subseteq vm.alive
  <2>1. CASE Guest
    BY <1>1, <2>1 DEF Guest, GuestUp, GuestDies, GuestWrites, MgrOK, Manager
  <2>2. CASE Relaunch
    BY <2>2 DEF Relaunch, NewManager
  <2> QED
    BY <1>6, <2>1, <2>2
<1> QED
  BY <1>2, <1>3, <1>4, <1>5, <1>6
  DEF Next, Step, StartStep, StopStep, PrepareStep, QuietStep

(* A lesson always boots from a layer in which nothing has been written    *)
(* since it was made, whatever fails and whatever QEMU has been left       *)
(* behind: neither the job object nor vm.pid is needed for it.             *)
THEOREM LessonsBootClean ==
  ASSUME Alone
  PROVE  Spec => LessonBootsClean
<1> DEFINE Clean ==
      \A r \in vm'.alive \ vm.alive :
        launch'[r].overlay \in Lesson => disk'[launch'[r].overlay] = "clean"
<1>1. SessionInv /\ AloneInv /\ LayerInv /\ [Next]_vars => [Clean]_vars
  BY LaunchIsClean
<1> QED
  BY <1>1, SessionInvAlways, AloneInvAlways, LayerInvAlways, PTL
  DEF Spec, LessonBootsClean

(* A process left behind can always be named, be found and be killed.      *)
ReapWorks == Faults \cap {"reap", "miss", "pidWrite"} = {}

(* Nothing that nobody told to end runs when a command gets to a disk. *)
DiskInv ==
  \A t \in Task :
    /\ ReapWorks /\ pc[t] = "prepare" => Running(vm) = {}
    /\ "job" \notin Faults /\ pc[t] \in {"restoreDisk", "resetDisk"} => Running(vm) = {}

LEMMA DiskInvInit == Init => DiskInv
BY DEF Init, DiskInv

LEMMA DiskElsewhere ==
  ASSUME \A u \in Task : pc'[u] \notin {"prepare", "restoreDisk", "resetDisk"}
  PROVE  DiskInv'
BY DEF DiskInv

(* Reaping leaves nothing that runs: vm.pid names all there is.            *)
LEMMA ReapDisk ==
  ASSUME Alone, SessionInv, HostInv, NEW t \in Task, Reap(t)
  PROVE  DiskInv'
<1>1. \A u \in Task : pc'[u] = "prepare"
  BY AloneGoto DEF Reap
<1>2. ReapWorks => Running(vm') = {}
  <2> SUFFICES ASSUME ReapWorks PROVE Running(vm') = {}
    OBVIOUS
  <2>1. vm' = ReapStaleProcess(vm, TRUE)
    BY ReapCases DEF ReapWorks
  <2>2. Running(vm) \subseteq {vm.pidFile}
    BY DEF HostInv, PidFileWorks, PidFileNamesVm, ReapWorks, Reap, VmFree
  <2> QED
    BY <2>1, <2>2, ReapOK DEF SessionInv
<1> QED
  BY <1>1, <1>2 DEF DiskInv

(* stop() leaves nothing that runs when nothing runs unsupervised.         *)
LEMMA StopDisk ==
  ASSUME Alone, Contained, SessionInv, HostInv, NEW t \in Task, StopVm(t)
  PROVE  DiskInv'
<1>1. \A u \in Task : pc'[u] # "prepare"
  BY AloneGoto DEF StopVm, AfterStop, Continue
<1>2. "job" \notin Faults => Running(vm') = {}
  BY StopHost DEF StopVm
<1> QED
  BY <1>1, <1>2 DEF DiskInv

LEMMA AwayDisk ==
  ASSUME Alone, SessionInv, NEW t \in Task,
         \/ QuietStep(t) \/ Prepare(t) \/ Start(t) \/ Record(t) \/ WaitExit(t)
         \/ Swap(t) \/ SetReady(t) \/ FailStop(t)
  PROVE  DiskInv'
<1>1. Return(t) \/ \E l \in Pc \ {"prepare", "restoreDisk", "resetDisk"} : Goto(t, l)
  BY DEF QuietStep, Publish, Attach, Ping, PingLost, Pong, WaitTimeout, NotReady,
         Fallback, Republish, Fail, Ask, AskSend, AskDone, Unpublish, RestoreDisk,
         ResetDisk, RequireReady, GetAgent, PrepareSend, PrepareDone, Prepare, Start,
         Record, WaitExit, Swap, SetReady, FailStop, Continue, Pc, LaunchedPc, StopPc
<1> QED
  BY <1>1, AloneGoto, DiskElsewhere

LEMMA InvokeDisk ==
  ASSUME Alone, SessionInv, DiskInv, NEW t \in Task, Invoke(t)
  PROVE  DiskInv'
<1>1. ASSUME NEW o, NEW k, NEW l \in {"reap", "ask", "requireReady"}, Begin(t, o, k, l)
      PROVE  DiskInv'
  BY <1>1, AloneGoto, DiskElsewhere DEF Begin
<1>2. CASE HealthCheck(t)
  BY <1>2 DEF HealthCheck, host, DiskInv
<1> QED
  BY <1>1, <1>2 DEF Invoke, StartSession, StopSession, RestartVm, RestartLesson,
                    RestoreSnapshot, FactoryReset, PrepareLesson

LEMMA WorldDisk ==
  ASSUME SessionInv, DiskInv, Guest \/ Relaunch \/ UNCHANGED vars
  PROVE  DiskInv'
<1>1. CASE Guest \/ UNCHANGED vars
  <2>1. Running(vm') \subseteq Running(vm) /\ UNCHANGED pc
    BY <1>1 DEF Guest, GuestUp, GuestDies, GuestWrites, SessionInv, MgrOK, Manager,
                Running, vars, host
  <2> QED
    BY <2>1 DEF DiskInv
<1>2. CASE Relaunch
  BY <1>2, DiskElsewhere DEF Relaunch
<1> QED
  BY <1>1, <1>2

LEMMA DiskInvInductive ==
  ASSUME Alone, Contained
  PROVE  SessionInv /\ HostInv /\ DiskInv /\ [Next]_vars => DiskInv'
<1> SUFFICES ASSUME SessionInv, HostInv, DiskInv, [Next]_vars PROVE DiskInv'
  OBVIOUS
<1>1. ASSUME NEW t \in Task, Step(t) PROVE DiskInv'
  BY <1>1, ReapDisk, StopDisk, AwayDisk
  DEF Step, StartStep, StopStep, PrepareStep, QuietStep
<1> QED
  BY <1>1, InvokeDisk, WorldDisk DEF Next

LEMMA DiskInvAlways ==
  ASSUME Alone, Contained
  PROVE  Spec => []DiskInv
BY DiskInvInit, DiskInvInductive, SessionInvAlways, HostInvAlways, PTL DEF Spec

(* The host never touches an overlay that a QEMU which nobody has told to  *)
(* end has open: with the job object at work, and vm.pid written and the   *)
(* process it names found, one command at a time, no such QEMU exists when *)
(* a command gets to a disk.                                               *)
THEOREM TouchedDisksAreIdle ==
  ASSUME Alone, "job" \notin Faults, ReapWorks
  PROVE  Spec => []TouchedDiskIsIdle
<1>1. DiskInv => TouchedDiskIsIdle
  <2> SUFFICES ASSUME DiskInv, NEW t \in Task, NEW o \in Touches(t)
               PROVE  Running(vm) = {}
    BY DEF TouchedDiskIsIdle
  <2>1. pc[t] \in {"prepare", "restoreDisk", "resetDisk"}
    BY DEF Touches, At
  <2> QED
    BY <2>1 DEF DiskInv
<1> QED
  BY <1>1, DiskInvAlways, PTL DEF Contained

=============================================================================
