----------------------------- MODULE VmSession -----------------------------
(***************************************************************************)
(* The session commands of the desktop application                         *)
(* (apps/desktop/src-tauri/src/commands.rs): start, stop, restart, restart *)
(* lesson, prepare lesson, restore snapshot, factory reset and the health  *)
(* check, over the shared AppState and one VmManager.                      *)
(*                                                                         *)
(* A command is a task.  The application runs every invoked command        *)
(* concurrently, so tasks interleave; one step of a task is what it does   *)
(* between two points where another task can run, which for the manager is *)
(* one section under the vm mutex.  Adjacent writes to agent and session   *)
(* are one step: no command reads both.  The section that launches QEMU is *)
(* two steps, with the mutex held in between: no other task sees the       *)
(* moment after the launch, but the application can end in it.             *)
(*                                                                         *)
(* Around the tasks the guests boot, write to their disks and die when     *)
(* they like, and the application itself may exit or crash.                *)
(***************************************************************************)
EXTENDS VmManager, Sequences

CONSTANTS
  Task,       \* command invocations that can be in flight together
  Ops,        \* the commands the front end issues in this instance
  Faults,     \* the host operations that may fail
  MaxStarts   \* bound on the number of machine starts

AllOps == {"start", "stop", "restartVm", "restartLesson", "restore",
           "factoryReset", "prepareLesson", "healthCheck"}

(* reap: kill_stale returns an error.  miss: it finds nothing to kill      *)
(* though the process runs.  kill: the kill of a supervised QEMU fails,    *)
(* which is ignored.  prepare: an overlay or a port could not be made.     *)
(* spawn: QEMU could not be launched.  pidWrite: vm.pid could not be       *)
(* written.  disk: copying or removing an overlay failed.  crash: the      *)
(* application did not release its session lock.  job: QEMU outlives its   *)
(* job object, which should not happen but reap_stale_process is there     *)
(* for.  gap: it outlives the application even when that ends between the  *)
(* launch and the write of vm.pid.                                         *)
AllFaults == {"reap", "miss", "kill", "prepare", "spawn", "pidWrite", "disk",
              "crash", "job", "gap"}

(* Whether an operation that can fail succeeds. *)
Outcomes(f) == IF f \in Faults THEN BOOLEAN ELSE {TRUE}

ASSUME OpsAssumption == Ops \subseteq AllOps
ASSUME FaultsAssumption == Faults \subseteq AllFaults
ASSUME MaxStartsAssumption == MaxStarts \in Nat

VARIABLES
  vm,        \* the manager, the QEMU processes and vm.pid
  launch,    \* launch[r]: overlay and accelerator of configuration r
  up,        \* the runs whose guest agent answers
  disk,      \* disk[o]: what the overlay file holds
  open,      \* the QEMU processes that have the current file of their overlay
             \* open: not one that was removed or moved aside since
  agent,     \* AppState.agent: the run whose client is installed
  session,   \* AppState.session
  prepared,  \* <<run, lesson, command>>: a lesson was set up inside a guest
  unclean,   \* AppState.unclean_shutdown
  starts,    \* machine starts begun so far
  pc, op,    \* control state and command of each task
  kind,      \* the session kind the task's command is about
  run,       \* the configuration the task prepared
  cli        \* the agent client the task took from AppState

host == <<vm, launch, up, disk, open>>
app == <<agent, session, prepared, unclean, starts>>
locals == <<op, kind, run, cli>>
vars == <<host, app, pc, locals>>

NoSession == "none"
DiskContent == {"absent", "clean", "used"}

(* From the moment QEMU has been launched until the start is decided. *)
LaunchedPc == {"record", "publish", "attach", "wait", "pinging", "ready",
               "fallback", "swap", "rerecord", "republish", "fail", "failStop"}

StopPc == {"ask", "askLock", "askReply", "unpublish", "stopVm"}

Pc == {"idle", "reap", "prepare", "start", "restoreDisk", "resetDisk",
       "requireReady", "getAgent", "prepareLock", "preparing"}
      \cup LaunchedPc \cup StopPc

TypeOK ==
  /\ vm \in Manager
  /\ launch \in Seq([overlay : Overlay, accel : Accel])
  /\ up \subseteq Run
  /\ disk \in [Overlay -> DiskContent]
  /\ agent \in Run \cup {NoRun}
  /\ session \in Overlay \cup {NoSession}
  /\ open \subseteq Run
  /\ prepared \subseteq Run \X Overlay \X AllOps
  /\ unclean \in BOOLEAN
  /\ starts \in 0..MaxStarts
  /\ pc \in [Task -> Pc]
  /\ op \in [Task -> AllOps]
  /\ kind \in [Task -> Overlay]
  /\ run \in [Task -> Run \cup {NoRun}]
  /\ cli \in [Task -> Run \cup {NoRun}]

Init ==
  /\ vm = NewManager(NoRun, {}, {})
  /\ launch = <<>>
  /\ up = {}
  /\ disk = [o \in Overlay |-> "absent"]
  /\ open = {}
  /\ agent = NoRun
  /\ session = NoSession
  /\ prepared = {}
  /\ unclean = FALSE
  /\ starts = 0
  /\ pc = [t \in Task |-> "idle"]
  /\ op = [t \in Task |-> "stop"]
  /\ kind = [t \in Task |-> FreePractice]
  /\ run = [t \in Task |-> NoRun]
  /\ cli = [t \in Task |-> NoRun]

Goto(t, l) == pc' = [pc EXCEPT ![t] = l]
At(t, l) == pc[t] = l

(* The command has returned, and its locals are gone. *)
Return(t) ==
  /\ Goto(t, "idle")
  /\ op' = [op EXCEPT ![t] = "stop"]
  /\ kind' = [kind EXCEPT ![t] = FreePractice]
  /\ run' = [run EXCEPT ![t] = NoRun]
  /\ cli' = [cli EXCEPT ![t] = NoRun]

Continue(t, l) == Goto(t, l) /\ UNCHANGED locals

(* A start that has launched QEMU and not yet written vm.pid. *)
Recording(t) == pc[t] \in {"record", "rerecord"}

(* The vm mutex; every other section under it is a single step. *)
VmFree == \A t \in Task : ~Recording(t)

---------------------------------------------------------------------------
(* The connection mutex of an AgentClient.  It is held from the moment a   *)
(* request is written until its reply, its timeout or the end of the       *)
(* channel.                                                                *)
Holds(t, r) ==
  \/ At(t, "pinging") /\ run[t] = r
  \/ pc[t] \in {"askReply", "preparing"} /\ cli[t] = r

ConnectionFree(r) == \A t \in Task : ~Holds(t, r)

Answers(r) == r \in vm.alive /\ r \in up

On(o) == {r \in open : launch[r].overlay = o}

(* Some QEMU that exists has the overlay open. *)
InUse(o) == On(o) \cap vm.alive # {}

---------------------------------------------------------------------------
(* Invoking a command.                                                     *)

Begin(t, o, k, l) ==
  /\ At(t, "idle")
  /\ o \in Ops
  /\ op' = [op EXCEPT ![t] = o]
  /\ kind' = [kind EXCEPT ![t] = k]
  /\ Goto(t, l)
  /\ UNCHANGED <<host, agent, session, prepared, unclean, run, cli>>

CountStart == starts < MaxStarts /\ starts' = starts + 1

StartSession(t) ==
  \E k \in Overlay : Begin(t, "start", k, "reap") /\ CountStart

StopSession(t) == Begin(t, "stop", FreePractice, "ask") /\ UNCHANGED starts

(* restart_vm reads the session before it stops it; none means Free        *)
(* Practice.                                                               *)
RestartVm(t) ==
  LET k == IF session \in Lesson THEN session ELSE FreePractice
  IN  Begin(t, "restartVm", k, "ask") /\ CountStart

(* Mutant of RestartLesson: a running machine is good enough. *)
RestartLessonInPlace(t) ==
  \E k \in Lesson : Begin(t, "restartLesson", k, "requireReady") /\ CountStart

RestartLesson(t) ==
  \E k \in Lesson : Begin(t, "restartLesson", k, "ask") /\ CountStart

RestoreSnapshot(t) == Begin(t, "restore", FreePractice, "ask") /\ UNCHANGED starts

FactoryReset(t) ==
  Begin(t, "factoryReset", FreePractice, "ask") /\ UNCHANGED starts

PrepareLesson(t) ==
  \E k \in Lesson : Begin(t, "prepareLesson", k, "requireReady") /\ UNCHANGED starts

(* Repairs the Free Practice overlay after an unclean shutdown, under the  *)
(* vm mutex, only when the manager says that no machine runs.              *)
HealthCheck(t) ==
  /\ At(t, "idle")
  /\ "healthCheck" \in Ops
  /\ VmFree
  /\ unclean /\ Down(vm.state)
  /\ \/ unclean' = FALSE
     \/ "disk" \in Faults /\ disk[FreePractice] # "absent" /\ UNCHANGED unclean
  /\ UNCHANGED <<host, agent, session, prepared, starts, pc, locals>>

---------------------------------------------------------------------------
(* start_session_inner.                                                    *)

Reap(t) ==
  /\ At(t, "reap") /\ VmFree
  /\ \/ \E killed \in Outcomes("miss") : vm' = ReapStaleProcess(vm, killed)
     \/ "reap" \in Faults /\ UNCHANGED vm
  /\ Goto(t, "prepare")
  /\ UNCHANGED <<launch, up, disk, open, app, locals>>

(* Mutant of OverlayReady: a lesson keeps its layer as a sandbox does. *)
OverlayKept(d, o) ==
  IF d[o] # "absent" THEN d ELSE [d EXCEPT ![o] = "clean"]

(* OverlayManager::ensure keeps a sandbox that exists; ::recreate and the  *)
(* first ::ensure make an empty layer over the base image.                 *)
OverlayReady(d, o) ==
  IF o = FreePractice /\ d[o] # "absent" THEN d ELSE [d EXCEPT ![o] = "clean"]

(* A QEMU that has the old layer of a lesson open keeps the removed file. *)
StillOpen(o) == IF o = FreePractice THEN open ELSE open \ On(o)

LayerMade(o) ==
  /\ disk' = OverlayReady(disk, o)
  /\ open' = StillOpen(o)

(* prepare() failed: before it touched the layer, after recreate removed   *)
(* it, or after it was made, when no port could be reserved.               *)
LayerLost(o) ==
  \/ UNCHANGED <<disk, open>>
  \/ LayerMade(o)
  \/ /\ o # FreePractice
     /\ disk' = [disk EXCEPT ![o] = "absent"]
     /\ open' = open \ On(o)

(* Mutant of NewRun: the ordinal is taken before the append. *)
NewRunUncounted == Len(launch)

NewRun == Len(launch) + 1

Configure(k, a) == launch' = Append(launch, [overlay |-> k, accel |-> a])

(* The overlay of a running machine can refuse to be replaced: whether the *)
(* operating system lets the host touch a file QEMU has open is not        *)
(* decided here, so both outcomes are possible.                            *)
PrepareMayFail(t) == "prepare" \in Faults \/ InUse(kind[t])

Prepare(t) ==
  /\ At(t, "prepare") /\ VmFree
  /\ \/ /\ LayerMade(kind[t])
        /\ Configure(kind[t], vm.accel)
        /\ vm' = SetConfig(vm, NewRun)
        /\ run' = [run EXCEPT ![t] = NewRun]
        /\ Goto(t, "start")
        /\ UNCHANGED <<op, kind, cli>>
     \/ /\ PrepareMayFail(t)
        /\ LayerLost(kind[t])
        /\ Return(t)
        /\ UNCHANGED <<vm, launch>>
  /\ UNCHANGED <<up, app>>

(* The new QEMU opens its overlay, if the file is still there. *)
Opens(r, o) == open' = open \cup (IF disk[o] = "absent" THEN {} ELSE {r})

Start(t) ==
  /\ At(t, "start") /\ VmFree
  /\ \/ /\ AlreadyRunning(vm)
        /\ vm' = PollExited(vm)
        /\ Return(t)
        /\ UNCHANGED open
     \/ /\ ~AlreadyRunning(vm)
        /\ vm' = Spawned(vm, run[t])
        /\ Opens(run[t], kind[t])
        /\ Continue(t, "record")
     \/ /\ ~AlreadyRunning(vm)
        /\ "spawn" \in Faults
        /\ vm' = SpawnFailed(vm)
        /\ Return(t)
        /\ UNCHANGED open
  /\ UNCHANGED <<launch, up, disk, app>>

(* The launch is recorded, still in the lock section that made it. *)
Record(t) ==
  /\ Recording(t)
  /\ \E written \in Outcomes("pidWrite") : vm' = Recorded(vm, run[t], written)
  /\ Goto(t, IF At(t, "record") THEN "publish" ELSE "republish")
  /\ UNCHANGED <<launch, up, disk, open, app, locals>>

Publish(t) ==
  /\ At(t, "publish")
  /\ agent' = run[t]
  /\ session' = kind[t]
  /\ Goto(t, "attach")
  /\ UNCHANGED <<host, prepared, unclean, starts, locals>>

(* ConsoleBridge::attach takes up to ten seconds, and failing it is only   *)
(* logged; ConsoleBridge has which console the bridge holds.               *)
Attach(t) ==
  /\ At(t, "attach")
  /\ Goto(t, "wait")
  /\ UNCHANGED <<host, app, locals>>

(* wait_until_ready: QEMU accepts the socket long before the agent runs,   *)
(* and the first ping keeps the connection, and its mutex, until then.     *)
Ping(t) ==
  /\ At(t, "wait")
  /\ run[t] \in vm.alive
  /\ ConnectionFree(run[t])
  /\ Goto(t, "pinging")
  /\ UNCHANGED <<host, app, locals>>

PingLost(t) ==
  /\ At(t, "pinging")
  /\ run[t] \notin vm.alive
  /\ Goto(t, "wait")
  /\ UNCHANGED <<host, app, locals>>

Pong(t) ==
  /\ At(t, "pinging")
  /\ Answers(run[t])
  /\ Goto(t, "ready")
  /\ UNCHANGED <<host, app, locals>>

(* Only a machine started under WHPX gets a second chance. *)
NotReady(t) ==
  Goto(t, IF launch[run[t]].accel = "whpx" THEN "fallback" ELSE "fail")

(* Mutant of WaitTimeout: the budget starts with the first connection. *)
WaitTimeoutConnected(t) ==
  /\ At(t, "pinging")
  /\ NotReady(t)
  /\ UNCHANGED <<host, app, locals>>

WaitTimeout(t) ==
  /\ pc[t] \in {"wait", "pinging"}
  /\ NotReady(t)
  /\ UNCHANGED <<host, app, locals>>

(* wait_for_qemu_exit polls the manager, whatever machine it supervises. *)
WaitExit(t) ==
  /\ pc[t] \in {"wait", "pinging"}
  /\ VmFree
  /\ HasExited(vm)
  /\ vm' = PollExited(vm)
  /\ NotReady(t)
  /\ UNCHANGED <<launch, up, disk, open, app, locals>>

Fallback(t) ==
  /\ At(t, "fallback")
  /\ agent' = NoRun
  /\ Goto(t, "swap")
  /\ UNCHANGED <<host, session, prepared, unclean, starts, locals>>

(* Neither the kill nor the job object need have worked. *)
Kills == IF {"kill", "job"} \subseteq Faults THEN BOOLEAN ELSE {TRUE}

(* One vm lock section: stop, switch to TCG, prepare and start again. *)
Swap(t) ==
  /\ At(t, "swap") /\ VmFree
  /\ \E killed \in Kills :
       LET down == UseSoftwareAcceleration(Stop(vm, killed))
           ready == SetConfig(down, NewRun)
       IN
       \/ /\ disk' = OverlayReady(disk, kind[t])
          /\ Configure(kind[t], "tcg")
          /\ \/ /\ vm' = Spawned(ready, NewRun)
                /\ open' = StillOpen(kind[t]) \cup {NewRun}
                /\ run' = [run EXCEPT ![t] = NewRun]
                /\ Goto(t, "rerecord")
                /\ UNCHANGED <<op, kind, cli>>
             \/ /\ "spawn" \in Faults
                /\ vm' = SpawnFailed(ready)
                /\ open' = StillOpen(kind[t])
                /\ Return(t)
       \/ /\ PrepareMayFail(t)
          /\ LayerLost(kind[t])
          /\ vm' = down
          /\ Return(t)
          /\ UNCHANGED launch
  /\ UNCHANGED <<up, app>>

(* Mutant of Republish: the fallback keeps the removed client. *)
RepublishForgotten(t) ==
  /\ At(t, "republish")
  /\ Goto(t, "attach")
  /\ UNCHANGED <<host, app, locals>>

Republish(t) ==
  /\ At(t, "republish")
  /\ agent' = run[t]
  /\ Goto(t, "attach")
  /\ UNCHANGED <<host, session, prepared, unclean, starts, locals>>

(* restart_lesson goes on to prepare the lesson. *)
SetReady(t) ==
  /\ At(t, "ready") /\ VmFree
  /\ vm' = MarkReady(vm)
  /\ IF op[t] = "restartLesson" THEN Continue(t, "requireReady") ELSE Return(t)
  /\ UNCHANGED <<launch, up, disk, open, app>>

(* Mutant of Fail: the error returns before the clean-up. *)
FailEarly(t) ==
  /\ At(t, "fail")
  /\ Return(t)
  /\ UNCHANGED <<host, app>>

Fail(t) ==
  /\ At(t, "fail")
  /\ agent' = NoRun
  /\ Goto(t, "failStop")
  /\ UNCHANGED <<host, session, prepared, unclean, starts, locals>>

(* Mutant of FailStop: the failure is recorded, the machine not stopped. *)
FailOnly(t) ==
  /\ At(t, "failStop") /\ VmFree
  /\ vm' = MarkFailed(vm)
  /\ Return(t)
  /\ UNCHANGED <<launch, up, disk, open, app>>

FailStop(t) ==
  /\ At(t, "failStop") /\ VmFree
  /\ \E killed \in Kills : vm' = MarkFailed(Stop(vm, killed))
  /\ Return(t)
  /\ UNCHANGED <<launch, up, disk, open, app>>

---------------------------------------------------------------------------
(* stop_session_inner.                                                     *)

Ask(t) ==
  /\ At(t, "ask")
  /\ cli' = [cli EXCEPT ![t] = agent]
  /\ Goto(t, IF agent = NoRun THEN "unpublish" ELSE "askLock")
  /\ UNCHANGED <<host, app, op, kind, run>>

(* The Shutdown request queues behind whoever holds the connection. *)
AskSend(t) ==
  /\ At(t, "askLock")
  /\ ConnectionFree(cli[t])
  /\ Goto(t, IF cli[t] \in vm.alive THEN "askReply" ELSE "unpublish")
  /\ UNCHANGED <<host, app, locals>>

(* Reply, timeout or end of channel: the result is ignored. *)
AskDone(t) ==
  /\ At(t, "askReply")
  /\ Goto(t, "unpublish")
  /\ UNCHANGED <<host, app, locals>>

Unpublish(t) ==
  /\ At(t, "unpublish")
  /\ agent' = NoRun
  /\ Goto(t, "stopVm")
  /\ UNCHANGED <<host, session, prepared, unclean, starts, locals>>

AfterStop(o) ==
  CASE o \in {"restartVm", "restartLesson"} -> "reap"
    [] o = "restore"                        -> "restoreDisk"
    [] OTHER                                -> "resetDisk"

StopVm(t) ==
  /\ At(t, "stopVm") /\ VmFree
  /\ \E killed \in Kills : vm' = Stop(vm, killed)
  /\ IF op[t] = "stop" THEN Return(t) ELSE Continue(t, AfterStop(op[t]))
  /\ UNCHANGED <<launch, up, disk, open, app>>

DiskMayFail == "disk" \in Faults \/ InUse(FreePractice)

(* The row and the file of the snapshot are looked up first and may be     *)
(* gone; then restore moves the live layer aside and copies the snapshot.  *)
RestoreDisk(t) ==
  /\ At(t, "restoreDisk") /\ VmFree
  /\ \/ /\ \/ disk' = [disk EXCEPT ![FreePractice] = "used"]
           \/ DiskMayFail /\ disk' = [disk EXCEPT ![FreePractice] = "absent"]
        /\ open' = open \ On(FreePractice)
     \/ UNCHANGED <<disk, open>>
  /\ Return(t)
  /\ UNCHANGED <<vm, launch, up, app>>

(* factory_reset_practice: remove the live layer when there is one, once   *)
(* the mutex it held for the snapshot is free again.                       *)
ResetDisk(t) ==
  /\ At(t, "resetDisk")
  /\ \/ /\ disk' = [disk EXCEPT ![FreePractice] = "absent"]
        /\ open' = open \ On(FreePractice)
     \/ DiskMayFail /\ UNCHANGED <<disk, open>>
  /\ Return(t)
  /\ UNCHANGED <<vm, launch, up, app>>

---------------------------------------------------------------------------
(* prepare_lesson_inner.                                                   *)

RequireReady(t) ==
  /\ At(t, "requireReady") /\ VmFree
  /\ IF AcceptsCommands(vm.state) THEN Continue(t, "getAgent") ELSE Return(t)
  /\ UNCHANGED <<host, app>>

GetAgent(t) ==
  /\ At(t, "getAgent")
  /\ \/ /\ agent # NoRun
        /\ cli' = [cli EXCEPT ![t] = agent]
        /\ Goto(t, "prepareLock")
        /\ UNCHANGED <<op, kind, run>>
     \/ agent = NoRun /\ Return(t)
  /\ UNCHANGED <<host, app>>

PrepareSend(t) ==
  /\ At(t, "prepareLock")
  /\ ConnectionFree(cli[t])
  /\ IF cli[t] \in vm.alive THEN Continue(t, "preparing") ELSE Return(t)
  /\ UNCHANGED <<host, app>>

(* The guest ran the setup, or the request failed or timed out. *)
PrepareDone(t) ==
  /\ At(t, "preparing")
  /\ \/ Answers(cli[t]) /\ prepared' = prepared \cup {<<cli[t], kind[t], op[t]>>}
     \/ UNCHANGED prepared
  /\ Return(t)
  /\ UNCHANGED <<host, agent, session, unclean, starts>>

---------------------------------------------------------------------------
(* Guests and the application process.                                     *)

GuestUp(r) ==
  /\ r \in vm.alive \ up
  /\ up' = up \cup {r}
  /\ UNCHANGED <<vm, launch, disk, open, app, pc, locals>>

(* A power-off, a kernel panic (panic=-1 with -no-reboot), a QEMU fault,   *)
(* or the end it has been told to come to.                                 *)
GuestDies(r) ==
  /\ r \in vm.alive
  /\ vm' = [vm EXCEPT !.alive = @ \ {r}, !.doomed = @ \ {r}]
  /\ up' = up \ {r}
  /\ open' = open \ {r}
  /\ UNCHANGED <<launch, disk, app, pc, locals>>

GuestWrites(r) ==
  /\ r \in open
  /\ disk' = [disk EXCEPT ![launch[r].overlay] = "used"]
  /\ UNCHANGED <<vm, launch, up, open, app, pc, locals>>

(* The machines in a job of this process: the one that start() has just    *)
(* launched, or the one that is supervised.                                *)
Owned == {vm.supervised} \cup {run[t] : t \in {u \in Task : Recording(u)}}

Contains ==
  IF "job" \in Faults /\ (VmFree \/ "gap" \in Faults) THEN BOOLEAN ELSE {TRUE}

(* The process ends and is launched again.  The job object tells QEMU to   *)
(* end with it; a session lock that was not released reports an unclean    *)
(* shutdown.                                                               *)
Relaunch ==
  /\ \E contained \in Contains :
       vm' = NewManager(vm.pidFile, vm.alive,
                        vm.doomed \cup (IF contained THEN Owned \cap vm.alive ELSE {}))
  /\ unclean' \in IF "crash" \in Faults THEN BOOLEAN ELSE {FALSE}
  /\ agent' = NoRun
  /\ session' = NoSession
  /\ pc' = [t \in Task |-> "idle"]
  /\ op' = [t \in Task |-> "stop"]
  /\ kind' = [t \in Task |-> FreePractice]
  /\ run' = [t \in Task |-> NoRun]
  /\ cli' = [t \in Task |-> NoRun]
  /\ UNCHANGED <<launch, up, disk, open, prepared, starts>>

---------------------------------------------------------------------------
Invoke(t) ==
  \/ StartSession(t) \/ StopSession(t) \/ RestartVm(t) \/ RestartLesson(t)
  \/ RestoreSnapshot(t) \/ FactoryReset(t) \/ PrepareLesson(t) \/ HealthCheck(t)

StartStep(t) ==
  \/ Reap(t) \/ Prepare(t) \/ Start(t) \/ Record(t) \/ Publish(t) \/ Attach(t)
  \/ Ping(t) \/ PingLost(t) \/ Pong(t) \/ WaitTimeout(t) \/ WaitExit(t)
  \/ Fallback(t) \/ Swap(t) \/ Republish(t) \/ SetReady(t)
  \/ Fail(t) \/ FailStop(t)

StopStep(t) ==
  \/ Ask(t) \/ AskSend(t) \/ AskDone(t) \/ Unpublish(t) \/ StopVm(t)
  \/ RestoreDisk(t) \/ ResetDisk(t)

PrepareStep(t) ==
  \/ RequireReady(t) \/ GetAgent(t) \/ PrepareSend(t) \/ PrepareDone(t)

Step(t) == StartStep(t) \/ StopStep(t) \/ PrepareStep(t)

Guest == \E r \in vm.alive : GuestUp(r) \/ GuestDies(r) \/ GuestWrites(r)

Next ==
  \/ \E t \in Task : Invoke(t) \/ Step(t)
  \/ Guest
  \/ Relaunch

Spec == Init /\ [][Next]_vars

(* Every command that has been invoked keeps running; the learner, the     *)
(* guests and crashes owe nothing.                                         *)
(* The connection mutex is a tokio Mutex, which serves waiters in turn.    *)
FairSpec ==
  /\ Spec
  /\ \A t \in Task : /\ WF_vars(Step(t))
                      /\ SF_vars(Ping(t))
                      /\ SF_vars(AskSend(t))
                      /\ SF_vars(PrepareSend(t))

---------------------------------------------------------------------------
(* Safety of any number of concurrent commands.                            *)

(* At most one QEMU runs that nobody has told to end, whatever commands    *)
(* overlap and whenever the application crashes: start() refuses a second  *)
(* machine, and a process that outlived the application is reaped before   *)
(* the next start.  It needs one of the two containments to work: the job  *)
(* object, or vm.pid and kill_stale with no crash before vm.pid is         *)
(* written.                                                                *)
OneVm == \A r, s \in Running(vm) : r = s

(* vm.pid names every QEMU that has not been told to end, so that a crash  *)
(* leaves none the next launch cannot find (process.rs, module comment);   *)
(* all but the one that start() has launched and not recorded yet.         *)
PidFileNamesVm ==
  \A r \in Running(vm) :
    r = vm.pidFile \/ \E t \in Task : Recording(t) /\ run[t] = r

(* health_check takes Stopped, Failed and Unbootable to mean that no       *)
(* machine of this process has a disk open, and then repairs the disk.     *)
DownMeansNoVm == Down(vm.state) => vm.supervised = NoRun

(* A transitional state belongs to a start still under way that will       *)
(* settle it: the front end polls for as long as the state is              *)
(* transitional, and nothing else ever moves the manager on.               *)
TransitionalMeansInFlight ==
  Transitional(vm.state) => \E t \in Task : pc[t] \in LaunchedPc

---------------------------------------------------------------------------
(* Safety of commands issued one at a time.                                *)

Idle == \A t \in Task : At(t, "idle")

(* Between commands, a Ready manager supervises a machine, and the shared  *)
(* agent client and session both belong to that machine.                   *)
IdleReadyConsistent ==
  Idle /\ vm.state = "Ready" =>
    /\ vm.supervised # NoRun
    /\ agent = vm.supervised
    /\ session = launch[vm.supervised].overlay

(* The disks a task is about to remove, replace or repair. *)
Touches(t) ==
  CASE At(t, "prepare")                       -> {kind[t]}
    [] pc[t] \in {"restoreDisk", "resetDisk"} -> {FreePractice}
    [] OTHER                                  -> {}

(* The host never touches an overlay that a running QEMU has open: every   *)
(* command tells the machine to end before it gets to the disk.  It does   *)
(* not follow that the process has gone by then.                           *)
TouchedDiskIsIdle ==
  \A t \in Task : \A o \in Touches(t) : On(o) \cap Running(vm) = {}

(* A lesson always boots from a layer in which nothing has been written    *)
(* since it was made (VmManager::prepare, "known checkpoint").             *)
LessonBootsClean ==
  [][\A r \in vm'.alive \ vm.alive :
       launch'[r].overlay \in Lesson => disk'[launch'[r].overlay] = "clean"]_vars

(* What restart_lesson sets up is in the machine it has started for that   *)
(* lesson, on the lesson's own overlay, whatever dies, fails or is         *)
(* restarted on the way.                                                   *)
RestartSetsUpAtHome ==
  \A p \in prepared : p[3] = "restartLesson" => launch[p[1]].overlay = p[2]

---------------------------------------------------------------------------
(* Liveness.                                                               *)

(* Every command returns to the front end, even when the guest never       *)
(* answers, dies, or is stopped by another command.                        *)
CommandsReturn == \A t \in Task : pc[t] # "idle" ~> At(t, "idle")
=============================================================================
