# Linux Practice Lab: specifications, model checking and proofs

TLA+ modules kept beside the code of Linux Practice Lab, a desktop application
(Tauri: Rust back end, Svelte front end) that teaches Linux in a QEMU virtual
machine. This file is the inventory of the system, the plan of the
verification, and the account of what the models, the TLC runs and the TLAPS
proofs show. `PROJECT.json` maps every definition to the lines it models.

## 1. Inventory

| Component | Code | State it keeps | Operations |
|---|---|---|---|
| Session commands | `apps/desktop/src-tauri/src/commands.rs`, `state.rs` | `AppState`: agent client, session kind, attempts, mode, `unclean_shutdown`, all behind separate locks | start/stop/restart session, prepare/check/reset/restart lesson, hints, snapshots, health check, settings |
| VM manager | `crates/vm-manager/src/lib.rs`, `process.rs` | state, supervised child, last configuration, accelerator; `vm.pid` on disk | reap, prepare, start, mark_ready, poll_exited, mark_failed, stop |
| Overlay disks | `crates/vm-manager/src/overlay.rs` | one qcow2 file per session kind, snapshot files | ensure, recreate, check, rebase, snapshot, restore |
| Agent client | `apps/desktop/src-tauri/src/agent.rs` | one TCP connection behind a mutex, request ids | wait_until_ready, request (retried once) |
| Guest agent | `guest/linuxlab-agent/src/main.rs`, `handlers.rs`, `sys.rs` | files in the guest: sudo policy, hidden fixtures, namespaces, signal logs | one handler per request, one request at a time |
| Guest validators | `guest/linuxlab-agent/src/validators` | none; they read the guest, and run commands in it | one check per validator; a task's checks one after the other |
| Outcomes and feedback | `shared-types/src/validation.rs`, `registry.rs`, `lesson-engine/src/feedback.rs` | none | a task's result from its outcomes, the registry's check of a validator, the headline of the feedback |
| Console bridge | `console.rs`, `components/Terminal.svelte` | writer of the current serial socket behind a mutex, a reader per attach, the diagnostic tail | attach, write, detach, CLOSED event |
| Runtime installation | `crates/runtime-manager/src/install.rs`, `integrity.rs`, `layout.rs` | the packaged bundle, the installed runtime directory, a staging directory | install (copy, verify, decompress, activate), verify, quick check |
| Health checks | `crates/runtime-manager/src/health.rs` | none | one report per call |
| Catalogue and progression | `crates/lesson-engine/src/catalog.rs`, `progression.rs` | lessons and modules, immutable after load | availability, next lesson, recommendations |
| Attempts and mastery | `hints.rs`, `shared-types/src/progress.rs` | per-task attempts of one sitting, in memory | reveal hint/solution, record pass/failure, lesson mastery |
| Progress store | `crates/progress-store/src` | SQLite rows: lesson progress, task attempts, snapshots, settings, history | start/complete lesson, record attempt, retention, migrations |
| Front end | `apps/desktop/src` | route, polled VM status, per-player progress | invokes commands; none waits for another |
| Guest image, labs, scripts, lesson packages | `guest/*`, `scripts/*`, `lessons/*` | none at run time | build-time tools and data |

How they interact. The front end invokes commands concurrently; each is a tokio
task. Commands share `AppState`, whose fields have a lock *each*: the manager
has one (`vm`), the agent client and the session kind have others, so a command
is a sequence of short critical sections. The VM manager launches QEMU and
talks to it by QMP; the agent client talks to the guest agent over TCP; QEMU
owns the overlay file while it runs. Guests, the learner and the operating
system act on their own: a guest boots late or never, panics, writes its disk;
the application may exit or crash with QEMU running.

Hard behaviours: commands interleaving between two lock sections; state read
before an await and used after it; the accelerator fallback, which replaces the
machine in the middle of a start; a failure half-way through a start; a crash
with QEMU running; a request that holds the one connection for minutes; a
keystroke that holds the console's writer for as long as a guest does not read
it; replies that come after their request was given up; checks of a guest the
learner goes on changing; an installation, a snapshot or a restore that dies
between two file operations.

What makes each component correct (the properties this project is for):

- sessions: never two QEMUs that nobody has told to end; a QEMU that outlives a
  crash can be found again; no disk is replaced under a running machine; a
  lesson boots from a clean layer, and is set up again in a machine of its own;
  what is published (agent, session, Ready) belongs to the machine that runs;
  every command returns; a transitional state is settled;
- installation: what the quick check accepts is verified; an old runtime is kept
  until the new one has been verified; a crash at any instant can be repaired by
  the next installation;
- learner's progress: stored mastery only improves; hints never block the guided
  path; an attempt is scored once and in the run it belongs to;
- snapshots: a learner is never left with nothing to restore; a snapshot holds
  what the disk held when it was taken;
- agent channel: a reply is never taken for the answer to another request; a
  retry does not do twice what must be done once; the agent works only for the
  host that started its machine; a hung guest does not keep a stop from ending;
- console: a keystroke is read by the machine it was typed at or by none; a
  Ready machine that was attached has the terminal; whoever waits for the writer
  gets it;
- validation: no check passes out of nothing, because a tool hangs, is missing
  or fails, or because the guest changes between two awaits of the check; a
  validator the agent does not know never completes a task.

## 2. Plan

In order of importance; each line is a module (with its `MC` instance and, where
marked, its proofs).

1. `VmManager`, `VmSession` (`VmSession_proof`): sessions. **Done.**
2. `RuntimeInstall` (`RuntimeInstall_proof`), with the abstract specification
   `RuntimeSlot` and the refinement, proved there too. **Done.**
3. `LearnerProgress` (`LearnerProgress_proof`, `LearnerCompletion_proof`):
   attempts, hints, check_task against the store, the player's own copy of them.
   **Done**, except the counters of a row.
4. `AgentLink` (`AgentLink_proof`): request ids, stale replies, time limits and
   the retry, with the agent's handlers at the other end. **Done.**
5. `TaskValidation` and the families of checks it extends (`GuestFacts`,
   `CheckOutcome`, `FileChecks`, `ProcessChecks`, `SystemChecks`,
   `IdentityChecks`, `NetworkChecks`, `ScriptChecks`), with
   `TaskValidation_proof`: what a check reports of a guest. **Done.**
6. `PracticeSnapshots` (`PracticeSnapshots_proof`): files, rows and the live
   disk. **Done.**
7. `ConsoleBridge` (`ConsoleBridge_proof`): who has the serial console, who
   waits for it. **Done**, except the diagnostic tail.

Left, in this order: `Progression::next_lesson` and the recommendations as pure
algorithms; the history's retention and its prune at startup. Every safety
property that a passing run checks is proved. Next: abstract specifications of
the control channel (a request is answered at most once, and by its own machine)
and of the learner's progress (a lesson is complete or not, and by which
mastery), with the refinements `AgentLink` and `LearnerProgress` owe to them.

## 3. Modules and code

**`VmManager`** (no variables) writes every operation of `VmManager` that has a
caller as a function on a record: the supervised process, the state, the last
prepared configuration, the accelerator, `vm.pid`, the QEMU processes that are
alive and those of them that were told to end (`doomed`). They are functions
because the code runs each under the `vm` mutex. start() is two, `Spawned` and
`Recorded`: vm.pid is written after the launch, and the application can end in
between. No operation takes a process out of `alive`: TerminateProcess returns
before the process has gone, terminate() gives up after five seconds and reports
success (process.rs:28-36), and kill_stale may find nothing to kill
(process.rs:145-155) while vm.pid is cleared all the same. A process goes by
dying, after it was told to end (`Told`) or by itself; the faults `kill`,
`miss`, `reap` and `job` are the cases in which it was not even told. A
configuration is named by the number of the prepare() that made it, which stands
for its fresh ports and token.

**`VmSession`** composes them into the commands of `commands.rs`. A task is a
command in flight; one step is what it does between two points where another
task can run, which for the manager is one section under the mutex, except that
a launch and its record (`Start` or `Swap`, then `Record`) are two steps with
the mutex held in between (`VmFree`): only the end of the application comes
there. Two assignments to `agent` and `session` that follow each other are one
step: no command reads both. `Holds` is the connection mutex of an
`AgentClient`, which the first ping keeps for as long as the guest boots.
`Ping`, `Pong`, `WaitTimeout`, `WaitExit` are wait_until_ready and the poll
beside it; `Fallback`, `Swap`, `Republish` the second attempt under software
translation. Around the tasks, guests come up, write and die, and `Relaunch`
ends the application and starts it again: the job object should take QEMU with
it, and the fault `job` is the case in which it does not, which
reap_stale_process is there for, and `gap` the same between a launch and its
record. `open` are the processes that have the current file of their overlay
open, so that one that was told to end and is still there writes to the disk, or
keeps it from being replaced. Whether the operating system lets the host replace
an overlay that QEMU has open is not decided: both outcomes are steps.

**`RuntimeInstall`** writes install_runtime file by file: clear the staging
directory, copy, hash, decompress, hash the image, remove the live directory,
rename. A task is a call; all of them share the staging directory, which is
named after the process. A file is absent, partly written, good, or of the right
size and wrong. `open` is the file a task is writing and the directory it is in
by now: removing or renaming a directory that another call writes in succeeds on
one platform and fails on another, so both are steps. A machine that runs from
the live directory is the application's own, which the learner stops
(`VmStops`), or a stray one, which outlived the application or its stop and
which nothing ends (`StrayEnds`): a start returns the installer's error before
it comes to reap_stale_process (commands.rs:201-212). `QuickOk` is the size
check a launch makes, `Complete` what hashing would find.

**`RuntimeSlot`** is what an installation promises when it is alone: the live
runtime becomes complete only by a verified replacement, and stops being
complete only while one is ready. The mapping is `live <- Complete(root)`,
`spare <-` a call is past both verifications and the staging directory is
complete.

**`LearnerProgress`** has the attempts in memory, the rows in the store, the
player on screen with its own marks, and the commands in flight. `check_task`
is five steps because it takes the locks of the attempts and of the store in
turn: `Validate`, `Record`, `Rollup`, `Complete`, and the answer; the learner
may close the player, open it again, ask for hints or restart the lesson in
between. `Receive` applies an answer to the task that is current when it
arrives, as `LessonPlayer.svelte` does, and `Discard` drops one whose player is
gone.

**`AgentLink`** has both ends of the control channel and the device between
them. A caller is one request of one command; `Starter` is the command that
boots the machine and pings it. On the host: `TrySend`, `Read`, `Closed`,
`TimeOut` are try_request; `Failed` and `Drop` the one transparent retry, with
the connection dropped in a lock section of its own between the attempts;
`DeadlinePasses` and `StartFails` the end of wait_until_ready; `StopMachine` the
rest of a stop. In the guest: `Take` (token first, then the handler),
`TakeTorn`, the three steps of prepare_lesson with what each has done when it
fails, `ResetScript`, `Respond`. A run stands for a machine's port and token.
Abstractions: what the device keeps when a connection ends is kept whole or lost
whole, in each direction; a connection that would have to wait for another
client's to end counts as refused; `TimeOut` comes only when no reply is queued
(with one queued, it is the case of a reply that comes later); the signal logs
count as written once a setup script ran; requests are without their payload,
and what a validation does in the guest is `TaskValidation`'s.

**The validators.** `GuestFacts` is a guest as the agent reads it: a file tree
with owners, modes and links, processes, services, packages, accounts, name
spaces with sockets and a ruleset, and what each command does there; a program
that a check runs has a fate: it runs, it hangs until its limit, it is not
there, or it runs and fails with a complaint on stderr that says nothing of what
was asked. (What a shell complains of itself is part of what `Perform` says the
command does.) `CheckOutcome` has outcomes, a task's result, the registry and
the feedback. Each family module has one operator per validator, with the name
the validator has in lessons. Most checks are one turn: a look at the guest, or
one tool awaited. Five take several, one for each await: the cases of
unit_test_passes, the runs of idempotent_result, the command and the nested
checks of side_effect_exists, ssh-keygen and the mode of the key it read, and
dpkg-query with the comparison after it. Such a check keeps a `memory` from one
turn to the next, and a turn either ends it with an outcome or hands on the
memory; both come with the guest afterwards. **`TaskValidation`** makes a task's
checks turn by turn (`Turn`), each turn with a fate of its own, in a guest that
the learner (`Learner`) and the scripts change between any two. `agreed` and
`witnessed` are history: whether the turns of a check went as they would have
gone had all its tools answered. Text is abstract: a line, a name or a pattern
is a value, and the constants `Lower`, `Trim`, `Occurs` and `Numeral` say what
matters of it.

**`PracticeSnapshots`** has the disk of Free Practice, the file a restore moves
aside, the snapshot files and their rows. A file holds a version of the
learner's work, nothing, or a part of a copy. The manager's mutex is a variable,
because a copy is long: the guest writes meanwhile if a machine runs, and the
application may end. A reset frees the mutex after its copy and then removes the
disk (`Remove`, commands.rs:912-917): a start, a copy, a restore or another
reset may come between. A restore that a running machine refuses may have copied
that machine's disk over the file moved aside (`MoveRefused`,
overlay.rs:206-211). Abstractions: a machine runs or does not (`VmSession` has
its start and stop), and keeps its disk from being renamed or removed, as
Windows does; a row that offers what another offers is the same row.

**`ConsoleBridge`** has the serial console of each machine and the commands that
use it. A run is one QEMU with its console port. `lock` is the line of tasks
that have asked for the writer's mutex, whose head has it: tokio's mutex serves
its waiters in turn. `Connect`, `ConnectFails`, `Attach` and `Spawn` are attach;
`Launch` before and `Answered` or `GivesUp` after them the rest of a start;
`Detach` and then `Kill` or `Fallback` what a stop, a failed start and the
second attempt have in common. `Type`, `Written` and `NotWritten` are a
terminal_write, which keeps the mutex until the bytes are out: for a hung guest
neither of the two ends is enabled. `Spawn` and `PumpEnds` are the reader of
attach, which outlives the writer. Abstractions: a write that fails after a part
of it went out counts as not read; the terminal stays on screen; at most one
QEMU is alive, and a stop ends it, as `VmSession` has it; the guest's answer and
mark_ready are one step.

**How they fit together.** `VmSession` takes an answer of the agent as a choice
of the guest's; `AgentLink` is that choice in detail, with one machine's start
reduced to its pings. `AgentLink` takes a validation for one step, which
`TaskValidation` takes apart; `LearnerProgress` takes its verdict as given.
`PracticeSnapshots` refines the two actions of `VmSession` that replace the Free
Practice disk. `VmSession` takes the console's attach and detach for steps that
always succeed or fail at once; `ConsoleBridge` has what they wait for, and
takes a start for its launch and its end. No module instantiates another's,
`RuntimeSlot` apart: each keeps the state the others leave out, and their
product is out of TLC's reach.

## 4. Runs

| Run | Instance | Shows |
|---|---|---|
| `session_seq` | 1 task, all 8 commands, 1 lesson and Free Practice, 2 starts, WHPX; prepare, spawn and disk faults, crashes, machines that take their time to end | what is published belongs to the Ready machine; no disk is touched that a machine nobody told to end has open; lessons boot clean; a restarted lesson is set up in its own machine |
| `session_conc` | 2 tasks, start and stop, 2 starts, WHPX; prepare and job faults | one QEMU that nobody told to end; vm.pid names it once the launch is recorded; Down means no machine; a transitional state has a start in flight |
| `session_live` | 2 tasks, restart lesson, prepare and stop, 1 start, WHPX, fair | every command returns |
| `install_pair` | 2 calls, 1 part, a crash, an I/O error or a quarantined file | the size check accepts verified runtimes only |
| `install_alone` | 1 call, any bundle, 2 crashes, I/O errors or machines that outlive their stop, fair | implements `RuntimeSlot`; an intact bundle is installed again and again unless a stray machine keeps its files |
| `learner` | 1 lesson, 2 tasks, 1 hint each, 2 commands, 2 players, any one mishap | completions shown are stored, none is lost, status follows mastery, mastery only improves |
| `channel` | 2 requests and a start, 2 machines, 2 lessons of which one asks for everything; torn frames, failing handlers, a reused port | replies are correlated, nothing is done three times, a lesson reported prepared is whole, Ready was answered |
| `channel_live` | 1 request and a start, 1 machine, every fault but a reused port, fair | every command returns; a stop ends its machine |
| `checks` | every validator in 8 families of guests, in each turn the tool hanging, missing or complaining, 2 changes by the learner during a request | no check passes out of nothing, turn by turn; opposed checks disagree; an unknown validator completes nothing; feedback fits; a firewall rule is in its chain |
| `snapshots` | 2 commands, 2 names, 1 version of work after the first, any one mishap | a listed snapshot is what was copied; one step back is kept, but for five named ways to lose it |
| `console` | 2 session commands, one of which also starts, 2 keystrokes, 2 machines, WHPX; guests that hang, ports that open late, QEMUs that die; fair | a keystroke is read where it was typed or nowhere; a Ready machine that was attached has the terminal; every command gets the writer and returns unless a guest hangs |
| `finding_locked` | the smallest instance that shows it | see section 7 |

Why the bounds are enough. Two tasks, calls or requests are enough for every
interleaving of two commands, and every hazard listed is between two. Two starts
are a machine and its successor, each with a fallback: four launches. A lesson
and Free Practice are a layer that is made anew and one that is kept, and two
overlays of which one is not the lesson's. One part, the manifest and the image
are the three kinds of files the installer treats differently. Two tasks of a
lesson are enough for a last and a not-last one, two players for an answer that
finds another player than the one that asked. On the channel, two machines are a
client and the one that comes after it on the same port; `Skips` is 2 where the
code has 8, so that the limit is reached; one ping is enough for the safety
properties, which speak of its answer, and two for the retry of the start. A
turn of a check runs one program, in a network namespace by way of `ip`, so that
one fate for all the programs of a turn, of its own for each turn, makes every
combination; the guests of a family have a mark in their journal, so that the
learner of one does not end up in another. Two changes during a request are one
there and one back, between two checks or two turns of one. Two names of
snapshots are the one a reset takes and another. Two keystrokes are one queued
behind another, and two machines one and its successor, or its fallback.
`MaxStarts`, `MaxOpens`, `MaxMishaps`, `MaxRuns`, `MaxPings`, `MaxChanges` and
`MaxWork` bound counters that the code does not have; they are guards of the
actions that count. Symmetry is declared only where no liveness is checked.
Deadlock is not checked where a bounded instance ends when its starts, machines
or players are used up, and an idle application is at rest; it is checked in
`snapshots`, `checks` and `console`, where nothing ends.

Hypotheses visible in the configurations. `session_seq` issues commands one at a
time, `prepare_lesson` by itself among them: with two in flight a restore can
touch a disk in use (section 8). Its job object works, as does `session_conc`'s
vm.pid, which has the job object fail: `OneVm` needs one of the two
containments, and the theorem says which. The fault `reap` is only in
`session_live`; what the safety properties owe to it, to `miss`, `kill`,
`pidWrite` and `gap` is in the theorems. `learner` leaves out a restart_lesson
that fails half-way (fault `restart`, section 8). `channel` leaves out the
faults that only take machines or connections away; `channel_live` and the
theorems have them.

## 5. Fairness

`VmSession.FairSpec`: a command in flight goes on (weak fairness of its steps:
tokio runs every ready task, and every wait of a command has a time-out), and
strong fairness for the three steps that take the connection mutex, because a
tokio Mutex serves its waiters in turn. The learner, the guests and crashes owe
nothing: a guest may never answer.

`RuntimeInstall.FairSpec`: a call goes on; the learner tries again after a
failure, and does not keep a machine of the application running for ever
(`VmStops`). A stray machine owes nothing: no command ends one that keeps an
installation from being repaired (section 8), so `InstallSettles` says that the
bundle is installed again and again or there is a stray machine. A file that
changes and keeps its size is excluded from `InstallSettles`: the quick check
accepts it by design (docs/qa/test-matrix.md, row 13), and only a forced
reinstall repairs it. The mishaps are bounded, so that only finitely many
attempts are disturbed.

`AgentLink.FairSpec`: the tasks of the host are scheduled and their time limits
pass: weak fairness of a command's own steps, of the deadline of a start and of
what follows it. Nothing is assumed of the guest, the device or QEMU, and
nothing of who gets the mutex next: with one request and a start in flight weak
fairness is enough.

`ConsoleBridge.FairSpec`: the same of the session commands and keystrokes, each
of which goes on when it can. Who has the mutex next is the line's order, so no
strong fairness is needed. A guest that has not hung reads its console; whether
a guest answers a start is left open, because attach and the wait for the agent
have time limits.

`TaskValidation` and `PracticeSnapshots` have no liveness worth stating: a loop
over a finite list whose every turn has a time limit, and sequences without a
wait for another party but the mutex.

## 6. Proofs

Every safety property that a passing run checks, on states or on steps, has a
theorem checked by TLAPS, for every value of the constants that the modules'
assumptions admit: `Spec => []P` or `Spec => [][A]_vars`. One theorem is a
refinement, `Spec => ActsAsSlot`. Some need more, and say so: a hypothesis on
the constants (which faults occur, that commands are issued one at a time), or,
in two theorems on validation, on the guests of the behaviour (`Spec /\ []H =>
[]P`).

`VmSession_proof`. `TypeCorrect` and `DownSupervisesNothing` rest on
`SessionInv`: types, what every manager satisfies between two operations
(`MgrOK`: a state that is down supervises nothing, a supervised machine was
configured), and a task at `start` that has a configuration. `AtMostOneVm`
speaks of the machines that nobody has told to end, since the code waits for no
end. It adds `HostInv`, which says who may run: nothing but the supervised
machine and the one being recorded (`Owned`) if the job object works, or once a
machine is supervised or a start has reaped; that a launch being recorded is
alone, with nothing supervised; and, if vm.pid works, that it names whatever
runs but the launch being recorded. It needs the assumption `Contained`: the job
object takes QEMU down with the application, or else vm.pid is written,
kill_stale finds what it names, every kill works and the application never ends
between a launch and its record. Without it two machines run (section 8).
`OneVm` alone is not inductive, because it does not say that a survivor can
still be found. `SurvivorIsNamed` assumes besides `Contained` that vm.pid can be
written and kill_stale does not miss, and excepts the launch being recorded;
`TransitionalIsInFlight` (with `InFlightInv`: the only transitional states
between two sections are BootingGuest, and Starting under a record, and somebody
is between launch and settlement) assumes that QEMU can be launched.

The other four of `VmSession_proof` are about commands issued one at a time
(`Alone`: one task), with crashes and relaunches. `ReadyIsConsistent` rests on
`AloneInv`, which says at every step of a command which of machine, client and
session it has changed already: outside `Halfway` the client and the session are
the supervised machine's, and from publish to ready the machine is the command's
own. `LessonIsSetUpAtHome` says of restart_lesson that what it sets up is in a
machine on the lesson's overlay: that the machine it asks is its own is the last
part of `TaskInv`. prepare_lesson by itself may come in between; what it does in
another machine is in section 7. `TouchedDisksAreIdle` adds `DiskInv`: nothing
runs that nobody told to end when a command is at a disk. It needs that a
survivor can be named and found (`ReapWorks`: neither the write of vm.pid nor
kill_stale fails or misses), and the job object too: a restore does not reap.
`LessonsBootClean` needs neither: a lesson's layer is made anew for every start,
and who still has the old file open writes to a file that is gone; its invariant
says that nobody has the new layer open until the machine starts.

`RuntimeInstall_proof`. `QuickCheckIsSound` for any number of concurrent calls,
if no file changes and keeps its size (`"corrupt" \notin Faults`).
`QuickCheckSound` says nothing of the staging directory that will replace the
live one, nor of files being written in a directory that has moved. `WriterInv`
says what a call may be writing, and `ContentInv` that every file of either
directory is traceable: partly written, or a copy of the bundle's, or, for the
image, decompressed after the bundle was found good (`HashedInv`).

`AloneIsSlot`, in the same module: a call that is alone (`Alone`: one task),
with no file going bad in place (`NoDamage`: neither a quarantine nor a change
that keeps the size), implements `RuntimeSlot`, for any bundle, any number of
parts, crashes and I/O errors. Every step of the installer is mapped to a step
of the slot or to a stutter. Two of them make the refinement interesting: the
hash of the image, which is where a spare comes to be, and the rename, which
makes it live. Both need more than types: `AloneInv` adds to `WriterInv` that
what a call found good is still good, up to a complete staging directory when it
is ready to be made live (`StagedInv`), that it has a file open only in the
staging directory and only while it writes one (`OpenInv`), and that a live
directory that is not there has no files (`GoneInv`). With two calls the
refinement is false, since the second one writes in the directory the first has
verified.

`LearnerProgress_proof`. `TypeCorrect`, `StatusIsInStep` and
`MasteryNeverFalls`, from one invariant `IInv`: types, what a command under way
knows (`CallOK`: its lesson, its task, and a mastery of a passed lesson once it
is about to complete), and the agreement of status and mastery. The minimum
over the tasks exists because there is a task and the ladder is finite; the
current task because the natural numbers are well-founded.

`LearnerCompletion_proof`. `ShownIsStored`, if restart_lesson does not fail
half-way (`"restart" \notin Faults`, section 8), and `NoneIsLost`. What a player
shows depends on an answer it waits for, so `ShownCompleteIsStored` needs
`SitInv`: `AwaitInv` (the player on screen waits for one check or restart at a
time, of its own lesson, and a check is of its first task without a mark),
`TickInv` (unless a restart is under way a marked task has passed in the
attempts too) and `ResultInv` (a check is answered with a pass when the lesson
is stored or another task is left without a mark). `NoneIsLost` rests on
`PendingInv`: while nothing failed, a lesson whose every task passed is stored,
or a command is about to roll it up.

`AgentLink_proof`. For any number of commands, lessons, machines, pings and
skipped replies, any faults, and unbounded queues. `TypeCorrect`,
`AgentWorksForItsHost` and `ReadyMeansAnswered` rest on `IInv`: `JobInv` (a
command in flight has a machine; only the Starter pings, it waits for the newest
machine, and nothing is ready while it does), `LinkInv` (what is queued and at
work is of this machine, and a Pong answers the Starter) and the types of the
rest. `ReadyAnswered` is not inductive without `LinkInv`, since a Pong of an
earlier machine, or to somebody else, might be queued. `RepliesAreCorrelated`
adds `OwnInv`: a frame, a handled request or a reply with the id a command is
waiting for is that command's, because ids below `nextId` are given once per
client. The arithmetic of ids and the two-part case distinctions on queues are
lemmas, one per kind of step.

`CarriedOutAtMostTwice` counts: `TwiceInv` bounds what the agent has begun for a
command, together with the command's frames still queued, by the attempts it has
made (`Allowance`), which are two at most; a frame on the wire is an attempt
whose handler may yet run, and not even a connection that drops takes it back.
`PreparationStands`: `PrepInv` says of the guest that what a preparation at work
has done so far stands, and that it is the one begun last (`StageInv`), and of a
command that its frames are for its own machine (`OriginInv`), that the attempt
it waits for is its last (`OrderInv`), and that once it is told of success, or a
reply that tells it is queued, nothing of its own is under way and, if no other
preparation has begun since, its lesson is prepared (`SettledInv`). The reply of
a first attempt that broke off is the hard case: the second attempt may be
undoing what it reports. Its id is not the awaited one, so it is skipped.
`NobodyAssumption` says that the name for no command is no command's.

`PracticeSnapshots_proof`. For any number of commands in flight, names,
versions and mishaps. `SnapshotsAreFaithful` rests on `LockInv` (who copies
holds the mutex), `CopyInv` (the target of a copy is torn, and the disk is what
the copy began with unless written to) and `FaithInv`, which says of a file
never copied over that it has one owner: the command that copies it, the one
about to record it, or its rows. `RowHoldsItsCopy` alone does not exclude a row
written for a file that a second command is filling. `StepBackIsKept` rests on
`BackInv`, which is stronger than the property: what was taken away is in the
file moved aside or in a snapshot, never only in the live disk, which the guest
writes over. Since a reset removes the disk after it has freed the mutex,
`RemoveInv` says of a reset that is about to: unless it knows better (`dirty`),
its snapshot still holds what it copied. That the disk it removes is still that
one is not invariant; where it is not, the loss is one of the five named.

`ConsoleBridge_proof`. For any number of commands, keystrokes, machines and any
faults. `TypeCorrect` adds `BusyInv` to the types: a command past its launch has
a machine. `KeysStayHome` needs to know why a key in line cannot meet a later
machine: the line. A key reads the live machine if the writer is that machine's
already, or if an attach to it stands ahead; and `HomeInv` says that a key
behind such a way was typed at the live machine, `LineInv` that a task is in
line once and only where it asks for the mutex, `RunInv` that runs are numbered
in the order of their launches, `UnreadInv` that a key that still waits was read
by none. `TerminalIsAttached` adds `ConsoleInv`: a machine and the command that
launched it belong together (`OwnerInv`), the console of a machine is untouched
until that command attaches it (`FreshInv`), the attaches in line are in the
order of the launches (`OrderInv`), and an attached console stands, with nobody
in line to replace it, until a command is about to end the machine
(`AttachedInv`). Without `OrderInv` the late attach of a machine that was given
up could take the writer from its successor.

`TaskValidation_proof`. For any tasks, guests, tools and changes by the learner,
and every validator of the registry. The assumptions are what the JSON schema of
a lesson and validators.json guarantee: counts are integers and nested checks
lists (`StartAssumption`), certain kinds must say what they are about,
categories are those listed (`RegistryAssumption`), and the agent's programs
have a fate (`ProgramAssumption`; what a shell complains of itself is in
`Perform`, `FateAssumption`). The invariants are small (`RequestInv`: the
request is one that may be made and is answered when every check was;
`AcceptInv`: what passed was accepted by the registry; `OneGuestInv`: while
nothing moved, one guest was checked); the work is in the lemmas about the
evaluation, one per family and kind.

- `OutcomesAreTyped`, `UnknownNeverPasses`: without further hypotheses.
- `OppositesNeedAChange` assumes `PathsAreSound`: what stat finds, lstat finds,
  which is the kernel's. It holds whatever the tools do but for service_inactive
  and service_disabled whose systemctl failed: then the second of the opposites
  was not witnessed, and the property says so.
- `PassesAreWitnessed`, without further hypotheses, compares each turn of a
  check with the same turn of an agent whose programs all run. For a check of
  one turn that is a lemma per validator: it passes only when its tool ran. For
  one of several, `Follows` says that a turn whose tool ran is that of the ideal
  agent; one that went otherwise either ends the check without a pass or leaves
  it `Spoilt`, in a memory from which it cannot pass any more (a case that is
  not right, a nested check that failed). `MemoryInv` is the invariant: the
  memory of the check being made is one that its turns can have left, and it is
  spoilt unless every turn so far agreed. The number of cases, runs and nested
  checks plays no part, so no fold and no induction is needed.
- `RulesAreNarrowed`, for rulesets of any length, assumes that they are lists of
  lines (`RulesetsAreLists`). `LineEffect` says what a line does to what was
  collected, `RulesLieInBlock` that what was collected lies in the block.
- `FeedbackIsFit`, for any number of outcomes: the weights of the verdicts add
  up (`WeightsAddUp`), the percentage is rounded as integer arithmetic has it
  (`PercentOf`), and the primary failure is a real one if there is one
  (`PrimaryOf`).

Two loops are folds, that over the lines of a ruleset and that over the weights,
and a fold is a recursive function over sets of indices. The provers cannot
instantiate a lemma about an arbitrary operator, so `Iteration` is what one
element does in either of the two; `LoopExists` and `LoopTurns` turn the fold
into a sequence of iterations, and `ByInduction`, from the well-foundedness of
the natural numbers, replaces the library's induction theorem. The two
hypotheses on guests, `PathsAreSound` and `RulesetsAreLists`, hold in every
reachable state of the instance that `checks` explores.

Only model-checked: liveness (`VmSession.CommandsReturn`, `InstallSettles`,
`AgentLink.CommandsReturn`, `StopEndsMachine`, `ConsoleBridge.CommandsReturn`).
It rests on fairness, and so on ENABLED, which the prover does not decide.

## 7. Where code and statements disagree

A run that TLC ends with a counterexample; `PROJECT.json` quotes the line it
contradicts.

- `finding_locked`: a lesson completed with its solution stays an obstacle on
  the guided path.

Disagreements the models show without a run of their own; each is the note of a
hazard, and each is excepted by name, or by a hypothesis, where a property comes
near it.

- A lesson has an overlay of its own because it "must not be affected by
  whatever the learner has done to their sandbox" (overlay.rs:48-50). The lesson
  page issues prepare_lesson by itself (LessonPlayer.svelte:61-77), and
  prepare_lesson asks only that the manager be Ready (commands.rs:459): a lesson
  opened while Free Practice or another lesson runs is set up there. In
  `session_seq` three commands reach it: a start of Free Practice, its answer,
  and prepare_lesson. `RestartSetsUpAtHome` would be violated by it without its
  condition `p[3] = "restartLesson"`.
- reap_stale_process is there to kill what a crash left "before anything else
  touches the overlays" (lib.rs:138). A restore and a factory reset stop what
  the manager supervises and reap nothing.
- "A failure part-way through still leaves something to go back to"
  (overlay.rs:199-200) does not hold of a second attempt, nor of one that a
  running machine refuses (section 8, snapshots).
- A check that errs never counts as passed (validation.rs:49-50), but not every
  tool that fails makes a check err (section 8, checks).
- "The host then powers QEMU off regardless" (commands.rs:377-378): it waits for
  the console's writer first (section 8, console).

## 8. Known, and not covered by a run

Behaviours of the models that no run reports; most are hazards with a note.

- Sessions: a guest that dies after Ready is never noticed; a start while Ready
  kills the running machine as stale, or finds it still ending and refuses; the
  clean-up of a failed start stops a machine launched since; a start queued on
  the mutex runs between the stop and the copy of a restore; a launch that fails
  leaves Starting behind.
- Processes: with the job object failing, two QEMUs run after a crash between
  the launch and the write of vm.pid, after a vm.pid that could not be written,
  after a kill_stale that finds nothing to kill (vm.pid is cleared all the same,
  lib.rs:144-145), and after a stop whose kill failed (lib.rs:309-314). With it
  working none does for longer than a machine needs to end, but nobody waits for
  that end: a disk operation after a stop may meet a QEMU that still has the
  overlay open, and `OneVm` and `TouchedDiskIsIdle` do not count machines that
  were told to end. `VmSession` takes the console's detach, which precedes a
  fallback, the clean-up of a failed start and a stop (commands.rs:264, 317 and
  383), for done at once; what it may wait for is in `ConsoleBridge`.
- Installation: two calls share a staging directory, and one can make live what
  the other has begun to copy (the next size check refuses it); activation
  removes the live runtime before it renames; a QEMU that outlived the
  application, or its stop, keeps a damaged runtime from being replaced for as
  long as it runs, and no command ends it (excepted in `InstallSettles`).
- Progress: a restart_lesson that fails after it cleared the attempts leaves the
  player with marks the back end no longer has; a hint that arrives after the
  task changed is listed under the next task; a player opened again is told of a
  button for the solution that it does not show; every hint is counted when it
  is opened and again when the lesson completes (progress-store lib.rs:184).
- Channel: ids start at 1 in every client, so a client whose machine is gone
  can, on a reused port, take a reply meant for the new machine's (excepted in
  `OwnReply`); a request that timed out is tried again while the first may still
  run, so a handler can run twice (`AtMostTwice`).
- Checks: five pass when their tool does not answer (excepted in
  `PassWitnessed`, as `Blind`): `package_removed`, because dpkg-query that fails
  is a package that is not there; `service_inactive` and `service_disabled`,
  because what systemctl complains of on stderr is a state other than "active"
  and "enabled" (service.rs:66-74); `sudo_permission` with `allowed: false`; and
  `stderr_contains` of the words "timed out". For the same reason
  `service_active` and `service_inactive`, or `service_enabled` and
  `service_disabled`, can pass one after the other in a guest that does not
  change (excepted in `OpposedNeedsChange`). A check of several turns may pass
  on a guest that was at no instant as its turns found it: each turn is right
  about its own.
- Snapshots: a copy of a running machine's disk may be torn and is listed all
  the same; the snapshot of a factory reset has no row, so nothing lists it; two
  names that sanitise_id maps together share one file. What a restore or a reset
  took away is lost in five ways (exceptions of `OneStepBack`): a restore that
  failed half-way, tried again, replaces the file moved aside the first time by
  the half-restored disk (overlay.rs:206); a restore that a running machine
  refuses has copied that machine's disk over the file moved aside
  (overlay.rs:207-210); a snapshot, a reset's own included, is taken over the
  file that holds it; the disk that a reset removes is not what it copied, the
  copy having failed or the disk having been written to or replaced after the
  mutex was freed (commands.rs:912); and another reset truncates the copy in
  that gap.
- Console: a stop asks for the writer before it powers the machine off, and a
  keystroke that a hung guest does not read keeps it (excepted in
  `ConsoleBridge.CommandsReturn`); a port that opens later than ten seconds
  after the launch leaves a Ready machine without a terminal, and attach is not
  tried again (excepted in `ReadyIsAttached`); only an attach that succeeds
  empties the diagnostic tail (console.rs:45), so the error of a machine that
  never had a console quotes the one before it; the terminal issues a keystroke
  without waiting for the one before, and their order is the scheduler's.

## 9. Not modelled

- QEMU's command line, QMP, disk formats and backing chains: I/O whose failure
  is a fault of the models. Stop is one step under the mutex, its powerdown
  and its termination included.
- The terminal's rendering, size, clipboard and events; the diagnostic tail of
  the console, which only an error message reads.
- Redaction, the wording of feedback, reports and exports: text. Loading and
  searching the catalogue, recommendations and `next_lesson`; the history,
  achievements, counters and settings of the store but the mode: planned or
  plain writes that no other step reads.
- Health checks: they read and report; the one that repairs is in `VmSession`.
- Checkpoints and version reports of the agent, which the host never asks for.
- The guest image, network labs, lesson packages, build scripts, routes of the
  front end: data, tools run at build time, or layout.
- Several instances of the application over one data directory.
- pause, resume, use_fallback_machine and mark_exited(true): no callers.
- Optional files of the runtime other than the compressed image; optional tasks
  and concept lessons (a lesson without required tasks is complete on sight);
  review questions.
- The progression mode changes only while no player is open, and storing it is
  taken to succeed.
- Within the validators: messages, expected and observed texts, the order of
  listings, regular expressions (a pattern matches or does not, by definition of
  the instance) and time limits as durations.
