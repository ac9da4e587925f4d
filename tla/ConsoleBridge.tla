--------------------------- MODULE ConsoleBridge ---------------------------
(***************************************************************************)
(* The terminal's way into the guest (apps/desktop/src-tauri/src/          *)
(* console.rs), with the commands that use it: start_session attaches the  *)
(* bridge and detaches it when it fails, stop_session detaches it before   *)
(* it powers the machine off, and every keystroke is a terminal_write of   *)
(* its own.  All of them wait for one tokio mutex, which serves its        *)
(* waiters in turn.                                                        *)
(*                                                                         *)
(* A run is one QEMU process with its console port.  The terminal stays on *)
(* screen.  The rest of a session is in VmSession; here a guest answers or *)
(* does not, and at most one QEMU is alive.                                *)
(***************************************************************************)
EXTENDS Naturals, Sequences

CONSTANTS
  Session,            \* session commands that can run together
  MayStart, MayStop,  \* what they may be
  Key,                \* keystrokes, each a command
  Whpx,               \* the first launch is hardware accelerated
  Faults,             \* what may go wrong in this instance
  MaxRuns             \* bound on the number of machines

(* late: QEMU opens the console port later than attach waits for it.       *)
(* hang: a guest stops reading its console, and the buffers up to it are   *)
(* full.  die: QEMU ends by itself.                                        *)
AllFaults == {"late", "hang", "die"}

ASSUME TasksAssumption == Session \cap Key = {}
ASSUME OpsAssumption == MayStart \cup MayStop \subseteq Session
ASSUME WhpxAssumption == Whpx \in BOOLEAN
ASSUME FaultsAssumption == Faults \subseteq AllFaults
ASSUME RunsAssumption == MaxRuns \in Nat

VARIABLES
  writer,    \* the run the installed write half belongs to
  lock,      \* tasks that have asked for the writer; the first one has it
  pump,      \* the task that reads the console of each run
  closed,    \* runs whose write half the host has closed
  job,       \* the session commands
  key,       \* the keystrokes
  machine,   \* the live QEMU
  ready,     \* the run the manager calls ready
  whpx,      \* the next launch is hardware accelerated
  hung,      \* runs that do not read their console
  runs,      \* machines launched so far
  home,      \* the machine that was alive when a key was typed
  got        \* the machine that read it

bridge == <<writer, lock, pump, closed>>
host == <<machine, ready, whpx, hung, runs>>
keys == <<key, home, got>>
vars == <<bridge, job, host, keys>>

NoRun == 0
Run == 1..MaxRuns
Task == Session \cup Key

Places == {"idle", "launch", "connect", "attach", "spawn", "wait", "detach", "kill"}
Job == [op : {"start", "stop"}, at : Places, run : Run \cup {NoRun}, whpx : BOOLEAN]

TypeOK ==
  /\ {writer, machine, ready} \subseteq Run \cup {NoRun}
  /\ lock \in Seq(Task)
  /\ pump \in [Run -> {"none", "reading", "done"}]
  /\ {closed, hung} \subseteq SUBSET Run
  /\ job \in [Session -> Job]
  /\ key \in [Key -> {"idle", "waiting", "done"}]
  /\ whpx \in BOOLEAN
  /\ runs \in 0..MaxRuns
  /\ home \in [Key -> Run \cup {NoRun}] /\ got \in [Key -> Run \cup {NoRun}]

Init ==
  /\ writer = NoRun /\ lock = <<>>
  /\ pump = [r \in Run |-> "none"]
  /\ closed = {}
  /\ job = [s \in Session |-> [op |-> "stop", at |-> "idle", run |-> NoRun, whpx |-> FALSE]]
  /\ key = [k \in Key |-> "idle"]
  /\ machine = NoRun /\ ready = NoRun /\ whpx = Whpx
  /\ hung = {} /\ runs = 0
  /\ home = [k \in Key |-> NoRun] /\ got = [k \in Key |-> NoRun]

At(s, l) == job[s].at = l
Goto(s, l) == job' = [job EXCEPT ![s].at = l]

Asks(t) == lock' = Append(lock, t)
Has(t) == lock # <<>> /\ Head(lock) = t
Release == lock' = Tail(lock)

---------------------------------------------------------------------------
(* start_session, as far as the console goes.                              *)

(* A machine that is still running is reaped as stale, if it can be, and   *)
(* its console is not detached.                                            *)
StartSession(s) ==
  /\ s \in MayStart /\ At(s, "idle")
  /\ job' = [job EXCEPT ![s].op = "start", ![s].at = "launch"]
  /\ machine' \in {machine, NoRun}
  /\ UNCHANGED <<bridge, ready, whpx, hung, runs, keys>>

(* A command that has launched a machine goes on to attach its console.    *)
Launched(s, accelerated) ==
  /\ runs < MaxRuns
  /\ runs' = runs + 1 /\ machine' = runs + 1 /\ ready' = NoRun
  /\ job' = [job EXCEPT ![s].at = "connect", ![s].run = runs + 1, ![s].whpx = accelerated]

(* prepare() and start(), which refuses a second machine. *)
Launch(s) ==
  /\ At(s, "launch")
  /\ \/ machine = NoRun /\ Launched(s, whpx)
     \/ Goto(s, "idle") /\ UNCHANGED <<machine, ready, runs>>
  /\ UNCHANGED <<bridge, whpx, hung, keys>>

(* attach: connected, and in line for the writer. *)
Connect(s) ==
  /\ At(s, "connect") /\ machine = job[s].run
  /\ Goto(s, "attach") /\ Asks(s)
  /\ UNCHANGED <<writer, pump, closed, host, keys>>

(* Refused for ten seconds: the start goes on without a terminal. *)
ConnectFails(s) ==
  /\ At(s, "connect")
  /\ machine # job[s].run \/ "late" \in Faults
  /\ Goto(s, "wait")
  /\ UNCHANGED <<bridge, host, keys>>

(* Mutant of Attach: a writer that is there is kept. *)
AttachUnlessAttached(s) ==
  /\ At(s, "attach") /\ Has(s)
  /\ writer' = IF writer = NoRun THEN job[s].run ELSE writer
  /\ Release /\ Goto(s, "spawn")
  /\ UNCHANGED <<pump, closed, host, keys>>

(* An earlier write half is dropped, which closes it. *)
Attach(s) ==
  /\ At(s, "attach") /\ Has(s)
  /\ writer' = job[s].run
  /\ closed' = closed \cup ({writer} \ {NoRun})
  /\ Release /\ Goto(s, "spawn")
  /\ UNCHANGED <<pump, host, keys>>

(* The reader is spawned. *)
Spawn(s) ==
  /\ At(s, "spawn")
  /\ pump' = [pump EXCEPT ![job[s].run] = "reading"]
  /\ Goto(s, "wait")
  /\ UNCHANGED <<writer, lock, closed, host, keys>>

(* The guest answers the first ping; mark_ready. *)
Answered(s) ==
  /\ At(s, "wait") /\ machine = job[s].run
  /\ ready' = job[s].run
  /\ Goto(s, "idle")
  /\ UNCHANGED <<bridge, machine, whpx, hung, runs, keys>>

(* The guest takes too long, or QEMU ended. *)
GivesUp(s) ==
  /\ At(s, "wait")
  /\ Goto(s, "detach") /\ Asks(s)
  /\ UNCHANGED <<writer, pump, closed, host, keys>>

---------------------------------------------------------------------------
(* stop_session.  The guest was asked to shut down, which it may ignore.   *)

StopSession(s) ==
  /\ s \in MayStop /\ At(s, "idle")
  /\ job' = [job EXCEPT ![s].op = "stop", ![s].at = "detach"]
  /\ Asks(s)
  /\ UNCHANGED <<writer, pump, closed, host, keys>>

(* Mutant of Detach: what is closed need not be there. *)
DetachNone(s) ==
  /\ At(s, "detach") /\ Has(s)
  /\ writer' = NoRun
  /\ closed' = closed \cup {writer}
  /\ Release /\ Goto(s, "kill")
  /\ UNCHANGED <<pump, host, keys>>

(* The write half is dropped, which closes it. *)
Detach(s) ==
  /\ At(s, "detach") /\ Has(s)
  /\ writer' = NoRun
  /\ closed' = closed \cup ({writer} \ {NoRun})
  /\ Release /\ Goto(s, "kill")
  /\ UNCHANGED <<pump, host, keys>>

SecondAttempt(s) == job[s].op = "start" /\ job[s].whpx

(* stop() of the manager ends whatever it supervises. *)
Kill(s) ==
  /\ At(s, "kill") /\ ~SecondAttempt(s)
  /\ machine' = NoRun /\ ready' = NoRun
  /\ Goto(s, "idle")
  /\ UNCHANGED <<bridge, whpx, hung, runs, keys>>

(* The second attempt, under software translation. *)
Fallback(s) ==
  /\ At(s, "kill") /\ SecondAttempt(s)
  /\ whpx' = FALSE
  /\ \/ Launched(s, FALSE)
     \/ machine' = NoRun /\ ready' = NoRun /\ Goto(s, "idle") /\ UNCHANGED runs
  /\ UNCHANGED <<bridge, hung, keys>>

---------------------------------------------------------------------------
(* terminal_write.                                                         *)

Type(k) ==
  /\ key[k] = "idle"
  /\ key' = [key EXCEPT ![k] = "waiting"]
  /\ home' = [home EXCEPT ![k] = machine]
  /\ Asks(k)
  /\ UNCHANGED <<writer, pump, closed, job, host, got>>

Returns(k) ==
  /\ Has(k) /\ Release
  /\ key' = [key EXCEPT ![k] = "done"]

(* The bytes are out; the mutex is kept until then. *)
Written(k) ==
  /\ writer # NoRun /\ machine = writer /\ writer \notin hung
  /\ Returns(k)
  /\ got' = [got EXCEPT ![k] = writer]
  /\ UNCHANGED <<writer, pump, closed, job, host, home>>

(* Mutant of NotWritten: a key waits until there is a terminal. *)
KeyIsKept(k) ==
  /\ writer = NoRun \/ machine # writer
  /\ Has(k)
  /\ lock' = Append(Tail(lock), k)
  /\ UNCHANGED <<writer, pump, closed, job, host, keys>>

(* Mutant of NotWritten: it waits with the mutex in its hands. *)
KeyHoldsOn(k) ==
  /\ writer # NoRun /\ machine # writer
  /\ Returns(k)
  /\ UNCHANGED <<writer, pump, closed, job, host, home, got>>

(* Not connected, or connected to a machine that is gone. *)
NotWritten(k) ==
  /\ writer = NoRun \/ machine # writer
  /\ Returns(k)
  /\ UNCHANGED <<writer, pump, closed, job, host, home, got>>

---------------------------------------------------------------------------
(* The reader of a console, and the machine.                               *)

Ended(r) == pump[r] = "reading" /\ (machine # r \/ r \in closed)

(* QEMU is gone, or has closed its end after the host did: CLOSED_EVENT.   *)
PumpEnds(r) ==
  /\ Ended(r)
  /\ pump' = [pump EXCEPT ![r] = "done"]
  /\ UNCHANGED <<writer, lock, closed, job, host, keys>>

Hangs ==
  /\ "hang" \in Faults
  /\ hung' = hung \cup ({machine} \ {NoRun})
  /\ UNCHANGED <<bridge, job, machine, ready, whpx, runs, keys>>

Dies ==
  /\ "die" \in Faults
  /\ machine' = NoRun
  /\ UNCHANGED <<bridge, job, ready, whpx, hung, runs, keys>>

Connects(s) == Connect(s) \/ ConnectFails(s)
Ends(s) == Answered(s) \/ GivesUp(s)
Stops(s) == Kill(s) \/ Fallback(s)

Next ==
  \/ \E s \in Session :
       \/ StartSession(s) \/ Launch(s) \/ Connects(s) \/ Attach(s) \/ Spawn(s)
       \/ Ends(s) \/ StopSession(s) \/ Detach(s) \/ Stops(s)
  \/ \E k \in Key : Type(k) \/ Written(k) \/ NotWritten(k)
  \/ \E r \in Run : PumpEnds(r)
  \/ Hangs \/ Dies

Spec == Init /\ [][Next]_vars

(* The tasks of the host are scheduled, and a guest that has not hung      *)
(* reads its console; whether it answers a start is its own affair.        *)
FairSpec ==
  /\ Spec
  /\ \A s \in Session :
       /\ WF_vars(Launch(s)) /\ WF_vars(Connects(s)) /\ WF_vars(Attach(s))
       /\ WF_vars(Spawn(s)) /\ WF_vars(Ends(s)) /\ WF_vars(Detach(s)) /\ WF_vars(Stops(s))
  /\ \A k \in Key : WF_vars(Written(k) \/ NotWritten(k))

---------------------------------------------------------------------------
(* A key is read by the machine that was running when it was typed or by   *)
(* none, however long its command waits for the writer and whatever is     *)
(* stopped, started or attached meanwhile: what was meant for one shell    *)
(* is never run by the next one.                                           *)
KeyStaysHome == \A k \in Key : got[k] # NoRun => got[k] = home[k]

(* When every session command has returned, the terminal of a machine that *)
(* is Ready is attached to that machine and is being read, also if the     *)
(* console of another one was never detached.  (A port that opens late     *)
(* leaves it without a terminal: attach is not tried again.)               *)
ReadyIsAttached ==
  (/\ ready = machine /\ ready # NoRun /\ pump[ready] # "none"
   /\ \A s \in Session : At(s, "idle"))
    => writer = ready /\ pump[ready] = "reading"

(* Every command gets the writer it waits for and returns, a keystroke     *)
(* typed into a machine that is stopped too.  The exception is a machine   *)
(* whose guest has hung: a write that it does not read keeps the writer,   *)
(* and a stop waits for it before it powers the machine off.               *)
CommandsReturn ==
  /\ \A s \in Session : ~At(s, "idle") ~> At(s, "idle") \/ machine \in hung
  /\ \A k \in Key : key[k] = "waiting" ~> key[k] = "done" \/ machine \in hung
=============================================================================
