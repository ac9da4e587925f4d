----------------------------- MODULE AgentLink -----------------------------
(***************************************************************************)
(* The control channel: AgentClient on the host                            *)
(* (apps/desktop/src-tauri/src/agent.rs), the character device between     *)
(* host and guest, and the agent (guest/linuxlab-agent: main.rs, and       *)
(* handlers.rs without what a validation looks at).                        *)
(*                                                                         *)
(* A member of Caller is one request of one command; Starter is the        *)
(* command that boots a machine and waits for its first Pong.  A run is    *)
(* one machine; it gives its client both the port and the token, so a run  *)
(* stands for all three.                                                   *)
(*                                                                         *)
(* The device is QEMU's and virtio's, modelled from what agent.rs and      *)
(* main.rs rely on: one host connection at a time; what was written before *)
(* the host disconnects stays queued or is lost, in either direction.  A   *)
(* connection that would have to wait for another client's to end counts   *)
(* as refused.                                                             *)
(***************************************************************************)
EXTENDS Integers, Sequences, FiniteSets

CONSTANTS
  Caller, Starter,
  Lesson,
  Permits, WithFixtures, WithNetwork, WithScript,   \* what lessons ask for
  Ops,          \* the requests issued in this instance
  Faults,       \* what may go wrong in this instance
  Skips,        \* replies read before correlating is given up (8)
  MaxPings,     \* bound on the pings sent before the deadline of a start
  MaxRuns       \* bound on the number of machines

(* inquire: Diagnostics and ListDirectory, which change nothing. *)
AllOps == {"prepare", "validate", "reset", "resize", "inquire", "shutdown"}

(* refuse: a connection is refused.  cut: it breaks.  torn: it breaks in   *)
(* the middle of a frame.  handler: a step of a handler fails.  agent: the *)
(* agent is restarted.  die: QEMU dies.  reuse: a new machine gets the     *)
(* loopback port of an earlier one.                                        *)
AllFaults == {"refuse", "cut", "torn", "handler", "agent", "die", "reuse"}

ASSUME CallersAssumption == Starter \notin Caller
ASSUME LessonsAssumption ==
  Permits \cup WithFixtures \cup WithNetwork \cup WithScript \subseteq Lesson
ASSUME OpsAssumption == Ops \subseteq AllOps
ASSUME FaultsAssumption == Faults \subseteq AllFaults
ASSUME BoundsAssumption == {Skips, MaxPings, MaxRuns} \subseteq Nat \ {0}

VARIABLES
  published,  \* the run whose client is AppState.agent
  ready,      \* the run the manager calls ready
  conn,       \* the runs whose client holds a connection
  nextId,     \* next_id of each client
  job,        \* control state of each command
  machine,    \* the run of the live QEMU
  peer,       \* the run whose client QEMU is connected to
  wire,       \* frames on their way to the agent
  replies,    \* replies on their way to the host
  up,         \* the agent has opened the port
  work,       \* the frame being handled
  guest,      \* what the handlers have done to the guest
  off,        \* a poweroff is scheduled
  runs,       \* machines started so far
  execs,      \* how often the agent has begun each request
  last        \* the request of the lesson preparation begun last

host == <<published, ready, conn, nextId>>
channel == <<machine, peer, wire, replies>>
agent == <<up, work, guest, off>>
history == <<execs, last>>
vars == <<host, job, channel, agent, runs, history>>

NoRun == 0
Run == 1..MaxRuns
Proc == Caller \cup {Starter}
NoLesson == "none"
Nobody == "nobody"
Ids == Nat \ {0}

ASSUME NobodyAssumption == Nobody \notin Proc

(* A frame that breaks off is "torn": nothing of it can be parsed. *)
Frame == [run : Run, id : Ids, op : AllOps \cup {"ping", "torn"},
          lesson : Lesson \cup {NoLesson}, by : Proc]
Reply == [run : Run, id : Nat, op : AllOps \cup {"ping", "torn"},
          lesson : Lesson \cup {NoLesson}, to : Proc \cup {Nobody},
          ok : BOOLEAN, warned : BOOLEAN]
NoReply == [ok |-> FALSE]
Idle == [step |-> "idle"]
Steps == {"policy", "network", "script", "reset", "answer"}

Job == [at : {"idle", "request", "reading", "drop", "lastDrop", "stopping", "done"},
        run : Run \cup {NoRun}, op : AllOps \cup {"ping"},
        lesson : Lesson \cup {NoLesson}, tries : Ids, id : Nat,
        skips : 0..(Skips - 1), result : Reply \cup {NoReply}]

TypeOK ==
  /\ {published, ready, machine, peer} \subseteq Run \cup {NoRun}
  /\ conn \subseteq Run
  /\ nextId \in [Run -> Ids]
  /\ job \in [Proc -> Job]
  /\ wire \in Seq(Frame)
  /\ replies \in Seq(Reply)
  /\ up \in BOOLEAN /\ off \in BOOLEAN
  /\ work \in [step : Steps, frame : Frame, warned : BOOLEAN] \cup {Idle}
  /\ guest \in [policy : BOOLEAN, hardened : SUBSET Lesson, network : SUBSET Lesson,
                setup : SUBSET Lesson, signals : BOOLEAN]
  /\ runs \in 0..MaxRuns
  /\ execs \in [Caller -> Nat]
  /\ last \in Proc \cup {Nobody}

FreshGuest ==
  [policy |-> FALSE, hardened |-> {}, network |-> {}, setup |-> {}, signals |-> FALSE]

IdleJob == [at |-> "idle", run |-> NoRun, op |-> "ping", lesson |-> NoLesson,
            tries |-> 1, id |-> 0, skips |-> 0, result |-> NoReply]

Init ==
  /\ published = NoRun /\ ready = NoRun
  /\ conn = {}
  /\ nextId = [r \in Run |-> 1]
  /\ job = [p \in Proc |-> IdleJob]
  /\ machine = NoRun /\ peer = NoRun /\ wire = <<>> /\ replies = <<>>
  /\ up = FALSE /\ work = Idle /\ guest = FreshGuest /\ off = FALSE
  /\ runs = 0
  /\ execs = [c \in Caller |-> 0]
  /\ last = Nobody

At(p, l) == job[p].at = l

(* The mutex of a client: held from its connection until a reply, a time   *)
(* limit or the end of the channel.                                        *)
Locked(r) == \E p \in Proc : At(p, "reading") /\ job[p].run = r

---------------------------------------------------------------------------
(* The machine.                                                            *)

Launched(r) ==
  /\ machine' = r /\ peer' = NoRun /\ wire' = <<>> /\ replies' = <<>>
  /\ up' = FALSE /\ work' = Idle /\ guest' = FreshGuest /\ off' = FALSE
  /\ last' = Nobody

PoweredOff == Launched(NoRun)

(* start_session_inner, from manager.start to wait_until_ready. *)
StartMachine ==
  /\ At(Starter, "idle")
  /\ machine = NoRun
  /\ runs < MaxRuns
  /\ runs' = runs + 1
  /\ Launched(runs')
  /\ published' = runs'
  /\ ready' = NoRun
  /\ job' = [job EXCEPT ![Starter] = [IdleJob EXCEPT !.at = "request", !.run = runs']]
  /\ UNCHANGED <<conn, nextId, execs>>

Boot ==
  /\ machine # NoRun /\ ~up
  /\ up' = TRUE
  /\ UNCHANGED <<host, job, channel, work, guest, off, runs, history>>

Dies ==
  /\ machine # NoRun
  /\ "die" \in Faults \/ off
  /\ PoweredOff
  /\ UNCHANGED <<host, job, runs, execs>>

(* What the device keeps when the host's end of it is closed. *)
Disconnected ==
  /\ peer' = NoRun
  /\ wire' \in {wire, <<>>}
  /\ replies' \in {replies, <<>>}
  /\ UNCHANGED machine

Cut ==
  /\ "cut" \in Faults
  /\ peer # NoRun
  /\ Disconnected
  /\ UNCHANGED <<host, job, agent, runs, history>>

---------------------------------------------------------------------------
(* The host: AgentClient and the commands that use it.                     *)

(* prepare_lesson, check_task, reset_lesson, guest_diagnostics and         *)
(* list_directory want a ready machine; terminal_resize and stop_session   *)
(* take whatever client there is.                                          *)
Call(c) ==
  \E o \in Ops, l \in Lesson \cup {NoLesson} :
    /\ At(c, "idle")
    /\ published # NoRun
    /\ o \notin {"resize", "shutdown"} => ready # NoRun
    /\ (l # NoLesson) <=> o \in {"prepare", "validate", "reset"}
    /\ job' = [job EXCEPT ![c] = [IdleJob EXCEPT
                 !.at = "request", !.run = published, !.op = o, !.lesson = l]]
    /\ UNCHANGED <<host, channel, agent, runs, history>>

(* Mutant of Failed: a failed attempt is always tried again. *)
FailedRetried(p) == [job[p] EXCEPT !.at = "drop"]

(* An attempt failed: wait_until_ready tries again until its deadline,     *)
(* request() once; stop_session_inner goes on whatever the answer is.      *)
Failed(p) ==
  IF p = Starter \/ job[p].tries = 1
  THEN [job[p] EXCEPT !.at = "drop"]
  ELSE [job[p] EXCEPT !.at = IF job[p].op = "shutdown" THEN "stopping" ELSE "done"]

Connectable(r) == machine # NoRun /\ peer = NoRun /\ (machine = r \/ "reuse" \in Faults)

Reached(r) == peer = r \/ (r \notin conn /\ Connectable(r))

Request(p) == [run |-> job[p].run, id |-> nextId[job[p].run], op |-> job[p].op,
               lesson |-> job[p].lesson, by |-> p]

Reading(p) == [job[p] EXCEPT !.at = "reading", !.id = nextId[job[p].run], !.skips = 0]

(* try_request up to the flush: on a connection that stands or is made; on *)
(* one that has gone, where the write or the read after it fails; on one   *)
(* that breaks during the write; or without a connection.                  *)
TrySend(p) ==
  LET r == job[p].run
      took == /\ conn' = conn \cup {r}
              /\ nextId' = [nextId EXCEPT ![r] = @ + 1]
  IN
  /\ At(p, "request") /\ ~Locked(r)
  /\ \/ /\ Reached(r) /\ took
        /\ peer' = r
        /\ wire' = Append(wire, Request(p))
        /\ job' = [job EXCEPT ![p] = Reading(p)]
     \/ /\ r \in conn /\ peer # r /\ took
        /\ job' = [job EXCEPT ![p] = Failed(p)]
        /\ UNCHANGED <<peer, wire>>
     \/ /\ "torn" \in Faults /\ Reached(r) /\ took
        /\ peer' = NoRun
        /\ wire' = Append(wire, [Request(p) EXCEPT !.op = "torn"])
        /\ job' = [job EXCEPT ![p] = Failed(p)]
     \/ /\ r \notin conn /\ (~Reached(r) \/ "refuse" \in Faults)
        /\ job' = [job EXCEPT ![p] = Failed(p)]
        /\ UNCHANGED <<conn, nextId, peer, wire>>
  /\ UNCHANGED <<published, ready, machine, replies, agent, runs, history>>

(* Mutant of Answered: any reply makes the machine ready. *)
AnsweredByAny(p, reply) ==
  [job[p] EXCEPT !.at = IF p = Starter THEN "idle"
                        ELSE IF job[p].op = "shutdown" THEN "stopping" ELSE "done",
                 !.result = reply]

(* What a matching reply makes of a command.  Only a Pong makes a machine  *)
(* ready; a command takes only the reply of its own kind for success.      *)
Answered(p, reply) ==
  LET own == reply.ok /\ reply.op = job[p].op
      kept == [job[p] EXCEPT !.result = IF own THEN reply ELSE NoReply]
  IN  IF p = Starter
      THEN [kept EXCEPT !.at = IF own THEN "idle" ELSE "drop"]
      ELSE [kept EXCEPT !.at = IF job[p].op = "shutdown" THEN "stopping" ELSE "done"]

(* Mutant of Matches: replies are not correlated. *)
MatchesAny(p, reply) == TRUE

(* Id 0 answers a frame that could not be parsed. *)
Matches(p, reply) == reply.id \in {job[p].id, 0}

(* Mutant of Skipped: one reply too many is read. *)
SkippedLate(p) ==
  IF job[p].skips = Skips THEN Failed(p) ELSE [job[p] EXCEPT !.skips = @ + 1]

Skipped(p) ==
  IF job[p].skips + 1 = Skips THEN Failed(p) ELSE [job[p] EXCEPT !.skips = @ + 1]

(* Reads one reply.  A Pong of the machine also marks it ready. *)
Read(p) ==
  LET reply == Head(replies)
      answered == Answered(p, reply)
  IN
  /\ At(p, "reading") /\ peer = job[p].run
  /\ replies # <<>>
  /\ replies' = Tail(replies)
  /\ job' = [job EXCEPT ![p] = IF Matches(p, reply) THEN answered ELSE Skipped(p)]
  /\ ready' = IF p = Starter /\ Matches(p, reply) /\ answered.at = "idle"
              THEN job[p].run ELSE ready
  /\ UNCHANGED <<published, conn, nextId, machine, peer, wire, agent, runs, history>>

Closed(p) ==
  /\ At(p, "reading") /\ peer # job[p].run
  /\ job' = [job EXCEPT ![p] = Failed(p)]
  /\ UNCHANGED <<host, channel, agent, runs, history>>

(* Mutant of TimeOut: only the end of the channel ends the wait. *)
TimeOutNever(p) == FALSE /\ UNCHANGED vars

(* 180 seconds without a reply; the guest may have begun, or may yet begin, *)
(* what it was asked.                                                      *)
TimeOut(p) ==
  /\ p # Starter
  /\ At(p, "reading") /\ replies = <<>>
  /\ job' = [job EXCEPT ![p] = Failed(p)]
  /\ UNCHANGED <<host, channel, agent, runs, history>>

DropConnection(r) ==
  /\ ~Locked(r)
  /\ conn' = conn \ {r}
  /\ IF peer = r THEN Disconnected ELSE UNCHANGED channel

Again(p) ==
  IF p = Starter /\ job[p].tries = MaxPings
  THEN [job[p] EXCEPT !.at = "lastDrop"]
  ELSE [job[p] EXCEPT !.at = "request", !.tries = @ + 1]

(* The connection is dropped in a lock section of its own, between the two *)
(* attempts: another command may come before it or in between.             *)
Drop(p) ==
  /\ At(p, "drop")
  /\ DropConnection(job[p].run)
  /\ job' = [job EXCEPT ![p] = Again(p)]
  /\ UNCHANGED <<published, ready, nextId, agent, runs, history>>

(* The deadline of wait_until_ready cancels the attempt it interrupts and  *)
(* leaves one last drop, which waits for the mutex without a limit.        *)
DeadlinePasses ==
  /\ job[Starter].at \in {"request", "reading", "drop"}
  /\ job' = [job EXCEPT ![Starter].at = "lastDrop"]
  /\ UNCHANGED <<host, channel, agent, runs, history>>

(* start_session_inner, after the wait failed: at the deadline, or because *)
(* the machine was found to be gone.                                       *)
StartFails ==
  /\ \/ At(Starter, "lastDrop") /\ ~Locked(job[Starter].run)
     \/ job[Starter].at \in {"request", "reading", "drop", "lastDrop"} /\ machine = NoRun
  /\ published' = NoRun /\ ready' = NoRun
  /\ conn' = conn \ {job[Starter].run}
  /\ job' = [job EXCEPT ![Starter] = IdleJob]
  /\ PoweredOff
  /\ UNCHANGED <<nextId, runs, execs>>

(* Mutant of StopMachine: a shutdown that could not be asked for is an     *)
(* error of the whole command.                                             *)
StopMachineIfAsked(c) ==
  /\ At(c, "stopping")
  /\ job' = [job EXCEPT ![c].at = "done"]
  /\ IF job[c].result.ok
     THEN PoweredOff /\ published' = NoRun /\ ready' = NoRun /\ UNCHANGED <<conn, nextId, execs, runs>>
     ELSE UNCHANGED <<host, channel, agent, runs, history>>

(* stop_session_inner, after the request. *)
StopMachine(c) ==
  /\ At(c, "stopping")
  /\ job' = [job EXCEPT ![c].at = "done"]
  /\ published' = NoRun /\ ready' = NoRun
  /\ PoweredOff
  /\ UNCHANGED <<conn, nextId, runs, execs>>

---------------------------------------------------------------------------
(* The agent.  It handles one frame to the end before it reads the next.   *)

Answer(f, ok, warned) ==
  [run |-> machine, id |-> f.id, op |-> f.op, lesson |-> f.lesson, to |-> f.by,
   ok |-> ok, warned |-> warned]

Malformed ==
  [run |-> machine, id |-> 0, op |-> "torn", lesson |-> NoLesson, to |-> Nobody,
   ok |-> FALSE, warned |-> FALSE]

Ready == up /\ work = Idle /\ wire # <<>>

(* A frame that broke off has no end of line: it swallows the frame after  *)
(* it, or ends with the connection.                                        *)
TakeTorn ==
  /\ Ready /\ Head(wire).op = "torn"
  /\ \/ wire' = Tail(wire)
     \/ Len(wire) > 1 /\ wire' = Tail(Tail(wire))
  /\ replies' = Append(replies, Malformed)
  /\ UNCHANGED <<host, job, machine, peer, agent, runs, history>>

FirstStep(f) ==
  CASE f.op = "prepare" -> "policy"
    [] f.op = "reset" -> "reset"
    [] OTHER -> "answer"

(* Mutant of Authentic: the token is not compared. *)
AuthenticAlways(f) == TRUE

(* constant_time_eq of the frame's token with the machine's own. *)
Authentic(f) == f.run = machine

(* session: a frame whose token differs is answered and not handled. *)
Take ==
  LET f == Head(wire) IN
  /\ Ready /\ f.op # "torn"
  /\ wire' = Tail(wire)
  /\ IF Authentic(f)
     THEN /\ work' = [step |-> FirstStep(f), frame |-> f, warned |-> FALSE]
          /\ execs' = IF f.by \in Caller THEN [execs EXCEPT ![f.by] = @ + 1] ELSE execs
          /\ last' = IF f.op = "prepare" THEN f.by ELSE last
          /\ UNCHANGED replies
     ELSE /\ replies' = Append(replies, Answer(f, FALSE, FALSE))
          /\ UNCHANGED <<work, history>>
  /\ UNCHANGED <<host, job, machine, peer, up, guest, off, runs>>

Does(step) == work # Idle /\ work.step = step

Replied(ok) ==
  /\ work' = Idle
  /\ replies' = Append(replies, Answer(work.frame, ok, work.warned))

Goes(step) == work' = [work EXCEPT !.step = step] /\ UNCHANGED replies

HandlerFails == "handler" \in Faults /\ Replied(FALSE) /\ UNCHANGED guest

(* prepare_lesson up to its first wait.  The fixtures are hidden first,    *)
(* because the learner must not read what a check will compare with; then  *)
(* apply_sudo_policy, which never installs a file visudo refuses.          *)
Hidden == guest.hardened \cup ({work.frame.lesson} \cap WithFixtures)

SudoPolicy ==
  /\ Does("policy")
  /\ \/ /\ guest' = [guest EXCEPT !.hardened = Hidden,
                                  !.policy = work.frame.lesson \in Permits]
        /\ Goes("network")
     \/ /\ "handler" \in Faults
        /\ guest' \in {guest, [guest EXCEPT !.hardened = Hidden]}
        /\ Replied(FALSE)
  /\ UNCHANGED <<host, job, machine, peer, wire, up, off, runs, history>>

(* A network that does not start cleanly is a warning, not an error. *)
Network ==
  LET l == work.frame.lesson IN
  /\ Does("network")
  /\ \/ /\ guest' = [guest EXCEPT !.network = @ \cup ({l} \cap WithNetwork)]
        /\ Goes("script")
     \/ /\ l \in WithNetwork /\ "handler" \in Faults
        /\ work' = [work EXCEPT !.step = "script", !.warned = TRUE]
        /\ UNCHANGED <<guest, replies>>
     \/ l \in WithNetwork /\ HandlerFails
  /\ UNCHANGED <<host, job, machine, peer, wire, up, off, runs, history>>

(* Mutant of SetupFails: a setup script that fails is a warning. *)
SetupWarns == "handler" \in Faults /\ Replied(TRUE) /\ UNCHANGED guest

SetupFails == HandlerFails

(* From then on the learner's programs may log the signals they receive:   *)
(* the logs count as written.                                              *)
SetupScript ==
  LET l == work.frame.lesson IN
  /\ Does("script")
  /\ \/ /\ guest' = IF l \in WithScript
                    THEN [guest EXCEPT !.setup = @ \cup {l}, !.signals = TRUE]
                    ELSE guest
        /\ Replied(TRUE)
     \/ l \in WithScript /\ SetupFails
  /\ UNCHANGED <<host, job, machine, peer, wire, up, off, runs, history>>

(* reset_lesson: the signal logs are cleared unless the script failed. *)
ResetScript ==
  /\ Does("reset")
  /\ \/ guest' = [guest EXCEPT !.signals = FALSE] /\ Replied(TRUE)
     \/ HandlerFails
  /\ UNCHANGED <<host, job, machine, peer, wire, up, off, runs, history>>

(* handle(), for the other requests.  Shutdown answers first and powers    *)
(* the guest off a moment later.                                           *)
Respond ==
  LET o == work.frame.op IN
  /\ Does("answer")
  /\ \/ Replied(TRUE) /\ UNCHANGED guest
     \/ o \in {"resize", "inquire"} /\ HandlerFails
  /\ off' = (off \/ o = "shutdown")
  /\ UNCHANGED <<host, job, machine, peer, wire, up, runs, history>>

(* systemd restarts the agent: what it was doing is lost. *)
AgentRestarts ==
  /\ "agent" \in Faults /\ up
  /\ up' = FALSE /\ work' = Idle
  /\ UNCHANGED <<host, job, channel, guest, off, runs, history>>

---------------------------------------------------------------------------

HostStep(p) ==
  TrySend(p) \/ Read(p) \/ Closed(p) \/ TimeOut(p) \/ Drop(p)

Environment == Boot \/ Dies \/ Cut \/ AgentRestarts

Agent ==
  \/ TakeTorn \/ Take \/ SudoPolicy \/ Network \/ SetupScript
  \/ ResetScript \/ Respond

Next ==
  \/ StartMachine \/ DeadlinePasses \/ StartFails
  \/ \E c \in Caller : Call(c) \/ StopMachine(c)
  \/ \E p \in Proc : HostStep(p)
  \/ Environment
  \/ Agent

Spec == Init /\ [][Next]_vars

(* The application runs: its tasks are scheduled and its time limits pass. *)
(* Nothing is assumed of the guest, nor of QEMU.                           *)
FairSpec ==
  /\ Spec
  /\ WF_vars(DeadlinePasses) /\ WF_vars(StartFails)
  /\ \A c \in Caller : WF_vars(StopMachine(c))
  /\ \A p \in Proc : WF_vars(HostStep(p))

---------------------------------------------------------------------------
(* Properties.                                                             *)

(* A command that succeeds was given the reply to its own last attempt,    *)
(* and not a reply left over from an attempt that timed out or from        *)
(* another command: try_request correlates the ids.  A client whose        *)
(* machine is gone is excepted: ids start at 1 in every client, so on a    *)
(* reused port it can take a reply meant for the client of the new         *)
(* machine.                                                                *)
OwnReply ==
  \A p \in Proc : job[p].result.ok =>
    \/ job[p].result.to = p /\ job[p].result.id = job[p].id
    \/ job[p].result.run # job[p].run

(* "One transparent retry" (agent.rs): a request is carried out twice at   *)
(* most, however connections and replies were lost.                        *)
AtMostTwice == \A c \in Caller : execs[c] <= 2

(* The agent works only for the client of the application that started its *)
(* machine, also when a client of an earlier machine reconnects to a port  *)
(* that has been given away again.                                         *)
WorksForItsHost == work # Idle => work.frame.run = machine

(* A command told that its lesson is prepared, in a machine where no other *)
(* preparation has begun since, has all the lesson asked for: the sudo     *)
(* policy, the hidden fixtures, the setup script, and, unless it was       *)
(* warned, the network; whatever the first attempt of the request had      *)
(* left half done.                                                         *)
PreparedStands ==
  \A c \in Caller :
    LET reply == job[c].result IN
    reply.ok /\ job[c].op = "prepare" /\ last = c /\ reply.run = machine
    => /\ guest.policy = (reply.lesson \in Permits)
       /\ reply.lesson \in WithFixtures => reply.lesson \in guest.hardened
       /\ reply.lesson \in WithScript => reply.lesson \in guest.setup
       /\ reply.lesson \in WithNetwork /\ ~reply.warned => reply.lesson \in guest.network

(* A machine is called ready only when its own agent answered this start's *)
(* ping with a Pong.                                                       *)
ReadyAnswered ==
  ready # NoRun =>
    LET pong == job[Starter].result IN
    pong.ok /\ pong.op = "ping" /\ pong.to = Starter /\ pong.run = ready

(* Every command returns, whatever the guest does or fails to do: no wait  *)
(* on the channel or on the connection's mutex is without an end.          *)
CommandsReturn ==
  \A p \in Proc : ~(job[p].at \in {"idle", "done"}) ~> job[p].at \in {"idle", "done"}

(* "the host then powers QEMU off regardless" (commands.rs): once          *)
(* stop_session has asked, that machine goes down.                         *)
StopEndsMachine ==
  \A c \in Caller, r \in Run :
    (job[c].op = "shutdown" /\ At(c, "request") /\ machine = r) ~> machine # r
=============================================================================
