-------------------------- MODULE AgentLink_proof --------------------------
(***************************************************************************)
(* Proofs about AgentLink, for any number of commands, lessons, machines,  *)
(* pings and skipped replies, any requests and any faults.                 *)
(***************************************************************************)
EXTENDS AgentLink, TLAPS

(* A ping is the Starter's, on the wire, at work and in the reply. *)
GoodFrame == {f \in Frame : f.op = "ping" => f.by = Starter}
GoodReply(r) == {a \in Reply : a.run = r /\ (a.ok /\ a.op = "ping" => a.to = Starter)}

(* The commands: one in flight has a run, and the Starter the newest; only *)
(* the Starter pings, and nothing is ready while it does.                  *)
JobInv ==
  /\ job \in [Proc -> Job]
  /\ \A p \in Proc : ~At(p, "idle") => job[p].run \in Run
  /\ ~At(Starter, "idle") => job[Starter].run = runs /\ ready = NoRun
  /\ job[Starter].op = "ping"
  /\ \A c \in Caller : ~At(c, "idle") => job[c].op # "ping"
  /\ ReadyAnswered

(* The machine is the newest, what is under way in it are good frames and  *)
(* its own replies, and it works for its own client.                       *)
LinkInv ==
  /\ machine \in {NoRun, runs}
  /\ up => machine # NoRun
  /\ wire \in Seq(GoodFrame)
  /\ replies \in Seq(GoodReply(machine))
  /\ work \in [step : Steps, frame : GoodFrame, warned : BOOLEAN] \cup {Idle}
  /\ WorksForItsHost

(* The types of the rest. *)
RestInv ==
  /\ published \in Run \cup {NoRun} /\ ready \in Run \cup {NoRun}
  /\ peer \in Run \cup {NoRun}
  /\ conn \subseteq Run
  /\ nextId \in [Run -> Ids]
  /\ up \in BOOLEAN /\ off \in BOOLEAN
  /\ guest \in [policy : BOOLEAN, hardened : SUBSET Lesson, network : SUBSET Lesson,
                setup : SUBSET Lesson, signals : BOOLEAN]
  /\ runs \in 0..MaxRuns
  /\ execs \in [Caller -> Nat]
  /\ last \in Proc \cup {Nobody}

IInv == JobInv /\ LinkInv /\ RestInv

---------------------------------------------------------------------------
(* What the operators return.                                              *)

LEMMA StarterIsProc == Starter \in Proc /\ \A c \in Caller : c \in Proc /\ c # Starter
BY CallersAssumption DEF Proc

LEMMA IdleJobOK == IdleJob \in Job
BY BoundsAssumption DEF IdleJob, Job, Run, NoRun, NoReply, Ids

LEMMA FailedOK ==
  ASSUME NEW p \in Proc, job[p] \in Job
  PROVE  /\ Failed(p) \in Job
         /\ Failed(p).run = job[p].run
         /\ Failed(p).op = job[p].op
         /\ Failed(p).at # "idle"
BY DEF Failed, Job

LEMMA ReadingOK ==
  ASSUME NEW p \in Proc, job[p] \in Job, job[p].run \in Run, nextId \in [Run -> Ids]
  PROVE  /\ Reading(p) \in Job
         /\ Reading(p).run = job[p].run
         /\ Reading(p).op = job[p].op
         /\ Reading(p).at # "idle"
<1>1. nextId[job[p].run] \in Nat /\ 0 \in 0..(Skips - 1)
  BY BoundsAssumption DEF Ids
<1> DEFINE j == [job[p] EXCEPT !.at = "reading", !.id = nextId[job[p].run]]
<1>2. j \in Job /\ j.run = job[p].run /\ j.op = job[p].op /\ j.at # "idle"
  BY <1>1 DEF Job
<1>3. Reading(p) = [j EXCEPT !.skips = 0]
  BY DEF Reading, Job
<1> HIDE DEF j
<1> QED  BY <1>1, <1>2, <1>3 DEF Job

LEMMA SkippedOK ==
  ASSUME NEW p \in Proc, job[p] \in Job, ~At(p, "idle")
  PROVE  /\ Skipped(p) \in Job
         /\ Skipped(p).run = job[p].run
         /\ Skipped(p).op = job[p].op
         /\ Skipped(p).at # "idle"
<1>1. CASE job[p].skips + 1 = Skips
  BY <1>1, FailedOK DEF Skipped
<1>2. CASE job[p].skips + 1 # Skips
  <2>1. job[p].skips + 1 \in 0..(Skips - 1)
    BY <1>2, BoundsAssumption DEF Job
  <2> QED  BY <1>2, <2>1 DEF Skipped, Job, At
<1> QED  BY <1>1, <1>2

LEMMA AnsweredOK ==
  ASSUME NEW p \in Proc, job[p] \in Job, NEW a \in Reply
  PROVE  /\ Answered(p, a) \in Job
         /\ Answered(p, a).run = job[p].run
         /\ Answered(p, a).op = job[p].op
         /\ p # Starter => Answered(p, a).at # "idle"
         /\ Answered(p, a).at = "idle" =>
              Answered(p, a).result = a /\ a.ok /\ a.op = job[p].op
<1> DEFINE own == a.ok /\ a.op = job[p].op
<1> DEFINE kept == [job[p] EXCEPT !.result = IF own THEN a ELSE NoReply]
<1>1. (IF own THEN a ELSE NoReply) \in Reply \cup {NoReply}
  OBVIOUS
<1>2. kept \in Job /\ kept.run = job[p].run /\ kept.op = job[p].op /\ (own => kept.result = a)
  BY <1>1 DEF Job
<1> HIDE DEF kept
<1>3. CASE p = Starter
  <2>1. Answered(p, a) = [kept EXCEPT !.at = IF own THEN "idle" ELSE "drop"]
    BY <1>3 DEF Answered, kept
  <2> QED  BY <1>2, <1>3, <2>1 DEF Job
<1>4. CASE p # Starter
  <2>1. Answered(p, a) =
          [kept EXCEPT !.at = IF job[p].op = "shutdown" THEN "stopping" ELSE "done"]
    BY <1>4 DEF Answered, kept
  <2> QED  BY <1>2, <1>4, <2>1 DEF Job
<1> QED  BY <1>3, <1>4

LEMMA AgainOK ==
  ASSUME NEW p \in Proc, job[p] \in Job
  PROVE  /\ Again(p) \in Job
         /\ Again(p).run = job[p].run
         /\ Again(p).op = job[p].op
         /\ Again(p).at # "idle"
<1>1. CASE p = Starter /\ job[p].tries = MaxPings
  BY <1>1 DEF Again, Job
<1>2. CASE ~(p = Starter /\ job[p].tries = MaxPings)
  <2>1. job[p].tries + 1 \in Ids
    BY DEF Job, Ids
  <2> DEFINE j == [job[p] EXCEPT !.at = "request"]
  <2>2. j \in Job /\ j.run = job[p].run /\ j.op = job[p].op /\ j.at # "idle"
    BY DEF Job
  <2>3. Again(p) = [j EXCEPT !.tries = job[p].tries + 1]
    BY <1>2 DEF Again, Job
  <2> HIDE DEF j
  <2> QED  BY <2>1, <2>2, <2>3 DEF Job
<1> QED  BY <1>1, <1>2

LEMMA RequestOK ==
  ASSUME IInv, NEW p \in Proc, ~At(p, "idle")
  PROVE  /\ Request(p) \in GoodFrame
         /\ [Request(p) EXCEPT !.op = "torn"] \in GoodFrame
<1>1. /\ job[p] \in Job /\ job[p].run \in Run /\ nextId[job[p].run] \in Ids
      /\ job[p].op = "ping" => p = Starter
  BY DEF IInv, JobInv, RestInv, Proc
<1> QED  BY <1>1 DEF Request, GoodFrame, Frame, Job

LEMMA AnswerOK ==
  ASSUME NEW f \in GoodFrame, NEW ok \in BOOLEAN, NEW w \in BOOLEAN, machine \in Run
  PROVE  Answer(f, ok, w) \in GoodReply(machine)
BY DEF GoodFrame, GoodReply, Answer, Frame, Reply, Ids

LEMMA MalformedOK ==
  ASSUME machine \in Run
  PROVE  Malformed \in GoodReply(machine)
BY DEF GoodReply, Malformed, Reply

LEMMA FreshOK ==
  /\ FreshGuest \in [policy : BOOLEAN, hardened : SUBSET Lesson, network : SUBSET Lesson,
                     setup : SUBSET Lesson, signals : BOOLEAN]
  /\ \A S : <<>> \in Seq(S)
BY DEF FreshGuest

LEMMA MachineUp == ASSUME IInv, machine # NoRun  PROVE machine \in Run
BY BoundsAssumption DEF IInv, LinkInv, RestInv, Run, NoRun

(* A command goes from one point of its flight to another. *)
LEMMA JobMoves ==
  ASSUME IInv, NEW p \in Proc, ~At(p, "idle"),
         NEW j \in Job, j.run = job[p].run, j.op = job[p].op, j.at # "idle",
         job' = [job EXCEPT ![p] = j], runs' = runs, ready' \in {ready, NoRun}
  PROVE  JobInv'
<1>1. job' \in [Proc -> Job] /\ job'[p] = j /\ \A q \in Proc : q # p => job'[q] = job[q]
  BY DEF IInv, JobInv
<1>2. CASE p = Starter
  <2>1. ready' = NoRun
    BY <1>2 DEF IInv, JobInv
  <2> QED  BY <1>1, <1>2, <2>1, StarterIsProc DEF IInv, JobInv, ReadyAnswered, At
<1>3. CASE p # Starter
  <2>1. p \in Caller /\ job'[Starter] = job[Starter]
    BY <1>1, <1>3, StarterIsProc DEF Proc
  <2> QED  BY <1>1, <1>3, <2>1, StarterIsProc DEF IInv, JobInv, ReadyAnswered, At
<1> QED  BY <1>2, <1>3

(* A machine is replaced by a new one, or by none. *)
LEMMA LaunchedOK ==
  ASSUME NEW r, Launched(r), r \in {NoRun, runs'}
  PROVE  /\ LinkInv'
         /\ peer' = NoRun /\ up' \in BOOLEAN /\ off' \in BOOLEAN /\ last' = Nobody
         /\ guest' \in [policy : BOOLEAN, hardened : SUBSET Lesson, network : SUBSET Lesson,
                        setup : SUBSET Lesson, signals : BOOLEAN]
BY FreshOK DEF Launched, LinkInv, WorksForItsHost

(* The host's end is closed: what stays queued is what was. *)
LEMMA DisconnectedOK ==
  ASSUME IInv, Disconnected, UNCHANGED agent, runs' = runs
  PROVE  LinkInv' /\ peer' = NoRun
BY FreshOK DEF Disconnected, IInv, LinkInv, WorksForItsHost, agent

---------------------------------------------------------------------------
(* The machine and the host.                                               *)

LEMMA InitOK == Init => IInv
<1> SUFFICES ASSUME Init PROVE IInv
  OBVIOUS
<1>1. JobInv
  BY IdleJobOK, StarterIsProc DEF Init, JobInv, ReadyAnswered, At, IdleJob, NoRun
<1>2. LinkInv
  BY FreshOK DEF Init, LinkInv, WorksForItsHost
<1>3. RestInv
  <2>1. 0 \in 0..MaxRuns /\ nextId \in [Run -> Ids]
    BY BoundsAssumption DEF Init, Ids
  <2> QED  BY <2>1, FreshOK DEF Init, RestInv
<1> QED  BY <1>1, <1>2, <1>3 DEF IInv

LEMMA StartMachineOK == ASSUME IInv, StartMachine  PROVE IInv'
<1>1. runs' \in Run /\ runs' \in 0..MaxRuns /\ runs' # NoRun
  BY BoundsAssumption DEF StartMachine, IInv, RestInv, Run, NoRun
<1>2. [IdleJob EXCEPT !.at = "request", !.run = runs'] \in Job
  BY <1>1, IdleJobOK DEF Job
<1>3. JobInv'
  BY <1>1, <1>2, StarterIsProc
  DEF StartMachine, IInv, JobInv, ReadyAnswered, At, IdleJob
<1>4. LinkInv' /\ RestInv'
  BY <1>1, LaunchedOK DEF StartMachine, IInv, RestInv
<1> QED  BY <1>3, <1>4 DEF IInv

LEMMA BootOK == ASSUME IInv, Boot  PROVE IInv'
BY DEF Boot, IInv, JobInv, LinkInv, RestInv, ReadyAnswered, WorksForItsHost, At,
       host, channel, history

LEMMA DiesOK == ASSUME IInv, Dies  PROVE IInv'
<1>1. JobInv'
  BY DEF Dies, IInv, JobInv, ReadyAnswered, At, host
<1>2. LinkInv' /\ RestInv'
  BY LaunchedOK DEF Dies, PoweredOff, IInv, RestInv, host
<1> QED  BY <1>1, <1>2 DEF IInv

LEMMA CutOK == ASSUME IInv, Cut  PROVE IInv'
<1>1. JobInv'
  BY DEF Cut, IInv, JobInv, ReadyAnswered, At, host
<1>2. LinkInv' /\ RestInv'
  BY DisconnectedOK DEF Cut, IInv, RestInv, host, agent, history
<1> QED  BY <1>1, <1>2 DEF IInv

LEMMA AgentRestartsOK == ASSUME IInv, AgentRestarts  PROVE IInv'
BY DEF AgentRestarts, IInv, JobInv, LinkInv, RestInv, ReadyAnswered, WorksForItsHost, At,
       host, channel, history

LEMMA CallOK == ASSUME IInv, NEW c \in Caller, Call(c)  PROVE IInv'
<1> PICK o \in Ops, l \in Lesson \cup {NoLesson} :
      /\ At(c, "idle") /\ published # NoRun
      /\ job' = [job EXCEPT ![c] = [IdleJob EXCEPT
                   !.at = "request", !.run = published, !.op = o, !.lesson = l]]
      /\ UNCHANGED <<host, channel, agent, runs, history>>
  BY DEF Call
<1>1. published \in Run /\ o \in AllOps /\ o # "ping"
  BY OpsAssumption DEF IInv, RestInv, AllOps
<1> DEFINE j == [IdleJob EXCEPT !.at = "request", !.run = published, !.op = o, !.lesson = l]
<1>2. j \in Job /\ j.run \in Run /\ j.op # "ping"
  BY <1>1, IdleJobOK DEF Job, IdleJob
<1> HIDE DEF j
<1>3. job' = [job EXCEPT ![c] = j]
  BY DEF j
<1>4. JobInv'
  BY <1>2, <1>3, StarterIsProc DEF IInv, JobInv, ReadyAnswered, At, host
<1>5. LinkInv' /\ RestInv'
  BY DEF IInv, LinkInv, RestInv, WorksForItsHost, host, channel, agent, history
<1> QED  BY <1>4, <1>5 DEF IInv

(* A step of one command on its own. *)
LEMMA OneJobOK ==
  ASSUME IInv, NEW p \in Proc, ~At(p, "idle"),
         NEW j \in Job, j.run = job[p].run, j.op = job[p].op, j.at # "idle",
         job' = [job EXCEPT ![p] = j],
         UNCHANGED <<host, channel, agent, runs, history>>
  PROVE  IInv'
<1>1. JobInv'
  BY JobMoves DEF host
<1>2. LinkInv' /\ RestInv'
  BY DEF IInv, LinkInv, RestInv, WorksForItsHost, host, channel, agent, history
<1> QED  BY <1>1, <1>2 DEF IInv

LEMMA WaitOverOK ==
  ASSUME IInv, NEW p \in Proc, Closed(p) \/ TimeOut(p)  PROVE IInv'
<1>1. job[p] \in Job /\ ~At(p, "idle")
  BY DEF Closed, TimeOut, IInv, JobInv, At
<1> QED  BY <1>1, FailedOK, OneJobOK DEF Closed, TimeOut

LEMMA DeadlineOK == ASSUME IInv, DeadlinePasses  PROVE IInv'
<1> DEFINE j == [job[Starter] EXCEPT !.at = "lastDrop"]
<1>1. job[Starter] \in Job /\ ~At(Starter, "idle")
  BY StarterIsProc DEF DeadlinePasses, IInv, JobInv, At
<1>2. j \in Job /\ j.run = job[Starter].run /\ j.op = job[Starter].op /\ j.at # "idle"
  BY <1>1 DEF Job
<1>3. job' = [job EXCEPT ![Starter] = j]
  BY DEF DeadlinePasses
<1> HIDE DEF j
<1> QED  BY <1>1, <1>2, <1>3, StarterIsProc, OneJobOK DEF DeadlinePasses

LEMMA DropOK == ASSUME IInv, NEW p \in Proc, Drop(p)  PROVE IInv'
<1>1. job[p] \in Job /\ ~At(p, "idle")
  BY DEF Drop, IInv, JobInv, At
<1>2. JobInv'
  BY <1>1, AgainOK, JobMoves DEF Drop
<1>3. LinkInv' /\ peer' \in Run \cup {NoRun}
  <2>1. CASE peer = job[p].run
    BY <2>1, DisconnectedOK DEF Drop, DropConnection
  <2>2. CASE peer # job[p].run
    BY <2>2 DEF Drop, DropConnection, IInv, LinkInv, RestInv, WorksForItsHost, channel, agent
  <2> QED  BY <2>1, <2>2
<1>4. RestInv'
  BY <1>3 DEF Drop, DropConnection, IInv, RestInv, agent, history
<1> QED  BY <1>2, <1>3, <1>4 DEF IInv

LEMMA StartFailsOK == ASSUME IInv, StartFails  PROVE IInv'
<1>1. JobInv'
  BY IdleJobOK, StarterIsProc DEF StartFails, IInv, JobInv, ReadyAnswered, At, IdleJob
<1>2. LinkInv' /\ RestInv'
  BY LaunchedOK DEF StartFails, PoweredOff, IInv, RestInv
<1> QED  BY <1>1, <1>2 DEF IInv

LEMMA StopMachineOK == ASSUME IInv, NEW c \in Caller, StopMachine(c)  PROVE IInv'
<1> DEFINE j == [job[c] EXCEPT !.at = "done"]
<1>1. c \in Proc /\ job[c] \in Job /\ ~At(c, "idle")
  BY StarterIsProc DEF StopMachine, IInv, JobInv, At
<1>2. j \in Job /\ j.run = job[c].run /\ j.op = job[c].op /\ j.at # "idle"
  BY <1>1 DEF Job
<1>3. job' = [job EXCEPT ![c] = j]
  BY DEF StopMachine
<1> HIDE DEF j
<1>4. JobInv'
  BY <1>1, <1>2, <1>3, JobMoves DEF StopMachine
<1>5. LinkInv' /\ RestInv'
  BY LaunchedOK DEF StopMachine, PoweredOff, IInv, RestInv
<1> QED  BY <1>4, <1>5 DEF IInv

LEMMA TrySendOK == ASSUME IInv, NEW p \in Proc, TrySend(p)  PROVE IInv'
<1> DEFINE r == job[p].run
           took == conn' = conn \cup {r} /\ nextId' = [nextId EXCEPT ![r] = @ + 1]
<1>1. job[p] \in Job /\ ~At(p, "idle") /\ r \in Run /\ nextId \in [Run -> Ids]
  BY DEF TrySend, IInv, JobInv, RestInv, At
<1>2. took => conn' \subseteq Run /\ nextId' \in [Run -> Ids]
  BY <1>1 DEF IInv, RestInv, Ids
<1>3. Request(p) \in GoodFrame /\ [Request(p) EXCEPT !.op = "torn"] \in GoodFrame
  BY <1>1, RequestOK
<1>4. /\ job' \in {[job EXCEPT ![p] = Reading(p)], [job EXCEPT ![p] = Failed(p)]}
      /\ took \/ UNCHANGED <<conn, nextId>>
      /\ peer' \in {peer, r, NoRun}
      /\ \/ UNCHANGED wire
         \/ wire' = Append(wire, Request(p))
         \/ wire' = Append(wire, [Request(p) EXCEPT !.op = "torn"])
      /\ UNCHANGED <<published, ready, machine, replies, agent, runs, history>>
  BY DEF TrySend
<1>5. JobInv'
  BY <1>1, <1>4, ReadingOK, FailedOK, JobMoves
<1>6. LinkInv'
  <2>1. wire' \in Seq(GoodFrame)
    <3>1. wire \in Seq(GoodFrame)
      BY DEF IInv, LinkInv
    <3> HIDE DEF r
    <3>2. \A f \in GoodFrame : Append(wire, f) \in Seq(GoodFrame)
      BY <3>1
    <3> QED  BY <1>3, <1>4, <3>1, <3>2
  <2> QED  BY <1>4, <2>1 DEF IInv, LinkInv, WorksForItsHost, agent
<1>7. RestInv'
  BY <1>1, <1>2, <1>4 DEF IInv, RestInv, agent, history
<1> QED  BY <1>5, <1>6, <1>7 DEF IInv

LEMMA ReadOK == ASSUME IInv, NEW p \in Proc, Read(p)  PROVE IInv'
<1> DEFINE a == Head(replies)
<1>1. job[p] \in Job /\ ~At(p, "idle") /\ a \in GoodReply(machine) /\ a \in Reply
  BY DEF Read, IInv, JobInv, LinkInv, At, GoodReply
<1>2. LinkInv'
  BY DEF Read, IInv, LinkInv, WorksForItsHost, agent
<1>3. CASE Matches(p, a) /\ p = Starter /\ Answered(p, a).at = "idle"
  <2>1. job' = [job EXCEPT ![Starter] = Answered(p, a)] /\ ready' = job[Starter].run
    BY <1>3 DEF Read
  <2>2. /\ Answered(p, a) \in Job
        /\ Answered(p, a).op = "ping"
        /\ Answered(p, a).result = a /\ a.ok /\ a.op = "ping"
    BY <1>1, <1>3, AnsweredOK DEF IInv, JobInv
  <2>3. job[Starter].run = runs /\ job[Starter].run \in Run
    BY <1>1, <1>3 DEF IInv, JobInv
  <2>4. a.to = Starter /\ a.run = machine /\ a.run \in Run
    BY <1>1, <2>2 DEF GoodReply, Reply
  <2>5. machine = runs
    BY <2>4, BoundsAssumption DEF IInv, LinkInv, Run, NoRun
  <2>6. JobInv'
    BY <1>3, <2>1, <2>2, <2>3, <2>4, <2>5, StarterIsProc
    DEF Read, IInv, JobInv, ReadyAnswered, At
  <2>7. RestInv'
    BY <2>1, <2>3 DEF Read, IInv, RestInv, agent, history
  <2> QED  BY <1>2, <2>6, <2>7 DEF IInv
<1>4. CASE ~(Matches(p, a) /\ p = Starter /\ Answered(p, a).at = "idle")
  <2> DEFINE j == IF Matches(p, a) THEN Answered(p, a) ELSE Skipped(p)
  <2>1. job' = [job EXCEPT ![p] = j] /\ ready' = ready /\ runs' = runs
    BY <1>4 DEF Read
  <2>2. j \in Job /\ j.run = job[p].run /\ j.op = job[p].op /\ j.at # "idle"
    BY <1>1, <1>4, AnsweredOK, SkippedOK
  <2> HIDE DEF j
  <2>3. JobInv'
    BY <1>1, <2>1, <2>2, JobMoves
  <2>4. RestInv'
    BY <2>1 DEF Read, IInv, RestInv, agent, history
  <2> QED  BY <1>2, <2>3, <2>4 DEF IInv
<1> QED  BY <1>3, <1>4

---------------------------------------------------------------------------
(* The agent.                                                              *)

(* A step of the agent leaves the commands alone, keeps the types, queues  *)
(* only replies of its own and works for its own host.                     *)
LEMMA AgentStepOK ==
  ASSUME IInv, UNCHANGED <<host, job, machine, peer, up, runs>>,
         wire' \in Seq(GoodFrame),
         replies' \in Seq(GoodReply(machine)),
         work' \in [step : Steps, frame : GoodFrame, warned : BOOLEAN] \cup {Idle},
         work' # Idle => work'.frame.run = machine,
         guest' \in [policy : BOOLEAN, hardened : SUBSET Lesson, network : SUBSET Lesson,
                    setup : SUBSET Lesson, signals : BOOLEAN],
         off' \in BOOLEAN, execs' \in [Caller -> Nat], last' \in Proc \cup {Nobody}
  PROVE  IInv'
<1>1. JobInv'
  BY DEF IInv, JobInv, ReadyAnswered, At, host
<1>2. LinkInv'
  BY DEF IInv, LinkInv, WorksForItsHost
<1>3. RestInv'
  BY DEF IInv, RestInv, host
<1> QED  BY <1>1, <1>2, <1>3 DEF IInv

(* What is at work is a good frame for a live machine. *)
LEMMA AtWork ==
  ASSUME IInv, NEW step \in Steps, Does(step)
  PROVE  /\ work \in [step : Steps, frame : GoodFrame, warned : BOOLEAN]
         /\ work.frame.run = machine /\ machine \in Run
         /\ \A ok \in BOOLEAN : Replied(ok) =>
              work' = Idle /\ replies' \in Seq(GoodReply(machine))
<1>1. work \in [step : Steps, frame : GoodFrame, warned : BOOLEAN] /\ work.frame.run = machine
  BY DEF Does, IInv, LinkInv, WorksForItsHost
<1>2. machine \in Run
  BY <1>1 DEF GoodFrame, Frame
<1>3. \A ok \in BOOLEAN : Answer(work.frame, ok, work.warned) \in GoodReply(machine)
  BY <1>1, <1>2, AnswerOK
<1>4. replies \in Seq(GoodReply(machine))
  BY DEF IInv, LinkInv
<1>5. \A a \in GoodReply(machine) : Append(replies, a) \in Seq(GoodReply(machine))
  BY <1>4
<1> QED  BY <1>1, <1>2, <1>3, <1>5 DEF Replied

LEMMA TakeTornOK == ASSUME IInv, TakeTorn  PROVE IInv'
<1>1. wire \in Seq(GoodFrame) /\ wire # <<>> /\ replies \in Seq(GoodReply(machine))
  BY DEF TakeTorn, Ready, IInv, LinkInv
<1>2. machine \in Run
  BY MachineUp DEF TakeTorn, Ready, IInv, LinkInv
<1>3. wire' \in Seq(GoodFrame)
  <2> DEFINE w == Tail(wire)
  <2>1. w \in Seq(GoodFrame) /\ Len(w) = Len(wire) - 1 /\ Len(wire) \in Nat
    BY <1>1
  <2>2. Len(wire) > 1 => Tail(w) \in Seq(GoodFrame)
    <3> HIDE DEF w
    <3>1. w \in Seq(GoodFrame) /\ Len(w) # 0 => Tail(w) \in Seq(GoodFrame)
      OBVIOUS
    <3> QED  BY <2>1, <3>1
  <2> QED  BY <2>1, <2>2 DEF TakeTorn
<1>4. replies' \in Seq(GoodReply(machine))
  BY <1>1, <1>2, MalformedOK DEF TakeTorn
<1>5. /\ work' = work /\ guest' = guest /\ off' = off /\ execs' = execs /\ last' = last
      /\ UNCHANGED <<host, job, machine, peer, up, runs>>
  BY DEF TakeTorn, agent, history
<1> QED
  BY <1>3, <1>4, <1>5, AgentStepOK DEF IInv, LinkInv, RestInv, WorksForItsHost

LEMMA TakeOK == ASSUME IInv, Take  PROVE IInv'
<1> DEFINE f == Head(wire)
<1>1. /\ wire \in Seq(GoodFrame) /\ f \in GoodFrame /\ Tail(wire) \in Seq(GoodFrame)
      /\ replies \in Seq(GoodReply(machine))
  BY DEF Take, Ready, IInv, LinkInv
<1>2. machine \in Run
  BY MachineUp DEF Take, Ready, IInv, LinkInv
<1>3. /\ wire' = Tail(wire)
      /\ guest' = guest /\ off' = off
      /\ UNCHANGED <<host, job, machine, peer, up, runs>>
  BY DEF Take
<1>4. CASE Authentic(f)
  <2>1. /\ work' = [step |-> FirstStep(f), frame |-> f, warned |-> FALSE]
        /\ execs' = IF f.by \in Caller THEN [execs EXCEPT ![f.by] = @ + 1] ELSE execs
        /\ last' = IF f.op = "prepare" THEN f.by ELSE last
        /\ replies' = replies
    BY <1>4 DEF Take
  <2>2. FirstStep(f) \in Steps
    BY DEF FirstStep, Steps
  <2>3. work' \in [step : Steps, frame : GoodFrame, warned : BOOLEAN] /\ work'.frame.run = machine
    BY <1>1, <1>4, <2>1, <2>2 DEF Authentic
  <2>4. execs' \in [Caller -> Nat]
    BY <2>1 DEF IInv, RestInv
  <2>5. last' \in Proc \cup {Nobody}
    BY <1>1, <2>1 DEF IInv, RestInv, GoodFrame, Frame, Proc
  <2> QED  BY <1>1, <1>3, <2>1, <2>3, <2>4, <2>5, AgentStepOK DEF IInv, RestInv
<1>5. CASE ~Authentic(f)
  <2>1. /\ replies' = Append(replies, Answer(f, FALSE, FALSE))
        /\ work' = work /\ execs' = execs /\ last' = last
    BY <1>5 DEF Take, history
  <2>2. replies' \in Seq(GoodReply(machine))
    <3>1. Answer(f, FALSE, FALSE) \in GoodReply(machine)
      BY <1>1, <1>2, AnswerOK
    <3>2. \A a \in GoodReply(machine) : Append(replies, a) \in Seq(GoodReply(machine))
      BY <1>1
    <3> HIDE DEF f
    <3> QED  BY <2>1, <3>1, <3>2
  <2>3. /\ work' \in [step : Steps, frame : GoodFrame, warned : BOOLEAN] \cup {Idle}
        /\ work' # Idle => work'.frame.run = machine
    BY <2>1 DEF IInv, LinkInv, WorksForItsHost
  <2>4. execs' \in [Caller -> Nat] /\ last' \in Proc \cup {Nobody}
    BY <2>1 DEF IInv, RestInv
  <2> QED  BY <1>1, <1>3, <2>2, <2>3, <2>4, AgentStepOK DEF IInv, RestInv
<1> QED  BY <1>4, <1>5

(* A handler goes on, or replies. *)
LEMMA HandlerOK ==
  ASSUME IInv, NEW step \in Steps, Does(step),
         UNCHANGED <<host, job, machine, peer, wire, up, runs, history>>,
         \/ \E ok \in BOOLEAN : Replied(ok)
         \/ \E next \in Steps, w \in BOOLEAN :
              /\ work' = [work EXCEPT !.step = next, !.warned = w]
              /\ replies' = replies,
         guest' \in [policy : BOOLEAN, hardened : SUBSET Lesson, network : SUBSET Lesson,
                    setup : SUBSET Lesson, signals : BOOLEAN],
         off' \in BOOLEAN
  PROVE  IInv'
<1>1. /\ work \in [step : Steps, frame : GoodFrame, warned : BOOLEAN]
      /\ work.frame.run = machine
      /\ \A ok \in BOOLEAN : Replied(ok) =>
           work' = Idle /\ replies' \in Seq(GoodReply(machine))
  BY AtWork
<1>2. /\ work' \in [step : Steps, frame : GoodFrame, warned : BOOLEAN] \cup {Idle}
      /\ work' # Idle => work'.frame.run = machine
      /\ replies' \in Seq(GoodReply(machine))
  <2>1. CASE \E ok \in BOOLEAN : Replied(ok)
    BY <1>1, <2>1
  <2>2. CASE \E next \in Steps, w \in BOOLEAN :
               work' = [work EXCEPT !.step = next, !.warned = w] /\ replies' = replies
    BY <1>1, <2>2 DEF IInv, LinkInv
  <2> QED  BY <2>1, <2>2
<1>3. wire' \in Seq(GoodFrame) /\ execs' \in [Caller -> Nat] /\ last' \in Proc \cup {Nobody}
  BY DEF IInv, LinkInv, RestInv, history
<1> QED  BY <1>2, <1>3, AgentStepOK

(* Going to the next step, in the form HandlerOK asks for. *)
LEMMA GoesOK ==
  ASSUME IInv, NEW step \in Steps, Does(step), NEW next \in Steps, Goes(next)
  PROVE  \E w \in BOOLEAN :
           work' = [work EXCEPT !.step = next, !.warned = w] /\ replies' = replies
<1>1. work \in [step : Steps, frame : GoodFrame, warned : BOOLEAN]
  BY AtWork
<1>2. work.warned \in BOOLEAN /\ work' = [work EXCEPT !.step = next, !.warned = work.warned]
  BY <1>1 DEF Goes
<1> QED  BY <1>2 DEF Goes

(* The guest facts stay what they are, whatever a handler does. *)
LEMMA GuestOK ==
  ASSUME IInv
  PROVE  /\ guest \in [policy : BOOLEAN, hardened : SUBSET Lesson, network : SUBSET Lesson,
                      setup : SUBSET Lesson, signals : BOOLEAN]
         /\ Hidden \in SUBSET Lesson
         /\ off \in BOOLEAN
BY LessonsAssumption DEF IInv, RestInv, Hidden

LEMMA SudoPolicyOK == ASSUME IInv, SudoPolicy  PROVE IInv'
<1>1. Does("policy") /\ "policy" \in Steps /\ "network" \in Steps
  BY DEF SudoPolicy, Steps
<1>2. \/ Goes("network")
      \/ Replied(FALSE)
  BY DEF SudoPolicy
<1>3. guest' \in [policy : BOOLEAN, hardened : SUBSET Lesson, network : SUBSET Lesson,
                 setup : SUBSET Lesson, signals : BOOLEAN]
  <2> DEFINE permitted == work.frame.lesson \in Permits
  <2>1. permitted \in BOOLEAN /\ Hidden \in SUBSET Lesson
    BY GuestOK
  <2>2. \/ guest' = guest
        \/ guest' = [guest EXCEPT !.hardened = Hidden]
        \/ guest' = [guest EXCEPT !.hardened = Hidden, !.policy = permitted]
    BY DEF SudoPolicy
  <2> HIDE DEF permitted
  <2> QED  BY <2>1, <2>2, GuestOK
<1>4. off' \in BOOLEAN /\ UNCHANGED <<host, job, machine, peer, wire, up, runs, history>>
  BY GuestOK DEF SudoPolicy
<1> QED  BY <1>1, <1>2, <1>3, <1>4, GoesOK, HandlerOK

LEMMA NetworkOK == ASSUME IInv, Network  PROVE IInv'
<1> DEFINE l == work.frame.lesson
<1>1. Does("network") /\ "network" \in Steps /\ "script" \in Steps
  BY DEF Network, Steps
<1>2. \/ Goes("script")
      \/ work' = [work EXCEPT !.step = "script", !.warned = TRUE] /\ replies' = replies
      \/ Replied(FALSE)
  BY DEF Network, HandlerFails
<1>3. guest' \in [policy : BOOLEAN, hardened : SUBSET Lesson, network : SUBSET Lesson,
                 setup : SUBSET Lesson, signals : BOOLEAN]
  <2>1. guest.network \cup ({l} \cap WithNetwork) \in SUBSET Lesson
    BY GuestOK, LessonsAssumption
  <2>2. guest' = guest \/ guest' = [guest EXCEPT !.network = guest.network \cup ({l} \cap WithNetwork)]
    BY DEF Network, HandlerFails
  <2> QED  BY <2>1, <2>2, GuestOK
<1>4. off' \in BOOLEAN /\ UNCHANGED <<host, job, machine, peer, wire, up, runs, history>>
  BY GuestOK DEF Network
<1> QED  BY <1>1, <1>2, <1>3, <1>4, GoesOK, HandlerOK

LEMMA SetupScriptOK == ASSUME IInv, SetupScript  PROVE IInv'
<1> DEFINE l == work.frame.lesson
<1>1. Does("script") /\ "script" \in Steps
  BY DEF SetupScript, Steps
<1>2. Replied(TRUE) \/ Replied(FALSE)
  BY DEF SetupScript, SetupFails, HandlerFails
<1>3. guest' \in [policy : BOOLEAN, hardened : SUBSET Lesson, network : SUBSET Lesson,
                 setup : SUBSET Lesson, signals : BOOLEAN]
  <2>1. l \in WithScript => guest.setup \cup {l} \in SUBSET Lesson
    BY GuestOK, LessonsAssumption
  <2>2. \/ guest' = guest
        \/ l \in WithScript /\ guest' = [guest EXCEPT !.setup = guest.setup \cup {l}, !.signals = TRUE]
    BY DEF SetupScript, SetupFails, HandlerFails
  <2> QED  BY <2>1, <2>2, GuestOK
<1>4. off' \in BOOLEAN /\ UNCHANGED <<host, job, machine, peer, wire, up, runs, history>>
  BY GuestOK DEF SetupScript
<1> QED  BY <1>1, <1>2, <1>3, <1>4, HandlerOK

LEMMA ResetScriptOK == ASSUME IInv, ResetScript  PROVE IInv'
<1>1. Does("reset") /\ "reset" \in Steps
  BY DEF ResetScript, Steps
<1>2. Replied(TRUE) \/ Replied(FALSE)
  BY DEF ResetScript, HandlerFails
<1>3. guest' \in [policy : BOOLEAN, hardened : SUBSET Lesson, network : SUBSET Lesson,
                 setup : SUBSET Lesson, signals : BOOLEAN]
  BY GuestOK DEF ResetScript, HandlerFails
<1>4. off' \in BOOLEAN /\ UNCHANGED <<host, job, machine, peer, wire, up, runs, history>>
  BY GuestOK DEF ResetScript
<1> QED  BY <1>1, <1>2, <1>3, <1>4, HandlerOK

LEMMA RespondOK == ASSUME IInv, Respond  PROVE IInv'
<1>1. Does("answer") /\ "answer" \in Steps
  BY DEF Respond, Steps
<1>2. (Replied(TRUE) \/ Replied(FALSE)) /\ guest' = guest
  BY DEF Respond, HandlerFails
<1>3. off' \in BOOLEAN
  BY GuestOK DEF Respond
<1>4. UNCHANGED <<host, job, machine, peer, wire, up, runs, history>>
  BY DEF Respond
<1> QED  BY <1>1, <1>2, <1>3, <1>4, GuestOK, HandlerOK

---------------------------------------------------------------------------
(* The theorems.                                                           *)

LEMMA StepOK == ASSUME IInv, [Next]_vars  PROVE IInv'
<1>1. CASE StartMachine \/ DeadlinePasses \/ StartFails
  BY <1>1, StartMachineOK, DeadlineOK, StartFailsOK
<1>2. ASSUME NEW c \in Caller, Call(c) \/ StopMachine(c)  PROVE IInv'
  BY <1>2, CallOK, StopMachineOK
<1>3. ASSUME NEW p \in Proc, HostStep(p)  PROVE IInv'
  BY <1>3, TrySendOK, ReadOK, WaitOverOK, DropOK DEF HostStep
<1>4. CASE Environment
  BY <1>4, BootOK, DiesOK, CutOK, AgentRestartsOK DEF Environment
<1>5. CASE Agent
  BY <1>5, TakeTornOK, TakeOK, SudoPolicyOK, NetworkOK, SetupScriptOK, ResetScriptOK, RespondOK
  DEF Agent
<1>6. CASE UNCHANGED vars
  BY <1>6 DEF vars, host, channel, agent, history, IInv, JobInv, LinkInv, RestInv,
              ReadyAnswered, WorksForItsHost, At
<1> QED  BY <1>1, <1>2, <1>3, <1>4, <1>5, <1>6 DEF Next

LEMMA Inductive == Spec => []IInv
<1>1. Init => IInv
  BY InitOK
<1>2. IInv /\ [Next]_vars => IInv'
  BY StepOK
<1> QED  BY <1>1, <1>2, PTL DEF Spec

(* Every variable keeps its type: counters, queues and the state of every  *)
(* command, for any number of commands, machines and replies.              *)
THEOREM TypeCorrect == Spec => []TypeOK
<1>1. IInv => TypeOK
  <2> SUFFICES ASSUME IInv PROVE TypeOK
    OBVIOUS
  <2>1. GoodFrame \subseteq Frame /\ GoodReply(machine) \subseteq Reply
    BY DEF GoodFrame, GoodReply
  <2>2. wire \in Seq(Frame) /\ replies \in Seq(Reply)
    BY <2>1 DEF IInv, LinkInv
  <2>3. machine \in Run \cup {NoRun}
    BY MachineUp
  <2>4. work \in [step : Steps, frame : Frame, warned : BOOLEAN] \cup {Idle}
    BY <2>1 DEF IInv, LinkInv
  <2> QED  BY <2>2, <2>3, <2>4 DEF IInv, JobInv, LinkInv, RestInv, TypeOK
<1> QED  BY <1>1, Inductive, PTL

(* The agent never carries out a request of a client that was made for     *)
(* another machine, however ports are reused and connections cut.          *)
THEOREM AgentWorksForItsHost == Spec => []WorksForItsHost
<1>1. IInv => WorksForItsHost
  BY DEF IInv, LinkInv
<1> QED  BY <1>1, Inductive, PTL

(* A machine is ready only when its own agent answered the Starter's ping, *)
(* although replies are lost, late, or without an id.                      *)
THEOREM ReadyMeansAnswered == Spec => []ReadyAnswered
<1>1. IInv => ReadyAnswered
  BY DEF IInv, JobInv
<1> QED  BY <1>1, Inductive, PTL

---------------------------------------------------------------------------
(* Correlation.  Ids are given once per client, so the frame, or the       *)
(* reply, that has the id a command is waiting for is that command's.      *)

OwnFrame == {f \in GoodFrame :
  /\ f.id < nextId[f.run]
  /\ \A p \in Proc :
       At(p, "reading") /\ job[p].run = f.run /\ job[p].id = f.id => f.by = p}

OwnAnswer == {a \in GoodReply(machine) : a.ok =>
  /\ a.id \in Ids /\ a.id < nextId[a.run]
  /\ \A p \in Proc :
       At(p, "reading") /\ job[p].run = a.run /\ job[p].id = a.id => a.to = p}

(* A command still under way has no result yet. *)
UnderWay == {"request", "reading", "drop", "lastDrop"}
Awaited == \A p \in Proc : job[p].at \in UnderWay => ~job[p].result.ok

OwnInv ==
  /\ Awaited
  /\ wire \in Seq(OwnFrame)
  /\ work # Idle => work.frame \in OwnFrame
  /\ replies \in Seq(OwnAnswer)
  /\ \A p \in Proc : At(p, "reading") => job[p].id < nextId[job[p].run]
  /\ OwnReply

(* What was somebody's own stays so while ids only grow and a command that *)
(* starts to wait has an id nobody had.                                    *)
LEMMA OwnGrows ==
  ASSUME IInv, machine' = machine,
         \A r \in Run : nextId[r] \in Nat /\ nextId'[r] \in Nat /\ nextId[r] <= nextId'[r],
         \A p \in Proc : At(p, "reading")' =>
           \/ At(p, "reading") /\ job'[p].run = job[p].run /\ job'[p].id = job[p].id
           \/ job'[p].id = nextId[job'[p].run]
  PROVE  OwnFrame \subseteq OwnFrame' /\ OwnAnswer \subseteq OwnAnswer'
<1>1. ASSUME NEW f \in OwnFrame  PROVE f \in OwnFrame'
  <2>1. f \in GoodFrame /\ f.run \in Run /\ f.id \in Nat /\ f.id < nextId[f.run]
    BY DEF OwnFrame, GoodFrame, Frame, Ids
  <2>2. f.id < nextId'[f.run]
    BY <2>1
  <2>3. ASSUME NEW p \in Proc, At(p, "reading")', job'[p].run = f.run, job'[p].id = f.id
        PROVE  f.by = p
    <3>1. job'[p].id # nextId[job'[p].run]
      BY <2>1, <2>3
    <3> QED  BY <2>3, <3>1 DEF OwnFrame
  <2> QED  BY <2>1, <2>2, <2>3 DEF OwnFrame, GoodFrame
<1>2. ASSUME NEW a \in OwnAnswer  PROVE a \in OwnAnswer'
  <2>1. a \in GoodReply(machine) /\ a.run \in Run
    BY DEF OwnAnswer, GoodReply, Reply
  <2>2. a \in GoodReply(machine)'
    BY <2>1 DEF GoodReply
  <2>3. ASSUME a.ok
        PROVE  a.id \in Ids /\ a.id \in Nat /\ a.id < nextId[a.run] /\ a.id < nextId'[a.run]
    BY <2>1, <2>3 DEF OwnAnswer, Ids
  <2>4. ASSUME a.ok, NEW p \in Proc, At(p, "reading")', job'[p].run = a.run, job'[p].id = a.id
        PROVE  a.to = p
    <3>1. job'[p].id # nextId[job'[p].run]
      BY <2>1, <2>3, <2>4
    <3> QED  BY <2>4, <3>1 DEF OwnAnswer
  <2> QED  BY <2>2, <2>3, <2>4 DEF OwnAnswer
<1> QED  BY <1>1, <1>2

LEMMA SeqGrows == ASSUME NEW S, NEW T, S \subseteq T, NEW q \in Seq(S)  PROVE q \in Seq(T)
OBVIOUS

(* One command moves without starting to wait, or with the id it has; the  *)
(* queues are what they were, or empty.                                    *)
LEMMA OwnJob ==
  ASSUME IInv, OwnInv, NEW p \in Proc, NEW j \in Job,
         job' = [job EXCEPT ![p] = j], machine' = machine, nextId' = nextId,
         j.at = "reading" => At(p, "reading") /\ j.run = job[p].run /\ j.id = job[p].id,
         j.result.ok => (j.result.to = p /\ j.result.id = j.id) \/ j.result.run # j.run,
         j.at \in UnderWay => ~j.result.ok,
         wire' \in {wire, <<>>}, work' \in {work, Idle}, replies' \in Seq(OwnAnswer)
  PROVE  OwnInv'
<1>1. job \in [Proc -> Job] /\ job'[p] = j /\ \A q \in Proc : q # p => job'[q] = job[q]
  BY DEF IInv, JobInv
<1>2. OwnFrame \subseteq OwnFrame' /\ OwnAnswer \subseteq OwnAnswer'
  <2>1. \A r \in Run : nextId[r] \in Nat /\ nextId'[r] \in Nat /\ nextId[r] <= nextId'[r]
    BY DEF IInv, RestInv, Ids
  <2> QED  BY <1>1, <2>1, OwnGrows DEF At
<1>3. wire' \in Seq(OwnFrame')
  <2>1. wire' \in Seq(OwnFrame)
    BY FreshOK DEF OwnInv
  <2> QED  BY <1>2, <2>1, SeqGrows
<1>4. replies' \in Seq(OwnAnswer')
  BY <1>2, SeqGrows
<1>5. work' # Idle => work'.frame \in OwnFrame'
  BY <1>2 DEF OwnInv
<1>6. \A q \in Proc : At(q, "reading")' => job'[q].id < nextId'[job'[q].run]
  BY <1>1 DEF OwnInv, At
<1>7. OwnReply' /\ Awaited'
  BY <1>1 DEF OwnInv, OwnReply, Awaited
<1> QED  BY <1>3, <1>4, <1>5, <1>6, <1>7 DEF OwnInv

(* A step that leaves the commands and the clients alone. *)
LEMMA OwnQueues ==
  ASSUME IInv, OwnInv, job' = job, nextId' = nextId, machine' = machine,
         wire' \in Seq(OwnFrame), replies' \in Seq(OwnAnswer),
         work' # Idle => work'.frame \in OwnFrame
  PROVE  OwnInv'
<1>1. OwnFrame' = OwnFrame /\ OwnAnswer' = OwnAnswer
  BY DEF OwnFrame, OwnAnswer, GoodFrame, GoodReply, At
<1> QED  BY <1>1 DEF OwnInv, OwnReply, Awaited, At

(* A machine is replaced: nothing is left under way. *)
LEMMA OwnLaunched ==
  ASSUME NEW r, Launched(r), OwnReply', Awaited',
         \A p \in Proc : At(p, "reading")' => job'[p].id < nextId'[job'[p].run]
  PROVE  OwnInv'
BY FreshOK DEF Launched, OwnInv

(* The result of a command, as OwnInv has it. *)
LEMMA ResultOK ==
  ASSUME IInv, OwnInv, NEW p \in Proc
  PROVE  /\ job[p] \in Job
         /\ job[p].result.ok =>
              (job[p].result.to = p /\ job[p].result.id = job[p].id) \/ job[p].result.run # job[p].run
         /\ job[p].at \in UnderWay => ~job[p].result.ok
BY DEF IInv, JobInv, OwnInv, OwnReply, Awaited

LEMMA OwnStart == ASSUME IInv, OwnInv, StartMachine  PROVE OwnInv'
<1> DEFINE j == [IdleJob EXCEPT !.at = "request", !.run = runs']
<1>1. job' = [job EXCEPT ![Starter] = j] /\ nextId' = nextId /\ job \in [Proc -> Job]
  BY DEF StartMachine, IInv, JobInv
<1>2. j.at = "request" /\ j.result = NoReply
  BY DEF IdleJob
<1> HIDE DEF j
<1>3. OwnReply' /\ Awaited' /\ \A p \in Proc : At(p, "reading")' => job'[p].id < nextId'[job'[p].run]
  BY <1>1, <1>2 DEF OwnInv, OwnReply, Awaited, At, NoReply
<1> QED  BY <1>3, OwnLaunched DEF StartMachine

LEMMA OwnStartFails == ASSUME IInv, OwnInv, StartFails  PROVE OwnInv'
<1>1. job' = [job EXCEPT ![Starter] = IdleJob] /\ nextId' = nextId /\ job \in [Proc -> Job]
  BY DEF StartFails, IInv, JobInv
<1>2. IdleJob.at = "idle" /\ IdleJob.result = NoReply
  BY DEF IdleJob
<1>3. OwnReply' /\ Awaited' /\ \A p \in Proc : At(p, "reading")' => job'[p].id < nextId'[job'[p].run]
  BY <1>1, <1>2 DEF OwnInv, OwnReply, Awaited, At, NoReply
<1> QED  BY <1>3, OwnLaunched DEF StartFails, PoweredOff

LEMMA OwnStop == ASSUME IInv, OwnInv, NEW c \in Caller, StopMachine(c)  PROVE OwnInv'
<1> DEFINE j == [job[c] EXCEPT !.at = "done"]
<1>1. job' = [job EXCEPT ![c] = j] /\ nextId' = nextId /\ job \in [Proc -> Job] /\ c \in Proc
  BY StarterIsProc DEF StopMachine, IInv, JobInv
<1>2. j.at = "done" /\ j.result = job[c].result /\ j.id = job[c].id /\ j.run = job[c].run
  BY <1>1 DEF Job
<1> HIDE DEF j
<1>3. OwnReply' /\ Awaited' /\ \A p \in Proc : At(p, "reading")' => job'[p].id < nextId'[job'[p].run]
  BY <1>1, <1>2 DEF OwnInv, OwnReply, Awaited, UnderWay, At
<1> QED  BY <1>3, OwnLaunched DEF StopMachine, PoweredOff

LEMMA OwnDies == ASSUME IInv, OwnInv, Dies  PROVE OwnInv'
<1>1. OwnReply' /\ Awaited' /\ \A p \in Proc : At(p, "reading")' => job'[p].id < nextId'[job'[p].run]
  BY DEF Dies, OwnInv, OwnReply, Awaited, At, host
<1> QED  BY <1>1, OwnLaunched DEF Dies, PoweredOff

LEMMA OwnCall == ASSUME IInv, OwnInv, NEW c \in Caller, Call(c)  PROVE OwnInv'
<1> PICK o \in Ops, l \in Lesson \cup {NoLesson} :
      /\ published # NoRun
      /\ job' = [job EXCEPT ![c] = [IdleJob EXCEPT
                   !.at = "request", !.run = published, !.op = o, !.lesson = l]]
      /\ UNCHANGED <<host, channel, agent, runs, history>>
  BY DEF Call
<1> DEFINE j == [IdleJob EXCEPT !.at = "request", !.run = published, !.op = o, !.lesson = l]
<1>1. published \in Run /\ o \in AllOps
  BY OpsAssumption DEF IInv, RestInv
<1>2. j \in Job /\ j.at = "request" /\ j.result = NoReply
  BY <1>1, IdleJobOK DEF Job, IdleJob
<1> HIDE DEF j
<1>3. job' = [job EXCEPT ![c] = j]
  BY DEF j
<1>4. ~j.result.ok /\ replies' \in Seq(OwnAnswer) /\ c \in Proc
  BY <1>2, StarterIsProc DEF NoReply, OwnInv, channel
<1> QED  BY <1>2, <1>3, <1>4, OwnJob DEF host, channel, agent

LEMMA FailedKeeps ==
  ASSUME NEW p \in Proc, job[p] \in Job
  PROVE  /\ Failed(p).at # "reading" /\ Failed(p).result = job[p].result
         /\ Failed(p).id = job[p].id /\ Failed(p).run = job[p].run
BY DEF Failed, Job

LEMMA OwnWaitOver ==
  ASSUME IInv, OwnInv, NEW p \in Proc, Closed(p) \/ TimeOut(p)  PROVE OwnInv'
<1>1. replies' \in Seq(OwnAnswer)
  BY DEF Closed, TimeOut, OwnInv, channel
<1>2. job[p].at \in UnderWay
  BY DEF Closed, TimeOut, At, UnderWay
<1> QED
  BY <1>1, <1>2, ResultOK, FailedKeeps, FailedOK, OwnJob
  DEF Closed, TimeOut, host, channel, agent

LEMMA OwnDeadline == ASSUME IInv, OwnInv, DeadlinePasses  PROVE OwnInv'
<1> DEFINE j == [job[Starter] EXCEPT !.at = "lastDrop"]
<1>1. job[Starter] \in Job /\ job' = [job EXCEPT ![Starter] = j]
  BY StarterIsProc, ResultOK DEF DeadlinePasses
<1>2. /\ j \in Job /\ j.at # "reading" /\ j.result = job[Starter].result
      /\ j.id = job[Starter].id /\ j.run = job[Starter].run
  BY <1>1 DEF Job
<1> HIDE DEF j
<1>3. replies' \in Seq(OwnAnswer) /\ UNCHANGED <<host, channel, agent>>
  BY DEF DeadlinePasses, OwnInv, channel
<1>4. job[Starter].at \in UnderWay
  BY DEF DeadlinePasses, UnderWay
<1> QED
  BY <1>1, <1>2, <1>3, <1>4, StarterIsProc, ResultOK, OwnJob DEF host, channel, agent

LEMMA AgainKeeps ==
  ASSUME NEW p \in Proc, job[p] \in Job
  PROVE  /\ Again(p).at # "reading" /\ Again(p).result = job[p].result
         /\ Again(p).id = job[p].id /\ Again(p).run = job[p].run
BY DEF Again, Job

LEMMA OwnDrop == ASSUME IInv, OwnInv, NEW p \in Proc, Drop(p)  PROVE OwnInv'
<1>1. /\ wire' \in {wire, <<>>} /\ replies' \in {replies, <<>>}
      /\ machine' = machine /\ work' = work /\ nextId' = nextId
      /\ job' = [job EXCEPT ![p] = Again(p)]
  BY DEF Drop, DropConnection, Disconnected, channel, agent
<1>2. replies' \in Seq(OwnAnswer)
  BY <1>1, FreshOK DEF OwnInv
<1>3. job[p].at \in UnderWay
  BY DEF Drop, At, UnderWay
<1> QED  BY <1>1, <1>2, <1>3, ResultOK, AgainKeeps, AgainOK, OwnJob

LEMMA OwnCut == ASSUME IInv, OwnInv, Cut  PROVE OwnInv'
<1>1. wire' \in Seq(OwnFrame) /\ replies' \in Seq(OwnAnswer)
  BY FreshOK DEF Cut, Disconnected, OwnInv
<1> QED  BY <1>1, OwnQueues DEF Cut, Disconnected, OwnInv, host, agent

LEMMA OwnRead == ASSUME IInv, OwnInv, NEW p \in Proc, Read(p)  PROVE OwnInv'
<1> DEFINE a == Head(replies)
           j == IF Matches(p, a) THEN Answered(p, a) ELSE Skipped(p)
<1>1. /\ a \in OwnAnswer /\ Tail(replies) \in Seq(OwnAnswer) /\ At(p, "reading")
      /\ a \in Reply
  BY DEF Read, OwnInv, OwnAnswer, GoodReply
<1>2. /\ job' = [job EXCEPT ![p] = j] /\ replies' = Tail(replies)
      /\ machine' = machine /\ nextId' = nextId /\ wire' = wire /\ work' = work
  BY DEF Read, agent
<1>3. job[p] \in Job /\ ~At(p, "idle") /\ job[p].at \in UnderWay
  BY <1>1, ResultOK DEF At, UnderWay
<1>4. CASE ~Matches(p, a)
  <2>1. /\ Skipped(p).result = job[p].result
        /\ Skipped(p).id = job[p].id /\ Skipped(p).run = job[p].run
    <3>1. CASE job[p].skips + 1 = Skips
      BY <1>3, <3>1, FailedKeeps DEF Skipped
    <3>2. CASE job[p].skips + 1 # Skips
      BY <1>3, <3>2 DEF Skipped, Job
    <3> QED  BY <3>1, <3>2
  <2>2. Skipped(p) \in Job
    BY <1>3, SkippedOK
  <2> QED  BY <1>1, <1>2, <1>3, <1>4, <2>1, <2>2, ResultOK, OwnJob
<1>5. CASE Matches(p, a)
  <2>1. /\ Answered(p, a) \in Job /\ Answered(p, a).run = job[p].run
        /\ Answered(p, a).at # "reading" /\ Answered(p, a).id = job[p].id
        /\ Answered(p, a).result \in {a, NoReply}
        /\ Answered(p, a).at \in UnderWay => ~Answered(p, a).result.ok
    <3>1. Answered(p, a) \in Job /\ Answered(p, a).run = job[p].run
      BY <1>1, <1>3, AnsweredOK
    <3>2. /\ Answered(p, a).at # "reading" /\ Answered(p, a).id = job[p].id
          /\ Answered(p, a).result \in {a, NoReply}
          /\ Answered(p, a).at \in UnderWay => ~Answered(p, a).result.ok
      BY <1>3 DEF Answered, Job, UnderWay, NoReply
    <3> QED  BY <3>1, <3>2
  <2>2. a.ok => (a.to = p /\ a.id = job[p].id) \/ a.run # job[p].run
    <3> SUFFICES ASSUME a.ok, a.run = job[p].run  PROVE a.to = p /\ a.id = job[p].id
      OBVIOUS
    <3>1. a.id \in Ids
      BY <1>1 DEF OwnAnswer
    <3>2. a.id = job[p].id
      BY <1>5, <3>1 DEF Matches, Ids
    <3> QED  BY <1>1, <3>2 DEF OwnAnswer
  <2>3. Answered(p, a).result.ok =>
          \/ Answered(p, a).result.to = p /\ Answered(p, a).result.id = Answered(p, a).id
          \/ Answered(p, a).result.run # Answered(p, a).run
    BY <2>1, <2>2 DEF NoReply
  <2> QED  BY <1>1, <1>2, <1>5, <2>1, <2>3, OwnJob
<1> QED  BY <1>4, <1>5

LEMMA OwnTrySend == ASSUME IInv, OwnInv, NEW p \in Proc, TrySend(p)  PROVE OwnInv'
<1> DEFINE r == job[p].run
           torn == [Request(p) EXCEPT !.op = "torn"]
<1>1. /\ job \in [Proc -> Job] /\ job[p] \in Job /\ ~At(p, "idle") /\ r \in Run
      /\ nextId \in [Run -> Ids]
  BY DEF TrySend, IInv, JobInv, RestInv, At
<1>2. PICK j \in {Reading(p), Failed(p)} :
        /\ job' = [job EXCEPT ![p] = j]
        /\ \/ nextId' = [nextId EXCEPT ![r] = @ + 1]
           \/ nextId' = nextId /\ j = Failed(p) /\ wire' = wire
        /\ wire' = wire \/ wire' = Append(wire, Request(p)) \/ wire' = Append(wire, torn)
        /\ machine' = machine /\ replies' = replies /\ work' = work
  BY DEF TrySend, agent
<1>3. \A q \in Run : nextId[q] \in Nat /\ nextId'[q] \in Nat /\ nextId[q] <= nextId'[q]
  BY <1>1, <1>2 DEF Ids
<1>4. /\ j \in Job /\ j.run = r /\ j.result = job[p].result
      /\ j.at = "reading" => j.id = nextId[r] /\ j = Reading(p)
      /\ j.at # "reading" => j.id = job[p].id
  <2>1. /\ Reading(p) \in Job /\ Reading(p).run = r /\ Reading(p).result = job[p].result
        /\ Reading(p).at = "reading" /\ Reading(p).id = nextId[r]
    BY <1>1, ReadingOK DEF Reading, Job
  <2>2. Failed(p) \in Job
    BY <1>1, FailedOK
  <2> QED  BY <1>1, <1>2, <2>1, <2>2, FailedKeeps
<1>5. job'[p] = j /\ \A q \in Proc : q # p => job'[q] = job[q]
  BY <1>1, <1>2
<1>6. OwnFrame \subseteq OwnFrame' /\ OwnAnswer \subseteq OwnAnswer'
  <2>1. \A q \in Proc : At(q, "reading")' =>
          \/ At(q, "reading") /\ job'[q].run = job[q].run /\ job'[q].id = job[q].id
          \/ job'[q].id = nextId[job'[q].run]
    BY <1>4, <1>5 DEF At
  <2> QED  BY <1>2, <1>3, <2>1, OwnGrows
<1>7. ASSUME nextId' = [nextId EXCEPT ![r] = @ + 1], NEW f \in {Request(p), torn}
      PROVE  f \in OwnFrame'
  <2>1. f \in GoodFrame /\ f.run = r /\ f.id = nextId[r] /\ f.by = p
    <3>1. Request(p) \in GoodFrame /\ torn \in GoodFrame
      BY <1>1, RequestOK
    <3> QED  BY <3>1 DEF Request
  <2>2. f.id < nextId'[f.run]
    BY <1>1, <1>7, <2>1 DEF Ids
  <2>3. ASSUME NEW q \in Proc, At(q, "reading")', job'[q].run = r, job'[q].id = nextId[r]
        PROVE  q = p
    <3> SUFFICES ASSUME q # p PROVE FALSE
      OBVIOUS
    <3>1. At(q, "reading") /\ job[q].run = r /\ job[q].id = nextId[r]
      BY <1>5, <2>3 DEF At
    <3>2. job[q].id < nextId[r]
      BY <3>1 DEF OwnInv
    <3> QED  BY <1>1, <3>1, <3>2 DEF Ids
  <2> QED  BY <2>1, <2>2, <2>3 DEF OwnFrame, GoodFrame
<1>8. wire' \in Seq(OwnFrame')
  <2>1. wire \in Seq(OwnFrame')
    BY <1>6, SeqGrows DEF OwnInv
  <2>2. \A f \in OwnFrame' : Append(wire, f) \in Seq(OwnFrame')
    BY <2>1
  <2>3. CASE wire' = wire
    BY <2>1, <2>3
  <2>4. CASE wire' # wire
    <3>1. nextId' = [nextId EXCEPT ![r] = @ + 1]
      BY <1>2, <2>4
    <3>2. Request(p) \in OwnFrame' /\ torn \in OwnFrame'
      BY <1>7, <3>1
    <3> HIDE DEF torn
    <3> QED  BY <1>2, <2>2, <2>4, <3>2
  <2> QED  BY <2>3, <2>4
<1>9. replies' \in Seq(OwnAnswer') /\ (work' # Idle => work'.frame \in OwnFrame')
  BY <1>2, <1>6, SeqGrows DEF OwnInv
<1>10. ASSUME NEW q \in Proc, At(q, "reading")'  PROVE job'[q].id < nextId'[job'[q].run]
  <2>1. CASE q = p
    <3>1. j.at = "reading" /\ j = Reading(p) /\ j.id = nextId[r]
      BY <1>4, <1>5, <1>10, <2>1 DEF At
    <3>2. nextId' = [nextId EXCEPT ![r] = @ + 1]
      BY <1>1, <1>2, <3>1, FailedKeeps
    <3> QED  BY <1>1, <1>4, <1>5, <2>1, <3>1, <3>2 DEF Ids
  <2>2. CASE q # p
    <3>1. At(q, "reading") /\ job'[q] = job[q]
      BY <1>5, <1>10, <2>2 DEF At
    <3>2. job[q].id < nextId[job[q].run] /\ job[q].run \in Run /\ job[q].id \in Nat
      BY <3>1 DEF OwnInv, IInv, JobInv, At, Job
    <3> QED  BY <1>3, <3>1, <3>2
  <2> QED  BY <2>1, <2>2
<1>11. ~j.result.ok
  BY <1>4, ResultOK DEF TrySend, At, UnderWay
<1>12. OwnReply' /\ Awaited'
  <2>1. ASSUME NEW q \in Proc, q # p, job'[q].result.ok
        PROVE  \/ job'[q].result.to = q /\ job'[q].result.id = job'[q].id
               \/ job'[q].result.run # job'[q].run
    BY <1>5, <2>1 DEF OwnInv, OwnReply
  <2>2. ASSUME job'[p].result.ok
        PROVE  \/ job'[p].result.to = p /\ job'[p].result.id = job'[p].id
               \/ job'[p].result.run # job'[p].run
    BY <1>5, <1>11, <2>2
  <2>3. Awaited'
    BY <1>5, <1>11 DEF OwnInv, Awaited
  <2> QED  BY <2>1, <2>2, <2>3 DEF OwnReply
<1> QED  BY <1>8, <1>9, <1>10, <1>12 DEF OwnInv

LEMMA OwnReplies ==
  ASSUME OwnInv, NEW a \in OwnAnswer
  PROVE  Append(replies, a) \in Seq(OwnAnswer)
BY DEF OwnInv

LEMMA OwnHandler ==
  ASSUME IInv, OwnInv, NEW step \in Steps, Does(step), job' = job, nextId' = nextId,
         machine' = machine, wire' = wire,
         \/ \E ok \in BOOLEAN : Replied(ok)
         \/ work'.frame = work.frame /\ replies' = replies
  PROVE  OwnInv'
<1>1. /\ work.frame \in OwnFrame /\ work.frame \in GoodFrame /\ work.warned \in BOOLEAN
      /\ work.frame.run = machine /\ machine \in Run
  BY AtWork DEF Does, Idle, OwnInv
<1>2. wire' \in Seq(OwnFrame) /\ replies \in Seq(OwnAnswer)
  BY DEF OwnInv
<1>3. CASE \E ok \in BOOLEAN : Replied(ok)
  <2>1. PICK ok \in BOOLEAN : Replied(ok)
    BY <1>3
  <2> DEFINE a == Answer(work.frame, ok, work.warned)
  <2>2. a \in GoodReply(machine)
    BY <1>1, AnswerOK
  <2>3. /\ a.id = work.frame.id /\ a.run = work.frame.run /\ a.to = work.frame.by
    BY <1>1 DEF Answer
  <2>4. work.frame.id \in Ids
    BY <1>1 DEF GoodFrame, Frame
  <2>5. a \in OwnAnswer
    BY <1>1, <2>2, <2>3, <2>4 DEF OwnFrame, OwnAnswer
  <2>6. replies' = Append(replies, a) /\ work' = Idle
    BY <2>1 DEF Replied
  <2> HIDE DEF a
  <2>7. replies' \in Seq(OwnAnswer)
    BY <2>5, <2>6, OwnReplies
  <2> QED  BY <1>2, <2>6, <2>7, OwnQueues
<1>4. CASE work'.frame = work.frame /\ replies' = replies
  BY <1>1, <1>2, <1>4, OwnQueues
<1> QED  BY <1>3, <1>4

LEMMA OwnTakeTorn == ASSUME IInv, OwnInv, TakeTorn  PROVE OwnInv'
<1>1. wire \in Seq(OwnFrame) /\ wire # <<>>
  BY DEF TakeTorn, Ready, OwnInv
<1>2. machine \in Run
  BY MachineUp DEF TakeTorn, Ready, IInv, LinkInv
<1>3. wire' \in Seq(OwnFrame)
  <2> DEFINE w == Tail(wire)
  <2>1. w \in Seq(OwnFrame) /\ Len(w) = Len(wire) - 1 /\ Len(wire) \in Nat
    BY <1>1
  <2>2. Len(wire) > 1 => Tail(w) \in Seq(OwnFrame)
    <3> HIDE DEF w
    <3>1. w \in Seq(OwnFrame) /\ Len(w) # 0 => Tail(w) \in Seq(OwnFrame)
      OBVIOUS
    <3> QED  BY <2>1, <3>1
  <2> QED  BY <2>1, <2>2 DEF TakeTorn
<1>4. Malformed \in OwnAnswer
  <2>1. ~Malformed.ok
    BY DEF Malformed
  <2> QED  BY <1>2, <2>1, MalformedOK DEF OwnAnswer
<1>5. replies' \in Seq(OwnAnswer)
  BY <1>4, OwnReplies DEF TakeTorn
<1> QED  BY <1>3, <1>5, OwnQueues DEF TakeTorn, OwnInv, host, agent

LEMMA OwnTake == ASSUME IInv, OwnInv, Take  PROVE OwnInv'
<1> DEFINE f == Head(wire)
<1>1. f \in OwnFrame /\ f \in GoodFrame /\ Tail(wire) \in Seq(OwnFrame)
  BY DEF Take, Ready, OwnInv, OwnFrame
<1>2. machine \in Run
  BY MachineUp DEF Take, Ready, IInv, LinkInv
<1>3. wire' = Tail(wire) /\ job' = job /\ nextId' = nextId /\ machine' = machine
  BY DEF Take, host
<1>4. CASE Authentic(f)
  <2>1. work' = [step |-> FirstStep(f), frame |-> f, warned |-> FALSE] /\ replies' = replies
    BY <1>4 DEF Take
  <2> QED  BY <1>1, <1>3, <2>1, OwnQueues DEF OwnInv
<1>5. CASE ~Authentic(f)
  <2> DEFINE a == Answer(f, FALSE, FALSE)
  <2>1. a \in GoodReply(machine)
    BY <1>1, <1>2, AnswerOK
  <2>2. ~a.ok
    BY DEF Answer
  <2>3. a \in OwnAnswer
    BY <2>1, <2>2 DEF OwnAnswer
  <2>4. replies' = Append(replies, a) /\ work' = work
    BY <1>5 DEF Take
  <2> HIDE DEF a
  <2>5. replies' \in Seq(OwnAnswer)
    BY <2>3, <2>4, OwnReplies
  <2> QED  BY <1>1, <1>3, <2>4, <2>5, OwnQueues DEF OwnInv
<1> QED  BY <1>4, <1>5

LEMMA OwnAgent == ASSUME IInv, OwnInv, Agent  PROVE OwnInv'
<1>1. ASSUME NEW step \in Steps, Does(step),
             UNCHANGED <<host, job, machine, wire>>,
             Replied(TRUE) \/ Replied(FALSE) \/ (work'.frame = work.frame /\ replies' = replies)
      PROVE  OwnInv'
  BY <1>1, OwnHandler DEF host
<1>2. ASSUME NEW step \in Steps, NEW next \in Steps, Does(step), Goes(next)
      PROVE  work'.frame = work.frame /\ replies' = replies
  <2>1. work \in [step : Steps, frame : GoodFrame, warned : BOOLEAN]
    BY <1>2, AtWork
  <2> QED  BY <1>2, <2>1 DEF Goes
<1>3. {"policy", "network", "script", "reset", "answer"} \subseteq Steps
  BY DEF Steps
<1>4. CASE TakeTorn \/ Take
  BY <1>4, OwnTakeTorn, OwnTake
<1>5. CASE SudoPolicy
  <2>1. Goes("network") \/ Replied(FALSE)
    BY <1>5 DEF SudoPolicy
  <2>2. Does("policy") /\ UNCHANGED <<host, job, machine, wire>>
    BY <1>5 DEF SudoPolicy
  <2> QED  BY <1>1, <1>2, <1>3, <2>1, <2>2
<1>6. CASE Network
  <2>1. \/ Goes("script") \/ Replied(FALSE)
        \/ work' = [work EXCEPT !.step = "script", !.warned = TRUE] /\ replies' = replies
    BY <1>6 DEF Network, HandlerFails
  <2>2. Does("network") /\ UNCHANGED <<host, job, machine, wire>>
    BY <1>6 DEF Network
  <2>3. work \in [step : Steps, frame : GoodFrame, warned : BOOLEAN]
    BY <1>3, <2>2, AtWork
  <2>4. \/ Replied(FALSE)
        \/ work'.frame = work.frame /\ replies' = replies
    BY <1>2, <1>3, <2>1, <2>2, <2>3
  <2> QED  BY <1>1, <1>3, <2>2, <2>4
<1>7. CASE SetupScript
  BY <1>1, <1>3, <1>7 DEF SetupScript, SetupFails, HandlerFails
<1>8. CASE ResetScript
  BY <1>1, <1>3, <1>8 DEF ResetScript, HandlerFails
<1>9. CASE Respond
  BY <1>1, <1>3, <1>9 DEF Respond, HandlerFails
<1> QED  BY <1>4, <1>5, <1>6, <1>7, <1>8, <1>9 DEF Agent

LEMMA OwnStep == ASSUME IInv, OwnInv, [Next]_vars  PROVE OwnInv'
<1>1. CASE StartMachine \/ DeadlinePasses \/ StartFails
  BY <1>1, OwnStart, OwnDeadline, OwnStartFails
<1>2. ASSUME NEW c \in Caller, Call(c) \/ StopMachine(c)  PROVE OwnInv'
  BY <1>2, OwnCall, OwnStop
<1>3. ASSUME NEW p \in Proc, HostStep(p)  PROVE OwnInv'
  BY <1>3, OwnTrySend, OwnRead, OwnWaitOver, OwnDrop DEF HostStep
<1>4. CASE Boot \/ AgentRestarts \/ UNCHANGED vars
  <2>1. /\ UNCHANGED <<job, nextId, machine, wire, replies>>
        /\ work' = work \/ work' = Idle
    BY <1>4 DEF Boot, AgentRestarts, vars, host, channel, agent
  <2> QED  BY <2>1, OwnQueues DEF OwnInv
<1>5. CASE Environment
  BY <1>4, <1>5, OwnDies, OwnCut DEF Environment
<1>6. CASE Agent
  BY <1>6, OwnAgent
<1> QED  BY <1>1, <1>2, <1>3, <1>4, <1>5, <1>6 DEF Next

(* A command never succeeds on somebody else's reply, nor on the reply to  *)
(* its own earlier attempt: for any number of commands, lost connections,  *)
(* late replies and restarts of the agent.                                 *)
THEOREM RepliesAreCorrelated == Spec => []OwnReply
<1>1. Init => OwnInv
  <2> SUFFICES ASSUME Init PROVE OwnInv
    OBVIOUS
  <2>1. \A p \in Proc : job[p].at = "idle" /\ ~job[p].result.ok
    BY DEF Init, IdleJob, NoReply
  <2> QED  BY <2>1, FreshOK DEF Init, OwnInv, OwnReply, Awaited, UnderWay, At
<1>2. IInv /\ OwnInv /\ [Next]_vars => OwnInv'
  BY OwnStep
<1>3. OwnInv => OwnReply
  BY DEF OwnInv
<1> QED  BY <1>1, <1>2, <1>3, Inductive, PTL DEF Spec

---------------------------------------------------------------------------
(* How often a request is carried out.  A command may have been carried    *)
(* out once for each attempt that it has sent; a frame of its own that is  *)
(* still on the wire is one attempt not yet used.                          *)

Allowance(c) ==
  IF At(c, "idle") THEN 0
  ELSE IF At(c, "request") THEN job[c].tries - 1 ELSE job[c].tries

Queued(c) == {i \in 1..Len(wire) : wire[i].by = c /\ wire[i].op # "torn"}

TriesInv(c) == job[c].tries \in {1, 2} /\ (At(c, "drop") => job[c].tries = 1)

CountInv(c) ==
  /\ execs[c] <= Allowance(c)
  /\ \A i \in Queued(c) : execs[c] + 1 <= Allowance(c)
  /\ \A i, j \in Queued(c) : i < j => execs[c] + 2 <= Allowance(c)
  /\ \A i, j, k \in Queued(c) : ~(i < j /\ j < k)

TwiceInv == \A c \in Caller : TriesInv(c) /\ CountInv(c)

LEMMA CountTypes ==
  ASSUME IInv, NEW c \in Caller, TriesInv(c)
  PROVE  /\ c \in Proc /\ c # Starter /\ job \in [Proc -> Job] /\ job[c] \in Job
         /\ execs \in [Caller -> Nat] /\ execs[c] \in Nat
         /\ Allowance(c) \in 0..2 /\ Queued(c) \subseteq Nat
         /\ wire \in Seq(GoodFrame)
BY StarterIsProc DEF IInv, JobInv, LinkInv, RestInv, TriesInv, Allowance, Queued

(* Frames leave the wire only at its front. *)
LEMMA WireShrinks ==
  ASSUME NEW S, wire \in Seq(S),
         \/ wire' \in {wire, <<>>} \/ (wire # <<>> /\ wire' = Tail(wire))
         \/ Len(wire) > 1 /\ wire' = Tail(Tail(wire))
  PROVE  \E d \in Nat :
           \A i \in 1..Len(wire') : i + d \in 1..Len(wire) /\ wire'[i] = wire[i + d]
<1>1. Len(wire) \in Nat
  OBVIOUS
<1>2. CASE wire' \in {wire, <<>>}
  <2>1. \A i \in 1..Len(wire') : i + 0 = i /\ i \in 1..Len(wire) /\ wire'[i] = wire[i]
    BY <1>1, <1>2
  <2> QED  BY <2>1
<1>3. CASE wire # <<>> /\ wire' = Tail(wire)
  <2>1. \A i \in 1..Len(wire') : i + 1 \in 1..Len(wire) /\ wire'[i] = wire[i + 1]
    BY <1>1, <1>3
  <2> QED  BY <2>1
<1>4. CASE Len(wire) > 1 /\ wire' = Tail(Tail(wire))
  <2> DEFINE w == Tail(wire)
  <2>1. w \in Seq(S) /\ w # <<>>
        /\ \A i \in 1..Len(w) : i + 1 \in 1..Len(wire) /\ w[i] = wire[i + 1]
    <3>1. wire # <<>>
      BY <1>1, <1>4
    <3>2. /\ w \in Seq(S) /\ Len(w) = Len(wire) - 1
          /\ \A i \in 1..Len(w) : i + 1 \in 1..Len(wire) /\ w[i] = wire[i + 1]
      BY <1>1, <3>1
    <3> HIDE DEF w
    <3>3. w # <<>>
      BY <1>1, <1>4, <3>2
    <3> QED  BY <3>2, <3>3
  <2>2. wire' = Tail(w)
    BY <1>4
  <2> HIDE DEF w
  <2>3. \A i \in 1..Len(wire') : i + 1 \in 1..Len(w) /\ wire'[i] = w[i + 1]
    BY <2>1, <2>2
  <2>4. ASSUME NEW i \in 1..Len(wire')  PROVE i + 2 \in 1..Len(wire) /\ wire'[i] = wire[i + 2]
    <3>1. i + 1 \in 1..Len(w) /\ wire'[i] = w[i + 1]
      BY <2>3
    <3>2. (i + 1) + 1 \in 1..Len(wire) /\ w[i + 1] = wire[(i + 1) + 1] /\ (i + 1) + 1 = i + 2
      BY <2>1, <3>1
    <3> QED  BY <3>1, <3>2
  <2> QED  BY <2>4
<1> QED  BY <1>2, <1>3, <1>4

(* Frames leave the wire, or others join it. *)
LEMMA QueueShrinks ==
  ASSUME IInv, NEW c \in Caller,
         \/ wire' \in {wire, <<>>} \/ (wire # <<>> /\ wire' = Tail(wire))
         \/ Len(wire) > 1 /\ wire' = Tail(Tail(wire))
         \/ \E f \in GoodFrame : wire' = Append(wire, f) /\ (f.by # c \/ f.op = "torn")
  PROVE  \E d \in Nat : \A i \in Queued(c)' : i + d \in Queued(c)
<1>1. wire \in Seq(GoodFrame) /\ Len(wire) \in Nat
  BY DEF IInv, LinkInv
<1>2. CASE \/ wire' \in {wire, <<>>} \/ (wire # <<>> /\ wire' = Tail(wire))
           \/ Len(wire) > 1 /\ wire' = Tail(Tail(wire))
  <2>1. PICK d \in Nat :
          \A i \in 1..Len(wire') : i + d \in 1..Len(wire) /\ wire'[i] = wire[i + d]
    BY <1>1, <1>2, WireShrinks
  <2>2. \A i \in Queued(c)' : i + d \in Queued(c)
    BY <2>1 DEF Queued
  <2> QED  BY <2>2
<1>3. ASSUME NEW f \in GoodFrame, wire' = Append(wire, f), f.by # c \/ f.op = "torn"
      PROVE  \A i \in Queued(c)' : i + 0 \in Queued(c)
  <2>1. /\ Len(wire') = Len(wire) + 1 /\ wire'[Len(wire) + 1] = f
        /\ \A i \in 1..Len(wire) : wire'[i] = wire[i]
    BY <1>1, <1>3
  <2>2. ASSUME NEW i \in Queued(c)'  PROVE i \in Nat /\ i \in Queued(c)
    <3>1. i \in 1..(Len(wire) + 1) /\ wire'[i].by = c /\ wire'[i].op # "torn"
      BY <2>1, <2>2 DEF Queued
    <3>2. i # Len(wire) + 1
      BY <1>3, <2>1, <3>1
    <3>3. i \in 1..Len(wire) /\ wire'[i] = wire[i]
      BY <1>1, <2>1, <3>1, <3>2
    <3> QED  BY <3>1, <3>3 DEF Queued
  <2> QED  BY <2>2
<1>4. 0 \in Nat
  OBVIOUS
<1> QED  BY <1>2, <1>3, <1>4

LEMMA CountStays ==
  ASSUME IInv, NEW c \in Caller, TriesInv(c), CountInv(c),
         NEW d \in Nat, \A i \in Queued(c)' : i + d \in Queued(c),
         execs' = execs, Allowance(c)' \in Nat, Allowance(c)' >= Allowance(c)
  PROVE  CountInv(c)'
<1>1. Queued(c)' \subseteq Nat
  BY DEF Queued
<1>2. \A i, j \in Queued(c)' : i < j => i + d < j + d
  BY <1>1
<1>3. execs'[c] = execs[c] /\ execs[c] \in Nat /\ Allowance(c) \in 0..2
  BY CountTypes
<1> QED  BY <1>2, <1>3 DEF CountInv

(* A command sends one more attempt. *)
LEMMA CountSent ==
  ASSUME IInv, NEW c \in Caller, TriesInv(c), CountInv(c), NEW f \in GoodFrame,
         wire' = Append(wire, f), execs' = execs,
         Allowance(c)' = Allowance(c) + 1, Allowance(c)' <= 2
  PROVE  CountInv(c)'
<1> DEFINE n == Len(wire)
<1>1. /\ n \in Nat /\ Len(wire') = n + 1 /\ \A i \in 1..n : wire'[i] = wire[i]
  BY DEF IInv, LinkInv
<1>2. \A i \in Queued(c)' : i \in Nat /\ (i \in Queued(c) \/ i = n + 1)
  BY <1>1 DEF Queued
<1>3. \A i \in Queued(c) : i \in Nat /\ i <= n
  BY <1>1 DEF Queued
<1>4. execs'[c] = execs[c] /\ execs[c] \in Nat /\ Allowance(c) \in 0..2
  BY CountTypes
<1> HIDE DEF n
<1>5. \A i, j \in Queued(c) : ~(i < j)
  BY <1>4 DEF CountInv
<1>6. \A i, j \in Queued(c)' : i < j => i \in Queued(c) /\ execs'[c] + 2 <= Allowance(c)'
  BY <1>1, <1>2, <1>3, <1>4 DEF CountInv
<1>7. \A i, j, k \in Queued(c)' : ~(i < j /\ j < k)
  BY <1>5, <1>6
<1>8. execs'[c] + 1 <= Allowance(c)'
  BY <1>4 DEF CountInv
<1>9. execs'[c] <= Allowance(c)'
  BY <1>4, <1>8
<1> QED  BY <1>6, <1>7, <1>8, <1>9 DEF CountInv

(* The agent takes one. *)
LEMMA CountTaken ==
  ASSUME IInv, NEW c \in Caller, TriesInv(c), CountInv(c),
         wire # <<>>, wire' = Tail(wire), 1 \in Queued(c),
         execs'[c] = execs[c] + 1, Allowance(c)' = Allowance(c)
  PROVE  CountInv(c)'
<1>1. wire \in Seq(GoodFrame)
  BY CountTypes
<1>2. /\ Len(wire) \in Nat /\ Len(wire') = Len(wire) - 1
      /\ \A i \in 1..Len(wire') : i + 1 \in 1..Len(wire) /\ wire'[i] = wire[i + 1]
  BY <1>1
<1>3. \A i \in Queued(c)' : i \in Nat \ {0} /\ i + 1 \in Queued(c) /\ 1 < i + 1
  BY <1>2 DEF Queued
<1>4. execs[c] \in Nat /\ Allowance(c) \in 0..2
  BY CountTypes
<1>5. \A i \in Queued(c)' : execs'[c] + 1 <= Allowance(c)'
  BY <1>3, <1>4 DEF CountInv
<1>6. \A i, j \in Queued(c)' : i < j => i + 1 < j + 1
  BY <1>3
<1>7. \A i, j \in Queued(c)' : ~(i < j)
  BY <1>3, <1>6 DEF CountInv
<1>8. execs'[c] <= Allowance(c)'
  BY <1>4 DEF CountInv
<1> QED  BY <1>5, <1>7, <1>8 DEF CountInv

(* What a step of its own does to the tries of a command. *)
LEMMA TriesKept ==
  ASSUME IInv, NEW c \in Caller, TriesInv(c), ~At(c, "idle")
  PROVE  /\ Failed(c).tries = job[c].tries
         /\ Failed(c).at \in {"drop", "stopping", "done"}
         /\ Failed(c).at = "drop" => job[c].tries = 1
         /\ Reading(c).tries = job[c].tries /\ Reading(c).at = "reading"
         /\ At(c, "reading") =>
              /\ Skipped(c).tries = job[c].tries
              /\ Skipped(c).at \in {"reading", "drop", "stopping", "done"}
              /\ Skipped(c).at = "drop" => job[c].tries = 1
              /\ \A a : /\ Answered(c, a).tries = job[c].tries
                        /\ Answered(c, a).at \in {"stopping", "done"}
<1>1. c # Starter /\ job[c] \in Job
  BY CountTypes
<1>2. /\ Failed(c).tries = job[c].tries
      /\ Failed(c).at \in {"drop", "stopping", "done"}
      /\ Failed(c).at = "drop" => job[c].tries = 1
  BY <1>1 DEF Failed, Job
<1>3. Reading(c).tries = job[c].tries /\ Reading(c).at = "reading"
  BY <1>1 DEF Reading, Job
<1>4. ASSUME At(c, "reading")
      PROVE  /\ Skipped(c).tries = job[c].tries
             /\ Skipped(c).at \in {"reading", "drop", "stopping", "done"}
             /\ Skipped(c).at = "drop" => job[c].tries = 1
  BY <1>1, <1>2, <1>4 DEF Skipped, Job, At
<1>5. \A a : /\ Answered(c, a).tries = job[c].tries
             /\ Answered(c, a).at \in {"stopping", "done"}
  BY <1>1 DEF Answered, Job
<1> QED  BY <1>2, <1>3, <1>4, <1>5

(* The point a command of a caller has reached, and its tries, over any    *)
(* step but the sending of a frame: it never has less left.                *)
LEMMA Spends ==
  ASSUME IInv, NEW c \in Caller, TriesInv(c),
         \/ job'[c] = job[c]
         \/ /\ ~At(c, "idle") /\ job'[c].tries = job[c].tries
            /\ job'[c].at \in {"reading", "drop", "stopping", "done"}
            /\ job'[c].at = "drop" => job[c].tries = 1
         \/ /\ At(c, "drop") /\ job'[c].at = "request" /\ job'[c].tries = 2
         \/ /\ At(c, "idle") /\ job'[c].at = "request" /\ job'[c].tries = 1
  PROVE  TriesInv(c)' /\ Allowance(c)' \in Nat /\ Allowance(c)' >= Allowance(c)
<1>1. job[c].tries \in {1, 2}
  BY DEF TriesInv
<1>2. CASE job'[c] = job[c]
  BY <1>1, <1>2 DEF TriesInv, Allowance, At
<1>3. CASE /\ ~At(c, "idle") /\ job'[c].tries = job[c].tries
           /\ job'[c].at \in {"reading", "drop", "stopping", "done"}
           /\ job'[c].at = "drop" => job[c].tries = 1
  BY <1>1, <1>3 DEF TriesInv, Allowance, At
<1>4. CASE At(c, "drop") /\ job'[c].at = "request" /\ job'[c].tries = 2
  BY <1>1, <1>4 DEF TriesInv, Allowance, At
<1>5. CASE At(c, "idle") /\ job'[c].at = "request" /\ job'[c].tries = 1
  BY <1>1, <1>5 DEF TriesInv, Allowance, At
<1> QED  BY <1>2, <1>3, <1>4, <1>5

(* A step that executes nothing and puts no new frame of c on the wire. *)
LEMMA TwiceKept ==
  ASSUME IInv, NEW c \in Caller, TriesInv(c), CountInv(c), execs' = execs,
         \/ wire' \in {wire, <<>>} \/ (wire # <<>> /\ wire' = Tail(wire))
         \/ Len(wire) > 1 /\ wire' = Tail(Tail(wire))
         \/ \E f \in GoodFrame : wire' = Append(wire, f) /\ (f.by # c \/ f.op = "torn"),
         \/ job'[c] = job[c]
         \/ /\ ~At(c, "idle") /\ job'[c].tries = job[c].tries
            /\ job'[c].at \in {"reading", "drop", "stopping", "done"}
            /\ job'[c].at = "drop" => job[c].tries = 1
         \/ /\ At(c, "drop") /\ job'[c].at = "request" /\ job'[c].tries = 2
         \/ /\ At(c, "idle") /\ job'[c].at = "request" /\ job'[c].tries = 1
  PROVE  TriesInv(c)' /\ CountInv(c)'
<1>1. TriesInv(c)' /\ Allowance(c)' \in Nat /\ Allowance(c)' >= Allowance(c)
  BY Spends
<1>2. PICK d \in Nat : \A i \in Queued(c)' : i + d \in Queued(c)
  BY QueueShrinks
<1> QED  BY <1>1, <1>2, CountStays

LEMMA TwiceSend ==
  ASSUME IInv, NEW c \in Caller, TriesInv(c), CountInv(c), NEW p \in Proc, TrySend(p)
  PROVE  TriesInv(c)' /\ CountInv(c)'
<1> DEFINE torn == [Request(p) EXCEPT !.op = "torn"]
<1>1. At(p, "request") /\ ~At(p, "idle") /\ execs' = execs
  BY DEF TrySend, At, history
<1>2. Request(p) \in GoodFrame /\ torn \in GoodFrame
  BY <1>1, RequestOK
<1>3. Request(p).by = p /\ torn.op = "torn"
  BY DEF Request
<1>4. job \in [Proc -> Job] /\ c \in Proc
  BY CountTypes
<1>5. \/ job' = [job EXCEPT ![p] = Reading(p)] /\ wire' = Append(wire, Request(p))
      \/ job' = [job EXCEPT ![p] = Failed(p)] /\ wire' \in {wire, Append(wire, torn)}
  BY DEF TrySend
<1> HIDE DEF torn
<1>6. CASE p # c
  <2>1. job'[c] = job[c]
    BY <1>4, <1>5, <1>6
  <2>2. \/ wire' = wire
        \/ \E f \in GoodFrame : wire' = Append(wire, f) /\ (f.by # c \/ f.op = "torn")
    BY <1>2, <1>3, <1>5, <1>6
  <2> QED  BY <1>1, <2>1, <2>2, TwiceKept
<1>7. CASE p = c /\ job' = [job EXCEPT ![p] = Failed(p)] /\ wire' \in {wire, Append(wire, torn)}
  <2>1. job'[c] = Failed(c)
    BY <1>4, <1>7
  <2>2. \/ wire' = wire
        \/ \E f \in GoodFrame : wire' = Append(wire, f) /\ (f.by # c \/ f.op = "torn")
    BY <1>2, <1>3, <1>7
  <2> QED  BY <1>1, <1>7, <2>1, <2>2, TriesKept, TwiceKept
<1>8. CASE p = c /\ job' = [job EXCEPT ![p] = Reading(p)] /\ wire' = Append(wire, Request(p))
  <2>1. job'[c] = Reading(c)
    BY <1>4, <1>8
  <2>2. job'[c].at = "reading" /\ job'[c].tries = job[c].tries /\ job[c].at = "request"
    BY <1>1, <1>8, <2>1, TriesKept DEF At
  <2>3. TriesInv(c)' /\ Allowance(c)' = Allowance(c) + 1 /\ Allowance(c)' <= 2
    BY <2>2 DEF TriesInv, Allowance, At
  <2> QED  BY <1>1, <1>2, <1>8, <2>3, CountSent
<1> QED  BY <1>5, <1>6, <1>7, <1>8

LEMMA TwiceHost ==
  ASSUME IInv, NEW c \in Caller, TriesInv(c), CountInv(c), NEW p \in Proc,
         Read(p) \/ Closed(p) \/ TimeOut(p) \/ Drop(p)
  PROVE  TriesInv(c)' /\ CountInv(c)'
<1>1. execs' = execs /\ wire' \in {wire, <<>>} /\ ~At(p, "idle")
  BY DEF Read, Closed, TimeOut, Drop, DropConnection, Disconnected, channel, history, At
<1>2. job \in [Proc -> Job] /\ c \in Proc /\ c # Starter
  BY CountTypes
<1>3. \A q \in Proc : q # p => job'[q] = job[q]
  BY <1>2 DEF Read, Closed, TimeOut, Drop
<1>4. CASE p # c
  BY <1>1, <1>2, <1>3, <1>4, TwiceKept
<1>5. CASE p = c /\ (Closed(p) \/ TimeOut(p))
  <2>1. job'[c] = Failed(c)
    BY <1>2, <1>5 DEF Closed, TimeOut
  <2> QED  BY <1>1, <1>5, <2>1, TriesKept, TwiceKept
<1>6. CASE p = c /\ Read(p)
  <2>1. job'[c] = Answered(c, Head(replies)) \/ job'[c] = Skipped(c)
    BY <1>2, <1>6 DEF Read
  <2>2. At(c, "reading")
    BY <1>6 DEF Read
  <2>3. /\ job'[c].tries = job[c].tries
        /\ job'[c].at \in {"reading", "drop", "stopping", "done"}
        /\ job'[c].at = "drop" => job[c].tries = 1
    BY <1>1, <1>6, <2>1, <2>2, TriesKept
  <2> QED  BY <1>1, <1>6, <2>3, TwiceKept
<1>7. CASE p = c /\ Drop(p)
  <2>1. job'[c] = Again(c) /\ At(c, "drop") /\ job[c].tries = 1 /\ job[c] \in Job
    BY <1>2, <1>7 DEF Drop, TriesInv
  <2>2. job'[c].at = "request" /\ job'[c].tries = 2
    BY <1>2, <2>1 DEF Again, Job
  <2> QED  BY <1>1, <2>1, <2>2, TwiceKept
<1> QED  BY <1>4, <1>5, <1>6, <1>7

LEMMA TwiceCommand ==
  ASSUME IInv, NEW c \in Caller, TriesInv(c), CountInv(c),
         \/ StartMachine \/ DeadlinePasses \/ StartFails
         \/ \E b \in Caller : Call(b) \/ StopMachine(b)
  PROVE  TriesInv(c)' /\ CountInv(c)'
<1>1. execs' = execs /\ wire' \in {wire, <<>>}
  BY DEF StartMachine, DeadlinePasses, StartFails, Call, StopMachine, PoweredOff, Launched,
         channel, history
<1>2. job \in [Proc -> Job] /\ c \in Proc /\ c # Starter
  BY CountTypes
<1>3. CASE StartMachine \/ DeadlinePasses \/ StartFails
  <2>1. job'[c] = job[c]
    BY <1>2, <1>3 DEF StartMachine, DeadlinePasses, StartFails
  <2> QED  BY <1>1, <2>1, TwiceKept
<1>4. ASSUME NEW b \in Caller, Call(b)  PROVE TriesInv(c)' /\ CountInv(c)'
  <2>1. CASE b # c
    <3>1. job'[c] = job[c]
      BY <1>2, <1>4, <2>1 DEF Call
    <3> QED  BY <1>1, <3>1, TwiceKept
  <2>2. CASE b = c
    <3>1. At(c, "idle") /\ job'[c].at = "request" /\ job'[c].tries = 1
      BY <1>2, <1>4, <2>2 DEF Call, IdleJob
    <3> QED  BY <1>1, <3>1, TwiceKept
  <2> QED  BY <2>1, <2>2
<1>5. ASSUME NEW b \in Caller, StopMachine(b)  PROVE TriesInv(c)' /\ CountInv(c)'
  <2>1. CASE b # c
    <3>1. job'[c] = job[c]
      BY <1>2, <1>5, <2>1 DEF StopMachine
    <3> QED  BY <1>1, <3>1, TwiceKept
  <2>2. CASE b = c
    <3>1. ~At(c, "idle") /\ job'[c].at = "done" /\ job'[c].tries = job[c].tries
      BY <1>2, <1>5, <2>2 DEF StopMachine, Job, At
    <3> QED  BY <1>1, <3>1, TwiceKept
  <2> QED  BY <2>1, <2>2
<1> QED  BY <1>3, <1>4, <1>5

LEMMA TwiceTake ==
  ASSUME IInv, NEW c \in Caller, TriesInv(c), CountInv(c), Take
  PROVE  TriesInv(c)' /\ CountInv(c)'
<1> DEFINE f == Head(wire)
<1>1. /\ wire # <<>> /\ wire' = Tail(wire) /\ job' = job /\ f.op # "torn"
  BY DEF Take, Ready
<1>2. CASE execs' = execs
  BY <1>1, <1>2, TwiceKept
<1>3. CASE f.by = c /\ execs' = [execs EXCEPT ![f.by] = @ + 1]
  <2>1. execs'[c] = execs[c] + 1
    BY <1>3, CountTypes
  <2>2. 1 \in Queued(c)
    BY <1>1, <1>3, CountTypes DEF Queued
  <2>3. TriesInv(c)' /\ Allowance(c)' = Allowance(c)
    BY <1>1 DEF TriesInv, Allowance, At
  <2> QED  BY <1>1, <2>1, <2>2, <2>3, CountTaken
<1>4. CASE f.by # c /\ execs' = [execs EXCEPT ![f.by] = @ + 1]
  <2>1. execs'[c] = execs[c]
    BY <1>4, CountTypes
  <2>2. TriesInv(c)' /\ Allowance(c)' = Allowance(c)
    BY <1>1 DEF TriesInv, Allowance, At
  <2>3. PICK d \in Nat : \A i \in Queued(c)' : i + d \in Queued(c)
    BY <1>1, QueueShrinks
  <2>4. \A i, j \in Queued(c)' : i < j => i + d < j + d
    BY DEF Queued
  <2> QED  BY <2>1, <2>2, <2>3, <2>4 DEF CountInv
<1> QED  BY <1>2, <1>3, <1>4 DEF Take, history

LEMMA TwiceStep == ASSUME IInv, TwiceInv, [Next]_vars  PROVE TwiceInv'
<1> SUFFICES ASSUME NEW c \in Caller  PROVE TriesInv(c)' /\ CountInv(c)'
  BY DEF TwiceInv
<1>1. TriesInv(c) /\ CountInv(c)
  BY DEF TwiceInv
<1>2. ASSUME job' = job, execs' = execs,
             wire' \in {wire, <<>>} \/ (Len(wire) > 1 /\ wire' = Tail(Tail(wire)))
               \/ (wire # <<>> /\ wire' = Tail(wire))
      PROVE  TriesInv(c)' /\ CountInv(c)'
  BY <1>1, <1>2, TwiceKept
<1>3. CASE Environment \/ UNCHANGED vars
  BY <1>2, <1>3 DEF Environment, Boot, Dies, Cut, AgentRestarts, PoweredOff, Launched,
                    Disconnected, vars, channel, history
<1>4. CASE TakeTorn
  BY <1>2, <1>4 DEF TakeTorn, Ready, history
<1>5. CASE SudoPolicy \/ Network \/ SetupScript \/ ResetScript \/ Respond
  BY <1>2, <1>5 DEF SudoPolicy, Network, SetupScript, ResetScript, Respond, history
<1>6. ASSUME NEW p \in Proc, HostStep(p)  PROVE TriesInv(c)' /\ CountInv(c)'
  BY <1>1, <1>6, TwiceSend, TwiceHost DEF HostStep
<1>7. CASE \/ StartMachine \/ DeadlinePasses \/ StartFails
           \/ \E b \in Caller : Call(b) \/ StopMachine(b)
  BY <1>1, <1>7, TwiceCommand
<1> QED  BY <1>1, <1>3, <1>4, <1>5, <1>6, <1>7, TwiceTake DEF Next, Agent

(* However connections break and replies are lost, late or torn, the agent *)
(* begins a request of a command at most twice: for its first attempt and  *)
(* for the one retry.                                                      *)
THEOREM CarriedOutAtMostTwice == Spec => []AtMostTwice
<1>1. Init => TwiceInv
  BY StarterIsProc DEF Init, TwiceInv, TriesInv, CountInv, Allowance, Queued, At, IdleJob
<1>2. IInv /\ TwiceInv /\ [Next]_vars => TwiceInv'
  BY TwiceStep
<1>3. IInv /\ TwiceInv => AtMostTwice
  <2> SUFFICES ASSUME IInv, TwiceInv, NEW c \in Caller  PROVE execs[c] <= 2
    BY DEF AtMostTwice
  <2>1. TriesInv(c) /\ CountInv(c)
    BY DEF TwiceInv
  <2> QED  BY <2>1, CountTypes DEF CountInv
<1> QED  BY <1>1, <1>2, <1>3, Inductive, PTL DEF Spec

---------------------------------------------------------------------------
(* What a command is told of its lesson.                                   *)

Prepared(l, warned) ==
  /\ guest.policy = (l \in Permits)
  /\ l \in WithFixtures => l \in guest.hardened
  /\ l \in WithScript => l \in guest.setup
  /\ l \in WithNetwork /\ ~warned => l \in guest.network

Preparing == {"policy", "network", "script"}

(* What is at work is the preparation begun last, with what its earlier    *)
(* steps have done, or no preparation.                                     *)
StageInv ==
  work # Idle =>
    LET l == work.frame.lesson IN
    /\ work.step \in Preparing => last = work.frame.by
    /\ work.step \notin Preparing => work.frame.op # "prepare"
    /\ work.step \in {"network", "script"} =>
         guest.policy = (l \in Permits) /\ (l \in WithFixtures => l \in guest.hardened)
    /\ work.step = "script" /\ l \in WithNetwork /\ ~work.warned => l \in guest.network

(* A frame is for the run its command was made for. *)
OriginInv(c) ==
  /\ \A i \in 1..Len(wire) :
       wire[i].by = c => ~At(c, "idle") /\ wire[i].run = job[c].run
  /\ last = c => ~At(c, "idle") /\ job[c].run = machine

(* No frame of c comes after the i-th. *)
NoneAfter(c, i) == \A j \in 1..Len(wire) : j > i => wire[j].by # c

(* The attempt that a command waits for is its last. *)
OrderInv(c) ==
  At(c, "reading") =>
    /\ \A i \in 1..Len(wire) :
         wire[i].by = c /\ wire[i].id = job[c].id => NoneAfter(c, i)
    /\ work # Idle /\ work.frame.by = c /\ work.frame.id = job[c].id /\ job[c].run = machine
         => NoneAfter(c, 0)

(* What a command was told, or may yet read. *)
Heard == {replies[i] : i \in 1..Len(replies)}
Told(c) == {a \in Heard : At(c, "reading")} \cup {job[c].result}

(* a tells c that its lesson is prepared; then nothing of c is under way   *)
(* that could prepare it again, and it is prepared.                        *)
Tells(a, c) ==
  a.ok /\ a.op = "prepare" /\ a.run = machine /\ job[c].run = machine /\ a.id = job[c].id

Settled(a, c) ==
  /\ NoneAfter(c, 0)
  /\ work # Idle => work.frame.by # c
  /\ last = c => Prepared(a.lesson, a.warned)

SettledInv(c) == \A a \in Told(c) : Tells(a, c) => Settled(a, c)

CommandInv(c) == OriginInv(c) /\ OrderInv(c) /\ SettledInv(c)

(* Only a reply of the command's own kind makes it succeed. *)
KindInv == \A c \in Caller : job[c].result.ok => job[c].result.op = job[c].op

PrepInv == StageInv /\ \A c \in Caller : CommandInv(c)

LEMMA PrepLaunched == ASSUME NEW r, Launched(r)  PROVE PrepInv'
<1>1. wire' = <<>> /\ work' = Idle /\ last' = Nobody
  BY DEF Launched
<1>2. Len(wire') = 0
  BY <1>1
<1>3. StageInv'
  BY <1>1 DEF StageInv
<1>4. ASSUME NEW c \in Caller  PROVE CommandInv(c)'
  <2>1. last' # c
    BY <1>1, NobodyAssumption DEF Proc
  <2>2. \A i : NoneAfter(c, i)'
    BY <1>2 DEF NoneAfter
  <2>3. OriginInv(c)' /\ OrderInv(c)'
    BY <1>1, <1>2, <2>1 DEF OriginInv, OrderInv
  <2>4. SettledInv(c)'
    BY <1>1, <2>1, <2>2 DEF SettledInv, Settled
  <2> QED  BY <2>3, <2>4 DEF CommandInv
<1> QED  BY <1>3, <1>4 DEF PrepInv

(* No frame of c is added, no preparation begun, and c does not start to   *)
(* wait; what a reply newly tells is so.                                   *)
LEMMA CommandMoves ==
  ASSUME NEW c \in Caller, CommandInv(c), machine' = machine, last' = last \/ last' # c,
         work' = Idle \/ (work # Idle /\ work'.frame = work.frame),
         NEW d \in Nat,
         \A i \in 1..Len(wire') :
           wire'[i].by # c \/ (i + d \in 1..Len(wire) /\ wire'[i] = wire[i + d]),
         \A a \in Heard' :
           \/ ~a.ok \/ a.op # "prepare" \/ a \in Heard
           \/ At(c, "reading") /\ Tells(a, c) => Settled(a, c)',
         ~At(c, "idle") => ~At(c, "idle")' /\ job'[c].run = job[c].run,
         At(c, "reading")' => At(c, "reading") /\ job'[c].id = job[c].id,
         job'[c].result.ok =>
           /\ job'[c].run = job[c].run /\ job'[c].id = job[c].id
           /\ job'[c].result \in Told(c),
         last = c =>
           \/ guest' = guest
           \/ work # Idle /\ work.frame.by = c
           \/ \A l, w : Prepared(l, w) => Prepared(l, w)'
  PROVE  CommandInv(c)'
<1>1. ASSUME NEW i \in Nat, NEW k \in Nat, k <= i + d, NoneAfter(c, k)  PROVE NoneAfter(c, i)'
  <2> SUFFICES ASSUME NEW j \in 1..Len(wire'), j > i  PROVE wire'[j].by # c
    BY DEF NoneAfter
  <2>1. CASE j + d \in 1..Len(wire) /\ wire'[j] = wire[j + d]
    BY <1>1, <2>1 DEF NoneAfter
  <2> QED  BY <2>1
<1>2. ASSUME NEW a, Settled(a, c)  PROVE Settled(a, c)'
  <2>1. NoneAfter(c, 0)'
    BY <1>1, <1>2 DEF Settled
  <2>2. work' # Idle => work'.frame.by # c
    BY <1>2 DEF Settled
  <2>3. last' = c => Prepared(a.lesson, a.warned)'
    BY <1>2 DEF Settled, Prepared
  <2> QED  BY <2>1, <2>2, <2>3 DEF Settled
<1>3. OriginInv(c)'
  BY DEF CommandInv, OriginInv, At
<1>4. OrderInv(c)'
  <2> SUFFICES ASSUME At(c, "reading")'  PROVE OrderInv(c)'
    BY DEF OrderInv
  <2>1. At(c, "reading") /\ job'[c].id = job[c].id /\ job'[c].run = job[c].run
    BY DEF At
  <2>2. ASSUME NEW i \in 1..Len(wire'), wire'[i].by = c, wire'[i].id = job[c].id
        PROVE  NoneAfter(c, i)'
    <3>1. i + d \in 1..Len(wire) /\ wire'[i] = wire[i + d]
      BY <2>2
    <3>2. NoneAfter(c, i + d)
      BY <2>1, <2>2, <3>1 DEF CommandInv, OrderInv
    <3> QED  BY <1>1, <3>2
  <2>3. ASSUME work' # Idle, work'.frame.by = c, work'.frame.id = job[c].id, job[c].run = machine
        PROVE  NoneAfter(c, 0)'
    <3>1. NoneAfter(c, 0)
      BY <2>1, <2>3 DEF CommandInv, OrderInv
    <3> QED  BY <1>1, <3>1
  <2> QED  BY <2>1, <2>2, <2>3 DEF OrderInv
<1>5. SettledInv(c)'
  <2> SUFFICES ASSUME NEW a \in Told(c)', Tells(a, c)'  PROVE Settled(a, c)'
    BY DEF SettledInv
  <2>1. ASSUME a \in Told(c), Tells(a, c)  PROVE Settled(a, c)'
    BY <1>2, <2>1 DEF CommandInv, SettledInv
  <2>2. CASE a = job'[c].result
    BY <2>1, <2>2 DEF Tells
  <2>3. CASE a # job'[c].result
    <3>1. a \in Heard' /\ At(c, "reading")'
      BY <2>3 DEF Told
    <3>2. At(c, "reading") /\ Tells(a, c)
      BY <3>1 DEF Tells, At
    <3> QED  BY <2>1, <3>1, <3>2 DEF Told, Tells
  <2> QED  BY <2>2, <2>3
<1> QED  BY <1>3, <1>4, <1>5 DEF CommandInv

(* It stays as it is. *)
LEMMA CommandStands ==
  ASSUME NEW c \in Caller, CommandInv(c), machine' = machine, last' = last \/ last' # c,
         work' = Idle \/ (work # Idle /\ work'.frame = work.frame),
         NEW d \in Nat,
         \A i \in 1..Len(wire') :
           wire'[i].by # c \/ (i + d \in 1..Len(wire) /\ wire'[i] = wire[i + d]),
         \A a \in Heard' :
           \/ ~a.ok \/ a.op # "prepare" \/ a \in Heard
           \/ At(c, "reading") /\ Tells(a, c) => Settled(a, c)',
         job'[c] = job[c],
         last = c =>
           \/ guest' = guest
           \/ work # Idle /\ work.frame.by = c
           \/ \A l, w : Prepared(l, w) => Prepared(l, w)'
  PROVE  CommandInv(c)'
<1>1. job'[c].result \in Told(c)
  BY DEF Told
<1> QED  BY <1>1, CommandMoves DEF At

LEMMA HeardShrinks ==
  ASSUME IInv, replies' \in {replies, <<>>} \/ (replies # <<>> /\ replies' = Tail(replies))
  PROVE  Heard' \subseteq Heard
<1>1. replies \in Seq(GoodReply(machine))
  BY DEF IInv, LinkInv
<1>2. \A i \in 1..Len(replies') : \E j \in 1..Len(replies) : replies'[i] = replies[j]
  <2>1. CASE replies' = replies
    BY <2>1
  <2>2. CASE replies' = <<>>
    BY <2>2
  <2>3. CASE replies # <<>> /\ replies' = Tail(replies)
    <3>1. \A i \in 1..Len(replies') : i + 1 \in 1..Len(replies) /\ replies'[i] = replies[i + 1]
      BY <1>1, <2>3
    <3> QED  BY <3>1
  <2> QED  BY <2>1, <2>2, <2>3
<1> QED  BY <1>2 DEF Heard

LEMMA HeardGrows ==
  ASSUME IInv, NEW a, replies' = Append(replies, a)
  PROVE  Heard' \subseteq Heard \cup {a}
<1>1. replies \in Seq(GoodReply(machine))
  BY DEF IInv, LinkInv
<1>2. \A i \in 1..Len(replies') :
        replies'[i] = a \/ (i \in 1..Len(replies) /\ replies'[i] = replies[i])
  BY <1>1
<1> QED  BY <1>2 DEF Heard

(* A step of the host, or of the environment, that leaves the agent be. *)
LEMMA CommandApart ==
  ASSUME IInv, NEW c \in Caller, CommandInv(c), UNCHANGED <<machine, last, guest>>,
         work' \in {work, Idle}, wire' \in {wire, <<>>},
         replies' \in {replies, <<>>} \/ (replies # <<>> /\ replies' = Tail(replies)),
         ~At(c, "idle") => ~At(c, "idle")' /\ job'[c].run = job[c].run,
         At(c, "reading")' => At(c, "reading") /\ job'[c].id = job[c].id,
         job'[c].result.ok =>
           /\ job'[c].run = job[c].run /\ job'[c].id = job[c].id
           /\ job'[c].result \in Told(c)
  PROVE  CommandInv(c)'
<1>1. \A i \in 1..Len(wire') : i + 0 \in 1..Len(wire) /\ wire'[i] = wire[i + 0]
  BY DEF IInv, LinkInv
<1>2. Heard' \subseteq Heard
  BY HeardShrinks
<1> QED  BY <1>1, <1>2, CommandMoves

LEMMA CommandHost ==
  ASSUME IInv, OwnInv, NEW c \in Caller, CommandInv(c), NEW p \in Proc,
         Read(p) \/ Closed(p) \/ TimeOut(p) \/ Drop(p)
  PROVE  CommandInv(c)'
<1>1. /\ UNCHANGED <<machine, last, guest, work>> /\ wire' \in {wire, <<>>}
      /\ replies' \in {replies, <<>>} \/ (replies # <<>> /\ replies' = Tail(replies))
      /\ ~At(p, "idle")
  BY DEF Read, Closed, TimeOut, Drop, DropConnection, Disconnected, At, channel, agent, history
<1>2. job \in [Proc -> Job] /\ c \in Proc /\ c # Starter /\ job[c] \in Job
  BY StarterIsProc DEF IInv, JobInv
<1>3. job[c].result \in Told(c)
  BY DEF Told
<1>4. CASE p # c
  <2>1. job'[c] = job[c]
    BY <1>2, <1>4 DEF Read, Closed, TimeOut, Drop
  <2> QED  BY <1>1, <1>3, <2>1, CommandApart DEF At
<1>5. CASE p = c /\ (Closed(p) \/ TimeOut(p) \/ Drop(p))
  <2>1. job'[c] = Failed(c) \/ job'[c] = Again(c)
    BY <1>2, <1>5 DEF Closed, TimeOut, Drop
  <2>2. /\ job'[c].at # "reading" /\ job'[c].at # "idle" /\ job'[c].run = job[c].run
        /\ job'[c].id = job[c].id /\ job'[c].result = job[c].result
    BY <1>2, <2>1, FailedKeeps, AgainKeeps, FailedOK, AgainOK
  <2> QED  BY <1>1, <1>3, <2>2, CommandApart DEF At
<1>6. CASE p = c /\ Read(p)
  <2> DEFINE a == Head(replies)
  <2>1. /\ At(c, "reading") /\ replies # <<>>
        /\ job'[c] = Answered(c, a) \/ job'[c] = Skipped(c)
    BY <1>2, <1>6 DEF Read
  <2>2. a \in Heard /\ a \in Reply
    <3>1. replies \in Seq(GoodReply(machine))
      BY DEF IInv, LinkInv
    <3>2. a = replies[1] /\ 1 \in 1..Len(replies) /\ a \in GoodReply(machine)
      BY <2>1, <3>1
    <3> QED  BY <3>2 DEF Heard, GoodReply
  <2>3. CASE job'[c] = Answered(c, a)
    <3>1. /\ job'[c].run = job[c].run /\ job'[c].at # "idle"
      BY <1>2, <2>2, <2>3, AnsweredOK
    <3>2. /\ job'[c].at # "reading" /\ job'[c].id = job[c].id
          /\ job'[c].result \in {a, NoReply}
      BY <1>2, <2>3 DEF Answered, Job
    <3>3. job'[c].result.ok => job'[c].result \in Told(c)
      BY <2>1, <2>2, <3>2 DEF Told, NoReply
    <3> QED  BY <1>1, <3>1, <3>2, <3>3, CommandApart DEF At
  <2>4. CASE job'[c] = Skipped(c)
    <3>1. /\ job'[c].run = job[c].run /\ job'[c].at # "idle"
      BY <1>1, <1>2, <1>6, <2>4, SkippedOK
    <3>2. job'[c].id = job[c].id /\ job'[c].result = job[c].result
      <4>1. CASE job[c].skips + 1 = Skips
        BY <1>2, <2>4, <4>1, FailedKeeps DEF Skipped
      <4>2. CASE job[c].skips + 1 # Skips
        BY <1>2, <2>4, <4>2 DEF Skipped, Job
      <4> QED  BY <4>1, <4>2
    <3> QED  BY <1>1, <1>3, <2>1, <3>1, <3>2, CommandApart DEF At
  <2> QED  BY <2>1, <2>3, <2>4
<1> QED  BY <1>4, <1>5, <1>6

(* A frame that is sent has an id that none before it has. *)
LEMMA CommandSends ==
  ASSUME IInv, OwnInv, NEW c \in Caller, CommandInv(c), NEW p \in Proc, TrySend(p)
  PROVE  CommandInv(c)'
<1> DEFINE torn == [Request(p) EXCEPT !.op = "torn"]
           n == Len(wire)
<1>1. /\ job \in [Proc -> Job] /\ c \in Proc /\ job[c] \in Job /\ At(p, "request")
      /\ wire \in Seq(OwnFrame) /\ n \in Nat
  BY StarterIsProc DEF TrySend, IInv, JobInv, OwnInv
<1>2. /\ UNCHANGED <<machine, last, guest, work, replies>>
      /\ \/ job' = [job EXCEPT ![p] = Reading(p)] /\ wire' = Append(wire, Request(p))
         \/ job' = [job EXCEPT ![p] = Failed(p)] /\ wire' \in {wire, Append(wire, torn)}
  BY DEF TrySend, agent, history
<1>3. /\ Request(p).by = p /\ Request(p).run = job[p].run /\ Request(p).id = nextId[job[p].run]
      /\ torn.by = p /\ torn.run = job[p].run
  BY DEF Request
<1> HIDE DEF torn
<1>4. PICK f : /\ f.by = p /\ f.run = job[p].run
               /\ wire' \in {wire, Append(wire, f)}
               /\ \/ job' = [job EXCEPT ![p] = Failed(p)]
                  \/ job' = [job EXCEPT ![p] = Reading(p)] /\ f.id = nextId[job[p].run]
  BY <1>2, <1>3
<1>5. /\ Len(wire') \in {n, n + 1}
      /\ \A i \in 1..n : wire'[i] = wire[i]
      /\ \A i \in 1..Len(wire') : i \in 1..n \/ (i = n + 1 /\ wire'[i] = f)
  BY <1>1, <1>4
<1> HIDE DEF n
<1>6. CASE p # c
  <2>1. job'[c] = job[c]
    BY <1>1, <1>4, <1>6
  <2>2. \A i \in 1..Len(wire') :
          wire'[i].by # c \/ (i + 0 \in 1..Len(wire) /\ wire'[i] = wire[i + 0])
    BY <1>1, <1>4, <1>5, <1>6 DEF n
  <2>3. Heard' = Heard
    BY <1>2 DEF Heard
  <2> QED  BY <1>2, <2>1, <2>2, <2>3, CommandStands
<1>7. CASE p = c
  <2>1. job'[c] \in {Failed(c), Reading(c)}
    BY <1>1, <1>4, <1>7
  <2>2. /\ job'[c].run = job[c].run /\ job'[c].at # "idle"
        /\ job'[c].result = job[c].result /\ ~job[c].result.ok
    <3>1. ~job[c].result.ok
      BY <1>1, <1>7, ResultOK DEF At, UnderWay
    <3>2. job[c].run \in Run /\ nextId \in [Run -> Ids]
      BY <1>1, <1>7 DEF IInv, JobInv, RestInv, At
    <3>3. Reading(c).result = job[c].result
      BY <1>1 DEF Reading, Job
    <3> QED  BY <1>1, <2>1, <3>1, <3>2, <3>3, FailedOK, FailedKeeps, ReadingOK
  <2>3. OriginInv(c)'
    <3>1. \A i \in 1..n : wire[i].by = c => wire[i].run = job[c].run
      BY DEF CommandInv, OriginInv, n
    <3> QED  BY <1>2, <1>4, <1>5, <1>7, <2>2, <3>1 DEF CommandInv, OriginInv, At
  <2>4. ASSUME At(c, "reading")'
        PROVE  /\ job'[c].id = nextId[job[c].run] /\ job[c].run \in Run
               /\ \A i \in 1..n : wire[i].by = c => wire[i].id # job'[c].id
    <3>1. job'[c] = Reading(c)
      BY <1>1, <2>1, <2>4, FailedKeeps DEF At
    <3>2. job'[c].id = nextId[job[c].run]
      BY <1>1, <3>1 DEF Reading, Job
    <3>3. job[c].run \in Run /\ nextId[job[c].run] \in Nat
      BY <1>1, <1>7 DEF IInv, JobInv, RestInv, At, Ids
    <3>4. ASSUME NEW i \in 1..n, wire[i].by = c  PROVE wire[i].id # nextId[job[c].run]
      <4>1. wire[i] \in OwnFrame /\ wire[i].run = job[c].run
        BY <1>1, <3>4 DEF CommandInv, OriginInv, n
      <4>2. wire[i].id < nextId[job[c].run] /\ wire[i].id \in Nat
        BY <4>1 DEF OwnFrame, GoodFrame, Frame, Ids
      <4> QED  BY <3>3, <4>2
    <3> QED  BY <3>2, <3>3, <3>4
  <2>5. OrderInv(c)'
    <3> SUFFICES ASSUME At(c, "reading")'  PROVE OrderInv(c)'
      BY DEF OrderInv
    <3>1. ASSUME NEW i \in 1..Len(wire'), wire'[i].by = c, wire'[i].id = job'[c].id
          PROVE  NoneAfter(c, i)'
      <4>1. i = n + 1
        BY <1>5, <2>4, <3>1
      <4> QED  BY <1>1, <1>5, <4>1 DEF NoneAfter, n
    <3>2. ASSUME work # Idle, work.frame.by = c, work.frame.id = job'[c].id, job[c].run = machine
          PROVE  FALSE
      <4>1. work.frame \in OwnFrame /\ work.frame.run = machine
        BY <3>2 DEF OwnInv, IInv, LinkInv, WorksForItsHost
      <4>2. work.frame.id < nextId[machine] /\ work.frame.id \in Nat /\ nextId[machine] \in Nat
        BY <2>4, <3>2, <4>1 DEF OwnFrame, GoodFrame, Frame, Ids, IInv, RestInv
      <4> QED  BY <2>4, <3>2, <4>2
    <3> QED  BY <1>2, <2>2, <3>1, <3>2 DEF OrderInv
  <2>6. SettledInv(c)'
    <3> SUFFICES ASSUME NEW a \in Told(c)', Tells(a, c)'  PROVE FALSE
      BY DEF SettledInv
    <3>1. a.ok /\ a # job'[c].result
      BY <2>2 DEF Tells
    <3>2. At(c, "reading")' /\ a \in Heard
      BY <1>2, <3>1 DEF Told, Heard
    <3>3. a \in OwnAnswer
      BY <3>2 DEF Heard, OwnInv
    <3>4. a.run = job[c].run /\ a.id = nextId[job[c].run] /\ a.id < nextId[a.run]
      BY <2>2, <2>4, <3>1, <3>2, <3>3 DEF Tells, OwnAnswer
    <3>5. a.id \in Nat
      BY <3>1, <3>3 DEF OwnAnswer, Ids
    <3> QED  BY <3>4, <3>5
  <2> QED  BY <2>3, <2>5, <2>6 DEF CommandInv
<1> QED  BY <1>6, <1>7

---------------------------------------------------------------------------

LEMMA StageKept ==
  ASSUME StageInv, work' \in {work, Idle}, UNCHANGED <<guest, last>>
  PROVE  StageInv'
BY DEF StageInv

LEMMA PrepTakeTorn == ASSUME IInv, PrepInv, TakeTorn  PROVE PrepInv'
<1>1. /\ UNCHANGED <<job, machine, work, guest, last>>
      /\ replies' = Append(replies, Malformed) /\ ~Malformed.ok
      /\ (wire # <<>> /\ wire' = Tail(wire)) \/ (Len(wire) > 1 /\ wire' = Tail(Tail(wire)))
  BY DEF TakeTorn, Ready, Malformed, agent, history
<1>2. PICK d \in Nat : \A i \in 1..Len(wire') : i + d \in 1..Len(wire) /\ wire'[i] = wire[i + d]
  BY <1>1, WireShrinks DEF IInv, LinkInv
<1>3. \A a \in Heard' : ~a.ok \/ a \in Heard
  BY <1>1, HeardGrows
<1>4. ASSUME NEW c \in Caller  PROVE CommandInv(c)'
  BY <1>1, <1>2, <1>3, CommandStands DEF PrepInv
<1> QED  BY <1>1, <1>4, StageKept DEF PrepInv

(* A preparation begins: nothing that was told of one of the command's is  *)
(* outstanding.                                                            *)
LEMMA PrepTake == ASSUME IInv, OwnInv, PrepInv, Take  PROVE PrepInv'
<1> DEFINE f == Head(wire)
<1>1. /\ wire \in Seq(GoodFrame) /\ wire # <<>> /\ wire' = Tail(wire)
      /\ UNCHANGED <<job, machine, guest>> /\ work = Idle
  BY DEF Take, Ready, IInv, LinkInv
<1>2. /\ f = wire[1] /\ 1 \in 1..Len(wire) /\ Len(wire) \in Nat
      /\ \A i \in 1..Len(wire') : i + 1 \in 1..Len(wire) /\ wire'[i] = wire[i + 1]
      /\ f \in GoodFrame
  BY <1>1
<1> HIDE DEF f
<1>3. CASE ~Authentic(f)
  <2>1. /\ replies' = Append(replies, Answer(f, FALSE, FALSE))
        /\ work' = work /\ last' = last
    BY <1>3 DEF Take, history, f
  <2>2. ~Answer(f, FALSE, FALSE).ok
    BY DEF Answer
  <2>3. \A a \in Heard' : ~a.ok \/ a \in Heard
    BY <2>1, <2>2, HeardGrows
  <2>4. ASSUME NEW c \in Caller  PROVE CommandInv(c)'
    BY <1>1, <1>2, <2>1, <2>3, CommandStands DEF PrepInv
  <2> QED  BY <1>1, <2>1, <2>4, StageKept DEF PrepInv
<1>4. CASE Authentic(f)
  <2>1. /\ work' = [step |-> FirstStep(f), frame |-> f, warned |-> FALSE]
        /\ last' = IF f.op = "prepare" THEN f.by ELSE last
        /\ replies' = replies /\ f.run = machine
    BY <1>4 DEF Take, Authentic, f
  <2>2. Heard' = Heard
    BY <2>1 DEF Heard
  <2>3. StageInv'
    <3>1. /\ FirstStep(f) \in {"policy", "reset", "answer"}
          /\ FirstStep(f) = "policy" => f.op = "prepare"
          /\ f.op = "prepare" => FirstStep(f) = "policy"
      BY DEF FirstStep
    <3> QED  BY <2>1, <3>1 DEF StageInv, Preparing
  <2>4. ASSUME NEW c \in Caller  PROVE CommandInv(c)'
    <3>1. CommandInv(c)
      BY DEF PrepInv
    <3>2. ASSUME NoneAfter(c, 0)  PROVE f.by # c /\ NoneAfter(c, 0)'
      BY <1>2, <3>2 DEF NoneAfter
    <3>3. ASSUME NoneAfter(c, 1)  PROVE NoneAfter(c, 0)'
      <4> SUFFICES ASSUME NEW j \in 1..Len(wire'), j > 0  PROVE wire'[j].by # c
        BY DEF NoneAfter
      <4>1. j + 1 \in 1..Len(wire) /\ wire'[j] = wire[j + 1] /\ j + 1 > 1
        BY <1>2
      <4> QED  BY <3>3, <4>1 DEF NoneAfter
    <3>4. OriginInv(c)'
      BY <1>1, <1>2, <2>1, <3>1 DEF CommandInv, OriginInv, At
    <3>5. OrderInv(c)'
      <4> SUFFICES ASSUME At(c, "reading")'  PROVE OrderInv(c)'
        BY DEF OrderInv
      <4>1. At(c, "reading") /\ OrderInv(c)
        BY <1>1, <3>1 DEF At, CommandInv
      <4>2. ASSUME NEW i \in 1..Len(wire'), wire'[i].by = c, wire'[i].id = job[c].id
            PROVE  NoneAfter(c, i)'
        <5>1. NoneAfter(c, i + 1)
          BY <1>2, <4>1, <4>2 DEF OrderInv
        <5> SUFFICES ASSUME NEW j \in 1..Len(wire'), j > i  PROVE wire'[j].by # c
          BY DEF NoneAfter
        <5>2. j + 1 \in 1..Len(wire) /\ wire'[j] = wire[j + 1] /\ j + 1 > i + 1
          BY <1>2
        <5> QED  BY <5>1, <5>2 DEF NoneAfter
      <4>3. ASSUME f.by = c, f.id = job[c].id  PROVE NoneAfter(c, 0)'
        BY <1>2, <3>3, <4>1, <4>3 DEF OrderInv
      <4> QED  BY <1>1, <2>1, <4>2, <4>3 DEF OrderInv
    <3>6. SettledInv(c)'
      <4> SUFFICES ASSUME NEW a \in Told(c)', Tells(a, c)'  PROVE Settled(a, c)'
        BY DEF SettledInv
      <4>1. a \in Told(c) /\ Tells(a, c)
        BY <1>1, <2>2 DEF Told, Tells, At
      <4>2. Settled(a, c)
        BY <3>1, <4>1 DEF CommandInv, SettledInv
      <4>3. f.by # c /\ NoneAfter(c, 0)'
        BY <3>2, <4>2 DEF Settled
      <4> QED  BY <1>1, <2>1, <4>2, <4>3 DEF Settled, Prepared
    <3> QED  BY <3>4, <3>5, <3>6 DEF CommandInv
  <2> QED  BY <2>3, <2>4 DEF PrepInv
<1> QED  BY <1>3, <1>4

(* A step of a handler: it goes on, or it replies; it is the only one that *)
(* changes the guest.                                                      *)
LEMMA PrepHandler ==
  ASSUME IInv, PrepInv, work # Idle, StageInv',
         UNCHANGED <<job, machine, wire, last>>,
         work' = Idle \/ work'.frame = work.frame,
         \/ replies' = replies
         \/ \E a : /\ replies' = Append(replies, a)
                   /\ \/ ~a.ok \/ a.op # "prepare"
                      \/ \A c \in Caller : At(c, "reading") /\ Tells(a, c) => Settled(a, c)',
         guest' = guest \/ last = work.frame.by \/ \A l, w : Prepared(l, w) => Prepared(l, w)'
  PROVE  PrepInv'
<1>1. \A i \in 1..Len(wire') : i + 0 \in 1..Len(wire) /\ wire'[i] = wire[i + 0]
  BY DEF IInv, LinkInv
<1>2. ASSUME NEW c \in Caller  PROVE CommandInv(c)'
  <2>1. CommandInv(c)
    BY DEF PrepInv
  <2>2. \A a \in Heard' :
          \/ ~a.ok \/ a.op # "prepare" \/ a \in Heard
          \/ At(c, "reading") /\ Tells(a, c) => Settled(a, c)'
    <3>1. CASE replies' = replies
      BY <3>1 DEF Heard
    <3>2. ASSUME NEW a, replies' = Append(replies, a),
                 \/ ~a.ok \/ a.op # "prepare"
                 \/ At(c, "reading") /\ Tells(a, c) => Settled(a, c)'
          PROVE  \A b \in Heard' :
                   \/ ~b.ok \/ b.op # "prepare" \/ b \in Heard
                   \/ At(c, "reading") /\ Tells(b, c) => Settled(b, c)'
      BY <3>2, HeardGrows
    <3> QED  BY <3>1, <3>2
  <2>3. last = c =>
          \/ guest' = guest
          \/ work # Idle /\ work.frame.by = c
          \/ \A l, w : Prepared(l, w) => Prepared(l, w)'
    OBVIOUS
  <2>4. work' = Idle \/ (work # Idle /\ work'.frame = work.frame)
    OBVIOUS
  <2> QED  BY <1>1, <2>1, <2>2, <2>3, <2>4, CommandStands
<1> QED  BY <1>2 DEF PrepInv

(* What is at work, in the form the steps of the handlers need it. *)
LEMMA StageAt ==
  ASSUME IInv, PrepInv, NEW step \in Steps, Does(step)
  PROVE  /\ work # Idle /\ work.step = step /\ StageInv
         /\ work \in [step : Steps, frame : GoodFrame, warned : BOOLEAN]
         /\ step \in Preparing => last = work.frame.by
         /\ step \notin Preparing => work.frame.op # "prepare"
         /\ guest \in [policy : BOOLEAN, hardened : SUBSET Lesson, network : SUBSET Lesson,
                       setup : SUBSET Lesson, signals : BOOLEAN]
         /\ \A ok : Replied(ok) =>
              /\ work' = Idle /\ replies' = Append(replies, Answer(work.frame, ok, work.warned))
              /\ Answer(work.frame, ok, work.warned).ok = ok
              /\ Answer(work.frame, ok, work.warned).op = work.frame.op
BY AtWork, GuestOK DEF PrepInv, StageInv, Does, Replied, Answer

LEMMA StageIdle == ASSUME work' = Idle  PROVE StageInv'
BY DEF StageInv

LEMMA PrepPolicy == ASSUME IInv, PrepInv, SudoPolicy  PROVE PrepInv'
<1> DEFINE l == work.frame.lesson
<1>1. Does("policy") /\ "policy" \in Steps /\ "policy" \in Preparing
      /\ UNCHANGED <<job, machine, wire, last>>
  BY DEF SudoPolicy, Steps, Preparing, history
<1>2. /\ work # Idle /\ last = work.frame.by
      /\ work \in [step : Steps, frame : GoodFrame, warned : BOOLEAN]
      /\ guest \in [policy : BOOLEAN, hardened : SUBSET Lesson, network : SUBSET Lesson,
                    setup : SUBSET Lesson, signals : BOOLEAN]
  BY <1>1, StageAt
<1>3. CASE Replied(FALSE)
  <2>1. /\ work' = Idle /\ replies' = Append(replies, Answer(work.frame, FALSE, work.warned))
        /\ ~Answer(work.frame, FALSE, work.warned).ok
    BY <1>1, <1>3, StageAt
  <2> QED  BY <1>1, <1>2, <2>1, StageIdle, PrepHandler
<1>4. CASE Goes("network") /\ guest' = [guest EXCEPT !.hardened = Hidden, !.policy = l \in Permits]
  <2>1. /\ work'.frame = work.frame /\ work'.step = "network" /\ replies' = replies
    BY <1>2, <1>4 DEF Goes
  <2>2. guest'.hardened = Hidden /\ guest'.policy = (l \in Permits)
    BY <1>2, <1>4
  <2>3. l \in WithFixtures => l \in guest'.hardened
    BY <2>2 DEF Hidden
  <2>4. StageInv'
    BY <1>1, <1>2, <2>1, <2>2, <2>3 DEF StageInv, Preparing
  <2> QED  BY <1>1, <1>2, <2>1, <2>4, PrepHandler
<1> QED  BY <1>3, <1>4 DEF SudoPolicy

LEMMA PrepNetwork == ASSUME IInv, PrepInv, Network  PROVE PrepInv'
<1> DEFINE l == work.frame.lesson
<1>1. Does("network") /\ "network" \in Steps /\ "network" \in Preparing
      /\ UNCHANGED <<job, machine, wire, last>>
  BY DEF Network, Steps, Preparing, history
<1>2. /\ work # Idle /\ last = work.frame.by /\ work.step = "network" /\ StageInv
      /\ work \in [step : Steps, frame : GoodFrame, warned : BOOLEAN]
      /\ guest \in [policy : BOOLEAN, hardened : SUBSET Lesson, network : SUBSET Lesson,
                    setup : SUBSET Lesson, signals : BOOLEAN]
  BY <1>1, StageAt
<1>3. CASE Replied(FALSE)
  <2>1. /\ work' = Idle /\ replies' = Append(replies, Answer(work.frame, FALSE, work.warned))
        /\ ~Answer(work.frame, FALSE, work.warned).ok
    BY <1>1, <1>3, StageAt
  <2> QED  BY <1>1, <1>2, <2>1, StageIdle, PrepHandler
<1>4. CASE \/ Goes("script") /\ guest' = [guest EXCEPT !.network = @ \cup ({l} \cap WithNetwork)]
           \/ /\ work' = [work EXCEPT !.step = "script", !.warned = TRUE]
              /\ UNCHANGED <<guest, replies>>
  <2>1. /\ work'.frame = work.frame /\ work'.step = "script" /\ replies' = replies
        /\ \/ work'.warned
           \/ guest' = [guest EXCEPT !.network = @ \cup ({l} \cap WithNetwork)]
    BY <1>2, <1>4 DEF Goes
  <2>2. /\ guest'.policy = guest.policy /\ guest'.hardened = guest.hardened
        /\ l \in WithNetwork /\ ~work'.warned => l \in guest'.network
    BY <1>2, <1>4, <2>1
  <2>3. StageInv'
    BY <1>1, <1>2, <2>1, <2>2 DEF StageInv, Preparing
  <2> QED  BY <1>1, <1>2, <2>1, <2>3, PrepHandler
<1> QED  BY <1>3, <1>4 DEF Network, HandlerFails

(* The end of a preparation: what its reply tells is so. *)
LEMMA PrepScript == ASSUME IInv, OwnInv, PrepInv, SetupScript  PROVE PrepInv'
<1> PICK l, w : l = work.frame.lesson /\ w = work.warned
  OBVIOUS
<1>1. Does("script") /\ "script" \in Steps /\ "script" \in Preparing
      /\ UNCHANGED <<job, machine, wire, last>>
  BY DEF SetupScript, Steps, Preparing, history
<1>2. /\ work # Idle /\ last = work.frame.by /\ work.step = "script" /\ StageInv
      /\ work \in [step : Steps, frame : GoodFrame, warned : BOOLEAN]
      /\ guest \in [policy : BOOLEAN, hardened : SUBSET Lesson, network : SUBSET Lesson,
                    setup : SUBSET Lesson, signals : BOOLEAN]
  BY <1>1, StageAt
<1>3. CASE Replied(FALSE)
  <2>1. /\ work' = Idle /\ replies' = Append(replies, Answer(work.frame, FALSE, work.warned))
        /\ ~Answer(work.frame, FALSE, work.warned).ok
    BY <1>1, <1>3, StageAt
  <2> QED  BY <1>1, <1>2, <2>1, StageIdle, PrepHandler
<1>4. CASE /\ guest' = IF l \in WithScript
                       THEN [guest EXCEPT !.setup = @ \cup {l}, !.signals = TRUE]
                       ELSE guest
           /\ Replied(TRUE)
  <2> PICK a : a = Answer(work.frame, TRUE, w)
    OBVIOUS
  <2>1. work' = Idle /\ replies' = Append(replies, a)
    BY <1>1, <1>4, StageAt
  <2>2. a.id = work.frame.id /\ a.run = machine /\ a.lesson = l /\ a.warned = w
    BY DEF Answer
  <2>3. Prepared(l, w)'
    BY <1>2, <1>4 DEF StageInv, Prepared
  <2>4. ASSUME NEW c \in Caller, At(c, "reading"), Tells(a, c)  PROVE Settled(a, c)'
    <3>1. work.frame.id = job[c].id /\ job[c].run = machine
      BY <2>2, <2>4 DEF Tells
    <3>2. work.frame \in OwnFrame /\ work.frame.run = machine /\ c \in Proc
      BY <1>2, StarterIsProc DEF OwnInv, IInv, LinkInv, WorksForItsHost
    <3>3. work.frame.by = c
      BY <2>4, <3>1, <3>2 DEF OwnFrame
    <3>4. NoneAfter(c, 0)
      BY <1>2, <2>4, <3>1, <3>3 DEF PrepInv, CommandInv, OrderInv
    <3>5. NoneAfter(c, 0)'
      BY <1>1, <3>4 DEF NoneAfter
    <3> QED  BY <2>1, <2>2, <2>3, <3>5 DEF Settled, Prepared
  <2> QED  BY <1>1, <1>2, <2>1, <2>4, StageIdle, PrepHandler
<1> QED  BY <1>3, <1>4 DEF SetupScript, SetupFails, HandlerFails

LEMMA PrepOther == ASSUME IInv, PrepInv, ResetScript \/ Respond  PROVE PrepInv'
<1>1. PICK step \in {"reset", "answer"} : Does(step)
  BY DEF ResetScript, Respond
<1>2. /\ UNCHANGED <<job, machine, wire, last>>
      /\ Replied(TRUE) \/ Replied(FALSE)
      /\ guest' = guest \/ guest' = [guest EXCEPT !.signals = FALSE]
  BY DEF ResetScript, Respond, HandlerFails, history
<1>3. step \in Steps /\ step \notin Preparing
  BY DEF Steps, Preparing
<1>4. PICK ok : Replied(ok)
  BY <1>2
<1> DEFINE a == Answer(work.frame, ok, work.warned)
<1>5. /\ work # Idle /\ work' = Idle /\ replies' = Append(replies, a) /\ a.op # "prepare"
      /\ guest \in [policy : BOOLEAN, hardened : SUBSET Lesson, network : SUBSET Lesson,
                    setup : SUBSET Lesson, signals : BOOLEAN]
  BY <1>1, <1>3, <1>4, StageAt
<1>6. \A l, w : Prepared(l, w) => Prepared(l, w)'
  BY <1>2, <1>5 DEF Prepared
<1> HIDE DEF a
<1> QED  BY <1>2, <1>5, <1>6, StageIdle, PrepHandler

LEMMA PrepStep == ASSUME IInv, OwnInv, PrepInv, [Next]_vars  PROVE PrepInv'
<1>1. ASSUME NEW c \in Caller  PROVE CommandInv(c)
  BY DEF PrepInv
<1>2. \A c \in Caller : c \in Proc /\ c # Starter /\ job[c].result \in Told(c)
  BY StarterIsProc DEF Told
<1>3. job \in [Proc -> Job]
  BY DEF IInv, JobInv
<1>4. CASE StartMachine \/ StartFails \/ Dies \/ \E c \in Caller : StopMachine(c)
  BY <1>4, PrepLaunched DEF StartMachine, StartFails, Dies, StopMachine, PoweredOff
<1>5. CASE \/ DeadlinePasses \/ Boot \/ Cut \/ AgentRestarts \/ UNCHANGED vars
  <2>1. /\ UNCHANGED <<machine, last, guest>> /\ work' \in {work, Idle}
        /\ wire' \in {wire, <<>>} /\ replies' \in {replies, <<>>}
    BY <1>5 DEF DeadlinePasses, Boot, Cut, AgentRestarts, Disconnected, vars, channel, agent, history
  <2>2. \A c \in Caller : job'[c] = job[c]
    BY <1>2, <1>3, <1>5 DEF DeadlinePasses, Boot, Cut, AgentRestarts, vars
  <2>3. ASSUME NEW c \in Caller  PROVE CommandInv(c)'
    BY <1>1, <1>2, <2>1, <2>2, CommandApart DEF At
  <2> QED  BY <2>1, <2>3, StageKept DEF PrepInv
<1>6. ASSUME NEW b \in Caller, Call(b)  PROVE PrepInv'
  <2>1. UNCHANGED <<machine, last, guest, work, wire, replies>>
    BY <1>6 DEF Call, channel, agent, history
  <2>2. ASSUME NEW c \in Caller  PROVE CommandInv(c)'
    <3>1. CASE c # b
      <4>1. job'[c] = job[c]
        BY <1>2, <1>3, <1>6, <3>1 DEF Call
      <4> QED  BY <1>1, <1>2, <2>1, <4>1, CommandApart DEF At
    <3>2. CASE c = b
      <4>1. At(c, "idle") /\ job'[c].at = "request" /\ ~job'[c].result.ok
        BY <1>2, <1>3, <1>6, <3>2 DEF Call, IdleJob, NoReply
      <4> QED  BY <1>1, <2>1, <4>1, CommandApart DEF At
    <3> QED  BY <3>1, <3>2
  <2> QED  BY <2>1, <2>2, StageKept DEF PrepInv
<1>7. ASSUME NEW p \in Proc, HostStep(p)  PROVE PrepInv'
  <2>1. UNCHANGED <<guest, last, work>>
    BY <1>7 DEF HostStep, TrySend, Read, Closed, TimeOut, Drop, agent, history
  <2>2. ASSUME NEW c \in Caller  PROVE CommandInv(c)'
    BY <1>1, <1>7, CommandSends, CommandHost DEF HostStep
  <2> QED  BY <2>1, <2>2, StageKept DEF PrepInv
<1>8. CASE Agent
  BY <1>8, PrepTakeTorn, PrepTake, PrepPolicy, PrepNetwork, PrepScript, PrepOther DEF Agent
<1> QED  BY <1>4, <1>5, <1>6, <1>7, <1>8 DEF Next, Environment

LEMMA KindStep == ASSUME IInv, OwnInv, KindInv, [Next]_vars  PROVE KindInv'
<1> SUFFICES ASSUME NEW c \in Caller, job'[c].result.ok
             PROVE  job'[c].result.op = job'[c].op
  BY DEF KindInv
<1>1. c \in Proc /\ c # Starter /\ job \in [Proc -> Job] /\ job[c] \in Job
  BY StarterIsProc DEF IInv, JobInv
<1>2. CASE job'[c].result = job[c].result /\ job'[c].op = job[c].op
  BY <1>2 DEF KindInv
<1>3. CASE \/ StartMachine \/ DeadlinePasses \/ StartFails
           \/ Environment \/ Agent \/ UNCHANGED vars
  <2>1. job'[c] = job[c]
    BY <1>1, <1>3 DEF StartMachine, DeadlinePasses, StartFails, Environment, Boot, Dies, Cut,
       AgentRestarts, Agent, TakeTorn, Take, SudoPolicy, Network, SetupScript, ResetScript,
       Respond, vars
  <2> QED  BY <1>2, <2>1
<1>4. ASSUME NEW b \in Caller, Call(b) \/ StopMachine(b)  PROVE job'[c].result.op = job'[c].op
  <2>1. CASE b # c
    BY <1>1, <1>2, <1>4, <2>1 DEF Call, StopMachine
  <2>2. CASE b = c /\ Call(b)
    BY <1>1, <2>2 DEF Call, IdleJob, NoReply
  <2>3. CASE b = c /\ StopMachine(b)
    BY <1>1, <1>2, <2>3 DEF StopMachine, Job
  <2> QED  BY <1>4, <2>1, <2>2, <2>3
<1>5. ASSUME NEW p \in Proc, HostStep(p)  PROVE job'[c].result.op = job'[c].op
  <2>1. CASE p # c
    <3>1. job'[c] = job[c]
      BY <1>1, <1>5, <2>1 DEF HostStep, TrySend, Read, Closed, TimeOut, Drop
    <3> QED  BY <1>2, <3>1
  <2>2. CASE p = c
    <3>1. ASSUME job'[c] \in {Failed(c), Again(c), Reading(c), Skipped(c)}
          PROVE  job'[c].result.op = job'[c].op
      <4>1. /\ \A j \in {Failed(c), Again(c), Reading(c)} :
                 j.result = job[c].result /\ j.op = job[c].op
        BY <1>1 DEF Failed, Again, Reading, Job
      <4>2. Skipped(c).result = job[c].result /\ Skipped(c).op = job[c].op
        BY <1>1, <4>1 DEF Skipped, Job
      <4> QED  BY <1>2, <3>1, <4>1, <4>2
    <3>2. ASSUME NEW a, job'[c] = Answered(c, a)  PROVE job'[c].result.op = job'[c].op
      BY <1>1, <3>2 DEF Answered, Job, NoReply
    <3> QED
      BY <1>1, <1>5, <2>2, <3>1, <3>2 DEF HostStep, TrySend, Read, Closed, TimeOut, Drop
  <2> QED  BY <2>1, <2>2
<1> QED  BY <1>3, <1>4, <1>5 DEF Next

(* When a command is told that its lesson is prepared, and no preparation  *)
(* has begun since in that machine, the guest has what the lesson asks     *)
(* for: attempts that broke off, their late replies and other commands'    *)
(* preparations do not make the answer untrue.                             *)
THEOREM PreparationStands == Spec => []PreparedStands
<1>1. Init => OwnInv /\ PrepInv /\ KindInv
  <2> SUFFICES ASSUME Init  PROVE OwnInv /\ PrepInv /\ KindInv
    OBVIOUS
  <2>1. \A p \in Proc : job[p].at = "idle" /\ ~job[p].result.ok
    BY DEF Init, IdleJob, NoReply
  <2>2. OwnInv
    BY <2>1, FreshOK DEF Init, OwnInv, OwnReply, Awaited, UnderWay, At
  <2>3. ASSUME NEW c \in Caller  PROVE CommandInv(c)
    <3>1. last # c /\ c \in Proc /\ Len(wire) = 0
      BY NobodyAssumption DEF Init, Proc
    <3>2. Told(c) = {job[c].result}
      BY <2>1, <3>1 DEF Told, At
    <3> QED  BY <2>1, <3>1, <3>2
             DEF CommandInv, OriginInv, OrderInv, SettledInv, Tells, At
  <2>4. StageInv
    BY DEF Init, StageInv
  <2>5. KindInv
    BY <2>1, StarterIsProc DEF KindInv
  <2> QED  BY <2>2, <2>3, <2>4, <2>5 DEF PrepInv
<1>2. IInv /\ OwnInv /\ PrepInv /\ KindInv /\ [Next]_vars => OwnInv' /\ PrepInv' /\ KindInv'
  BY OwnStep, PrepStep, KindStep
<1>3. OwnInv /\ PrepInv /\ KindInv => PreparedStands
  <2> SUFFICES ASSUME OwnInv, PrepInv, KindInv, NEW c \in Caller,
                      job[c].result.ok, job[c].op = "prepare", last = c,
                      job[c].result.run = machine
               PROVE  Prepared(job[c].result.lesson, job[c].result.warned)
    BY DEF PreparedStands, Prepared
  <2>1. job[c].run = machine
    BY DEF PrepInv, CommandInv, OriginInv
  <2>2. job[c].result.id = job[c].id
    BY <2>1, StarterIsProc DEF OwnInv, OwnReply
  <2>3. job[c].result.op = "prepare"
    BY DEF KindInv
  <2> QED  BY <2>1, <2>2, <2>3 DEF PrepInv, CommandInv, SettledInv, Tells, Told, Settled
<1> QED  BY <1>1, <1>2, <1>3, Inductive, PTL DEF Spec

=============================================================================
