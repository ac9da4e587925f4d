----------------------- MODULE LearnerCompletion_proof -----------------------
(***************************************************************************)
(* Proofs that a completion shown is stored and that none is lost, on top  *)
(* of the types of LearnerProgress_proof.                                  *)
(***************************************************************************)
EXTENDS LearnerProgress_proof

CheckPc == {"validate", "record", "failed", "rollup", "complete"}

Restarting(c) ==
  At(c, "restart") \/ (At(c, "answer") /\ call[c].answer \in {"restarted", "notRestarted"})

Checking(c) ==
  call[c].pc \in CheckPc \/ (At(c, "answer") /\ call[c].answer \in {"passed", "notPassed"})

(* The one command the player on screen waits for. *)
Awaited(c) == Mine(c) /\ (Restarting(c) \/ Checking(c))

Ticked(t) == player.task[t].passed
IsNext(t) == t \in Task /\ ~Ticked(t) /\ \A u \in Task : u < t => Ticked(u)

(* A player waits for one command at a time, of its own lesson, and a      *)
(* check is of its first task that is not ticked.                          *)
AwaitInv ==
  \A c \in Call :
    /\ call[c].player <= player.id
    /\ call[c].answer # "notRestarted"
    /\ Awaited(c) =>
         /\ player.busy /\ call[c].lesson = player.lesson
         /\ \A d \in Call : Awaited(d) => d = c
         /\ Checking(c) => IsNext(call[c].task)

(* What is ticked has passed, unless the lesson is being restarted. *)
TickInv ==
  Shown /\ (\A c \in Call : Awaited(c) => ~Restarting(c))
    => \A t \in Task : Ticked(t) => attempts[player.lesson][t].passed

(* The task of the check has been recorded as passed. *)
Scored(c) ==
  call[c].pc \in {"rollup", "complete"} \/ (At(c, "answer") /\ call[c].answer = "passed")

(* Such a check is answered when the lesson is stored or has another task  *)
(* left.                                                                   *)
ResultInv ==
  \A c \in Call : Awaited(c) =>
    /\ Scored(c) => attempts[player.lesson][call[c].task].passed
    /\ At(c, "answer") /\ call[c].answer = "passed"
         => \/ Stored(player.lesson)
            \/ \E u \in Task : u # call[c].task /\ ~Ticked(u)

SitInv == AwaitInv /\ TickInv /\ ResultInv /\ ShownCompleteIsStored


---------------------------------------------------------------------------
(* What a step leaves alone.                                               *)

(* Calls have the fields they should, and there is a task. *)
LEMMA CallFields ==
  ASSUME TypeOK
  PROVE  /\ \A c \in Call : call[c] \in CallState
         /\ player \in Player /\ player.id \in Nat
         /\ \A c \in Call : call[c].player \in Nat
<1>1. 0..MaxOpens \subseteq Nat
  BY SizeAssumption
<1> QED
  BY <1>1 DEF TypeOK, CallState, Player

Others(c) == \A d \in Call : d # c => call'[d] = call[d]

(* The command stays the same in everything but its place and its answer. *)
Moves(c) ==
  /\ Others(c)
  /\ call'[c].lesson = call[c].lesson /\ call'[c].task = call[c].task
  /\ call'[c].player = call[c].player

LEMMA GotoMoves ==
  ASSUME TypeOK, NEW c \in Call, NEW l, Goto(c, l)
  PROVE  Moves(c) /\ call'[c].pc = l /\ call'[c].answer = call[c].answer
BY DEF TypeOK, CallState, Goto, Moves, Others

LEMMA ReplyMoves ==
  ASSUME TypeOK, NEW c \in Call, NEW a, Reply(c, a)
  PROVE  Moves(c) /\ call'[c].pc = "answer" /\ call'[c].answer = a
BY DEF TypeOK, CallState, Reply, Moves, Others

LEMMA IssueMoves ==
  ASSUME TypeOK, NEW c \in Call, NEW l, Issue(c, l)
  PROVE  /\ Others(c) /\ call'[c].pc = l /\ call'[c].answer = "none"
         /\ call'[c].lesson = player.lesson /\ call'[c].player = player.id
         /\ call'[c].task = Current
BY DEF TypeOK, Issue, Idle, Others

LEMMA EndedMoves ==
  ASSUME TypeOK, NEW c \in Call, Ended(c)
  PROVE  Others(c) /\ call'[c].pc = "idle" /\ call'[c].answer = "none" /\ call'[c].player = 0
BY DEF TypeOK, Ended, Idle, Others

(* The player goes on with the lesson and the ticks it has. *)
SamePlayer ==
  /\ player'.id = player.id /\ player'.lesson = player.lesson /\ player'.busy = player.busy
  /\ \A t \in Task : Ticked(t)' = Ticked(t)

(* Nothing that has passed or that is stored is taken back. *)
KeepsPassed ==
  \A l \in Lesson, t \in Task : attempts[l][t].passed => attempts'[l][t].passed
KeepsStored == \A l \in Lesson : Stored(l) => Stored(l)'

LEMMA StoredStays ==
  ASSUME TypeOK, MasteryGrows, store' \in [Lesson -> Row]
  PROVE  KeepsStored
<1>1. \A l \in Lesson : store[l].mastery \in 0..5 /\ store'[l].mastery \in 0..5
  BY DEF TypeOK, Row, Mastery
<1> QED
  BY <1>1 DEF MasteryGrows, KeepsStored, Stored, NoMastery

LEMMA PassedStays ==
  ASSUME TypeOK, NEW l \in Lesson, NEW t \in Task,
         \/ attempts' = [attempts EXCEPT ![l][t].passed = TRUE]
         \/ attempts' = [attempts EXCEPT ![l][t].solution = TRUE]
         \/ attempts' = [attempts EXCEPT ![l][t].hints = @ + 1]
  PROVE  KeepsPassed
<1> SUFFICES ASSUME NEW k \in Lesson, NEW u \in Task, attempts[k][u].passed
             PROVE  attempts'[k][u].passed
  BY DEF KeepsPassed
<1>1. attempts[l][t] \in Attempt /\ attempts[k][u] \in Attempt
  BY DEF TypeOK
<1>2. CASE k # l \/ u # t
  BY <1>2 DEF TypeOK
<1>3. CASE k = l /\ u = t
  <2>1. \/ attempts'[l][t] = [attempts[l][t] EXCEPT !.passed = TRUE]
        \/ attempts'[l][t] = [attempts[l][t] EXCEPT !.solution = TRUE]
        \/ attempts'[l][t] = [attempts[l][t] EXCEPT !.hints = @ + 1]
    BY DEF TypeOK
  <2> QED
    BY <1>1, <1>3, <2>1 DEF Attempt
<1> QED
  BY <1>2, <1>3

(* A step of a command that the player on screen does not wait for. *)
LEMMA ElsewhereOK ==
  ASSUME TypeOK, SitInv, NEW c \in Call,
         Others(c), ~Awaited(c), ~Awaited(c)',
         call'[c].player = call[c].player \/ call'[c].player = player.id \/ call'[c].player = 0,
         call'[c].answer # "notRestarted",
         SamePlayer, KeepsPassed, KeepsStored
  PROVE  SitInv'
<1>1. \A d \in Call : Awaited(d)' => d # c /\ call'[d] = call[d] /\ Awaited(d)
  BY DEF Others, SamePlayer, Awaited, Mine, Shown, Restarting, Checking, At
<1>2. \A d \in Call : d # c => call'[d] = call[d]
  BY DEF Others
<1>3. \A d \in Call : Awaited(d) => d # c /\ Awaited(d)'
  BY <1>2 DEF SamePlayer, Awaited, Mine, Shown, Restarting, Checking, At
<1>4. AwaitInv'
  <2>1. \A d \in Call : call'[d].player <= player'.id /\ call'[d].answer # "notRestarted"
    BY <1>2, CallFields DEF SitInv, AwaitInv, SamePlayer
  <2>2. ASSUME NEW d \in Call, Awaited(d)'
        PROVE  /\ player'.busy /\ call'[d].lesson = player'.lesson
               /\ \A e \in Call : Awaited(e)' => e = d
               /\ Checking(d)' => IsNext(call[d].task)' /\ call'[d].task = call[d].task
    BY <1>1, <2>2 DEF SitInv, AwaitInv, SamePlayer, Checking, At, IsNext
  <2> QED
    BY <2>1, <2>2 DEF AwaitInv
<1>5. TickInv'
  <2> SUFFICES ASSUME Shown', \A d \in Call : Awaited(d)' => ~Restarting(d)',
                      NEW t \in Task, Ticked(t)'
               PROVE  attempts'[player'.lesson][t].passed
    BY DEF TickInv
  <2>1. Shown /\ Ticked(t) /\ player.lesson \in Lesson
    BY DEF SamePlayer, Shown, TypeOK, Player
  <2>2. \A d \in Call : Awaited(d) => ~Restarting(d)
    BY <1>1, <1>3 DEF Restarting, At
  <2> QED
    BY <2>1, <2>2 DEF SitInv, TickInv, KeepsPassed, SamePlayer
<1>6. ResultInv'
  <2> SUFFICES ASSUME NEW d \in Call, Awaited(d)'
               PROVE  /\ Scored(d)' => attempts'[player'.lesson][call'[d].task].passed
                      /\ At(d, "answer")' /\ call'[d].answer = "passed"
                           => \/ Stored(player.lesson)'
                              \/ \E u \in Task : u # call'[d].task /\ ~Ticked(u)'
    BY DEF ResultInv
  <2>1. call'[d] = call[d] /\ Awaited(d) /\ player.lesson \in Lesson
    BY <1>1 DEF Awaited, Mine, Shown, TypeOK, Player
  <2>2. Scored(d) => call[d].task \in Task
    BY <2>1 DEF SitInv, AwaitInv, Scored, Checking, CheckPc, At, IsNext
  <2>3. Scored(d)' <=> Scored(d)
    BY <2>1 DEF Scored, At
  <2> QED
    BY <2>1, <2>2, <2>3
    DEF SitInv, ResultInv, KeepsPassed, KeepsStored, SamePlayer, At, Stored
<1>7. ShownCompleteIsStored'
  BY DEF SitInv, ShownCompleteIsStored, PlayerShowsComplete, Shown, SamePlayer, Ticked,
         KeepsStored, Stored, TypeOK, Player
<1> QED
  BY <1>4, <1>5, <1>6, <1>7 DEF SitInv

(* A step of a check or restart that the player on screen waits for. *)
LEMMA OwnOK ==
  ASSUME TypeOK, SitInv, NEW c \in Call,
         Moves(c), Awaited(c),
         Restarting(c) => Restarting(c)',
         Checking(c) => Checking(c)' /\ ~Restarting(c) /\ ~Restarting(c)',
         call'[c].answer # "notRestarted",
         UNCHANGED player, KeepsPassed, KeepsStored,
         Scored(c)' => attempts'[player.lesson][call[c].task].passed,
         At(c, "answer")' /\ call'[c].answer = "passed"
           => \/ Stored(player.lesson)'
              \/ \E u \in Task : u # call[c].task /\ ~Ticked(u)
  PROVE  SitInv'
<1>1. Awaited(c)' /\ (Checking(c)' => Checking(c) \/ Restarting(c))
  BY DEF Awaited, Mine, Shown, Moves
<1>2. \A d \in Call : d # c => ~Awaited(d) /\ ~Awaited(d)'
  BY DEF SitInv, AwaitInv, Moves, Others, Awaited, Mine, Shown, Restarting, Checking, At
<1>3. player.lesson \in Lesson /\ Shown
  BY DEF Awaited, Mine, Shown, TypeOK, Player
<1>4. Restarting(c)' /\ Checking(c)' => FALSE
  BY DEF Restarting, Checking, CheckPc, At
<1>5. AwaitInv'
  <2>1. \A d \in Call : call'[d].player <= player'.id /\ call'[d].answer # "notRestarted"
    BY DEF SitInv, AwaitInv, Moves, Others
  <2>2. Checking(c)' => IsNext(call[c].task)'
    BY <1>1, <1>4 DEF SitInv, AwaitInv, IsNext, Ticked, Moves
  <2> QED
    BY <1>2, <2>1, <2>2 DEF SitInv, AwaitInv, Moves
<1>6. TickInv'
  <2>1. CASE Restarting(c)
    BY <1>1, <2>1 DEF TickInv
  <2>2. CASE ~Restarting(c)
    <3>1. \A t \in Task : Ticked(t) => attempts[player.lesson][t].passed
      BY <1>2, <1>3, <2>2 DEF SitInv, TickInv
    <3> QED
      BY <1>3, <3>1 DEF TickInv, Ticked, KeepsPassed
  <2> QED
    BY <2>1, <2>2
<1>7. ResultInv'
  BY <1>2 DEF ResultInv, Moves, Ticked
<1>8. ShownCompleteIsStored'
  BY <1>3 DEF SitInv, ShownCompleteIsStored, PlayerShowsComplete, Shown, KeepsStored
<1> QED
  BY <1>5, <1>6, <1>7, <1>8 DEF SitInv

---------------------------------------------------------------------------
(* The steps.                                                              *)

LEMMA SameIsSame == UNCHANGED player => SamePlayer
BY DEF SamePlayer, Ticked

LEMMA SameAttempts == UNCHANGED attempts => KeepsPassed
BY DEF KeepsPassed

(* A command that is no check and no restart. *)
LEMMA QuietOK ==
  ASSUME TypeOK, SitInv, NEW c \in Call, Moves(c), UNCHANGED player, KeepsPassed, KeepsStored,
         call[c].pc \in {"prepare", "reveal", "countHint", "solution"},
         \/ call'[c].pc = "countHint" /\ call'[c].answer = call[c].answer
         \/ call'[c].pc = "answer" /\ call'[c].answer \in {"hint", "solutionAvailable", "other"}
  PROVE  SitInv'
<1>1. ~Awaited(c) /\ ~Awaited(c)'
  BY DEF Awaited, Restarting, Checking, CheckPc, At
<1>2. call'[c].answer # "notRestarted"
  BY DEF SitInv, AwaitInv
<1> QED
  BY <1>1, <1>2, ElsewhereOK, SameIsSame DEF Moves

(* A check, of the player on screen or of one that is gone. *)
LEMMA CheckOK ==
  ASSUME TypeOK, SitInv, NEW c \in Call, Moves(c), UNCHANGED player, KeepsPassed, KeepsStored,
         call[c].pc \in CheckPc,
         \/ call'[c].pc \in CheckPc /\ call'[c].answer = call[c].answer
         \/ call'[c].pc = "answer" /\ call'[c].answer \in {"passed", "notPassed"},
         Awaited(c) =>
           /\ Scored(c)' => attempts'[player.lesson][call[c].task].passed
           /\ At(c, "answer")' /\ call'[c].answer = "passed"
                => \/ Stored(player.lesson)'
                   \/ \E u \in Task : u # call[c].task /\ ~Ticked(u)
  PROVE  SitInv'
<1>1. Checking(c) /\ Checking(c)' /\ ~Restarting(c) /\ ~Restarting(c)'
  BY DEF Restarting, Checking, CheckPc, At
<1>2. call'[c].answer # "notRestarted"
  BY DEF SitInv, AwaitInv
<1>3. CASE Awaited(c)
  BY <1>1, <1>2, <1>3, OwnOK
<1>4. CASE ~Awaited(c)
  <2>1. ~Awaited(c)'
    BY <1>1, <1>4 DEF Awaited, Mine, Shown, Moves
  <2> QED
    BY <1>2, <1>4, <2>1, ElsewhereOK, SameIsSame DEF Moves
<1> QED
  BY <1>3, <1>4

(* The lesson and the task of a check somebody waits for. *)
LEMMA AwaitedCheck ==
  ASSUME IInv, SitInv, NEW c \in Call, Awaited(c), call[c].pc \in CheckPc
  PROVE  /\ call[c].lesson = player.lesson /\ player.lesson \in Lesson
         /\ call[c].task \in Task
         /\ \A t \in Task : Ticked(t) => attempts[player.lesson][t].passed
<1>1. Checking(c) /\ ~Restarting(c)
  BY DEF Checking, Restarting, CheckPc, At
<1>2. \A d \in Call : Awaited(d) => ~Restarting(d)
  BY <1>1 DEF SitInv, AwaitInv
<1>3. Shown /\ player.lesson \in Lesson
  BY DEF Awaited, Mine, Shown, IInv, TypeOK, Player
<1> QED
  BY <1>1, <1>2, <1>3 DEF SitInv, AwaitInv, TickInv, IsNext

LEMMA PrepareSit ==
  ASSUME IInv, SitInv, "restart" \notin Faults, KeepsStored, NEW c \in Call, Prepare(c)
  PROVE  SitInv'
<1>1. UNCHANGED player /\ KeepsPassed
  BY SameAttempts DEF Prepare
<1>2. CASE At(c, "prepare")
  <2>1. Reply(c, "other")
    BY <1>2 DEF Prepare, At
  <2> QED
    BY <1>1, <1>2, <2>1, QuietOK, ReplyMoves DEF IInv, At
<1>3. CASE At(c, "restart")
  <2>1. Reply(c, "restarted")
    BY <1>3 DEF Prepare, Mishap
  <2>2. Moves(c) /\ call'[c].pc = "answer" /\ call'[c].answer = "restarted"
    BY <2>1, ReplyMoves DEF IInv
  <2>3. Restarting(c) /\ Restarting(c)' /\ ~Checking(c)
    BY <1>3, <2>2 DEF Restarting, Checking, CheckPc, At
  <2>4. ~Scored(c)'
    BY <2>2 DEF Scored, At
  <2>5. CASE Awaited(c)
    BY <1>1, <2>2, <2>3, <2>4, <2>5, OwnOK DEF IInv
  <2>6. CASE ~Awaited(c)
    <3>1. ~Awaited(c)'
      BY <1>1, <2>2, <2>3, <2>6 DEF Awaited, Mine, Shown, Moves
    <3> QED
      BY <1>1, <2>2, <2>6, <3>1, ElsewhereOK, SameIsSame DEF IInv, Moves
  <2> QED
    BY <2>5, <2>6
<1> QED
  BY <1>2, <1>3 DEF Prepare

LEMMA CheckSit ==
  ASSUME IInv, SitInv, KeepsStored, NEW c \in Call,
         Validate(c) \/ Record(c) \/ RecordFailure(c) \/ Rollup(c) \/ Complete(c)
  PROVE  SitInv'
<1>0. call[c].pc \in OnTask => call[c].lesson \in Lesson /\ call[c].task \in Task
  BY DEF IInv, CallOK, OnTask, At
<1>1. CASE Validate(c)
  <2>1. UNCHANGED player /\ KeepsPassed /\ call[c].pc \in CheckPc
    BY <1>1, SameAttempts DEF Validate, At, CheckPc
  <2>2. Goto(c, "record") \/ Goto(c, "failed") \/ Reply(c, "notPassed")
    BY <1>1 DEF Validate
  <2>3. /\ Moves(c)
        /\ \/ call'[c].pc \in {"record", "failed"} /\ call'[c].answer = call[c].answer
           \/ call'[c].pc = "answer" /\ call'[c].answer = "notPassed"
    BY <2>2, GotoMoves, ReplyMoves DEF IInv
  <2> QED
    BY <2>1, <2>3, CheckOK DEF IInv, CheckPc, Scored, At
<1>2. CASE Record(c)
  <2>1. UNCHANGED player /\ call[c].pc \in CheckPc /\ call[c].pc = "record"
    BY <1>2 DEF Record, At, CheckPc
  <2>2. call[c].lesson \in Lesson /\ call[c].task \in Task
    BY <1>0, <2>1 DEF OnTask
  <2>3. KeepsPassed
    BY <1>2, <2>2, PassedStays DEF Record, IInv
  <2>4. Moves(c) /\ call'[c].pc = "rollup" /\ call'[c].answer = call[c].answer
    BY <1>2, GotoMoves DEF Record, IInv
  <2>5. Awaited(c) => attempts'[player.lesson][call[c].task].passed
    <3>1. attempts[call[c].lesson][call[c].task] \in Attempt
      BY <2>2 DEF IInv, TypeOK
    <3>2. attempts'[call[c].lesson][call[c].task] =
            [attempts[call[c].lesson][call[c].task] EXCEPT !.passed = TRUE]
      BY <1>2, <2>2 DEF Record, IInv, TypeOK
    <3>3. attempts'[call[c].lesson][call[c].task].passed
      BY <3>1, <3>2 DEF Attempt
    <3> QED
      BY <2>1, <3>3, AwaitedCheck
  <2> QED
    BY <2>1, <2>3, <2>4, <2>5, CheckOK DEF IInv, CheckPc, Scored, At
<1>3. CASE RecordFailure(c)
  <2>1. UNCHANGED player /\ KeepsPassed /\ call[c].pc \in CheckPc
    BY <1>3, SameAttempts DEF RecordFailure, At, CheckPc
  <2>2. Moves(c) /\ call'[c].pc = "answer" /\ call'[c].answer = "notPassed"
    BY <1>3, ReplyMoves DEF RecordFailure, IInv
  <2> QED
    BY <2>1, <2>2, CheckOK DEF IInv, CheckPc, Scored, At
<1>4. CASE Rollup(c)
  <2>1. /\ UNCHANGED <<player, attempts>> /\ KeepsPassed
        /\ call[c].pc \in CheckPc /\ At(c, "rollup")
    BY <1>4, SameAttempts DEF Rollup, At, CheckPc
  <2>5. Awaited(c) => attempts'[player.lesson][call[c].task].passed
    BY <2>1 DEF SitInv, ResultInv, Scored, At
  <2>2. CASE call' = [call EXCEPT ![c].pc = "complete",
                                  ![c].mastery = LessonMastery(call[c].lesson)]
    <3>1. Moves(c) /\ call'[c].pc = "complete" /\ call'[c].answer = call[c].answer
      <4> HIDE DEF IInv
      <4>1. call \in [Call -> CallState]
        BY DEF IInv, TypeOK
      <4> DEFINE m == LessonMastery(call[c].lesson)
      <4> HIDE DEF m
      <4>2. call' = [call EXCEPT ![c].pc = "complete", ![c].mastery = m]
        BY <2>2 DEF m
      <4> QED
        BY <4>1, <4>2 DEF CallState, Moves, Others
    <3> QED
      BY <2>1, <2>5, <3>1, CheckOK DEF IInv, CheckPc, Scored, At
  <2>3. CASE ~AllPassed(call[c].lesson) /\ Reply(c, "passed")
    <3>1. Moves(c) /\ call'[c].pc = "answer" /\ call'[c].answer = "passed"
      BY <2>3, ReplyMoves DEF IInv
    <3>2. Awaited(c) => \E u \in Task : u # call[c].task /\ ~Ticked(u)
      <4> SUFFICES ASSUME Awaited(c)
                   PROVE  \E u \in Task : u # call[c].task /\ ~Ticked(u)
        OBVIOUS
      <4>1. PICK u \in Task : ~attempts[call[c].lesson][u].passed
        BY <2>3 DEF AllPassed
      <4>2. attempts[player.lesson][call[c].task].passed
        BY <2>1, <2>5
      <4> QED
        BY <2>1, <4>1, <4>2, AwaitedCheck
    <3> QED
      BY <2>1, <2>5, <3>1, <3>2, CheckOK DEF IInv, CheckPc, Scored, At
  <2>4. CASE Reply(c, "notPassed")
    <3>1. Moves(c) /\ call'[c].pc = "answer" /\ call'[c].answer = "notPassed"
      BY <2>4, ReplyMoves DEF IInv
    <3> QED
      BY <2>1, <3>1, CheckOK DEF IInv, CheckPc, Scored, At
  <2> QED
    BY <1>4, <2>2, <2>3, <2>4 DEF Rollup
<1>5. CASE Complete(c)
  <2>1. /\ UNCHANGED <<player, attempts>> /\ KeepsPassed
        /\ call[c].pc \in CheckPc /\ At(c, "complete")
    BY <1>5, SameAttempts DEF Complete, At, CheckPc
  <2>4. Awaited(c) => attempts'[player.lesson][call[c].task].passed
    BY <2>1 DEF SitInv, ResultInv, Scored, At
  <2>2. CASE /\ store' = [store EXCEPT ![call[c].lesson] = Completed(@, call[c].mastery)]
             /\ Reply(c, "passed")
    <3>1. Moves(c) /\ call'[c].pc = "answer" /\ call'[c].answer = "passed"
      BY <2>2, ReplyMoves DEF IInv
    <3>2. Awaited(c) => Stored(player.lesson)'
      <4> SUFFICES ASSUME Awaited(c) PROVE Stored(player.lesson)'
        OBVIOUS
      <4>1. call[c].lesson = player.lesson /\ player.lesson \in Lesson
        BY <2>1, AwaitedCheck
      <4>2. store[player.lesson] \in Row /\ call[c].mastery \in NeedsReview..Mastered
        BY <2>1, <4>1 DEF IInv, TypeOK, CallOK
      <4>3. store'[player.lesson] = Completed(store[player.lesson], call[c].mastery)
        BY <2>2, <4>1 DEF IInv, TypeOK
      <4> QED
        BY <2>1, <4>2, <4>3, CompletedOK DEF Stored
    <3> QED
      BY <2>1, <2>4, <3>1, <3>2, CheckOK DEF IInv, CheckPc, Scored, At
  <2>3. CASE Reply(c, "notPassed")
    <3>1. Moves(c) /\ call'[c].pc = "answer" /\ call'[c].answer = "notPassed"
      BY <2>3, ReplyMoves DEF IInv
    <3> QED
      BY <2>1, <3>1, CheckOK DEF IInv, CheckPc, Scored, At
  <2> QED
    BY <1>5, <2>2, <2>3 DEF Complete
<1> QED
  BY <1>1, <1>2, <1>3, <1>4, <1>5

LEMMA HintSit ==
  ASSUME IInv, SitInv, KeepsStored, NEW c \in Call, Reveal(c) \/ CountHint(c) \/ RevealSolution(c)
  PROVE  SitInv'
<1>0. call[c].pc \in OnTask => call[c].lesson \in Lesson /\ call[c].task \in Task
  BY DEF IInv, CallOK, OnTask, At
<1>1. CASE Reveal(c)
  <2>1. UNCHANGED player /\ call[c].pc = "reveal"
    BY <1>1 DEF Reveal, At
  <2>2. KeepsPassed
    <3>1. call[c].lesson \in Lesson /\ call[c].task \in Task
      BY <1>0, <2>1 DEF OnTask
    <3>2. \/ UNCHANGED attempts
          \/ attempts' = [attempts EXCEPT ![call[c].lesson][call[c].task].hints = @ + 1]
      BY <1>1 DEF Reveal
    <3> QED
      BY <3>1, <3>2, PassedStays, SameAttempts DEF IInv
  <2>3. Goto(c, "countHint") \/ Reply(c, "solutionAvailable") \/ Reply(c, "other")
    BY <1>1 DEF Reveal
  <2>4. /\ Moves(c)
        /\ \/ call'[c].pc = "countHint" /\ call'[c].answer = call[c].answer
           \/ call'[c].pc = "answer" /\ call'[c].answer \in {"solutionAvailable", "other"}
    BY <2>3, GotoMoves, ReplyMoves DEF IInv
  <2> QED
    BY <2>1, <2>2, <2>4, QuietOK DEF IInv
<1>2. CASE CountHint(c)
  <2>1. UNCHANGED player /\ KeepsPassed /\ call[c].pc = "countHint"
    BY <1>2, SameAttempts DEF CountHint, At
  <2>2. Reply(c, "hint") \/ Reply(c, "other")
    BY <1>2 DEF CountHint
  <2>3. Moves(c) /\ call'[c].pc = "answer" /\ call'[c].answer \in {"hint", "other"}
    BY <2>2, ReplyMoves DEF IInv
  <2> QED
    BY <2>1, <2>3, QuietOK DEF IInv
<1>3. CASE RevealSolution(c)
  <2>1. UNCHANGED player /\ call[c].pc = "solution" /\ Reply(c, "other")
    BY <1>3 DEF RevealSolution, At
  <2>2. KeepsPassed
    BY <1>0, <1>3, <2>1, PassedStays, SameAttempts DEF RevealSolution, IInv, OnTask
  <2>3. Moves(c) /\ call'[c].pc = "answer" /\ call'[c].answer = "other"
    BY <2>1, ReplyMoves DEF IInv
  <2> QED
    BY <2>1, <2>2, <2>3, QuietOK DEF IInv
<1> QED
  BY <1>1, <1>2, <1>3

(* An answer that was dropped, or that ends nothing. *)
LEMMA UnawaitedSit ==
  ASSUME IInv, SitInv, KeepsStored, NEW c \in Call, UNCHANGED attempts,
         Ended(c), ~Awaited(c), SamePlayer
  PROVE  SitInv'
<1>1. Others(c) /\ call'[c].pc = "idle" /\ call'[c].answer = "none" /\ call'[c].player = 0
  BY EndedMoves DEF IInv
<1>2. ~Awaited(c)'
  BY <1>1 DEF Awaited, Restarting, Checking, CheckPc, At
<1> QED
  BY <1>1, <1>2, ElsewhereOK, SameAttempts DEF IInv

(* The answer to the check or the restart that the player waits for. *)
LEMMA SettledSit ==
  ASSUME IInv, SitInv, KeepsStored, NEW c \in Call, Receive(c), call[c].answer \in Settled
  PROVE  SitInv'
<1>1. /\ At(c, "answer") /\ Mine(c) /\ Shown /\ Awaited(c) /\ player.lesson \in Lesson
      /\ UNCHANGED attempts
  BY DEF Receive, Ended, Awaited, Mine, Shown, Restarting, Checking, Settled, At, IInv, TypeOK, Player
<1>2. Others(c) /\ call'[c].pc = "idle" /\ call'[c].answer = "none" /\ call'[c].player = 0
  BY EndedMoves DEF Receive, IInv
<1>3. \A d \in Call : ~Awaited(d)'
  <2>1. player' = [Marked(player, c) EXCEPT !.busy = FALSE]
    BY DEF Receive
  <2>2. player'.id = player.id /\ player'.lesson = player.lesson
    <3>1. player \in Player
      BY DEF IInv, TypeOK
    <3>2. Marked(player, c).id = player.id /\ Marked(player, c).lesson = player.lesson
      BY <3>1 DEF Marked, Player
    <3> QED
      BY <2>1, <3>2
  <2>3. \A d \in Call : d # c => ~Awaited(d)
    BY <1>1 DEF SitInv, AwaitInv
  <2> QED
    BY <1>2, <2>2, <2>3 DEF Others, Awaited, Mine, Shown, Restarting, Checking, CheckPc, At
<1>4. /\ player'.id = player.id /\ player'.lesson = player.lesson
      /\ \A t \in Task : Ticked(t)' => (call[c].answer # "restarted" /\ Ticked(t))
                                      \/ (call[c].answer = "passed" /\ Current # 0 /\ t = Current)
  <2>1. player \in Player /\ player' = [Marked(player, c) EXCEPT !.busy = FALSE]
    BY DEF Receive, IInv, TypeOK
  <2>2. CASE call[c].answer = "restarted"
    <3>1. player' = [player EXCEPT !.task = Blank, !.busy = FALSE]
      BY <2>1, <2>2 DEF Marked, Player
    <3>2. player'.id = player.id /\ player'.lesson = player.lesson /\ player'.task = Blank
      BY <2>1, <3>1 DEF Player
    <3>3. \A t \in Task : ~Ticked(t)'
      BY <3>2 DEF Ticked, Blank
    <3> QED
      BY <3>2, <3>3
  <2>3. CASE call[c].answer = "passed" /\ Current # 0
    <3>1. Current \in Task
      BY <2>3, CurrentOK
    <3>2. player' = [player EXCEPT !.task = [player.task EXCEPT
                                   ![Current] = [player.task[Current] EXCEPT !.passed = TRUE]],
                                   !.busy = FALSE]
      BY <2>1, <2>3 DEF Marked, Player
    <3> DEFINE n == Current
    <3> HIDE DEF n
    <3>3. /\ player'.id = player.id /\ player'.lesson = player.lesson
          /\ \A t \in Task : t # n => player'.task[t] = player.task[t]
      BY <2>1, <3>1, <3>2 DEF Player, n
    <3> QED
      BY <2>3, <3>3 DEF Ticked, n
  <2>4. CASE call[c].answer \in {"notPassed", "notRestarted"} \/ (call[c].answer = "passed" /\ Current = 0)
    <3>1. player' = [player EXCEPT !.busy = FALSE]
      BY <2>1, <2>4 DEF Marked
    <3> QED
      BY <2>1, <2>4, <3>1 DEF Player, Ticked
  <2> QED
    BY <2>2, <2>3, <2>4 DEF Settled
<1>5. AwaitInv'
  BY <1>2, <1>3, <1>4, CallFields DEF SitInv, AwaitInv, Others, IInv
<1>6. ResultInv'
  BY <1>3 DEF ResultInv
<1>7. call[c].answer = "passed" => IsNext(call[c].task)
  BY <1>1 DEF SitInv, AwaitInv, Checking
<1>8. call[c].answer = "passed" /\ Current # 0 => Current = call[c].task
  <2> SUFFICES ASSUME call[c].answer = "passed", Current # 0 PROVE Current = call[c].task
    OBVIOUS
  <2>1. \E t \in Task : /\ ~player.task[t].passed
                        /\ \A u \in Task : u < t => player.task[u].passed
    BY <1>7 DEF IsNext, Ticked
  <2>2. IsNext(Current)
    BY <2>1, CurrentOK DEF Current, IsNext, Ticked
  <2> DEFINE n == Current
             k == call[c].task
  <2>3. IsNext(n) /\ IsNext(k)
    BY <1>7, <2>2
  <2> HIDE DEF n, k
  <2>4. n \in Nat /\ k \in Nat /\ ~(n < k) /\ ~(k < n)
    BY <2>3, TaskOK DEF IsNext
  <2>5. n = k
    BY <2>4
  <2> QED
    BY <2>5 DEF n, k
<1>9. TickInv'
  <2> SUFFICES ASSUME NEW t \in Task, Ticked(t)'
               PROVE  attempts[player.lesson][t].passed
    BY <1>1, <1>4 DEF TickInv
  <2>1. CASE call[c].answer # "restarted" /\ Ticked(t)
    <3>1. \A d \in Call : Awaited(d) => ~Restarting(d)
      <4>1. ~Restarting(c)
        BY <1>1, <2>1 DEF SitInv, AwaitInv, Restarting, At
      <4> QED
        BY <1>1, <4>1 DEF SitInv, AwaitInv
    <3> QED
      BY <1>1, <2>1, <3>1 DEF SitInv, TickInv
  <2>2. CASE call[c].answer = "passed" /\ t = call[c].task
    BY <1>1, <2>2 DEF SitInv, ResultInv, Scored
  <2> QED
    BY <1>4, <1>8, <2>1, <2>2
<1>10. ShownCompleteIsStored'
  <2> SUFFICES ASSUME \A t \in Task : Ticked(t)' PROVE Stored(player.lesson)'
    BY <1>4 DEF ShownCompleteIsStored, PlayerShowsComplete, Ticked
  <2>1. Stored(player.lesson) => Stored(player.lesson)'
    BY <1>1, <1>4 DEF KeepsStored, Stored
  <2>2. CASE \A t \in Task : Ticked(t)
    BY <1>1, <2>1, <2>2 DEF SitInv, ShownCompleteIsStored, PlayerShowsComplete, Ticked
  <2>3. CASE \E t \in Task : ~Ticked(t)
    <3>1. call[c].answer = "passed" /\ Current # 0
      BY <1>4, <2>3
    <3>2. \A t \in Task : t # call[c].task => Ticked(t)
      BY <1>4, <1>8, <3>1
    <3> QED
      BY <1>1, <2>1, <3>1, <3>2 DEF SitInv, ResultInv
  <2> QED
    BY <2>2, <2>3
<1> QED
  BY <1>5, <1>6, <1>9, <1>10 DEF SitInv

LEMMA CommandSit ==
  ASSUME IInv, SitInv, "restart" \notin Faults, NEW c \in Call, Command(c)
  PROVE  SitInv'
<1>1. KeepsStored
  <2>1. MasteryGrows /\ store' \in [Lesson -> Row]
    BY CommandStep DEF IInv, TypeOK
  <2> QED
    BY <2>1, StoredStays DEF IInv
<1>2. CASE Prepare(c)
  BY <1>1, <1>2, PrepareSit
<1>3. CASE Validate(c) \/ Record(c) \/ RecordFailure(c) \/ Rollup(c) \/ Complete(c)
  BY <1>1, <1>3, CheckSit
<1>4. CASE Reveal(c) \/ CountHint(c) \/ RevealSolution(c)
  BY <1>1, <1>4, HintSit
<1>5. CASE Receive(c) /\ call[c].answer \in Settled
  BY <1>1, <1>5, SettledSit
<1>6. CASE Receive(c) /\ call[c].answer \notin Settled
  <2>1. ~Awaited(c)
    BY <1>6 DEF Receive, Ended, Awaited, Restarting, Checking, CheckPc, Settled, At
  <2>2. SamePlayer
    <3>1. player \in Player /\ player.busy \in BOOLEAN
      BY DEF IInv, TypeOK, Player
    <3>2. player' = [Marked(player, c) EXCEPT !.busy = @ /\ call[c].answer \notin Settled]
      BY <1>6 DEF Receive
    <3>3. CASE call[c].answer = "hint" /\ Current # 0
      <4> DEFINE n == Current
                 seen == [player.task EXCEPT ![n] =
                            [player.task[n] EXCEPT !.hints = player.task[n].hints + 1]]
      <4>1. player.task \in [Task -> View]
        BY <3>1 DEF Player
      <4>2. Marked(player, c) = [player EXCEPT !.task = seen]
        BY <3>1, <3>3, <4>1, CurrentOK DEF Marked, Player
      <4> HIDE DEF n
      <4>3. \A t \in Task : seen[t].passed = player.task[t].passed
        BY <4>1 DEF View
      <4> HIDE DEF seen
      <4>4. /\ player'.id = player.id /\ player'.lesson = player.lesson
            /\ player'.task = seen
            /\ player'.busy = (player.busy /\ call[c].answer \notin Settled)
        BY <3>1, <3>2, <4>2 DEF Player
      <4> QED
        BY <1>6, <3>1, <4>3, <4>4 DEF SamePlayer, Ticked
    <3>4. CASE ~(call[c].answer = "hint" /\ Current # 0)
      <4>1. Marked(player, c) = player
        BY <1>6, <3>4 DEF Marked, Settled
      <4>2. /\ player'.id = player.id /\ player'.lesson = player.lesson
            /\ player'.task = player.task
            /\ player'.busy = (player.busy /\ call[c].answer \notin Settled)
        BY <3>1, <3>2, <4>1 DEF Player
      <4> QED
        BY <1>6, <3>1, <4>2 DEF SamePlayer, Ticked
    <3> QED
      BY <3>3, <3>4
  <2> QED
    BY <1>1, <1>6, <2>1, <2>2, UnawaitedSit DEF Receive
<1>7. CASE Discard(c)
  BY <1>1, <1>7, UnawaitedSit, SameIsSame DEF Discard, Awaited
<1> QED
  BY <1>2, <1>3, <1>4, <1>5, <1>6, <1>7 DEF Command

(* No player waits for anything, and none that is on screen has a tick. *)
LEMMA BlankSit ==
  ASSUME \A d \in Call : ~Awaited(d)' /\ call'[d].player <= player'.id
                         /\ call'[d].answer # "notRestarted",
         Shown' => \A t \in Task : ~Ticked(t)'
  PROVE  SitInv'
<1>1. 1 \in Task
  BY SizeAssumption DEF Task
<1>2. AwaitInv' /\ TickInv' /\ ResultInv'
  BY DEF AwaitInv, TickInv, ResultInv
<1>3. ShownCompleteIsStored'
  BY <1>1 DEF ShownCompleteIsStored, PlayerShowsComplete, Ticked
<1> QED
  BY <1>2, <1>3 DEF SitInv

(* A check or a restart, which the player will wait for. *)
LEMMA IssuedSit ==
  ASSUME IInv, SitInv, NEW c \in Call, Shown, ~player.busy,
         player' = [player EXCEPT !.busy = TRUE], UNCHANGED store,
         \/ Issue(c, "validate") /\ Current # 0 /\ UNCHANGED attempts
         \/ Issue(c, "restart")
  PROVE  SitInv'
<1>1. /\ player' \in Player /\ player'.id = player.id /\ player'.lesson = player.lesson
      /\ player'.busy /\ Shown' /\ player.lesson \in Lesson
      /\ \A t \in Task : Ticked(t)' = Ticked(t)
  BY DEF IInv, TypeOK, Player, Shown, Ticked
<1>2. /\ Others(c) /\ call'[c].answer = "none" /\ call'[c].player = player.id
      /\ call'[c].lesson = player.lesson
      /\ \/ call'[c].pc = "validate" /\ call'[c].task = Current
         \/ call'[c].pc = "restart"
  BY IssueMoves DEF IInv
<1>3. \A d \in Call : ~Awaited(d) /\ (d # c => ~Awaited(d)')
  BY <1>1, <1>2
  DEF SitInv, AwaitInv, Others, Awaited, Mine, Shown, Restarting, Checking, At
<1>4. AwaitInv'
  <2>1. \A d \in Call : call'[d].player <= player'.id /\ call'[d].answer # "notRestarted"
    BY <1>1, <1>2, CallFields DEF SitInv, AwaitInv, Others, IInv
  <2>2. Checking(c)' => IsNext(call[c].task)'
    <3> SUFFICES ASSUME Checking(c)' PROVE IsNext(call[c].task)'
      OBVIOUS
    <3>1. call'[c].task = Current /\ Current # 0
      BY <1>2, IssueMoves DEF Checking, CheckPc, At, IInv
    <3>2. IsNext(Current)
      BY <3>1, FirstLeft DEF Current, IsNext, Ticked
    <3> QED
      BY <1>1, <3>1, <3>2 DEF IsNext
  <2> QED
    BY <1>1, <1>2, <1>3, <2>1, <2>2 DEF AwaitInv
<1>5. TickInv'
  <2>1. CASE call'[c].pc = "restart"
    BY <1>1, <1>2, <2>1 DEF TickInv, Awaited, Mine, Restarting, At
  <2>2. CASE UNCHANGED attempts
    <3>1. \A t \in Task : Ticked(t) => attempts[player.lesson][t].passed
      BY <1>3 DEF SitInv, TickInv
    <3> QED
      BY <1>1, <2>2, <3>1 DEF TickInv
  <2> QED
    BY <1>2, <2>1, <2>2, IssueMoves DEF IInv
<1>6. ResultInv'
  BY <1>2, <1>3 DEF ResultInv, Scored, At
<1>7. ShownCompleteIsStored'
  BY <1>1 DEF SitInv, ShownCompleteIsStored, PlayerShowsComplete, Shown, Ticked, Stored
<1> QED
  BY <1>4, <1>5, <1>6, <1>7 DEF SitInv

LEMMA LearnerSit ==
  ASSUME IInv, SitInv,
         \/ \E c \in Call : Learner(c)
         \/ Close
         \/ \E m \in Modes : SetMode(m)
         \/ Crash
  PROVE  SitInv'
<1>1. ASSUME NEW c \in Call, Check(c) \/ Restart(c) PROVE SitInv'
  BY <1>1, IssuedSit DEF Check, Restart
<1>2. ASSUME NEW c \in Call, Hint(c) \/ ShowSolution(c) PROVE SitInv'
  <2>1. UNCHANGED <<player, attempts, store>> /\ At(c, "idle")
    BY <1>2 DEF Hint, ShowSolution, Issue
  <2>2. /\ Others(c) /\ call'[c].pc \in {"reveal", "solution"} /\ call'[c].answer = "none"
        /\ call'[c].player = player.id
    BY <1>2, IssueMoves DEF Hint, ShowSolution, IInv
  <2>3. ~Awaited(c) /\ ~Awaited(c)'
    BY <2>1, <2>2 DEF Awaited, Restarting, Checking, CheckPc, At
  <2>4. KeepsStored
    BY <2>1 DEF KeepsStored, Stored
  <2> QED
    BY <2>1, <2>2, <2>3, <2>4, ElsewhereOK, SameIsSame, SameAttempts DEF IInv
<1>3. ASSUME NEW c \in Call, NEW l \in Lesson, Open(c, l) PROVE SitInv'
  <2>1. player'.id = player.id + 1 /\ player'.task = Blank
    BY <1>3 DEF Open
  <2>2. Others(c) /\ call'[c].pc = "prepare" /\ call'[c].answer = "none"
        /\ call'[c].player = player.id + 1
    BY <1>3 DEF Open, Others, Idle, IInv, TypeOK
  <2>3. \A d \in Call : d # c => call'[d].player <= player.id /\ call'[d].player # player'.id
                                 /\ call'[d].answer # "notRestarted"
    BY <2>1, <2>2, CallFields DEF SitInv, AwaitInv, Others, IInv
  <2>4. \A d \in Call : ~Awaited(d)'
    BY <2>2, <2>3 DEF Awaited, Mine, Restarting, Checking, CheckPc, At
  <2>5. \A d \in Call : call'[d].player <= player'.id /\ call'[d].answer # "notRestarted"
    <3>1. player.id \in Nat /\ \A d \in Call : call[d].player \in Nat
      BY CallFields DEF IInv
    <3>2. player.id <= player'.id /\ call'[c].player <= player'.id
      BY <2>1, <2>2, <3>1
    <3>3. \A d \in Call : d # c => call'[d].player <= player'.id
      <4>1. \A d \in Call : d # c => call'[d] = call[d]
        BY <2>2 DEF Others
      <4> QED
        BY <2>1, <2>3, <3>1, <4>1
    <3> QED
      BY <2>2, <2>3, <3>2, <3>3
  <2>6. \A t \in Task : ~Ticked(t)'
    BY <2>1 DEF Ticked, Blank
  <2> QED
    BY <2>4, <2>5, <2>6, BlankSit
<1>4. CASE Close
  <2>1. player'.id = player.id /\ player'.lesson = NoLesson /\ call' = call
    BY <1>4 DEF Close, NoPlayer
  <2> QED
    BY <2>1, BlankSit DEF SitInv, AwaitInv, Awaited, Mine, Shown
<1>5. ASSUME NEW m \in Modes, SetMode(m) PROVE SitInv'
  <2>1. UNCHANGED <<player, call>> /\ ~Shown
    BY <1>5 DEF SetMode
  <2> QED
    BY <2>1, BlankSit DEF SitInv, AwaitInv, Awaited, Mine, Shown
<1>6. CASE Crash
  <2>1. player'.id = player.id /\ player'.lesson = NoLesson
    BY <1>6 DEF Crash, NoPlayer
  <2>2. \A d \in Call : call'[d].player = 0 /\ call'[d].answer = "none"
    BY <1>6 DEF Crash, Idle
  <2> QED
    BY <2>1, <2>2, BlankSit, CallFields DEF Awaited, Mine, Shown, IInv
<1> QED
  BY <1>1, <1>2, <1>3, <1>4, <1>5, <1>6 DEF Learner

LEMMA SitStep ==
  ASSUME "restart" \notin Faults, IInv, SitInv, [Next]_vars
  PROVE  SitInv'
<1>1. CASE UNCHANGED vars
  BY <1>1 DEF vars, SitInv, AwaitInv, TickInv, ResultInv, ShownCompleteIsStored,
     PlayerShowsComplete, Awaited, Mine, Shown, Restarting, Checking, Scored, At, IsNext,
     Ticked, Stored
<1> QED
  BY <1>1, LearnerSit, CommandSit DEF Next

LEMMA SitInit == Init => SitInv
<1> SUFFICES ASSUME Init PROVE SitInv
  OBVIOUS
<1>1. ~Shown /\ player.id = 0
  BY DEF Init, NoPlayer, Shown
<1>2. \A c \in Call : call[c].player = 0 /\ call[c].answer = "none"
  BY DEF Init, Idle
<1> QED
  BY <1>1, <1>2 DEF SitInv, AwaitInv, TickInv, ResultInv, ShownCompleteIsStored,
     PlayerShowsComplete, Awaited, Mine

(* Unless restart_lesson fails half-way, which is the divergence that      *)
(* PROJECT.json lists, a player that shows a lesson as complete shows what *)
(* the store holds.                                                        *)
THEOREM ShownIsStored ==
  ASSUME "restart" \notin Faults
  PROVE  Spec => []ShownCompleteIsStored
<1>1. Init => IInv /\ SitInv
  BY InitOK, SitInit
<1>2. IInv /\ SitInv /\ [Next]_vars => IInv' /\ SitInv'
  BY Step, SitStep
<1>3. SitInv => ShownCompleteIsStored
  BY DEF SitInv
<1> QED
  BY <1>1, <1>2, <1>3, PTL DEF Spec

---------------------------------------------------------------------------
(* No completion is lost: whoever saw the last task pass still has to      *)
(* store it.                                                               *)

Closing == {"rollup", "complete"}

PendingInv ==
  mishaps = 0 =>
    \A l \in Lesson : AllPassed(l) =>
      Stored(l) \/ \E c \in Call : call[c].lesson = l /\ call[c].pc \in Closing

(* A lesson completes by a step that leaves a command to store it, and     *)
(* such a command ends when that is done.                                  *)
LEMMA PendingStays ==
  ASSUME PendingInv, KeepsStored, mishaps' = 0 => mishaps = 0,
         \A l \in Lesson : AllPassed(l)' =>
           AllPassed(l) \/ \E c \in Call : call'[c].lesson = l /\ call'[c].pc \in Closing,
         \A c \in Call, l \in Lesson : call[c].lesson = l /\ call[c].pc \in Closing =>
           \/ call'[c].lesson = l /\ call'[c].pc \in Closing
           \/ mishaps' # 0 \/ Stored(l)' \/ ~AllPassed(l)'
  PROVE  PendingInv'
<1> SUFFICES ASSUME mishaps' = 0, NEW l \in Lesson, AllPassed(l)', ~Stored(l)'
             PROVE  \E c \in Call : call'[c].lesson = l /\ call'[c].pc \in Closing
  BY DEF PendingInv, Stored, Closing
<1>1. CASE ~AllPassed(l)
  BY <1>1
<1>2. CASE AllPassed(l)
  <2>1. ~Stored(l)
    BY DEF KeepsStored
  <2>2. PICK c \in Call : call[c].lesson = l /\ call[c].pc \in Closing
    BY <1>2, <2>1 DEF PendingInv
  <2>3. call'[c].lesson = l /\ call'[c].pc \in Closing
    BY <2>2
  <2> QED
    BY <2>3
<1> QED
  BY <1>1, <1>2

LEMMA SamePassed == UNCHANGED attempts => \A l \in Lesson : AllPassed(l)' => AllPassed(l)
BY DEF AllPassed

(* A step of one command that is not about to store a lesson. *)
LEMMA PendingElsewhere ==
  ASSUME PendingInv, KeepsStored, mishaps' = 0 => mishaps = 0, NEW c \in Call,
         Others(c), call[c].pc \notin Closing,
         \A l \in Lesson : AllPassed(l)' => AllPassed(l)
  PROVE  PendingInv'
<1>1. \A d \in Call : call[d].pc \in Closing => call'[d] = call[d]
  BY DEF Others
<1> QED
  BY <1>1, PendingStays

LEMMA MishapCounts ==
  ASSUME TypeOK
  PROVE  /\ \A f : Mishap(f) => mishaps' # 0
         /\ NoMishap \/ UNCHANGED mishaps => (mishaps' = 0 => mishaps = 0)
BY SizeAssumption DEF TypeOK, Mishap, NoMishap

LEMMA HintsPassNothing ==
  ASSUME TypeOK, NEW k \in Lesson, NEW t \in Task,
         \/ attempts' = [attempts EXCEPT ![k][t].solution = TRUE]
         \/ attempts' = [attempts EXCEPT ![k][t].hints = @ + 1]
  PROVE  \A l \in Lesson : AllPassed(l)' => AllPassed(l)
<1>1. attempts[k][t] \in Attempt
  BY DEF TypeOK
<1>2. \/ attempts'[k][t] = [attempts[k][t] EXCEPT !.solution = TRUE]
      \/ attempts'[k][t] = [attempts[k][t] EXCEPT !.hints = @ + 1]
  BY DEF TypeOK
<1>3. attempts'[k][t].passed = attempts[k][t].passed
  BY <1>1, <1>2 DEF Attempt
<1>4. \A l \in Lesson, u \in Task : l # k \/ u # t => attempts'[l][u] = attempts[l][u]
  BY DEF TypeOK
<1>5. \A l \in Lesson, u \in Task : attempts'[l][u].passed = attempts[l][u].passed
  BY <1>3, <1>4
<1> QED
  BY <1>5 DEF AllPassed

LEMMA CommandPending ==
  ASSUME IInv, PendingInv, NEW c \in Call, Command(c)
  PROVE  PendingInv'
<1>0. /\ ~At(c, "idle") => call[c].lesson \in Lesson
      /\ call[c].pc \in OnTask => call[c].lesson \in Lesson /\ call[c].task \in Task
  BY DEF IInv, CallOK, OnTask, At
<1>1. KeepsStored
  <2>1. MasteryGrows /\ store' \in [Lesson -> Row]
    BY CommandStep DEF IInv, TypeOK
  <2> QED
    BY <2>1, StoredStays DEF IInv
<1>8. mishaps' = 0 => mishaps = 0
  BY SizeAssumption DEF IInv, TypeOK, Command, Prepare, Validate, Record, RecordFailure, Rollup,
     Complete, Reveal, CountHint, RevealSolution, Receive, Discard, Mishap, NoMishap
<1>2. CASE Prepare(c) \/ Validate(c) \/ RecordFailure(c) \/ CountHint(c)
  <2>1. UNCHANGED attempts /\ call[c].pc \notin Closing
    BY <1>2 DEF Prepare, Validate, RecordFailure, CountHint, At, Closing
  <2>2. (\E a : Reply(c, a)) \/ (\E l : Goto(c, l))
    BY <1>2 DEF Prepare, Validate, RecordFailure, CountHint
  <2>3. Others(c)
    BY <2>2, GotoMoves, ReplyMoves DEF Moves, IInv
  <2> QED
    BY <1>1, <1>8, <2>1, <2>3, SamePassed, PendingElsewhere
<1>3. CASE Receive(c) \/ Discard(c)
  <2>1. UNCHANGED attempts /\ call[c].pc \notin Closing /\ Ended(c)
    BY <1>3 DEF Receive, Discard, Ended, At, Closing
  <2>2. Others(c)
    BY <2>1, EndedMoves DEF IInv
  <2> QED
    BY <1>1, <1>8, <2>1, <2>2, SamePassed, PendingElsewhere
<1>4. CASE Reveal(c) \/ RevealSolution(c)
  <2>1. call[c].pc \notin Closing /\ call[c].lesson \in Lesson /\ call[c].task \in Task
    BY <1>0, <1>4 DEF Reveal, RevealSolution, At, Closing, OnTask
  <2>2. (\E a : Reply(c, a)) \/ (\E l : Goto(c, l))
    BY <1>4 DEF Reveal, RevealSolution
  <2>3. Others(c)
    BY <2>2, GotoMoves, ReplyMoves DEF Moves, IInv
  <2>4. \/ UNCHANGED attempts
        \/ attempts' = [attempts EXCEPT ![call[c].lesson][call[c].task].solution = TRUE]
        \/ attempts' = [attempts EXCEPT ![call[c].lesson][call[c].task].hints = @ + 1]
    BY <1>4 DEF Reveal, RevealSolution
  <2>5. \A l \in Lesson : AllPassed(l)' => AllPassed(l)
    BY <2>1, <2>4, HintsPassNothing, SamePassed DEF IInv
  <2> QED
    BY <1>1, <1>8, <2>1, <2>3, <2>5, PendingElsewhere
<1>5. CASE Record(c)
  <2>1. Moves(c) /\ call'[c].pc = "rollup" /\ At(c, "record")
    BY <1>5, GotoMoves DEF Record, IInv
  <2>2. call[c].lesson \in Lesson /\ call[c].task \in Task
    BY <1>0, <2>1 DEF At, OnTask
  <2>3. \A l \in Lesson : l # call[c].lesson => attempts'[l] = attempts[l]
    BY <1>5, <2>2 DEF Record, IInv, TypeOK
  <2>4. \A l \in Lesson : AllPassed(l)' =>
          AllPassed(l) \/ (call'[c].lesson = l /\ call'[c].pc \in Closing)
    BY <2>1, <2>3 DEF AllPassed, Moves, Closing
  <2>5. \A d \in Call : call[d].pc \in Closing => call'[d] = call[d]
    BY <2>1 DEF Moves, Others, At, Closing
  <2> QED
    BY <1>1, <1>8, <2>4, <2>5, PendingStays
<1>6. CASE Rollup(c)
  <2>1. UNCHANGED attempts
    BY <1>6 DEF Rollup
  <2>2. \A d \in Call : d # c => call'[d] = call[d]
    <3>1. CASE \E a : Reply(c, a)
      BY <3>1, ReplyMoves DEF Moves, Others, IInv
    <3>2. CASE ~\E a : Reply(c, a)
      <4> DEFINE m == LessonMastery(call[c].lesson)
      <4>1. call' = [call EXCEPT ![c].pc = "complete", ![c].mastery = m]
        BY <1>6, <3>2 DEF Rollup
      <4> HIDE DEF m
      <4> QED
        BY <4>1 DEF IInv, TypeOK
    <3> QED
      BY <3>1, <3>2
  <2>3. ASSUME NEW l \in Lesson, call[c].lesson = l
        PROVE  \/ call'[c].lesson = l /\ call'[c].pc \in Closing
               \/ mishaps' # 0 \/ ~AllPassed(l)'
    <3>1. CASE call' = [call EXCEPT ![c].pc = "complete",
                                    ![c].mastery = LessonMastery(call[c].lesson)]
      <4> DEFINE m == LessonMastery(call[c].lesson)
      <4>1. call' = [call EXCEPT ![c].pc = "complete", ![c].mastery = m]
        BY <3>1
      <4> HIDE DEF m
      <4> QED
        BY <2>3, <4>1 DEF IInv, TypeOK, CallState, Closing
    <3>2. CASE ~AllPassed(call[c].lesson) /\ Reply(c, "passed")
      BY <2>1, <2>3, <3>2 DEF AllPassed
    <3>3. CASE Mishap("store")
      BY <3>3, MishapCounts DEF IInv
    <3> QED
      BY <1>6, <3>1, <3>2, <3>3 DEF Rollup
  <2> QED
    BY <1>1, <1>8, <2>1, <2>2, <2>3, SamePassed, PendingStays
<1>7. CASE Complete(c)
  <2>1. UNCHANGED attempts /\ At(c, "complete")
    BY <1>7 DEF Complete
  <2>2. \A d \in Call : d # c => call'[d] = call[d]
    BY <1>7, ReplyMoves DEF Complete, Moves, Others, IInv
  <2>3. ASSUME NEW l \in Lesson, call[c].lesson = l PROVE mishaps' # 0 \/ Stored(l)'
    <3>1. CASE /\ store' = [store EXCEPT ![call[c].lesson] = Completed(@, call[c].mastery)]
               /\ Reply(c, "passed")
      <4>1. store[l] \in Row /\ call[c].mastery \in NeedsReview..Mastered
        BY <2>1 DEF IInv, TypeOK, CallOK
      <4>2. store'[l] = Completed(store[l], call[c].mastery)
        BY <2>3, <3>1 DEF IInv, TypeOK
      <4> QED
        BY <4>1, <4>2, CompletedOK DEF Stored
    <3>2. CASE Mishap("store")
      BY <3>2, MishapCounts DEF IInv
    <3> QED
      BY <1>7, <3>1, <3>2 DEF Complete
  <2> QED
    BY <1>1, <1>8, <2>1, <2>2, <2>3, SamePassed, PendingStays
<1> QED
  BY <1>2, <1>3, <1>4, <1>5, <1>6, <1>7 DEF Command

LEMMA LearnerPending ==
  ASSUME IInv, PendingInv,
         \/ \E c \in Call : Learner(c)
         \/ Close
         \/ \E m \in Modes : SetMode(m)
         \/ Crash
  PROVE  PendingInv'
<1>0. KeepsStored
  <2>1. MasteryGrows /\ store' \in [Lesson -> Row]
    BY LearnerStep DEF IInv, TypeOK
  <2> QED
    BY <2>1, StoredStays DEF IInv
<1>1. ASSUME NEW c \in Call, Check(c) \/ Hint(c) \/ ShowSolution(c) PROVE PendingInv'
  <2>1. UNCHANGED <<attempts, mishaps>> /\ (\E l : Issue(c, l)) /\ At(c, "idle")
    BY <1>1 DEF Check, Hint, ShowSolution, Issue
  <2>2. Others(c) /\ call[c].pc \notin Closing
    BY <2>1, IssueMoves DEF At, Closing, IInv
  <2> QED
    BY <1>0, <2>1, <2>2, SamePassed, PendingElsewhere
<1>2. ASSUME NEW c \in Call, Restart(c) PROVE PendingInv'
  <2>1. UNCHANGED mishaps /\ Issue(c, "restart") /\ At(c, "idle") /\ player.lesson \in Lesson
    BY <1>2 DEF Restart, Issue, Shown, IInv, TypeOK, Player
  <2>2. Others(c) /\ call[c].pc \notin Closing
    BY <2>1, IssueMoves DEF At, Closing, IInv
  <2>3. \A l \in Lesson : AllPassed(l)' => AllPassed(l)
    <3>1. attempts' = [attempts EXCEPT ![player.lesson] = Untried]
      BY <1>2 DEF Restart
    <3>2. ~attempts'[player.lesson][1].passed
      BY <2>1, <3>1, TaskOK DEF Untried, IInv, TypeOK
    <3>3. \A l \in Lesson : l # player.lesson => attempts'[l] = attempts[l]
      BY <2>1, <3>1 DEF IInv, TypeOK
    <3> QED
      BY <2>1, <3>2, <3>3, TaskOK DEF AllPassed
  <2> QED
    BY <1>0, <2>1, <2>2, <2>3, PendingElsewhere
<1>3. ASSUME NEW c \in Call, NEW l \in Lesson, Open(c, l) PROVE PendingInv'
  <2>1. UNCHANGED <<attempts, mishaps>> /\ At(c, "idle") /\ Others(c)
    BY <1>3 DEF Open, Others, IInv, TypeOK
  <2> QED
    BY <1>0, <2>1, SamePassed, PendingElsewhere DEF At, Closing
<1>4. CASE Close \/ \E m \in Modes : SetMode(m)
  <2>1. UNCHANGED <<attempts, mishaps, call>>
    BY <1>4 DEF Close, SetMode
  <2> QED
    BY <1>0, <2>1, SamePassed, PendingStays
<1>5. CASE Crash
  BY <1>5, MishapCounts DEF Crash, PendingInv, IInv
<1> QED
  BY <1>1, <1>2, <1>3, <1>4, <1>5 DEF Learner

LEMMA PendingStep == IInv /\ PendingInv /\ [Next]_vars => PendingInv'
<1>1. CASE UNCHANGED vars
  BY <1>1 DEF vars, PendingInv, AllPassed, Stored
<1> QED
  BY <1>1, LearnerPending, CommandPending DEF Next

LEMMA PendingInit == Init => PendingInv
<1> SUFFICES ASSUME Init, NEW l \in Lesson PROVE ~AllPassed(l)
  BY DEF PendingInv
<1>1. attempts[l][1].passed = FALSE
  BY TaskOK DEF Init, Untried
<1> QED
  BY <1>1, TaskOK DEF AllPassed

(* With nothing that fails, no completion is lost between two commands     *)
(* that pass the last two tasks, to a player that is gone or to a restart. *)
THEOREM NoneIsLost == Spec => []CompletionIsNotLost
<1>1. Init => IInv /\ PendingInv
  BY InitOK, PendingInit
<1>2. IInv /\ PendingInv /\ [Next]_vars => IInv' /\ PendingInv'
  BY Step, PendingStep
<1>3. PendingInv => CompletionIsNotLost
  BY DEF PendingInv, CompletionIsNotLost, At, Closing
<1> QED
  BY <1>1, <1>2, <1>3, PTL DEF Spec
=============================================================================
