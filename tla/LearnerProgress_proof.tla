----------------------- MODULE LearnerProgress_proof -----------------------
(***************************************************************************)
(* Proofs about LearnerProgress, for any catalogue, any number of tasks,   *)
(* hints and commands in flight, and any mishaps.                          *)
(***************************************************************************)
EXTENDS LearnerProgress, WellFoundedInduction, TLAPS

(* What a command that is under way knows about its lesson and its task.   *)
OnTask == {"validate", "record", "failed", "rollup", "complete", "reveal",
           "countHint", "solution"}

CallOK ==
  \A c \in Call :
    /\ ~At(c, "idle") => call[c].lesson \in Lesson
    /\ call[c].pc \in OnTask => call[c].task \in Task
    /\ At(c, "complete") => call[c].mastery \in NeedsReview..Mastered

IInv == TypeOK /\ CallOK /\ StatusFollowsMastery

LEMMA TaskOK == Task \subseteq Nat /\ 1 \in Task /\ NTasks \in Task
BY SizeAssumption DEF Task

(* There is a first task that has not passed. *)
LEMMA FirstLeft ==
  ASSUME NEW t0 \in Task, ~player.task[t0].passed
  PROVE  \E t \in Task : /\ ~player.task[t].passed
                         /\ \A u \in Task : u < t => player.task[u].passed
<1> DEFINE Left == {t \in Task : ~player.task[t].passed}
           Less == OpToRel(<, Nat)
<1>1. Left \subseteq Nat /\ Left # {}
  BY TaskOK
<1>2. PICK t \in Left : \A u \in Left : <<u, t>> \notin Less
  <2> HIDE DEF Left, Less
  <2>1. IsWellFoundedOn(Less, Nat)
    BY NatLessThanWellFounded DEF Less
  <2> QED
    BY <1>1, <2>1, WFMin
<1>3. \A u \in Left : ~(u < t)
  BY <1>1, <1>2 DEF OpToRel
<1> QED
  BY <1>3

LEMMA CurrentOK == Current # 0 => Current \in Task
BY FirstLeft DEF Current

(* The worst result of the tasks of a lesson that passed. *)
LEMMA LessonMasteryOK ==
  ASSUME TypeOK, NEW l \in Lesson
  PROVE  LessonMastery(l) \in NeedsReview..Mastered
<1> DEFINE V == {Evaluate(attempts[l][t]) : t \in Task}
<1>1. V \subseteq {NeedsReview, Passed, Strong, Mastered}
  BY DEF Evaluate
<1>2. V # {}
  BY TaskOK
<1> DEFINE Worst(m) == m \in V /\ \A v \in V : v >= m
<1>3. \E m \in {NeedsReview, Passed, Strong, Mastered} : Worst(m)
  <2> HIDE DEF V
  <2>1. V \subseteq {2, 3, 4, 5} /\ V # {}
    BY <1>1, <1>2 DEF NeedsReview, Passed, Strong, Mastered
  <2>2. CASE 2 \in V
    BY <2>1, <2>2 DEF NeedsReview
  <2>3. CASE 2 \notin V /\ 3 \in V
    BY <2>1, <2>3 DEF Passed
  <2>4. CASE 2 \notin V /\ 3 \notin V /\ 4 \in V
    BY <2>1, <2>4 DEF Strong
  <2>5. CASE V = {5}
    BY <2>5 DEF Mastered
  <2> QED
    BY <2>1, <2>2, <2>3, <2>4, <2>5
<1>4. \E m \in Mastery : /\ \E t \in Task : Evaluate(attempts[l][t]) = m
                         /\ \A t \in Task : Evaluate(attempts[l][t]) >= m
  <2>1. PICK m \in {NeedsReview, Passed, Strong, Mastered} : Worst(m)
    BY <1>3
  <2>2. m \in Mastery
    BY DEF Mastery, NeedsReview, Passed, Strong, Mastered
  <2> QED
    BY <2>1, <2>2
<1>5. \E t \in Task : Evaluate(attempts[l][t]) = LessonMastery(l)
  BY <1>4 DEF LessonMastery
<1> QED
  BY <1>1, <1>5 DEF NeedsReview, Passed, Strong, Mastered

---------------------------------------------------------------------------
(* The rows.                                                               *)

LEMMA TouchedOK ==
  ASSUME NEW r \in Row
  PROVE  /\ Touched(r) \in Row
         /\ Touched(r).mastery = r.mastery
         /\ \/ Touched(r).status = r.status
            \/ r.status = "none" /\ Touched(r).status = "InProgress"
<1>1. CASE r.status = "none"
  <2>1. Touched(r) = [status |-> "InProgress", mastery |-> r.mastery]
    BY <1>1 DEF Touched, Row
  <2> QED
    BY <1>1, <2>1 DEF Row
<1>2. CASE r.status # "none"
  BY <1>2 DEF Touched
<1> QED
  BY <1>1, <1>2

LEMMA CompletedOK ==
  ASSUME NEW r \in Row, NEW m \in NeedsReview..Mastered
  PROVE  /\ Completed(r, m) \in Row
         /\ Completed(r, m).mastery >= r.mastery
         /\ Completed(r, m).mastery # NoMastery
         /\ Completed(r, m).status \in {"Passed", "NeedsReview"}
         /\ Completed(r, m).status = "Passed" <=> Completed(r, m).mastery > NeedsReview
<1> DEFINE best == IF r.mastery > m THEN r.mastery ELSE m
<1>1. best \in Mastery /\ best >= r.mastery /\ best # NoMastery
  BY DEF Row, Mastery, NeedsReview, Mastered, NoMastery
<1>2. Completed(r, m) =
        [status |-> IF best <= NeedsReview THEN "NeedsReview" ELSE "Passed",
         mastery |-> best]
  BY DEF Completed
<1> HIDE DEF best
<1> QED
  BY <1>1, <1>2 DEF Row, Mastery, NeedsReview

(* The only two ways a row changes. *)
LEMMA StoreOK ==
  ASSUME TypeOK, StatusFollowsMastery, NEW l \in Lesson,
         \/ Touch(l)
         \/ \E m \in NeedsReview..Mastered : store' = [store EXCEPT ![l] = Completed(@, m)]
         \/ UNCHANGED store
  PROVE  /\ store' \in [Lesson -> Row]
         /\ StatusFollowsMastery'
         /\ \A k \in Lesson : store'[k].mastery >= store[k].mastery
<1> DEFINE Kept(r) == /\ r.mastery # NoMastery <=> r.status \in {"Passed", "NeedsReview"}
                      /\ r.status = "Passed" <=> r.mastery > NeedsReview
<1>1. store \in [Lesson -> Row] /\ \A k \in Lesson : Kept(store[k])
  BY DEF TypeOK, StatusFollowsMastery, Stored
<1>2. \A k \in Lesson : store[k].mastery \in Int
  BY <1>1 DEF Row, Mastery
<1>3. SUFFICES /\ store' \in [Lesson -> Row]
               /\ \A k \in Lesson : Kept(store'[k]) /\ store'[k].mastery >= store[k].mastery
  BY DEF StatusFollowsMastery, Stored
<1>4. CASE Touch(l)
  <2>1. Kept(Touched(store[l]))
    BY <1>1, TouchedOK DEF NoMastery, NeedsReview
  <2> QED
    BY <1>1, <1>2, <1>4, <2>1, TouchedOK DEF Touch
<1>5. CASE \E m \in NeedsReview..Mastered : store' = [store EXCEPT ![l] = Completed(@, m)]
  <2>1. PICK m \in NeedsReview..Mastered : store' = [store EXCEPT ![l] = Completed(@, m)]
    BY <1>5
  <2>2. Kept(Completed(store[l], m))
    BY <1>1, CompletedOK
  <2> QED
    BY <1>1, <1>2, <2>1, <2>2, CompletedOK
<1>6. CASE UNCHANGED store
  BY <1>1, <1>2, <1>6
<1> QED
  BY <1>4, <1>5, <1>6

---------------------------------------------------------------------------
(* The commands in flight.                                                 *)

LEMMA GotoOK ==
  ASSUME TypeOK, CallOK, NEW c \in Call, ~At(c, "idle"),
         NEW l \in CallPc \ {"complete"},
         l \in OnTask => call[c].pc \in OnTask,
         Goto(c, l)
  PROVE  call' \in [Call -> CallState] /\ CallOK'
<1>1. call \in [Call -> CallState]
  BY DEF TypeOK
<1>2. call' = [call EXCEPT ![c] = [call[c] EXCEPT !.pc = l]]
  BY <1>1 DEF Goto
<1>3. [call[c] EXCEPT !.pc = l] \in CallState
  BY <1>1 DEF CallState
<1> QED
  BY <1>1, <1>2, <1>3 DEF CallOK, CallState, At

LEMMA ReplyOK ==
  ASSUME TypeOK, CallOK, NEW c \in Call, ~At(c, "idle"), NEW a \in Answer,
         Reply(c, a)
  PROVE  call' \in [Call -> CallState] /\ CallOK'
<1>1. call \in [Call -> CallState]
  BY DEF TypeOK
<1>2. call' = [call EXCEPT ![c] = [call[c] EXCEPT !.pc = "answer", !.answer = a]]
  BY <1>1 DEF Reply
<1>3. [call[c] EXCEPT !.pc = "answer", !.answer = a] \in CallState
  BY <1>1 DEF CallState, CallPc
<1> QED
  BY <1>1, <1>2, <1>3 DEF CallOK, CallState, At, OnTask

LEMMA IdleOK == Idle \in CallState /\ Idle.pc = "idle"
BY SizeAssumption DEF Idle, CallState, CallPc, Answer, Mastery, NoMastery

LEMMA IssueOK ==
  ASSUME TypeOK, CallOK, NEW c \in Call, Shown,
         NEW l \in {"validate", "reveal", "solution", "restart"},
         l # "restart" => Current # 0,
         Issue(c, l)
  PROVE  call' \in [Call -> CallState] /\ CallOK'
<1> DEFINE new == [Idle EXCEPT !.pc = l, !.lesson = player.lesson,
                               !.task = Current, !.player = player.id]
<1>1. call \in [Call -> CallState] /\ call' = [call EXCEPT ![c] = new]
  BY DEF TypeOK, Issue
<1>2. player.lesson \in Lesson /\ player.id \in 0..MaxOpens
  BY DEF TypeOK, Player, Shown
<1>3. Current \in 0..NTasks
  BY CurrentOK, SizeAssumption DEF Task
<1>4. new \in CallState
  BY <1>2, <1>3, IdleOK DEF CallState, CallPc
<1>5. /\ new.pc = l /\ new.lesson \in Lesson
      /\ l # "restart" => new.task \in Task
  BY <1>2, CurrentOK DEF Idle
<1> HIDE DEF new
<1> QED
  BY <1>1, <1>4, <1>5 DEF CallOK, At, OnTask

LEMMA MishapOK ==
  ASSUME TypeOK, NEW f, Mishap(f) \/ NoMishap
  PROVE  mishaps' \in 0..MaxMishaps
BY SizeAssumption DEF TypeOK, Mishap, NoMishap

(* An attempt gets better or its lesson starts over. *)
LEMMA AttemptsOK ==
  ASSUME TypeOK, NEW l \in Lesson, NEW t \in Task,
         \/ attempts' = [attempts EXCEPT ![l][t].passed = TRUE]
         \/ attempts' = [attempts EXCEPT ![l][t].solution = TRUE]
         \/ /\ attempts[l][t].hints < HintCount
            /\ attempts' = [attempts EXCEPT ![l][t].hints = @ + 1]
  PROVE  attempts' \in [Lesson -> [Task -> Attempt]]
<1>1. attempts[l][t] \in Attempt
  BY DEF TypeOK
<1>2. \E a \in Attempt : attempts' = [attempts EXCEPT ![l] = [attempts[l] EXCEPT ![t] = a]]
  <2>1. CASE attempts' = [attempts EXCEPT ![l][t].passed = TRUE]
    <3>1. [attempts[l][t] EXCEPT !.passed = TRUE] \in Attempt
      BY <1>1 DEF Attempt
    <3> QED
      BY <2>1, <3>1 DEF TypeOK
  <2>2. CASE attempts' = [attempts EXCEPT ![l][t].solution = TRUE]
    <3>1. [attempts[l][t] EXCEPT !.solution = TRUE] \in Attempt
      BY <1>1 DEF Attempt
    <3> QED
      BY <2>2, <3>1 DEF TypeOK
  <2>3. CASE /\ attempts[l][t].hints < HintCount
             /\ attempts' = [attempts EXCEPT ![l][t].hints = @ + 1]
    <3>1. [attempts[l][t] EXCEPT !.hints = @ + 1] \in Attempt
      BY <1>1, <2>3, SizeAssumption DEF Attempt
    <3> QED
      BY <2>3, <3>1 DEF TypeOK
  <2> QED
    BY <2>1, <2>2, <2>3
<1> QED
  BY <1>2 DEF TypeOK

LEMMA BlankOK == Blank \in [Task -> View] /\ Untried \in [Task -> Attempt]
BY SizeAssumption DEF Blank, View, Untried, Attempt

---------------------------------------------------------------------------
(* Every step.                                                             *)

MasteryGrows == \A l \in Lesson : store'[l].mastery >= store[l].mastery

LEMMA SameStore ==
  ASSUME TypeOK, StatusFollowsMastery, UNCHANGED store
  PROVE  store' \in [Lesson -> Row] /\ StatusFollowsMastery' /\ MasteryGrows
<1>1. \A k \in Lesson : store[k].mastery \in Int
  BY DEF TypeOK, Row, Mastery
<1> QED
  BY <1>1 DEF TypeOK, StatusFollowsMastery, Stored, MasteryGrows

LEMMA PlayerOK ==
  ASSUME TypeOK, NEW c \in Call
  PROVE  \A b \in BOOLEAN : [Marked(player, c) EXCEPT !.busy = b] \in Player
<1>1. player \in Player
  BY DEF TypeOK
<1>2. Marked(player, c) \in Player
  <2>1. [player EXCEPT !.task = Blank] \in Player
    BY <1>1, BlankOK DEF Player
  <2>2. Current # 0 => [player EXCEPT !.task[Current].passed = TRUE] \in Player
    <3> SUFFICES ASSUME Current \in Task
                 PROVE  [player EXCEPT !.task[Current].passed = TRUE] \in Player
      BY CurrentOK
    <3>1. [player.task[Current] EXCEPT !.passed = TRUE] \in View
      BY <1>1 DEF Player, View
    <3> QED
      BY <1>1, <3>1 DEF Player
  <2>3. Current # 0 => [player EXCEPT !.task[Current].hints = @ + 1] \in Player
    <3> SUFFICES ASSUME Current \in Task
                 PROVE  [player EXCEPT !.task[Current].hints = @ + 1] \in Player
      BY CurrentOK
    <3>1. [player.task[Current] EXCEPT !.hints = @ + 1] \in View
      BY <1>1 DEF Player, View
    <3> QED
      BY <1>1, <3>1 DEF Player
  <2> QED
    BY <1>1, <2>1, <2>2, <2>3 DEF Marked
<1> QED
  BY <1>2 DEF Player

(* What the learner does. *)
LEMMA LearnerStep ==
  ASSUME IInv,
         \/ \E c \in Call : Learner(c)
         \/ Close
         \/ \E m \in Modes : SetMode(m)
         \/ Crash
  PROVE  IInv' /\ MasteryGrows
<1> USE DEF IInv
<1>0. UNCHANGED store => store' \in [Lesson -> Row] /\ StatusFollowsMastery' /\ MasteryGrows
  BY SameStore
<1>1. ASSUME NEW c \in Call, Check(c) PROVE IInv' /\ MasteryGrows
  <2>1. call' \in [Call -> CallState] /\ CallOK'
    BY <1>1, IssueOK DEF Check
  <2>2. player' \in Player
    BY <1>1 DEF Check, TypeOK, Player
  <2> QED
    BY <1>0, <1>1, <2>1, <2>2 DEF Check, TypeOK
<1>2. ASSUME NEW c \in Call, Hint(c) PROVE IInv' /\ MasteryGrows
  <2>1. call' \in [Call -> CallState] /\ CallOK'
    BY <1>2, IssueOK DEF Hint
  <2> QED
    BY <1>0, <1>2, <2>1 DEF Hint, TypeOK
<1>3. ASSUME NEW c \in Call, ShowSolution(c) PROVE IInv' /\ MasteryGrows
  <2>1. call' \in [Call -> CallState] /\ CallOK'
    BY <1>3, IssueOK DEF ShowSolution
  <2> QED
    BY <1>0, <1>3, <2>1 DEF ShowSolution, TypeOK
<1>4. ASSUME NEW c \in Call, Restart(c) PROVE IInv' /\ MasteryGrows
  <2>1. call' \in [Call -> CallState] /\ CallOK'
    BY <1>4, IssueOK DEF Restart
  <2>2. player' \in Player
    BY <1>4 DEF Restart, TypeOK, Player
  <2>3. attempts' \in [Lesson -> [Task -> Attempt]]
    BY <1>4, BlankOK DEF Restart, TypeOK
  <2> QED
    BY <1>0, <1>4, <2>1, <2>2, <2>3 DEF Restart, TypeOK
<1>5. ASSUME NEW c \in Call, NEW l \in Lesson, Open(c, l) PROVE IInv' /\ MasteryGrows
  <2> DEFINE new == [Idle EXCEPT !.pc = "prepare", !.lesson = l, !.player = player.id + 1]
  <2>1. player.id + 1 \in 0..MaxOpens
    BY <1>5, SizeAssumption DEF Open, TypeOK, Player
  <2>2. player' \in Player
    BY <1>5, <2>1, BlankOK DEF Open, Player
  <2>3. new \in CallState /\ new.pc = "prepare" /\ new.lesson = l
    BY <2>1, IdleOK DEF CallState, CallPc
  <2>4. call' = [call EXCEPT ![c] = new]
    BY <1>5 DEF Open
  <2> HIDE DEF new
  <2>5. call' \in [Call -> CallState] /\ CallOK'
    BY <2>3, <2>4 DEF TypeOK, CallOK, At, OnTask
  <2> QED
    BY <1>0, <1>5, <2>2, <2>5 DEF Open, TypeOK
<1>6. NoPlayer(player.id) \in Player
  BY BlankOK DEF NoPlayer, TypeOK, Player
<1>7. CASE Close
  <2>1. call' \in [Call -> CallState] /\ CallOK'
    BY <1>7 DEF Close, TypeOK, CallOK, At
  <2> QED
    BY <1>0, <1>6, <1>7, <2>1 DEF Close, TypeOK
<1>8. ASSUME NEW m \in Modes, SetMode(m) PROVE IInv' /\ MasteryGrows
  <2>1. call' \in [Call -> CallState] /\ CallOK'
    BY <1>8 DEF SetMode, TypeOK, CallOK, At
  <2> QED
    BY <1>0, <1>8, <2>1 DEF SetMode, TypeOK
<1>9. CASE Crash
  <2>1. call' \in [Call -> CallState] /\ CallOK'
    BY <1>9, IdleOK DEF Crash, CallOK, At, OnTask
  <2>2. attempts' \in [Lesson -> [Task -> Attempt]]
    BY <1>9, BlankOK DEF Crash
  <2>3. mishaps' \in 0..MaxMishaps
    BY <1>9, MishapOK DEF Crash
  <2> QED
    BY <1>0, <1>6, <1>9, <2>1, <2>2, <2>3 DEF Crash, TypeOK
<1> QED
  BY <1>1, <1>2, <1>3, <1>4, <1>5, <1>7, <1>8, <1>9 DEF Learner

(* What a command does. *)
LEMMA CommandStep ==
  ASSUME IInv, NEW c \in Call, Command(c)
  PROVE  IInv' /\ MasteryGrows
<1> USE DEF IInv
<1>0. UNCHANGED store => store' \in [Lesson -> Row] /\ StatusFollowsMastery' /\ MasteryGrows
  BY SameStore
<1>1. ~At(c, "idle") => call[c].lesson \in Lesson
  BY DEF CallOK
<1>2. call[c].pc \in OnTask => call[c].lesson \in Lesson /\ call[c].task \in Task
  BY DEF CallOK, OnTask, At
<1>3. ~At(c, "idle") /\ Touch(call[c].lesson)
        => store' \in [Lesson -> Row] /\ StatusFollowsMastery' /\ MasteryGrows
  BY <1>1, StoreOK DEF MasteryGrows
<1>4. CASE Prepare(c)
  <2>1. ~At(c, "idle")
    BY <1>4 DEF Prepare, At
  <2>2. call' \in [Call -> CallState] /\ CallOK'
    <3>1. \E a \in Answer : Reply(c, a)
      BY <1>4 DEF Prepare, Answer
    <3> QED
      BY <2>1, <3>1, ReplyOK
  <2>3. store' \in [Lesson -> Row] /\ StatusFollowsMastery' /\ MasteryGrows
    BY <1>0, <1>3, <1>4, <2>1 DEF Prepare
  <2>4. mishaps' \in 0..MaxMishaps
    BY <1>4, MishapOK DEF Prepare
  <2> QED
    BY <1>4, <2>2, <2>3, <2>4 DEF Prepare, TypeOK
<1>5. CASE Validate(c)
  <2>1. At(c, "validate")
    BY <1>5 DEF Validate
  <2>2. call' \in [Call -> CallState] /\ CallOK'
    <3>1. Goto(c, "record") \/ Goto(c, "failed") \/ Reply(c, "notPassed")
      BY <1>5 DEF Validate
    <3> QED
      BY <2>1, <3>1, GotoOK, ReplyOK DEF At, OnTask, CallPc, Answer
  <2>3. mishaps' \in 0..MaxMishaps
    BY <1>5, MishapOK DEF Validate
  <2> QED
    BY <1>0, <1>5, <2>2, <2>3 DEF Validate, TypeOK
<1>6. CASE Record(c)
  <2>1. call' \in [Call -> CallState] /\ CallOK'
    BY <1>6, GotoOK DEF Record, At, OnTask, CallPc
  <2>2. attempts' \in [Lesson -> [Task -> Attempt]]
    BY <1>2, <1>6, AttemptsOK DEF Record, At, OnTask
  <2> QED
    BY <1>0, <1>6, <2>1, <2>2 DEF Record, TypeOK
<1>7. CASE RecordFailure(c)
  <2>1. ~At(c, "idle")
    BY <1>7 DEF RecordFailure, At
  <2>2. call' \in [Call -> CallState] /\ CallOK'
    BY <1>7, <2>1, ReplyOK DEF RecordFailure, Answer
  <2>3. store' \in [Lesson -> Row] /\ StatusFollowsMastery' /\ MasteryGrows
    BY <1>0, <1>3, <1>7, <2>1 DEF RecordFailure
  <2>4. mishaps' \in 0..MaxMishaps
    BY <1>7, MishapOK DEF RecordFailure
  <2> QED
    BY <1>7, <2>2, <2>3, <2>4 DEF RecordFailure, TypeOK
<1>8. CASE Rollup(c)
  <2>1. At(c, "rollup") /\ ~At(c, "idle")
    BY <1>8 DEF Rollup, At
  <2>2. call' \in [Call -> CallState] /\ CallOK'
    <3>1. CASE \E a \in Answer : Reply(c, a)
      BY <2>1, <3>1, ReplyOK
    <3>2. CASE call' = [call EXCEPT ![c].pc = "complete",
                                    ![c].mastery = LessonMastery(call[c].lesson)]
      <4> DEFINE m == LessonMastery(call[c].lesson)
                 new == [call[c] EXCEPT !.pc = "complete", !.mastery = m]
      <4>1. m \in NeedsReview..Mastered /\ m \in Mastery
        BY <1>1, <2>1, LessonMasteryOK DEF NeedsReview, Mastered, Mastery
      <4>2. call \in [Call -> CallState] /\ call' = [call EXCEPT ![c] = new]
        BY <3>2 DEF TypeOK
      <4> HIDE DEF m
      <4>3. new \in CallState /\ new.pc = "complete" /\ new.mastery = m
            /\ new.lesson = call[c].lesson /\ new.task = call[c].task
        BY <4>1, <4>2 DEF CallState, CallPc
      <4> HIDE DEF new
      <4> QED
        BY <1>2, <2>1, <4>1, <4>2, <4>3 DEF CallOK, At, OnTask
    <3> QED
      BY <1>8, <3>1, <3>2 DEF Rollup, Answer
  <2>3. mishaps' \in 0..MaxMishaps
    BY <1>8, MishapOK DEF Rollup
  <2> QED
    BY <1>0, <1>8, <2>2, <2>3 DEF Rollup, TypeOK
<1>9. CASE Complete(c)
  <2>1. At(c, "complete") /\ ~At(c, "idle")
    BY <1>9 DEF Complete, At
  <2>2. call' \in [Call -> CallState] /\ CallOK'
    BY <1>9, <2>1, ReplyOK DEF Complete, Answer
  <2>3. store' \in [Lesson -> Row] /\ StatusFollowsMastery' /\ MasteryGrows
    <3>1. call[c].mastery \in NeedsReview..Mastered
      BY <2>1 DEF CallOK
    <3> QED
      BY <1>0, <1>1, <1>9, <2>1, <3>1, StoreOK DEF Complete, MasteryGrows
  <2>4. mishaps' \in 0..MaxMishaps
    BY <1>9, MishapOK DEF Complete
  <2> QED
    BY <1>9, <2>2, <2>3, <2>4 DEF Complete, TypeOK
<1>10. CASE Reveal(c)
  <2>1. At(c, "reveal") /\ ~At(c, "idle")
    BY <1>10 DEF Reveal, At
  <2>2. call' \in [Call -> CallState] /\ CallOK'
    <3>1. Goto(c, "countHint") \/ Reply(c, "solutionAvailable") \/ Reply(c, "other")
      BY <1>10 DEF Reveal
    <3> QED
      BY <2>1, <3>1, GotoOK, ReplyOK DEF At, OnTask, CallPc, Answer
  <2>3. attempts' \in [Lesson -> [Task -> Attempt]]
    <3>1. call[c].lesson \in Lesson /\ call[c].task \in Task
      BY <1>2, <2>1 DEF At, OnTask
    <3> QED
      BY <1>10, <3>1, AttemptsOK DEF Reveal, TypeOK
  <2> QED
    BY <1>0, <1>10, <2>2, <2>3 DEF Reveal, TypeOK
<1>11. CASE CountHint(c)
  <2>1. ~At(c, "idle")
    BY <1>11 DEF CountHint, At
  <2>2. call' \in [Call -> CallState] /\ CallOK'
    BY <1>11, <2>1, ReplyOK DEF CountHint, Answer
  <2>3. store' \in [Lesson -> Row] /\ StatusFollowsMastery' /\ MasteryGrows
    BY <1>0, <1>3, <1>11, <2>1 DEF CountHint
  <2>4. mishaps' \in 0..MaxMishaps
    BY <1>11, MishapOK DEF CountHint
  <2> QED
    BY <1>11, <2>2, <2>3, <2>4 DEF CountHint, TypeOK
<1>12. CASE RevealSolution(c)
  <2>1. ~At(c, "idle")
    BY <1>12 DEF RevealSolution, At
  <2>2. call' \in [Call -> CallState] /\ CallOK'
    BY <1>12, <2>1, ReplyOK DEF RevealSolution, Answer
  <2>3. attempts' \in [Lesson -> [Task -> Attempt]]
    BY <1>2, <1>12, AttemptsOK DEF RevealSolution, At, OnTask, TypeOK
  <2> QED
    BY <1>0, <1>12, <2>2, <2>3 DEF RevealSolution, TypeOK
<1>13. ASSUME Ended(c) PROVE call' \in [Call -> CallState] /\ CallOK'
  BY <1>13, IdleOK DEF Ended, TypeOK, CallOK, At, OnTask
<1>14. CASE Receive(c)
  <2>1. player' = [Marked(player, c) EXCEPT !.busy = @ /\ call[c].answer \notin Settled]
    BY <1>14 DEF Receive
  <2>2. \E b \in BOOLEAN : player' = [Marked(player, c) EXCEPT !.busy = b]
    BY <2>1
  <2>3. player' \in Player
    BY <2>2, PlayerOK
  <2> QED
    BY <1>0, <1>13, <1>14, <2>3 DEF Receive, TypeOK
<1>15. CASE Discard(c)
  BY <1>0, <1>13, <1>15 DEF Discard, TypeOK
<1> QED
  BY <1>4, <1>5, <1>6, <1>7, <1>8, <1>9, <1>10, <1>11, <1>12, <1>14, <1>15
     DEF Command

LEMMA Step == IInv /\ [Next]_vars => IInv' /\ (MasteryGrows \/ UNCHANGED vars)
<1>1. CASE UNCHANGED vars
  BY <1>1 DEF vars, IInv, TypeOK, CallOK, At, StatusFollowsMastery, Stored
<1> QED
  BY <1>1, LearnerStep, CommandStep DEF Next

LEMMA InitOK == Init => IInv
<1> SUFFICES ASSUME Init PROVE IInv
  OBVIOUS
<1>1. CallOK
  BY IdleOK DEF Init, CallOK, At, OnTask, Idle
<1>2. NoPlayer(0) \in Player
  BY BlankOK, SizeAssumption DEF NoPlayer, Player
<1>3. [status |-> "none", mastery |-> NoMastery] \in Row
  BY DEF Row, Mastery, NoMastery
<1>4. TypeOK
  BY <1>2, <1>3, BlankOK, IdleOK, SizeAssumption DEF Init, TypeOK
<1>5. StatusFollowsMastery
  <2> SUFFICES ASSUME NEW l \in Lesson
               PROVE  /\ Stored(l) <=> store[l].status \in {"Passed", "NeedsReview"}
                      /\ store[l].status = "Passed" <=> store[l].mastery > NeedsReview
    BY DEF StatusFollowsMastery
  <2>1. store[l].status = "none"
    BY DEF Init
  <2>2. store[l].mastery = 0
    BY DEF Init, NoMastery
  <2>3. ~Stored(l) /\ ~(store[l].mastery > NeedsReview)
    BY <2>2 DEF Stored, NoMastery, NeedsReview
  <2> QED
    BY <2>1, <2>3
<1> QED
  BY <1>1, <1>4, <1>5 DEF IInv

(* A command in flight always knows a lesson of the catalogue and a task   *)
(* of it; no count leaves its range.                                       *)
THEOREM TypeCorrect == Spec => []TypeOK
<1>1. IInv => TypeOK
  BY DEF IInv
<1> QED
  BY <1>1, InitOK, Step, PTL DEF Spec

(* complete_lesson, start_lesson and the counting of attempts and hints    *)
(* keep the status of a row in step with its mastery, in any order.        *)
THEOREM StatusIsInStep == Spec => []StatusFollowsMastery
<1>1. IInv => StatusFollowsMastery
  BY DEF IInv
<1> QED
  BY <1>1, InitOK, Step, PTL DEF Spec

(* No late result, restart, crash or failed statement lowers a mastery.    *)
THEOREM MasteryNeverFalls == Spec => MasteryOnlyImproves
<1>1. IInv /\ [Next]_vars => [\A l \in Lesson : store'[l].mastery >= store[l].mastery]_vars
  BY Step DEF MasteryGrows
<1> QED
  BY <1>1, InitOK, Step, PTL DEF Spec, MasteryOnlyImproves
============================================================================
