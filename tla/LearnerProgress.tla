-------------------------- MODULE LearnerProgress --------------------------
(***************************************************************************)
(* What a learner has done: the attempts the application keeps in memory   *)
(* for one sitting (state.rs, hints.rs), the rows of lesson_progress that  *)
(* outlive it (progress-store), and the lesson player that shows both      *)
(* (LessonPlayer.svelte, lessonFlow.ts).                                   *)
(*                                                                         *)
(* The player issues commands and stays usable while they run; a command   *)
(* takes the lock of the attempts and that of the store one after the      *)
(* other, and its answer comes back to the player that issued it, which    *)
(* may be gone by then.  The virtual machine is the environment: a guest   *)
(* that answers a validation either way, and a start that may fail.        *)
(***************************************************************************)
EXTENDS Integers

CONSTANTS
  Lesson,        \* lessons of the catalogue
  NTasks,        \* required tasks of each, done in order
  HintCount,     \* hints of each task
  Prerequisite,  \* pairs <<p, l>>: l builds on p
  HidesHints,    \* lessons of a type that offers neither hints nor solution
  Modes,         \* progression modes this instance uses
  Call,          \* commands that can be in flight together
  MaxOpens,      \* bound on the number of times a player is opened
  Faults,        \* what may go wrong in this instance
  MaxMishaps     \* bound on the number of times it does

AllModes == {"GuidedPath", "OpenLibrary", "Assessment"}

(* crash: the application ends and is launched again.  agent: no answer    *)
(* from the guest.  store: a statement fails.  environment: the virtual    *)
(* machine, the set-up of the lesson or its row does when a player opens;  *)
(* restart: one of them does in restart_lesson.                            *)
AllFaults == {"crash", "agent", "store", "environment", "restart"}

ASSUME SizeAssumption ==
  NTasks \in Nat \ {0} /\ HintCount \in Nat /\ MaxOpens \in Nat /\ MaxMishaps \in Nat
ASSUME LessonAssumption == Prerequisite \subseteq Lesson \X Lesson /\ HidesHints \subseteq Lesson
ASSUME ModeAssumption == Modes \subseteq AllModes /\ Modes # {}
ASSUME FaultsAssumption == Faults \subseteq AllFaults

Task == 1..NTasks

(* The ladder of MasteryStatus; 0 stands for a column that is NULL. *)
NoMastery == 0
NeedsReview == 2
Passed == 3
Strong == 4
Mastered == 5
Mastery == 0..5

VARIABLES
  attempts,  \* AppState.attempts: per lesson and task
  store,     \* lesson_progress: per lesson
  mode,      \* the progression mode, restored at launch
  call,      \* the commands in flight
  player,    \* the lesson player on screen
  mishaps    \* faults so far

vars == <<attempts, store, mode, call, player, mishaps>>

Attempt == [passed : BOOLEAN, hints : 0..HintCount, solution : BOOLEAN]
Untried == [t \in Task |-> [passed |-> FALSE, hints |-> 0, solution |-> FALSE]]

Row == [status : {"none", "InProgress", "Passed", "NeedsReview"}, mastery : Mastery]

NoLesson == "none"
View == [passed : BOOLEAN, hints : Nat]
Blank == [t \in Task |-> [passed |-> FALSE, hints |-> 0]]
Player == [id : 0..MaxOpens, lesson : Lesson \cup {NoLesson}, busy : BOOLEAN,
           task : [Task -> View]]

Idle == [pc |-> "idle", lesson |-> NoLesson, task |-> 0, player |-> 0,
         mastery |-> NoMastery, answer |-> "none"]
CallPc == {"idle", "prepare", "validate", "record", "failed", "rollup", "complete",
           "reveal", "countHint", "solution", "restart", "answer"}
Answer == {"none", "passed", "notPassed", "restarted", "notRestarted", "hint",
           "solutionAvailable", "other"}

CallState == [pc : CallPc, lesson : Lesson \cup {NoLesson}, task : 0..NTasks,
              player : 0..MaxOpens, mastery : Mastery, answer : Answer]

TypeOK ==
  /\ attempts \in [Lesson -> [Task -> Attempt]]
  /\ store \in [Lesson -> Row]
  /\ mode \in Modes
  /\ call \in [Call -> CallState]
  /\ player \in Player
  /\ mishaps \in 0..MaxMishaps

NoPlayer(id) ==
  [id |-> id, lesson |-> NoLesson, busy |-> FALSE, task |-> Blank]

Init ==
  /\ attempts = [l \in Lesson |-> Untried]
  /\ store = [l \in Lesson |-> [status |-> "none", mastery |-> NoMastery]]
  /\ mode \in Modes
  /\ call = [c \in Call |-> Idle]
  /\ player = NoPlayer(0)
  /\ mishaps = 0

Mishap(f) == f \in Faults /\ mishaps < MaxMishaps /\ mishaps' = mishaps + 1
NoMishap == UNCHANGED mishaps

At(c, l) == call[c].pc = l
Goto(c, l) == call' = [call EXCEPT ![c].pc = l]
Reply(c, a) == call' = [call EXCEPT ![c].pc = "answer", ![c].answer = a]

---------------------------------------------------------------------------
(* The store.                                                              *)

(* Mutant of Touched: opening a lesson again starts it over. *)
TouchedAlways(row) == [row EXCEPT !.status = "InProgress"]

(* start_lesson, record_lesson_attempt, add_hint_used: a new row is in     *)
(* progress, an old one keeps its status.                                  *)
Touched(row) == IF row.status = "none" THEN [row EXCEPT !.status = "InProgress"] ELSE row

(* Mutant of Completed: the last result counts. *)
CompletedLast(row, m) ==
  [status |-> IF m <= NeedsReview THEN "NeedsReview" ELSE "Passed", mastery |-> m]

(* complete_lesson *)
Completed(row, m) ==
  LET best == IF row.mastery > m THEN row.mastery ELSE m
  IN  [status |-> IF best <= NeedsReview THEN "NeedsReview" ELSE "Passed", mastery |-> best]

Touch(l) == store' = [store EXCEPT ![l] = Touched(@)]

Stored(l) == store[l].mastery # NoMastery

(* Progression::availability, for one lesson. *)
Unlocked(l) ==
  mode = "GuidedPath" => \A p \in Lesson : <<p, l>> \in Prerequisite => store[p].status = "Passed"

---------------------------------------------------------------------------
(* Attempts.                                                               *)

(* MasteryStatus::evaluate, for a task that passed. *)
Evaluate(a) ==
  IF a.solution THEN NeedsReview
  ELSE IF a.hints = 0 THEN Mastered ELSE IF a.hints = 1 THEN Strong ELSE Passed

AllPassed(l) == \A t \in Task : attempts[l][t].passed

(* lesson_mastery: the worst of its tasks. *)
LessonMastery(l) ==
  CHOOSE m \in Mastery : /\ \E t \in Task : Evaluate(attempts[l][t]) = m
                         /\ \A t \in Task : Evaluate(attempts[l][t]) >= m

(* The player is told when it opens, and the mode does not change while it *)
(* is open; a command finds out for itself.                                *)
HintsAllowed(l) == l \notin HidesHints /\ mode # "Assessment"

---------------------------------------------------------------------------
(* The player.                                                             *)

Shown == player.lesson # NoLesson

(* currentTask; 0 when every task is done. *)
Current ==
  IF \A t \in Task : player.task[t].passed THEN 0
  ELSE CHOOSE t \in Task : /\ ~player.task[t].passed
                           /\ \A u \in Task : u < t => player.task[u].passed

SolutionIsNext(t) == HintCount > 0 /\ player.task[t].hints >= HintCount

PlayerShowsComplete == Shown /\ \A t \in Task : player.task[t].passed

Issue(c, l) ==
  /\ At(c, "idle")
  /\ call' = [call EXCEPT ![c] = [Idle EXCEPT !.pc = l, !.lesson = player.lesson,
                                              !.task = Current, !.player = player.id]]

Open(c, l) ==
  /\ ~Shown /\ At(c, "idle") /\ player.id < MaxOpens
  /\ player' = [id |-> player.id + 1, lesson |-> l, busy |-> FALSE,
                task |-> Blank]
  /\ call' = [call EXCEPT ![c] = [Idle EXCEPT !.pc = "prepare", !.lesson = l,
                                              !.player = player.id + 1]]
  /\ UNCHANGED <<attempts, store, mode, mishaps>>

(* The learner opens another page; commands in flight go on. *)
Close ==
  /\ Shown
  /\ player' = NoPlayer(player.id)
  /\ UNCHANGED <<attempts, store, mode, call, mishaps>>

(* Settings. *)
SetMode(m) ==
  /\ ~Shown /\ m # mode
  /\ mode' = m
  /\ UNCHANGED <<attempts, store, call, player, mishaps>>

Check(c) ==
  /\ Shown /\ ~player.busy /\ Current # 0
  /\ Issue(c, "validate")
  /\ player' = [player EXCEPT !.busy = TRUE]
  /\ UNCHANGED <<attempts, store, mode, mishaps>>

Hint(c) ==
  /\ Shown /\ HintsAllowed(player.lesson)
  /\ Current # 0 /\ ~SolutionIsNext(Current)
  /\ Issue(c, "reveal")
  /\ UNCHANGED <<attempts, store, mode, player, mishaps>>

ShowSolution(c) ==
  /\ Shown /\ HintsAllowed(player.lesson)
  /\ Current # 0 /\ SolutionIsNext(Current)
  /\ Issue(c, "solution")
  /\ UNCHANGED <<attempts, store, mode, player, mishaps>>

(* restart_lesson clears the attempts before it stops the machine. *)
Restart(c) ==
  /\ Shown /\ ~player.busy
  /\ Issue(c, "restart")
  /\ attempts' = [attempts EXCEPT ![player.lesson] = Untried]
  /\ player' = [player EXCEPT !.busy = TRUE]
  /\ UNCHANGED <<store, mode, mishaps>>

---------------------------------------------------------------------------
(* The commands.                                                           *)

(* start_session if it has to, and prepare_lesson. *)
Prepare(c) ==
  /\ At(c, "prepare") \/ At(c, "restart")
  /\ \/ /\ Touch(call[c].lesson)
        /\ Reply(c, IF At(c, "restart") THEN "restarted" ELSE "other")
        /\ NoMishap
     \/ /\ Mishap(IF At(c, "restart") THEN "restart" ELSE "environment")
        /\ Reply(c, IF At(c, "restart") THEN "notRestarted" ELSE "other")
        /\ UNCHANGED store
  /\ UNCHANGED <<attempts, mode, player>>

(* check_task, from the guest's answer on. *)
Validate(c) ==
  /\ At(c, "validate")
  /\ \/ (Goto(c, "record") \/ Goto(c, "failed")) /\ NoMishap
     \/ Mishap("agent") /\ Reply(c, "notPassed")
  /\ UNCHANGED <<attempts, store, mode, player>>

Record(c) ==
  /\ At(c, "record")
  /\ attempts' = [attempts EXCEPT ![call[c].lesson][call[c].task].passed = TRUE]
  /\ Goto(c, "rollup")
  /\ UNCHANGED <<store, mode, player, mishaps>>

RecordFailure(c) ==
  /\ At(c, "failed")
  /\ \/ Touch(call[c].lesson) /\ NoMishap
     \/ Mishap("store") /\ UNCHANGED store
  /\ Reply(c, "notPassed")
  /\ UNCHANGED <<attempts, mode, player>>

(* Mutant of Rollup: the tasks are done in order, so only the last of them *)
(* can complete the lesson.                                                *)
RollupLast(c) ==
  /\ At(c, "rollup")
  /\ IF call[c].task = NTasks /\ AllPassed(call[c].lesson)
     THEN call' = [call EXCEPT ![c].pc = "complete",
                               ![c].mastery = LessonMastery(call[c].lesson)]
     ELSE Reply(c, "passed")
  /\ UNCHANGED <<attempts, store, mode, player, mishaps>>

Rollup(c) ==
  /\ At(c, "rollup")
  /\ \/ /\ AllPassed(call[c].lesson)
        /\ call' = [call EXCEPT ![c].pc = "complete",
                                ![c].mastery = LessonMastery(call[c].lesson)]
        /\ NoMishap
     \/ ~AllPassed(call[c].lesson) /\ Reply(c, "passed") /\ NoMishap
     \/ Mishap("store") /\ Reply(c, "notPassed")
  /\ UNCHANGED <<attempts, store, mode, player>>

(* Mutant of Complete: an error of the store is only logged. *)
CompleteOk(c) ==
  /\ At(c, "complete")
  /\ \/ /\ store' = [store EXCEPT ![call[c].lesson] = Completed(@, call[c].mastery)]
        /\ NoMishap
     \/ Mishap("store") /\ UNCHANGED store
  /\ Reply(c, "passed")
  /\ UNCHANGED <<attempts, mode, player>>

Complete(c) ==
  /\ At(c, "complete")
  /\ \/ /\ store' = [store EXCEPT ![call[c].lesson] = Completed(@, call[c].mastery)]
        /\ Reply(c, "passed")
        /\ NoMishap
     \/ Mishap("store") /\ Reply(c, "notPassed") /\ UNCHANGED store
  /\ UNCHANGED <<attempts, mode, player>>

(* Mutant of Reveal: there is always another hint. *)
RevealAnother(c) ==
  /\ At(c, "reveal")
  /\ attempts' = [attempts EXCEPT ![call[c].lesson][call[c].task].hints = @ + 1]
  /\ Goto(c, "countHint")
  /\ UNCHANGED <<store, mode, player, mishaps>>

(* reveal_hint *)
Reveal(c) ==
  LET a == attempts[call[c].lesson][call[c].task] IN
  /\ At(c, "reveal")
  /\ \/ /\ HintsAllowed(call[c].lesson) /\ a.hints < HintCount
        /\ attempts' = [attempts EXCEPT ![call[c].lesson][call[c].task].hints = @ + 1]
        /\ Goto(c, "countHint")
     \/ /\ HintsAllowed(call[c].lesson) /\ a.hints >= HintCount
        /\ Reply(c, "solutionAvailable")
        /\ UNCHANGED attempts
     \/ ~HintsAllowed(call[c].lesson) /\ Reply(c, "other") /\ UNCHANGED attempts
  /\ UNCHANGED <<store, mode, player, mishaps>>

CountHint(c) ==
  /\ At(c, "countHint")
  /\ \/ Touch(call[c].lesson) /\ Reply(c, "hint") /\ NoMishap
     \/ Mishap("store") /\ Reply(c, "other") /\ UNCHANGED store
  /\ UNCHANGED <<attempts, mode, player>>

(* reveal_solution *)
RevealSolution(c) ==
  /\ At(c, "solution")
  /\ IF HintsAllowed(call[c].lesson)
     THEN attempts' = [attempts EXCEPT ![call[c].lesson][call[c].task].solution = TRUE]
     ELSE UNCHANGED attempts
  /\ Reply(c, "other")
  /\ UNCHANGED <<store, mode, player, mishaps>>

(* The answer reaches the player that asked, if it is still there.  It is  *)
(* applied to the task that is current by then.                            *)
Ended(c) ==
  /\ At(c, "answer")
  /\ call' = [call EXCEPT ![c] = Idle]

(* The answers a busy player waits for. *)
Settled == {"passed", "notPassed", "restarted", "notRestarted"}

Mine(c) == Shown /\ call[c].player = player.id

Marked(p, c) ==
  CASE call[c].answer = "restarted" -> [p EXCEPT !.task = Blank]
    [] call[c].answer = "passed" /\ Current # 0 -> [p EXCEPT !.task[Current].passed = TRUE]
    [] call[c].answer = "hint" /\ Current # 0 -> [p EXCEPT !.task[Current].hints = @ + 1]
    [] OTHER -> p

Receive(c) ==
  /\ Ended(c) /\ Mine(c)
  /\ player' = [Marked(player, c) EXCEPT !.busy = @ /\ call[c].answer \notin Settled]
  /\ UNCHANGED <<attempts, store, mode, mishaps>>

Discard(c) ==
  /\ Ended(c) /\ ~Mine(c)
  /\ UNCHANGED <<attempts, store, mode, player, mishaps>>

(* Attempts are in memory only; the store and the mode are read back. *)
Crash ==
  /\ Mishap("crash")
  /\ attempts' = [l \in Lesson |-> Untried]
  /\ call' = [c \in Call |-> Idle]
  /\ player' = NoPlayer(player.id)
  /\ UNCHANGED <<store, mode>>

Command(c) ==
  \/ Prepare(c) \/ Validate(c) \/ Record(c) \/ RecordFailure(c) \/ Rollup(c)
  \/ Complete(c) \/ Reveal(c) \/ CountHint(c) \/ RevealSolution(c)
  \/ Receive(c) \/ Discard(c)

Learner(c) ==
  Check(c) \/ Hint(c) \/ ShowSolution(c) \/ Restart(c) \/ \E l \in Lesson : Open(c, l)

Next ==
  \/ \E c \in Call : Learner(c) \/ Command(c)
  \/ Close
  \/ \E m \in Modes : SetMode(m)
  \/ Crash

Spec == Init /\ [][Next]_vars

---------------------------------------------------------------------------
(* A player that shows a lesson as complete shows what the store holds:    *)
(* whatever was answered late, or failed, or belonged to a player that is  *)
(* gone, the learner is never told of a completion that was not recorded.  *)
ShownCompleteIsStored == PlayerShowsComplete => Stored(player.lesson)

(* No completion is lost between two commands that pass the last two       *)
(* tasks, or to one that answers after a restart: with no command left in  *)
(* flight, a lesson whose every task passed in this sitting is recorded.   *)
CompletionIsNotLost ==
  (mishaps = 0 /\ \A c \in Call : At(c, "idle"))
    => \A l \in Lesson : AllPassed(l) => Stored(l)

(* A lesson that was completed is never in progress again, and one that    *)
(* was not has no credit: opening, hints, failed checks and results that   *)
(* arrive out of order keep the status and the mastery of a row together.  *)
StatusFollowsMastery ==
  \A l \in Lesson :
    /\ Stored(l) <=> store[l].status \in {"Passed", "NeedsReview"}
    /\ store[l].status = "Passed" <=> store[l].mastery > NeedsReview

(* "Mastery only ever improves": whichever of two results is written last, *)
(* and across a restart of the lesson or of the application.               *)
MasteryOnlyImproves == [][\A l \in Lesson : store'[l].mastery >= store[l].mastery]_vars

---------------------------------------------------------------------------
(* A statement of the repository that the code does not keep.              *)

(* progress.rs: "`Passed` and `NeedsReview` both still let the learner     *)
(* move on".                                                               *)
CompletionUnlocks ==
  \A l \in Lesson : (\A p \in Lesson : <<p, l>> \in Prerequisite => Stored(p)) => Unlocked(l)
=============================================================================
