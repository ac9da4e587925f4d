--------------------------- MODULE TaskValidation ---------------------------
(***************************************************************************)
(* The agent's side of check_task (validators/mod.rs): the checks of a     *)
(* task are evaluated one after the other, each in one turn or, when it    *)
(* awaits several tools, in several, while the learner keeps working in    *)
(* the guest between any two turns and the tools may outlive their         *)
(* timeout, be missing or fail.                                            *)
(***************************************************************************)
EXTENDS FileChecks, ProcessChecks, SystemChecks, IdentityChecks, NetworkChecks, ScriptChecks

CONSTANTS
  Start,           \* pairs <<guest, task>> a validation may begin with
  Reach(_),        \* the guests a learner may turn one into
  Program,         \* the programs that checks run
  Fate,            \* the fates of the programs, one for each turn
  Registry,        \* what validators.json says of each kind
  CommonParams,    \* and of the parameters any kind takes
  SubjectUser, LessonNamespace,
  Home(_),         \* the home directory of a user
  MaxChanges       \* bound on what the learner does during one request

ASSUME FateAssumption ==
  Fate \subseteq {fate \in [Program -> Fates] : \A p \in Shells : fate[p] # "complains"}
ASSUME BoundAssumption == MaxChanges \in Nat

(* The counts an author gives are integers and the checks nested in one    *)
(* are a list: that is in the JSON types, which registry.rs checks and     *)
(* EntryAccepts leaves out.                                                *)
IsList(l) == Len(l) \in Nat /\ DOMAIN l = 1..Len(l)
Counted(v) == \A p \in {"weight", "minCount", "runs"} : Given(v, p) => v[p] \in Int

ASSUME StartAssumption ==
  \A s \in Start :
    /\ IsList(s[2])
    /\ \A i \in DOMAIN s[2] :
         /\ Counted(s[2][i])
         /\ Given(s[2][i], "then") =>
              /\ IsList(s[2][i]["then"])
              /\ \A k \in DOMAIN s[2][i]["then"] : Counted(s[2][i]["then"][k])

(* Every program that a check runs has a fate.                             *)
ASSUME ProgramAssumption ==
  {"sha256sum", "systemctl", "systemd-analyze", "journalctl", "dpkg-query", "dpkg",
   "sudo", "getfacl", "ip", "dig", "nc", "curl", "nft", "ssh-keygen", "ssh", "runuser",
   "bash", "shellcheck"} \subseteq Program

(* validators.json: these kinds must say what they are about, and the      *)
(* category of a failure is one of those listed.                           *)
ASSUME RegistryAssumption ==
  /\ \A kind \in DOMAIN Registry :
       LET required == Registry[kind].required
       IN  /\ kind \in {"file_exists", "file_missing", "directory_exists"}
                => "path" \in required
           /\ kind \in {"process_running", "process_not_running"} => "pattern" \in required
           /\ kind \in {"service_active", "service_inactive", "service_enabled",
                         "service_disabled", "service_failed"} => "unit" \in required
           /\ kind \in {"user_exists", "user_missing"} => "user" \in required
           /\ kind = "side_effect_exists" => "then" \in required
           /\ "failureCategory" \notin DOMAIN Registry[kind].params
  /\ "failureCategory" \in DOMAIN CommonParams =>
       /\ CommonParams["failureCategory"].type = "enum"
       /\ CommonParams["failureCategory"].values \subseteq FailureCategory

VARIABLES
  guest,      \* the machine
  task,       \* the validators of the request
  outcomes,   \* what the checks made so far reported
  phase,      \* "idle", "checking" or "answered"
  memory,     \* what the check being made keeps from its turns so far
  agreed,     \* whether every turn of it so far went as it would have gone
              \* had all the tools answered
  witnessed,  \* the checks whose every turn did, and that passed so
  changes,    \* what the learner did during the request
  moved       \* whether the guest changed during it, by him or by a check

vars == <<guest, task, outcomes, phase, memory, agreed, witnessed, changes, moved>>

AllRun == [p \in Program |-> "runs"]

Others(g, v, fate) ==
  CASE v.kind \in FileKinds -> FileCheck(g, v, fate, SubjectUser)
    [] v.kind \in ProcessKinds -> ProcessCheck(g, v, SubjectUser)
    [] v.kind \in SystemKinds -> SystemCheck(g, v, fate)
    [] v.kind \in IdentityKinds -> IdentityCheck(g, v, fate)
    [] v.kind \in NetworkKinds -> NetworkCheck(g, v, fate, LessonNamespace)
    [] OTHER -> Error

(* dispatch: a kind that no module claims is an error. *)
Dispatch(g, v, m, fate) ==
  IF v.kind \in ScriptKinds THEN ScriptCheck(g, v, m, fate, SubjectUser)
  ELSE IF v.kind = "package_version" THEN package_version(g, v, m, fate)
  ELSE IF v.kind = "ssh_key_valid" THEN ssh_key_valid(g, v, m, fate)
  ELSE After(Others(g, v, fate), g)

(* evaluate, around whatever dispatches: the registry before, the author's *)
(* overrides after.                                                        *)
Guarded(g, v, turn) ==
  IF ~RegistryAccepts(Registry, CommonParams, v) THEN After(Error, g)
  ELSE [turn EXCEPT !.outcome = ApplyOverrides(v, @)]

EvaluateFlat(g, v, m, fate) == Guarded(g, v, Dispatch(g, v, m, fate))

(* side_effect_exists: the command, then the nested checks on what it did, *)
(* each by evaluate and in turns of its own; one level of nesting.  Kept   *)
(* is the memory of nested check m.turn, and a nested check that errors is *)
(* one that failed.                                                        *)
SideEffect(g, v, fate) ==
  LET run == Execute(g, fate, v.command, SubjectUser, Home(SubjectUser))
  IN  IF ~IsDir(g, Home(SubjectUser)) \/ ~run.output.spawned THEN After(Error, g)
      ELSE IF run.output.timedOut THEN After(Fail("script_logic_failure"), run.guest)
      ELSE IF Len(v["then"]) = 0 THEN After(Pass, run.guest)
      ELSE Resume(Memory(1, Fresh, TRUE), run.guest)

NestedTurn(g, v, m, fate) ==
  LET nested == EvaluateFlat(g, v["then"][m.turn], m.kept, fate)
      right == m.right /\ Passed(nested.outcome)
  IN  IF ~nested.ends THEN Resume(Memory(m.turn, nested.memory, m.right), nested.guest)
      ELSE IF m.turn < Len(v["then"]) THEN Resume(Memory(m.turn + 1, Fresh, right), nested.guest)
      ELSE After(PassIf(right, "script_logic_failure"), nested.guest)

side_effect_exists(g, v, m, fate) ==
  IF m.turn = 0 THEN SideEffect(g, v, fate) ELSE NestedTurn(g, v, m, fate)

(* Mutant of Evaluate: the registry is not consulted. *)
EvaluateUnchecked(g, v, m, fate) ==
  IF v.kind = "side_effect_exists" THEN side_effect_exists(g, v, m, fate)
  ELSE Dispatch(g, v, m, fate)

Evaluate(g, v, m, fate) ==
  IF v.kind = "side_effect_exists" THEN Guarded(g, v, side_effect_exists(g, v, m, fate))
  ELSE EvaluateFlat(g, v, m, fate)

Init ==
  /\ \E s \in Start : guest = s[1] /\ task = s[2]
  /\ outcomes = <<>> /\ phase = "idle" /\ memory = Fresh
  /\ agreed = TRUE /\ witnessed = {} /\ changes = 0 /\ moved = FALSE

(* handlers.rs: a validate request is decoded. *)
Validate ==
  /\ phase \in {"idle", "answered"}
  /\ phase' = "checking"
  /\ outcomes' = <<>> /\ witnessed' = {} /\ changes' = 0 /\ moved' = FALSE
  /\ UNCHANGED <<guest, task, memory, agreed>>

(* One turn of the check that the loop of validate_task has come to, from  *)
(* one await to the next.                                                  *)
Turn ==
  /\ phase = "checking" /\ Len(outcomes) < Len(task)
  /\ LET next == Len(outcomes) + 1
         ideal == Evaluate(guest, task[next], memory, AllRun)
     IN  \E turn \in {Evaluate(guest, task[next], memory, fate) : fate \in Fate} :
           /\ guest' = turn.guest
           /\ moved' = (moved \/ turn.guest # guest)
           /\ memory' = turn.memory
           /\ IF turn.ends
              THEN /\ outcomes' = Append(outcomes, turn.outcome)
                   /\ agreed' = TRUE
                   /\ witnessed' = IF agreed /\ ideal.ends /\ Passed(ideal.outcome)
                                   THEN witnessed \cup {next} ELSE witnessed
              ELSE /\ agreed' = (agreed /\ ~ideal.ends /\ ideal.memory = turn.memory)
                   /\ UNCHANGED <<outcomes, witnessed>>
  /\ UNCHANGED <<task, phase, changes>>

(* The learner, or whatever else runs in the guest. *)
Learner ==
  /\ phase = "checking" => changes < MaxChanges
  /\ changes' = IF phase = "checking" THEN changes + 1 ELSE changes
  /\ guest' \in Reach(guest)
  /\ moved' = (moved \/ phase = "checking")
  /\ UNCHANGED <<task, outcomes, phase, memory, agreed, witnessed>>

(* TaskValidation::from_outcomes goes back to the host. *)
Answer ==
  /\ phase = "checking" /\ Len(outcomes) = Len(task)
  /\ phase' = "answered"
  /\ UNCHANGED <<guest, task, outcomes, memory, agreed, witnessed, changes, moved>>

Next == Validate \/ Turn \/ Learner \/ Answer

Spec == Init /\ [][Next]_vars

---------------------------------------------------------------------------
TypeOK ==
  /\ phase \in {"idle", "checking", "answered"}
  /\ outcomes \in Seq([verdict : Verdicts, weight : 1..100,
                       category : FailureCategory \cup {NoCategory}])
  /\ Len(outcomes) <= Len(task)
  /\ memory.turn \in Nat /\ memory.right \in BOOLEAN /\ agreed \in BOOLEAN
  /\ witnessed \subseteq DOMAIN task
  /\ changes \in 0..MaxChanges
  /\ moved \in BOOLEAN

(* The checks that take a tool which did not answer for the answer.  A     *)
(* systemctl that fails prints no state, and what it prints on stderr is a *)
(* word other than "active" or "enabled"; a dpkg-query that fails is a     *)
(* package that is not there, a sudo that fails a refusal; and the words   *)
(* of the timeout are the stderr of the command.                           *)
BlindAlone(v) ==
  \/ v.kind \in {"service_inactive", "service_disabled", "package_removed"}
  \/ v.kind = "sudo_permission" /\ Param(v, "allowed", TRUE) = FALSE
  \/ v.kind = "stderr_contains" /\ v.text = "timed out"

Blind(v) ==
  BlindAlone(v) \/ (Given(v, "then") /\ \E k \in DOMAIN v["then"] : BlindAlone(v["then"][k]))

PassedCheck(i) == i \in DOMAIN outcomes /\ Passed(outcomes[i])

(* A check that is not blind passes only if each of its turns went as it   *)
(* would have gone with all its tools answering, on the guest as it was at *)
(* that turn: a tool that hangs, is missing or fails never makes such a    *)
(* check pass out of nothing, be it a single question, the cases or runs   *)
(* of a script between which the learner changes the guest, or a command   *)
(* and then other checks (validators/mod.rs evaluate and validate_task).   *)
PassWitnessed ==
  \A i \in DOMAIN outcomes :
    PassedCheck(i) /\ ~Blind(task[i]) => i \in witnessed

OpposedKinds ==
  {<<"file_exists", "file_missing">>, <<"directory_exists", "file_missing">>,
   <<"file_exists", "directory_exists">>, <<"process_running", "process_not_running">>,
   <<"service_active", "service_inactive">>, <<"service_enabled", "service_disabled">>,
   <<"service_active", "service_failed">>, <<"user_exists", "user_missing">>}
Subject == {"path", "pattern", "unit", "user"}
Opposed(v, w) ==
  /\ <<v.kind, w.kind>> \in OpposedKinds
  /\ \A p \in Subject \cap DOMAIN v \cap DOMAIN w : v[p] = w[p]

(* A task that asks for a thing and for its opposite is passed only when   *)
(* the guest was changed while it was being checked, or when the one of    *)
(* the two that passed is blind and was not witnessed, which of these      *)
(* pairs only "inactive" and "disabled" can be: whatever the other tools   *)
(* do, at one instant the two checks never agree (filesystem.rs,           *)
(* process.rs, service.rs, identity.rs).                                   *)
OpposedNeedsChange ==
  phase = "answered" /\ AllPassed(outcomes) /\ ~moved
    => \A i, j \in DOMAIN task :
         Opposed(task[i], task[j]) => BlindAlone(task[j]) /\ j \notin witnessed

(* "A lesson package that names a validator this agent does not have must  *)
(* never be able to mark a task complete" (validators/mod.rs:5-6), nor one *)
(* with parameters the registry refuses, nested checks included.           *)
UnknownNeverCompletes ==
  phase = "answered" /\ AllPassed(outcomes)
    => \A i \in DOMAIN task :
         /\ EntryAccepts(Registry, CommonParams, task[i])
         /\ Given(task[i], "then")
              => \A k \in DOMAIN task[i]["then"] :
                   EntryAccepts(Registry, CommonParams, task[i]["then"][k])

(* A task is shown as 100 % exactly when it passed, but for what rounding  *)
(* hides: a failing check of less than half a percent of the weight; and a *)
(* fault of the lesson is announced only when no check really failed       *)
(* (validation.rs from_outcomes, feedback.rs shape_feedback).              *)
FeedbackFits ==
  phase = "answered" =>
    LET result == FromOutcomes(outcomes)
        feedback == ShapeFeedback(outcomes)
        failing == Weight(outcomes, {"fail", "error"})
    IN  /\ result.passed => result.percent = 100 /\ ~result.errored
        /\ result.percent = 100 => 200 * failing <= Weight(outcomes, Verdicts)
        /\ feedback.authoring <=> /\ result.primary # 0
                                  /\ Errored(outcomes[result.primary])

(* Line i of a ruleset lies in the block of that form opened last before   *)
(* it, and that block has the name.                                        *)
LiesIn(ruleset, i, form, Named(_)) ==
  \E j \in 1..(i - 1) :
    /\ ruleset[j].form = form /\ Named(ruleset[j].name)
    /\ \A k \in (j + 1)..i : ruleset[k].form # form

(* "Narrow to a table or chain block when the author named one, so a rule  *)
(* in the wrong chain does not count" (network.rs:485): a firewall check   *)
(* holds only if the rule lies in the chain of the author, in a table      *)
(* whose name his occurs in (extract_block).                               *)
NarrowedToBlock ==
  \A i \in DOMAIN task : task[i].kind = "firewall_rule" =>
    LET v == task[i]
        ns == NamespaceFor(v, LessonNamespace)
        ruleset == Net(guest, ns).ruleset
    IN  Passed(firewall_rule(guest, v, AllRun, ns)) =>
        \E k \in DOMAIN ruleset :
          /\ ruleset[k].form = "rule" /\ ruleset[k].text = v.contains
          /\ Given(v, "table") => LiesIn(ruleset, k, "table", LAMBDA n : Occurs(v["table"], n))
          /\ Given(v, "chain") => LiesIn(ruleset, k, "chain", LAMBDA n : n = v["chain"])
=============================================================================
