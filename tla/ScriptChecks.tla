---------------------------- MODULE ScriptChecks ----------------------------
(***************************************************************************)
(* The validators that run what the learner wrote (validators/script.rs).  *)
(* They may change the guest, so each of their turns leaves one behind.    *)
(* Perform says what a command does to a guest, run by a user in a         *)
(* directory; a command that is killed at its timeout has done what it     *)
(* does.  g.fixture maps the installed fixtures to the directories of      *)
(* their cases, g.expected a directory to the output asked for in it,      *)
(* g.lint a path to the findings of shellcheck.                            *)
(***************************************************************************)
EXTENDS GuestFacts

CONSTANT
  Perform(_, _, _, _)  \* guest, command, user, directory: [ends, output, guest]

Root == "root"
AgentDir == "/"

(* The programs that run a command.  What they complain of themselves, of  *)
(* an account that is gone say, is in what Perform says the command does.  *)
Shells == {"runuser", "bash"}

(* A command that cannot be run does nothing. *)
Executed(g, fate, program, done) ==
  LET output == IF fate[program] = "runs" /\ ~done.ends THEN TimedOut
                ELSE Run(fate, program, done.output)
  IN  [output |-> output, guest |-> IF output.spawned THEN done.guest ELSE g]

(* run_shell and run_with_stdin: as the learner by runuser, as root by bash. *)
Execute(g, fate, command, user, dir) ==
  Executed(g, fate, IF user = Root THEN "bash" ELSE "runuser", Perform(g, command, user, dir))

(* fixture_dir: where a command runs when its author named a fixture; the  *)
(* agent cannot enter one that is not installed.                           *)
NoFixture == "none"
Fixture(v) == Param(v, "fixture", NoFixture)
WorkingDir(v) == IF Fixture(v) = NoFixture THEN AgentDir ELSE Fixture(v)
Enterable(g, v) == Fixture(v) \in DOMAIN g.fixture \cup {NoFixture}

script_exists(g, v) ==
  LET file == Stat(g, v.path)
  IN  CASE ~Exists(file) -> Fail("wrong_path")
        [] Exists(file) /\ file.kind # "regular" -> Fail("wrong_file_type")
        [] file.kind = "regular" ->
             PassIf(/\ file.shebang # {}
                    /\ Given(v, "interpreter") => v["interpreter"] \in file.shebang,
                    "script_syntax_failure")

(* Which execute bit counts depends on who is to run the script. *)
script_executable(g, v) ==
  LET file == Stat(g, v.path)
      user == v["forUser"]
      bits == IF ~Given(v, "forUser") THEN {64, 8, 1}
              ELSE IF Account(g, user).uid = file.uid THEN {64}
              ELSE IF GroupForGid(g, file.gid) \in GroupsForUser(g, user) THEN {8}
              ELSE {1}
  IN  IF ~Exists(file) THEN Fail("wrong_path")
      ELSE IF Given(v, "forUser") /\ ~HasUser(g, user) THEN Fail("task_partially_completed")
      ELSE PassIf(file.mode \cap bits # {}, "wrong_permissions")

(* A check of one run; a run that does not end in time is a wrong answer. *)
OfOneRun(g, v, run, holds, category) ==
  IF ~Enterable(g, v) THEN After(Error, g)
  ELSE After(IF ~run.output.spawned THEN Error
             ELSE IF run.output.timedOut THEN Fail("script_logic_failure")
             ELSE PassIf(holds, category), run.guest)

ExitsWith(g, v, run) == OfOneRun(g, v, run, run.output.status = v.exitCode, "script_logic_failure")
Prints(g, v, run) == OfOneRun(g, v, run, run.output.out = v.expected, "pipeline_output_incorrect")
PrintsAmongOthers(g, v, run) ==
  OfOneRun(g, v, run, v.text \in run.output.out, "pipeline_output_incorrect")

(* The one that does not ask whether the command ended. *)
Complains(g, v, run) ==
  IF ~Enterable(g, v) THEN After(Error, g)
  ELSE After(IF ~run.output.spawned THEN Error
             ELSE PassIf(v.text \in run.output.err, "incorrect_redirect"), run.guest)

(* With something on stdin the script runs as root, without as the learner. *)
script_exit_code(g, v, fate, user) ==
  ExitsWith(g, v, Execute(g, fate, v.path, IF Given(v, "stdin") THEN Root ELSE user,
                          WorkingDir(v)))

stdout_exact(g, v, fate, user) ==
  Prints(g, v, Execute(g, fate, v.command, user, WorkingDir(v)))

stdout_contains(g, v, fate, user) ==
  PrintsAmongOthers(g, v, Execute(g, fate, v.command, user, WorkingDir(v)))

stderr_contains(g, v, fate, user) ==
  Complains(g, v, Execute(g, fate, v.command, user, WorkingDir(v)))

(* Mutant of CaseRun: a case that does not end in time is passed over. *)
CaseRunUntimed(g, v, memory, cases, fate, user) ==
  LET n == memory.turn + 1
      run == Execute(g, fate, v.path, user, cases[n])
      right == /\ memory.right
               /\ run.output.timedOut \/ run.output.out = g.expected[cases[n]]
  IN  IF ~run.output.spawned THEN After(Error, run.guest)
      ELSE IF n < Len(cases) THEN Resume(Memory(n, cases, right), run.guest)
      ELSE After(PassIf(right, "script_logic_failure"), run.guest)

(* A turn for each case of the fixture, in the directory of the case.  A   *)
(* case that is wrong, or does not end, leaves the others to be run.       *)
CaseRun(g, v, memory, cases, fate, user) ==
  LET n == memory.turn + 1
      run == Execute(g, fate, v.path, user, cases[n])
      right == /\ memory.right /\ ~run.output.timedOut
               /\ run.output.out = g.expected[cases[n]]
  IN  IF ~run.output.spawned THEN After(Error, run.guest)
      ELSE IF n < Len(cases) THEN Resume(Memory(n, cases, right), run.guest)
      ELSE After(PassIf(right, "script_logic_failure"), run.guest)

unit_test_passes(g, v, memory, fate, user) ==
  IF memory.turn > 0 THEN CaseRun(g, v, memory, memory.kept, fate, user)
  ELSE IF Fixture(v) \notin DOMAIN g.fixture THEN After(Error, g)
  ELSE IF ~Exists(Stat(g, v.path)) THEN After(Fail("wrong_path"), g)
  ELSE IF g.fixture[Fixture(v)] = <<>> THEN After(Error, g)
  ELSE CaseRun(g, v, memory, g.fixture[Fixture(v)], fate, user)

(* A finding has a code and a level, 0 the gravest. *)
shellcheck_passes(g, v, fate) ==
  LET reported == {f \in g.lint[v.path] : /\ f.level <= Param(v, "severity", 1)
                                          /\ f.code \notin Param(v, "exclude", {})}
      clean == Exists(Stat(g, v.path)) /\ reported = {}
      output == Run(fate, "shellcheck", Exit(IF clean THEN 0 ELSE 1, {}, {}))
  IN  IF ~output.spawned THEN Error ELSE PassIf(Success(output), "script_syntax_failure")

(* A turn for each run.  They are compared by how they exit and what they  *)
(* print, and the first that differs from run 1 ends the check.            *)
idempotent_result(g, v, memory, fate, user) ==
  LET n == memory.turn + 1
      run == Execute(g, fate, v.command, user, AgentDir)
      result == <<run.output.status, run.output.out>>
      first == IF n = 1 THEN result ELSE memory.kept
  IN  IF ~run.output.spawned THEN After(Error, run.guest)
      ELSE IF run.output.timedOut \/ result # first
      THEN After(Fail("script_logic_failure"), run.guest)
      ELSE IF n < Clamp(2, 5, Param(v, "runs", 2)) THEN Resume(Memory(n, first, TRUE), run.guest)
      ELSE After(Pass, run.guest)

ScriptKinds ==
  {"script_exists", "script_executable", "script_exit_code", "stdout_exact",
   "stdout_contains", "stderr_contains", "unit_test_passes", "shellcheck_passes",
   "idempotent_result"}

(* script::dispatch, but for side_effect_exists, which checks in turn. *)
ScriptCheck(g, v, memory, fate, user) ==
  CASE v.kind = "script_exists" -> After(script_exists(g, v), g)
    [] v.kind = "script_executable" -> After(script_executable(g, v), g)
    [] v.kind = "script_exit_code" -> script_exit_code(g, v, fate, user)
    [] v.kind = "stdout_exact" -> stdout_exact(g, v, fate, user)
    [] v.kind = "stdout_contains" -> stdout_contains(g, v, fate, user)
    [] v.kind = "stderr_contains" -> stderr_contains(g, v, fate, user)
    [] v.kind = "unit_test_passes" -> unit_test_passes(g, v, memory, fate, user)
    [] v.kind = "shellcheck_passes" -> After(shellcheck_passes(g, v, fate), g)
    [] v.kind = "idempotent_result" -> idempotent_result(g, v, memory, fate, user)
=============================================================================
