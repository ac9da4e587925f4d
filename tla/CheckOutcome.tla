---------------------------- MODULE CheckOutcome ----------------------------
(***************************************************************************)
(* What one check of a task reports (CheckOutcome), what a whole task      *)
(* reports (TaskValidation), and what the learner is told of it            *)
(* (Feedback).                                                             *)
(*                                                                         *)
(* A validator is a record: its kind and the parameters its author gave,   *)
(* so that DOMAIN says which are present.  Texts are left out: an outcome  *)
(* keeps its verdict, its category and its weight.                         *)
(***************************************************************************)
EXTENDS Integers, Sequences, SequencesExt

FailureCategory ==
  {"command_not_found", "invalid_option", "wrong_working_directory", "wrong_path",
   "permission_denied", "file_already_exists", "wrong_file_type", "wrong_file_contents",
   "wrong_ownership", "wrong_permissions", "process_not_running", "service_not_active",
   "wrong_port", "incorrect_redirect", "pipeline_output_incorrect", "script_syntax_failure",
   "script_logic_failure", "network_unreachable", "dns_failure", "task_partially_completed"}

NoCategory == "none"

Pass == [verdict |-> "pass", category |-> NoCategory, weight |-> 1]
Fail(c) == [verdict |-> "fail", category |-> c, weight |-> 1]
Error == [verdict |-> "error", category |-> NoCategory, weight |-> 1]

Verdicts == {"pass", "fail", "error"}
Passed(o) == o.verdict = "pass"
Errored(o) == o.verdict = "error"

PassIf(holds, category) == IF holds THEN Pass ELSE Fail(category)

---------------------------------------------------------------------------
(* Turns.  A check that awaits several tools is made in as many turns,     *)
(* between which the guest changes as it likes; memory is what it keeps    *)
(* from one to the next.  A turn leaves a guest behind, and either ends    *)
(* the check with an outcome or leaves it to its next turn.                *)

Memory(turn, kept, right) == [turn |-> turn, kept |-> kept, right |-> right]
Fresh == Memory(0, {}, TRUE)

After(outcome, g) == [ends |-> TRUE, outcome |-> outcome, memory |-> Fresh, guest |-> g]
Resume(memory, g) == [ends |-> FALSE, outcome |-> Error, memory |-> memory, guest |-> g]

---------------------------------------------------------------------------
(* Parameters.                                                             *)

Given(v, param) == param \in DOMAIN v
Param(v, param, default) == IF Given(v, param) THEN v[param] ELSE default
Flag(v, param) == Param(v, param, FALSE)

(* Bounds::satisfied_by *)
SatisfiedBy(v, actual) ==
  /\ Given(v, "equals") => actual = v["equals"]
  /\ Given(v, "min") => actual >= v["min"]
  /\ Given(v, "max") => actual <= v["max"]

Clamp(low, high, n) == IF n < low THEN low ELSE IF n > high THEN high ELSE n

(* Mutant of ApplyOverrides: the weight of the author counts as it is. *)
ApplyOverridesUnclamped(v, o) ==
  [o EXCEPT
    !.category = IF o.verdict = "fail" THEN Param(v, "failureCategory", @) ELSE @,
    !.weight = Param(v, "weight", @)]

(* args::apply_overrides: the author's category replaces that of a real    *)
(* failure only, his weight counts whatever the verdict.                   *)
ApplyOverrides(v, o) ==
  [o EXCEPT
    !.category = IF o.verdict = "fail" THEN Param(v, "failureCategory", @) ELSE @,
    !.weight = IF Given(v, "weight") THEN Clamp(1, 100, v["weight"]) ELSE @]

(* registry.rs, check_value: what is asked of a value beyond its JSON type. *)
ValueFits(spec, value) ==
  CASE spec.type = "port" -> value \in 1..65535
    [] spec.type = "enum" -> value \in spec.values
    [] spec.type = "path" -> value # ""
    [] spec.type = "mode" -> value.form # "text"
    [] OTHER -> TRUE

(* Registry::check, on a table of what the registry says of each kind; the *)
(* checks nested in one are checked with it, one level of them here.       *)
EntryAccepts(registry, common, v) ==
  /\ v.kind \in DOMAIN registry
  /\ registry[v.kind].implemented
  /\ LET entry == registry[v.kind]
         given == DOMAIN v \ {"kind"}
         spec(p) == IF p \in DOMAIN entry.params THEN entry.params[p] ELSE common[p]
     IN  /\ given \subseteq DOMAIN entry.params \cup DOMAIN common
         /\ entry.required \subseteq given
         /\ entry.oneOf # {} => entry.oneOf \cap given # {}
         /\ \A p \in given : ValueFits(spec(p), v[p])

RegistryAccepts(registry, common, v) ==
  /\ EntryAccepts(registry, common, v)
  /\ Given(v, "then") => \A k \in DOMAIN v["then"] : EntryAccepts(registry, common, v["then"][k])

---------------------------------------------------------------------------
(* TaskValidation::from_outcomes                                           *)

(* What the outcomes of some verdicts weigh together. *)
Weight(outcomes, verdicts) ==
  FoldLeft(LAMBDA sum, o : IF o.verdict \in verdicts THEN sum + o.weight ELSE sum, 0, outcomes)

(* 100 * earned / total, rounded half up; the f64 of the code falls short  *)
(* of some halves in between, never of those next to 0 and to 100.         *)
CompletionPercent(outcomes) ==
  LET total == Weight(outcomes, Verdicts)
      earned == Weight(outcomes, {"pass"})
  IN  IF total = 0 THEN 0 ELSE (200 * earned + total) \div (2 * total)

AllPassed(outcomes) == outcomes # <<>> /\ \A i \in DOMAIN outcomes : Passed(outcomes[i])
AnyErrored(outcomes) == \E i \in DOMAIN outcomes : Errored(outcomes[i])

(* Mutant of PrimaryFailure: whatever did not pass comes first. *)
FirstUnpassed(outcomes) == SelectInSeq(outcomes, LAMBDA o : ~Passed(o))

(* The first real failure, else the first check that errored, else 0. *)
PrimaryFailure(outcomes) ==
  LET real == SelectInSeq(outcomes, LAMBDA o : o.verdict = "fail")
  IN  IF real # 0 THEN real ELSE SelectInSeq(outcomes, LAMBDA o : ~Passed(o))

FromOutcomes(outcomes) ==
  [passed |-> AllPassed(outcomes), errored |-> AnyErrored(outcomes),
   percent |-> CompletionPercent(outcomes), primary |-> PrimaryFailure(outcomes)]

---------------------------------------------------------------------------
(* feedback.rs: shape_feedback                                             *)

FailedCategories(outcomes) ==
  {outcomes[i].category : i \in {j \in DOMAIN outcomes : outcomes[j].verdict = "fail"}}

(* authoring: the lesson is said to be at fault, not the learner. *)
ShapeFeedback(outcomes) ==
  LET task == FromOutcomes(outcomes)
      categories == FailedCategories(outcomes)
      partial == task.percent > 0
  IN  IF task.passed
      THEN [authoring |-> FALSE, partial |-> FALSE, category |-> NoCategory]
      ELSE IF task.errored /\ categories = {}
      THEN [authoring |-> TRUE, partial |-> FALSE, category |-> NoCategory]
      ELSE [authoring |-> FALSE, partial |-> partial,
            category |-> IF \E c \in categories : categories = {c}
                         THEN CHOOSE c \in categories : TRUE
                         ELSE IF partial THEN "task_partially_completed" ELSE NoCategory]
=============================================================================
