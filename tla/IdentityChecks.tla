--------------------------- MODULE IdentityChecks ---------------------------
(***************************************************************************)
(* The account validators (validators/identity.rs).  The guest has         *)
(*   shadow  lines [name, hash], the hash "", "!", "*" or a password       *)
(*   sudo    pairs <<user, command>> that sudo permits                     *)
(*   acl     path -> entries [text, default]                               *)
(***************************************************************************)
EXTENDS GuestFacts

(* The checks that read /etc/passwd. *)
WithPasswd(g, outcome) == IF Lost(g, "passwd") THEN Error ELSE outcome

user_exists(g, v) ==
  WithPasswd(g, PassIf(/\ HasUser(g, v.user)
                       /\ Given(v, "uidMin") => Account(g, v.user).uid >= v["uidMin"],
                       "task_partially_completed"))

user_missing(g, v) ==
  WithPasswd(g, PassIf(~HasUser(g, v.user), "task_partially_completed"))

group_exists(g, v) ==
  IF Lost(g, "group") THEN Error
  ELSE PassIf(GroupIndex(g, v.group) # 0, "task_partially_completed")

group_membership(g, v) ==
  LET target == Groups(g)[GroupIndex(g, v.group)]
      primary == Account(g, v.user).gid = target.gid
  IN  WithPasswd(g,
        IF ~HasUser(g, v.user) THEN Fail("task_partially_completed")
        ELSE IF Lost(g, "group") THEN Error
        ELSE IF GroupIndex(g, v.group) = 0 THEN Fail("task_partially_completed")
        ELSE PassIf(primary \/ (~Flag(v, "primary") /\ v.user \in target.members),
                    "wrong_ownership"))

(* sudo -l: with a command, the status tells; without, the listing does.   *)
(* A timeout is not told from a refusal.                                   *)
sudo_permission(g, v, fate) ==
  LET mayRun == IF Given(v, "command") THEN <<v.user, v["command"]>> \in g.sudo
                ELSE \E rule \in g.sudo : rule[1] = v.user
      listing == IF Given(v, "command") THEN Exit(IF mayRun THEN 0 ELSE 1, {}, {})
                 ELSE Exit(0, IF mayRun THEN {} ELSE {"not allowed to run sudo"}, {})
      output == Run(fate, "sudo", listing)
      allowed == /\ Success(output)
                 /\ Given(v, "command") \/ "not allowed to run sudo" \notin output.out
  IN  IF ~output.spawned THEN Error
      ELSE PassIf(allowed = Param(v, "allowed", TRUE), "permission_denied")

password_locked(g, v) ==
  LET i == SelectInSeq(g.shadow, LAMBDA line : line.name = v.user)
      locked == g.shadow[i].hash \in {"", "!", "*"}
  IN  IF Lost(g, "shadow") THEN Error
      ELSE IF i = 0 THEN Fail("task_partially_completed")
      ELSE PassIf(locked = Param(v, "locked", TRUE), "permission_denied")

login_shell(g, v) ==
  WithPasswd(g, PassIf(HasUser(g, v.user) /\ Account(g, v.user).shell = v.shell,
                       "task_partially_completed"))

home_directory(g, v) ==
  WithPasswd(g,
    IF ~HasUser(g, v.user) \/ Account(g, v.user).home # v.path
    THEN Fail("task_partially_completed")
    ELSE PassIf(Flag(v, "mustExist") => IsDir(g, v.path), "wrong_path"))

acl_contains(g, v, fate) ==
  LET output == Run(fate, "getfacl",
                    IF Exists(Stat(g, v.path)) THEN Exit(0, g.acl[v.path], {})
                    ELSE Exit(1, {}, {"no such file"}))
  IN  IF ~output.spawned THEN Error
      ELSE IF ~Success(output) THEN Fail("wrong_path")
      ELSE PassIf([text |-> v.entry, default |-> Flag(v, "isDefault")] \in output.out,
                  "wrong_permissions")

IdentityKinds ==
  {"user_exists", "user_missing", "group_exists", "group_membership", "sudo_permission",
   "password_locked", "login_shell", "home_directory", "acl_contains"}

(* identity::dispatch *)
IdentityCheck(g, v, fate) ==
  CASE v.kind = "user_exists" -> user_exists(g, v)
    [] v.kind = "user_missing" -> user_missing(g, v)
    [] v.kind = "group_exists" -> group_exists(g, v)
    [] v.kind = "group_membership" -> group_membership(g, v)
    [] v.kind = "sudo_permission" -> sudo_permission(g, v, fate)
    [] v.kind = "password_locked" -> password_locked(g, v)
    [] v.kind = "login_shell" -> login_shell(g, v)
    [] v.kind = "home_directory" -> home_directory(g, v)
    [] v.kind = "acl_contains" -> acl_contains(g, v, fate)
=============================================================================
