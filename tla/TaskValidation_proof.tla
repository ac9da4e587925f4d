------------------------ MODULE TaskValidation_proof ------------------------
(***************************************************************************)
(* Proofs about the validation of a task.  In order: every turn of a check *)
(* is one, and the outcomes are well formed; nothing the registry refuses  *)
(* completes a task; opposites are not found at one instant but by a blind *)
(* check; a pass is one that an agent whose tools all answer would have    *)
(* seen at each turn, tool by tool, then turn by turn, then nested; a rule *)
(* of a firewall is found in its block only; and what is reported of a     *)
(* task fits its outcomes.                                                 *)
(***************************************************************************)
EXTENDS TaskValidation, FiniteSetTheorems, WellFoundedInduction, TLAPS

---------------------------------------------------------------------------
(* What a check reports.                                                   *)

(* An outcome before the author's overrides. *)
Raw == [verdict : Verdicts, category : FailureCategory \cup {NoCategory}, weight : {1}]

LEMMA Constructors ==
  /\ Pass \in Raw /\ Passed(Pass)
  /\ Error \in Raw /\ ~Passed(Error)
  /\ \A c : ~Passed(Fail(c))
  /\ \A c \in FailureCategory : Fail(c) \in Raw
BY DEF Pass, Error, Fail, Raw, Verdicts, Passed, NoCategory, FailureCategory

LEMMA FileCheckRaw ==
  ASSUME NEW g, NEW v, NEW fate, NEW user, v.kind \in FileKinds
  PROVE  FileCheck(g, v, fate, user) \in Raw
<1>1. CASE v.kind = "file_exists"
  BY <1>1, Constructors DEF FileCheck, file_exists, PassIf, FailureCategory
<1>2. CASE v.kind = "file_missing"
  BY <1>2, Constructors DEF FileCheck, file_missing, PassIf, FailureCategory
<1>3. CASE v.kind = "directory_exists"
  BY <1>3, Constructors DEF FileCheck, directory_exists, PassIf, FailureCategory
<1>4. CASE v.kind = "directory_missing"
  BY <1>4, Constructors DEF FileCheck, directory_missing, PassIf, FailureCategory
<1>5. CASE v.kind = "symbolic_link_exists"
  BY <1>5, Constructors DEF FileCheck, symbolic_link_exists, PassIf, FailureCategory
<1>6. CASE v.kind = "hard_link_exists"
  BY <1>6, Constructors DEF FileCheck, hard_link_exists, PassIf, FailureCategory
<1>7. CASE v.kind = "file_type"
  BY <1>7, Constructors DEF FileCheck, file_type, PassIf, FailureCategory
<1>8. CASE v.kind = "file_size"
  BY <1>8, Constructors DEF FileCheck, file_size, Attribute, PassIf, FailureCategory
<1>9. CASE v.kind = "file_owner"
  BY <1>9, Constructors DEF FileCheck, file_owner, Attribute, PassIf, FailureCategory
<1>10. CASE v.kind = "file_group"
  BY <1>10, Constructors DEF FileCheck, file_group, Attribute, PassIf, FailureCategory
<1>11. CASE v.kind = "file_mode"
  BY <1>11, Constructors DEF FileCheck, file_mode, Attribute, PassIf, FailureCategory
<1>12. CASE v.kind = "file_contains"
  BY <1>12, Constructors DEF FileCheck, file_contains, ReadText, PassIf, FailureCategory
<1>13. CASE v.kind = "file_matches_regex"
  BY <1>13, Constructors
  DEF FileCheck, file_matches_regex, ReadText, PassIf, FailureCategory
<1>14. CASE v.kind = "file_line_count"
  BY <1>14, Constructors DEF FileCheck, file_line_count, ReadText, PassIf, FailureCategory
<1>15. CASE v.kind = "file_checksum"
  BY <1>15, Constructors DEF FileCheck, file_checksum, PassIf, FailureCategory
<1>16. CASE v.kind = "directory_contains"
  BY <1>16, Constructors DEF FileCheck, directory_contains, PassIf, FailureCategory
<1>17. CASE v.kind = "directory_empty"
  BY <1>17, Constructors DEF FileCheck, directory_empty, PassIf, FailureCategory
<1>18. CASE v.kind = "current_directory"
  BY <1>18, Constructors DEF FileCheck, current_directory, PassIf, FailureCategory
<1> QED
  BY <1>1, <1>2, <1>3, <1>4, <1>5, <1>6, <1>7, <1>8, <1>9, <1>10, <1>11, <1>12, <1>13,
     <1>14, <1>15, <1>16, <1>17, <1>18
  DEF FileKinds

LEMMA ProcessCheckRaw ==
  ASSUME NEW g, NEW v, NEW user, v.kind \in ProcessKinds
  PROVE  ProcessCheck(g, v, user) \in Raw
<1>1. CASE v.kind = "process_running"
  BY <1>1, Constructors
  DEF ProcessCheck, process_running, Compiled, PassIf, FailureCategory
<1>2. CASE v.kind = "process_not_running"
  BY <1>2, Constructors
  DEF ProcessCheck, process_not_running, Compiled, PassIf, FailureCategory
<1>3. CASE v.kind = "process_owner"
  BY <1>3, Constructors DEF ProcessCheck, process_owner, Compiled, PassIf, FailureCategory
<1>4. CASE v.kind = "process_count"
  BY <1>4, Constructors DEF ProcessCheck, process_count, Compiled, PassIf, FailureCategory
<1>5. CASE v.kind = "process_command"
  BY <1>5, Constructors
  DEF ProcessCheck, process_command, Compiled, PassIf, FailureCategory
<1>6. CASE v.kind = "process_signal_received"
  BY <1>6, Constructors DEF ProcessCheck, process_signal_received, PassIf, FailureCategory
<1>7. CASE v.kind = "background_job_running"
  BY <1>7, Constructors
  DEF ProcessCheck, background_job_running, Compiled, PassIf, FailureCategory
<1> QED
  BY <1>1, <1>2, <1>3, <1>4, <1>5, <1>6, <1>7 DEF ProcessKinds

LEMMA SystemCheckRaw ==
  ASSUME NEW g, NEW v, NEW fate, v.kind \in SystemKinds
  PROVE  SystemCheck(g, v, fate) \in Raw
<1>1. CASE v.kind = "service_active"
  BY <1>1, Constructors
  DEF SystemCheck, service_active, ServiceState, PassIf, FailureCategory
<1>2. CASE v.kind = "service_inactive"
  BY <1>2, Constructors
  DEF SystemCheck, service_inactive, ServiceState, PassIf, FailureCategory
<1>3. CASE v.kind = "service_enabled"
  BY <1>3, Constructors
  DEF SystemCheck, service_enabled, ServiceState, PassIf, FailureCategory
<1>4. CASE v.kind = "service_disabled"
  BY <1>4, Constructors
  DEF SystemCheck, service_disabled, ServiceState, PassIf, FailureCategory
<1>5. CASE v.kind = "service_failed"
  BY <1>5, Constructors DEF SystemCheck, service_failed, PassIf, FailureCategory
<1>6. CASE v.kind = "unit_file_valid"
  BY <1>6, Constructors DEF SystemCheck, unit_file_valid, PassIf, FailureCategory
<1>7. CASE v.kind = "journal_contains"
  BY <1>7, Constructors DEF SystemCheck, journal_contains, PassIf, FailureCategory
<1>8. CASE v.kind = "port_listening"
  BY <1>8, Constructors DEF SystemCheck, port_listening, PassIf, FailureCategory
<1>9. CASE v.kind = "package_installed"
  BY <1>9, Constructors DEF SystemCheck, package_installed, PassIf, FailureCategory
<1>10. CASE v.kind = "package_removed"
  BY <1>10, Constructors DEF SystemCheck, package_removed, PassIf, FailureCategory
<1>11. CASE v.kind = "repository_configured"
  BY <1>11, Constructors DEF SystemCheck, repository_configured, PassIf, FailureCategory
<1>12. CASE v.kind = "apt_cache_updated"
  BY <1>12, Constructors DEF SystemCheck, apt_cache_updated, PassIf, FailureCategory
<1> QED
  BY <1>1, <1>2, <1>3, <1>4, <1>5, <1>6, <1>7, <1>8, <1>9, <1>10, <1>11, <1>12
  DEF SystemKinds

LEMMA IdentityCheckRaw ==
  ASSUME NEW g, NEW v, NEW fate, v.kind \in IdentityKinds
  PROVE  IdentityCheck(g, v, fate) \in Raw
<1>1. CASE v.kind = "user_exists"
  BY <1>1, Constructors
  DEF IdentityCheck, user_exists, WithPasswd, PassIf, FailureCategory
<1>2. CASE v.kind = "user_missing"
  BY <1>2, Constructors
  DEF IdentityCheck, user_missing, WithPasswd, PassIf, FailureCategory
<1>3. CASE v.kind = "group_exists"
  BY <1>3, Constructors DEF IdentityCheck, group_exists, PassIf, FailureCategory
<1>4. CASE v.kind = "group_membership"
  BY <1>4, Constructors
  DEF IdentityCheck, group_membership, WithPasswd, PassIf, FailureCategory
<1>5. CASE v.kind = "sudo_permission"
  BY <1>5, Constructors DEF IdentityCheck, sudo_permission, PassIf, FailureCategory
<1>6. CASE v.kind = "password_locked"
  BY <1>6, Constructors DEF IdentityCheck, password_locked, PassIf, FailureCategory
<1>7. CASE v.kind = "login_shell"
  BY <1>7, Constructors
  DEF IdentityCheck, login_shell, WithPasswd, PassIf, FailureCategory
<1>8. CASE v.kind = "home_directory"
  BY <1>8, Constructors
  DEF IdentityCheck, home_directory, WithPasswd, PassIf, FailureCategory
<1>9. CASE v.kind = "acl_contains"
  BY <1>9, Constructors DEF IdentityCheck, acl_contains, PassIf, FailureCategory
<1> QED
  BY <1>1, <1>2, <1>3, <1>4, <1>5, <1>6, <1>7, <1>8, <1>9 DEF IdentityKinds

LEMMA NetworkCheckRaw ==
  ASSUME NEW g, NEW v, NEW fate, NEW ns, v.kind \in NetworkKinds
  PROVE  NetworkCheck(g, v, fate, ns) \in Raw
<1>1. CASE v.kind = "interface_exists"
  BY <1>1, Constructors
  DEF NetworkCheck, interface_exists, Reachable, PassIf, FailureCategory
<1>2. CASE v.kind = "interface_state"
  BY <1>2, Constructors
  DEF NetworkCheck, interface_state, Reachable, PassIf, FailureCategory
<1>3. CASE v.kind = "ip_address"
  BY <1>3, Constructors DEF NetworkCheck, ip_address, Reachable, PassIf, FailureCategory
<1>4. CASE v.kind = "route_exists"
  BY <1>4, Constructors DEF NetworkCheck, route_exists, Reachable, PassIf, FailureCategory
<1>5. CASE v.kind = "default_route"
  BY <1>5, Constructors
  DEF NetworkCheck, default_route, Reachable, PassIf, FailureCategory
<1>6. CASE v.kind = "dns_resolution"
  BY <1>6, Constructors DEF NetworkCheck, dns_resolution, PassIf, FailureCategory
<1>7. CASE v.kind = "tcp_connection"
  BY <1>7, Constructors
  DEF NetworkCheck, tcp_connection, Reachable, PassIf, FailureCategory
<1>8. CASE v.kind = "udp_listener"
  BY <1>8, Constructors DEF NetworkCheck, udp_listener, PassIf, FailureCategory
<1>9. CASE v.kind = "http_status"
  BY <1>9, Constructors DEF NetworkCheck, http_status, Reachable, PassIf, FailureCategory
<1>10. CASE v.kind = "http_body"
  BY <1>10, Constructors DEF NetworkCheck, http_body, Reachable, PassIf, FailureCategory
<1>11. CASE v.kind = "firewall_rule"
  BY <1>11, Constructors DEF NetworkCheck, firewall_rule, PassIf, FailureCategory
<1>12. CASE v.kind = "remote_file_exists"
  BY <1>12, Constructors DEF NetworkCheck, remote_file_exists, PassIf, FailureCategory
<1> QED
  BY <1>1, <1>2, <1>3, <1>4, <1>5, <1>6, <1>7, <1>8, <1>9, <1>10, <1>11, <1>12
  DEF NetworkKinds

(* A turn either ends a check, and then nothing is kept of it, or leaves   *)
(* it to a later turn.                                                     *)
IsTurn(t) ==
  \/ \E g : \E o \in Raw : t = After(o, g)
  \/ \E g, m : m.turn \in Nat \ {0} /\ m.right \in BOOLEAN /\ t = Resume(m, g)

LEMMA TurnConstructors ==
  /\ \A g, o : /\ After(o, g).ends /\ After(o, g).outcome = o
                /\ After(o, g).memory = Fresh /\ After(o, g).guest = g
  /\ \A g, m : /\ ~Resume(m, g).ends /\ Resume(m, g).outcome = Error
                /\ Resume(m, g).memory = m /\ Resume(m, g).guest = g
  /\ \A n, kept, right : /\ Memory(n, kept, right).turn = n
                         /\ Memory(n, kept, right).kept = kept
                         /\ Memory(n, kept, right).right = right
  /\ Fresh.turn = 0 /\ Fresh.right = TRUE /\ Fresh.right \in BOOLEAN
BY DEF After, Resume, Memory, Fresh

LEMMA AfterIsTurn ==
  ASSUME NEW g, NEW o \in Raw
  PROVE  IsTurn(After(o, g))
BY DEF IsTurn

LEMMA ResumeIsTurn ==
  ASSUME NEW g, NEW n \in Nat \ {0}, NEW kept, NEW right \in BOOLEAN
  PROVE  IsTurn(Resume(Memory(n, kept, right), g))
BY TurnConstructors DEF IsTurn

LEMMA FirstIsTurn ==
  ASSUME NEW g, NEW kept
  PROVE  IsTurn(Resume(Memory(1, kept, TRUE), g))
<1>1. PICK n \in Nat \ {0} : n = 1
  OBVIOUS
<1>2. IsTurn(Resume(Memory(n, kept, TRUE), g))
  BY ResumeIsTurn
<1> QED
  BY <1>1, <1>2

LEMMA TurnShape ==
  ASSUME NEW t, IsTurn(t)
  PROVE  /\ t.outcome \in Raw
         /\ \/ t.ends /\ t.memory = Fresh
            \/ ~t.ends /\ t.memory.turn \in Nat \ {0} /\ t.memory.right \in BOOLEAN
<1>1. CASE \E g : \E o \in Raw : t = After(o, g)
  BY <1>1, TurnConstructors
<1>2. CASE \E g, m : m.turn \in Nat \ {0} /\ m.right \in BOOLEAN /\ t = Resume(m, g)
  BY <1>2, TurnConstructors, Constructors
<1> QED
  BY <1>1, <1>2 DEF IsTurn

LEMMA CaseRunIsTurn ==
  ASSUME NEW g, NEW v, NEW m, m.turn \in Nat, NEW cases, NEW fate, NEW user
  PROVE  IsTurn(CaseRun(g, v, m, cases, fate, user))
<1> DEFINE n == m.turn + 1
           run == Execute(g, fate, v.path, user, cases[n])
           right == /\ m.right /\ ~run.output.timedOut
                    /\ run.output.out = g.expected[cases[n]]
           t == CaseRun(g, v, m, cases, fate, user)
<1>1. n \in Nat \ {0}
  OBVIOUS
<1>2. right \in BOOLEAN
  BY Zenon
<1>3. PassIf(right, "script_logic_failure") \in Raw /\ Error \in Raw
  BY Constructors DEF PassIf, FailureCategory
<1>4. \/ t = After(Error, run.guest) \/ t = Resume(Memory(n, cases, right), run.guest)
      \/ t = After(PassIf(right, "script_logic_failure"), run.guest)
  BY DEF CaseRun
<1> HIDE DEF n, run, right, t
<1>5. IsTurn(Resume(Memory(n, cases, right), run.guest))
  BY <1>1, <1>2, ResumeIsTurn
<1>6. IsTurn(t)
  BY <1>3, <1>4, <1>5, AfterIsTurn
<1> QED
  BY <1>6 DEF t

LEMMA OfOneRunIsTurn ==
  ASSUME NEW g, NEW v, NEW run, NEW holds, NEW c \in FailureCategory
  PROVE  IsTurn(OfOneRun(g, v, run, holds, c))
<1> DEFINE o == IF ~run.output.spawned THEN Error
                ELSE IF run.output.timedOut THEN Fail("script_logic_failure")
                ELSE PassIf(holds, c)
<1>1. Error \in Raw /\ o \in Raw
  BY Constructors DEF PassIf, FailureCategory
<1>2. OfOneRun(g, v, run, holds, c) \in {After(Error, g), After(o, run.guest)}
  BY DEF OfOneRun
<1> HIDE DEF o
<1> QED
  BY <1>1, <1>2, AfterIsTurn

LEMMA ComplainsIsTurn ==
  ASSUME NEW g, NEW v, NEW run
  PROVE  IsTurn(Complains(g, v, run))
<1> DEFINE o == IF ~run.output.spawned THEN Error
                ELSE PassIf(v.text \in run.output.err, "incorrect_redirect")
<1>1. Error \in Raw /\ o \in Raw
  BY Constructors DEF PassIf, FailureCategory
<1>2. Complains(g, v, run) \in {After(Error, g), After(o, run.guest)}
  BY DEF Complains
<1> HIDE DEF o
<1> QED
  BY <1>1, <1>2, AfterIsTurn

LEMMA UnitTestIsTurn ==
  ASSUME NEW g, NEW v, NEW m, m.turn \in Nat, NEW fate, NEW user
  PROVE  IsTurn(unit_test_passes(g, v, m, fate, user))
<1> DEFINE cases == IF m.turn > 0 THEN m.kept ELSE g.fixture[Fixture(v)]
<1>1. unit_test_passes(g, v, m, fate, user)
        \in {After(Error, g), After(Fail("wrong_path"), g),
             CaseRun(g, v, m, cases, fate, user)}
  BY DEF unit_test_passes
<1>2. Error \in Raw /\ Fail("wrong_path") \in Raw
  BY Constructors DEF FailureCategory
<1>3. IsTurn(CaseRun(g, v, m, cases, fate, user))
  BY CaseRunIsTurn
<1> QED
  BY <1>1, <1>2, <1>3, AfterIsTurn

LEMMA IdempotentIsTurn ==
  ASSUME NEW g, NEW v, NEW m, m.turn \in Nat, NEW fate, NEW user
  PROVE  IsTurn(idempotent_result(g, v, m, fate, user))
<1> DEFINE n == m.turn + 1
           run == Execute(g, fate, v.command, user, AgentDir)
           result == <<run.output.status, run.output.out>>
           first == IF n = 1 THEN result ELSE m.kept
           t == idempotent_result(g, v, m, fate, user)
<1>1. n \in Nat \ {0}
  OBVIOUS
<1>2. t \in {After(Error, run.guest), After(Fail("script_logic_failure"), run.guest),
             Resume(Memory(n, first, TRUE), run.guest), After(Pass, run.guest)}
  BY DEF idempotent_result
<1>3. Error \in Raw /\ Pass \in Raw /\ Fail("script_logic_failure") \in Raw
  BY Constructors DEF FailureCategory
<1> HIDE DEF n, run, result, first, t
<1>4. IsTurn(Resume(Memory(n, first, TRUE), run.guest))
  BY <1>1, ResumeIsTurn
<1>5. IsTurn(t)
  BY <1>2, <1>3, <1>4, AfterIsTurn
<1> QED
  BY <1>5 DEF t

LEMMA ScriptCheckTurn ==
  ASSUME NEW g, NEW v, NEW m, m.turn \in Nat, NEW fate, NEW user, v.kind \in ScriptKinds
  PROVE  IsTurn(ScriptCheck(g, v, m, fate, user))
<1>1. CASE v.kind = "script_exists"
  <2>1. script_exists(g, v) \in Raw
    BY Constructors DEF script_exists, PassIf, FailureCategory
  <2> QED
    BY <1>1, <2>1, AfterIsTurn DEF ScriptCheck
<1>2. CASE v.kind = "script_executable"
  <2>1. script_executable(g, v) \in Raw
    BY Constructors DEF script_executable, PassIf, FailureCategory
  <2> QED
    BY <1>2, <2>1, AfterIsTurn DEF ScriptCheck
<1>3. CASE v.kind = "script_exit_code"
  BY <1>3, OfOneRunIsTurn DEF ScriptCheck, script_exit_code, ExitsWith, FailureCategory
<1>4. CASE v.kind = "stdout_exact"
  BY <1>4, OfOneRunIsTurn DEF ScriptCheck, stdout_exact, Prints, FailureCategory
<1>5. CASE v.kind = "stdout_contains"
  BY <1>5, OfOneRunIsTurn DEF ScriptCheck, stdout_contains, PrintsAmongOthers, FailureCategory
<1>6. CASE v.kind = "stderr_contains"
  BY <1>6, ComplainsIsTurn DEF ScriptCheck, stderr_contains
<1>7. CASE v.kind = "unit_test_passes"
  BY <1>7, UnitTestIsTurn DEF ScriptCheck
<1>8. CASE v.kind = "shellcheck_passes"
  <2>1. shellcheck_passes(g, v, fate) \in Raw
    BY Constructors DEF shellcheck_passes, PassIf, FailureCategory
  <2> QED
    BY <1>8, <2>1, AfterIsTurn DEF ScriptCheck
<1>9. CASE v.kind = "idempotent_result"
  BY <1>9, IdempotentIsTurn DEF ScriptCheck
<1> QED
  BY <1>1, <1>2, <1>3, <1>4, <1>5, <1>6, <1>7, <1>8, <1>9 DEF ScriptKinds

LEMMA TwoTurns ==
  ASSUME NEW g, NEW v, NEW m, NEW fate
  PROVE  /\ IsTurn(package_version(g, v, m, fate))
         /\ IsTurn(ssh_key_valid(g, v, m, fate))
<1>1. IsTurn(VersionFound(g, v, fate))
  <2>1. Fail("task_partially_completed") \in Raw
    BY Constructors DEF FailureCategory
  <2>2. IsTurn(Resume(Memory(1, DpkgStatus(g, v.package, fate).version, TRUE), g))
    BY FirstIsTurn
  <2> QED
    BY <2>1, <2>2, AfterIsTurn DEF VersionFound
<1>2. VersionFits(g, v, m.kept, fate) \in Raw
  BY Constructors DEF VersionFits, PassIf, FailureCategory
<1>3. IsTurn(KeyRead(g, v, fate))
  <2>1. Error \in Raw /\ Pass \in Raw /\ Fail("permission_denied") \in Raw
    BY Constructors DEF FailureCategory
  <2>2. IsTurn(Resume(Memory(1, {}, TRUE), g))
    BY FirstIsTurn
  <2>3. KeyRead(g, v, fate) \in {After(Error, g), After(Fail("permission_denied"), g),
                                 Resume(Memory(1, {}, TRUE), g), After(Pass, g)}
    BY DEF KeyRead
  <2> QED
    BY <2>1, <2>2, <2>3, AfterIsTurn
<1>4. KeyKept(g, v) \in Raw
  BY Constructors DEF KeyKept, PassIf, FailureCategory
<1> QED
  BY <1>1, <1>2, <1>3, <1>4, AfterIsTurn DEF package_version, ssh_key_valid

(* dispatch: each kind goes to the module that claims it. *)
LEMMA DispatchByFamily ==
  ASSUME NEW g, NEW v, NEW m, NEW fate
  PROVE  LET t == Dispatch(g, v, m, fate)
         IN  /\ v.kind \in FileKinds => t = After(FileCheck(g, v, fate, SubjectUser), g)
             /\ v.kind \in ProcessKinds => t = After(ProcessCheck(g, v, SubjectUser), g)
             /\ v.kind \in SystemKinds => t = After(SystemCheck(g, v, fate), g)
             /\ v.kind \in IdentityKinds => t = After(IdentityCheck(g, v, fate), g)
             /\ v.kind \in NetworkKinds
                  => t = After(NetworkCheck(g, v, fate, LessonNamespace), g)
             /\ v.kind \in ScriptKinds => t = ScriptCheck(g, v, m, fate, SubjectUser)
             /\ v.kind = "package_version" => t = package_version(g, v, m, fate)
             /\ v.kind = "ssh_key_valid" => t = ssh_key_valid(g, v, m, fate)
             /\ v.kind \notin FileKinds \cup ProcessKinds \cup SystemKinds \cup IdentityKinds
                                \cup NetworkKinds \cup ScriptKinds
                                \cup {"package_version", "ssh_key_valid"} => t = After(Error, g)
<1> DEFINE Other == Others(g, v, fate)
           Several == ScriptKinds \cup {"package_version", "ssh_key_valid"}
<1>1. /\ v.kind \notin Several => Dispatch(g, v, m, fate) = After(Other, g)
      /\ v.kind \in ScriptKinds
           => Dispatch(g, v, m, fate) = ScriptCheck(g, v, m, fate, SubjectUser)
      /\ v.kind = "package_version" => Dispatch(g, v, m, fate) = package_version(g, v, m, fate)
      /\ v.kind = "ssh_key_valid" => Dispatch(g, v, m, fate) = ssh_key_valid(g, v, m, fate)
  BY DEF Dispatch, ScriptKinds
<1>2. v.kind \in FileKinds => v.kind \notin Several /\ Other = FileCheck(g, v, fate, SubjectUser)
  BY
  DEF Others, FileKinds, ScriptKinds, ProcessKinds, SystemKinds, IdentityKinds,
     NetworkKinds
<1>3. v.kind \in ProcessKinds
        => v.kind \notin Several /\ Other = ProcessCheck(g, v, SubjectUser)
  BY
  DEF Others, FileKinds, ScriptKinds, ProcessKinds, SystemKinds, IdentityKinds,
     NetworkKinds
<1>4. v.kind \in SystemKinds => v.kind \notin Several /\ Other = SystemCheck(g, v, fate)
  BY
  DEF Others, FileKinds, ScriptKinds, ProcessKinds, SystemKinds, IdentityKinds,
     NetworkKinds
<1>5. v.kind \in IdentityKinds => v.kind \notin Several /\ Other = IdentityCheck(g, v, fate)
  BY
  DEF Others, FileKinds, ScriptKinds, ProcessKinds, SystemKinds, IdentityKinds,
     NetworkKinds
<1>6. v.kind \in NetworkKinds
        => v.kind \notin Several /\ Other = NetworkCheck(g, v, fate, LessonNamespace)
  BY
  DEF Others, FileKinds, ScriptKinds, ProcessKinds, SystemKinds, IdentityKinds,
     NetworkKinds
<1>7. v.kind \notin FileKinds \cup ProcessKinds \cup SystemKinds \cup IdentityKinds \cup NetworkKinds
        => Other = Error
  BY DEF Others
<1> HIDE DEF Other
<1> QED
  BY <1>1, <1>2, <1>3, <1>4, <1>5, <1>6, <1>7

LEMMA DispatchTurn ==
  ASSUME NEW g, NEW v, NEW m, m.turn \in Nat, NEW fate
  PROVE  IsTurn(Dispatch(g, v, m, fate))
<1>1. CASE v.kind \in FileKinds
  BY <1>1, DispatchByFamily, FileCheckRaw, AfterIsTurn
<1>2. CASE v.kind \in ProcessKinds
  BY <1>2, DispatchByFamily, ProcessCheckRaw, AfterIsTurn
<1>3. CASE v.kind \in SystemKinds
  BY <1>3, DispatchByFamily, SystemCheckRaw, AfterIsTurn
<1>4. CASE v.kind \in IdentityKinds
  BY <1>4, DispatchByFamily, IdentityCheckRaw, AfterIsTurn
<1>5. CASE v.kind \in NetworkKinds
  BY <1>5, DispatchByFamily, NetworkCheckRaw, AfterIsTurn
<1>6. CASE v.kind \in ScriptKinds
  BY <1>6, DispatchByFamily, ScriptCheckTurn
<1>7. CASE v.kind = "package_version"
  BY <1>7, DispatchByFamily, TwoTurns
<1>8. CASE v.kind = "ssh_key_valid"
  BY <1>8, DispatchByFamily, TwoTurns
<1>9. CASE v.kind \notin FileKinds \cup ProcessKinds \cup SystemKinds \cup IdentityKinds
                        \cup NetworkKinds \cup ScriptKinds
                        \cup {"package_version", "ssh_key_valid"}
  BY <1>9, DispatchByFamily, Constructors, AfterIsTurn
<1> QED
  BY <1>1, <1>2, <1>3, <1>4, <1>5, <1>6, <1>7, <1>8, <1>9

LEMMA NestedTurnIsTurn ==
  ASSUME NEW g, NEW v, NEW m, m.turn \in Nat \ {0}, m.right \in BOOLEAN, NEW fate
  PROVE  IsTurn(NestedTurn(g, v, m, fate))
<1> DEFINE nested == EvaluateFlat(g, v["then"][m.turn], m.kept, fate)
           right == m.right /\ Passed(nested.outcome)
           same == Resume(Memory(m.turn, nested.memory, m.right), nested.guest)
           next == Resume(Memory(m.turn + 1, Fresh, right), nested.guest)
           last == After(PassIf(right, "script_logic_failure"), nested.guest)
<1>1. NestedTurn(g, v, m, fate) \in {same, next, last}
  BY DEF NestedTurn
<1>2. right \in BOOLEAN
  BY Zenon
<1>3. PassIf(right, "script_logic_failure") \in Raw
  BY Constructors DEF PassIf, FailureCategory
<1> HIDE DEF nested, right
<1>4. IsTurn(same)
  BY ResumeIsTurn
<1>5. IsTurn(next)
  <2>1. m.turn + 1 \in Nat \ {0}
    OBVIOUS
  <2> QED
    BY <1>2, <2>1, ResumeIsTurn
<1>6. IsTurn(last)
  BY <1>3, AfterIsTurn
<1> QED
  BY <1>1, <1>4, <1>5, <1>6

LEMMA SideEffectTurn ==
  ASSUME NEW g, NEW v, NEW m, m.turn \in Nat, m.right \in BOOLEAN, NEW fate
  PROVE  IsTurn(side_effect_exists(g, v, m, fate))
<1> DEFINE run == Execute(g, fate, v.command, SubjectUser, Home(SubjectUser))
<1>1. SideEffect(g, v, fate)
        \in {After(Error, g), After(Fail("script_logic_failure"), run.guest),
             After(Pass, run.guest), Resume(Memory(1, Fresh, TRUE), run.guest)}
  BY DEF SideEffect
<1>2. Error \in Raw /\ Pass \in Raw /\ Fail("script_logic_failure") \in Raw
  BY Constructors DEF FailureCategory
<1> HIDE DEF run
<1>3. IsTurn(Resume(Memory(1, Fresh, TRUE), run.guest))
  BY FirstIsTurn
<1>4. IsTurn(SideEffect(g, v, fate))
  BY <1>1, <1>2, <1>3, AfterIsTurn
<1> QED
  BY <1>4, NestedTurnIsTurn DEF side_effect_exists

---------------------------------------------------------------------------
(* What the registry and the overrides make of it.                         *)

Outcome == [verdict : Verdicts, weight : 1..100,
            category : FailureCategory \cup {NoCategory}]

(* An author's category is one of those there are. *)
LEMMA CategoryIsListed ==
  ASSUME NEW v, RegistryAccepts(Registry, CommonParams, v), Given(v, "failureCategory")
  PROVE  v["failureCategory"] \in FailureCategory
<1> DEFINE entry == Registry[v.kind]
           given == DOMAIN v \ {"kind"}
           spec(p) == IF p \in DOMAIN entry.params THEN entry.params[p] ELSE CommonParams[p]
<1>1. /\ v.kind \in DOMAIN Registry
      /\ given \subseteq DOMAIN entry.params \cup DOMAIN CommonParams
      /\ \A p \in given : ValueFits(spec(p), v[p])
  BY DEF RegistryAccepts, EntryAccepts
<1>2. "failureCategory" \in given
  BY DEF Given
<1>3. "failureCategory" \notin DOMAIN entry.params
  BY <1>1, RegistryAssumption
<1>4. /\ CommonParams["failureCategory"].type = "enum"
      /\ CommonParams["failureCategory"].values \subseteq FailureCategory
  BY <1>1, <1>2, <1>3, RegistryAssumption
<1>5. ValueFits(CommonParams["failureCategory"], v["failureCategory"])
  <2>1. spec("failureCategory") = CommonParams["failureCategory"]
    BY <1>3
  <2>2. ValueFits(spec("failureCategory"), v["failureCategory"])
    BY <1>1, <1>2
  <2> QED
    BY <2>1, <2>2
<1> QED
  BY <1>4, <1>5 DEF ValueFits

LEMMA OverridesTyped ==
  ASSUME NEW v, NEW o \in Raw, Counted(v), RegistryAccepts(Registry, CommonParams, v)
  PROVE  /\ ApplyOverrides(v, o) \in Outcome
         /\ Passed(ApplyOverrides(v, o)) = Passed(o)
<1> DEFINE c == IF o.verdict = "fail" THEN Param(v, "failureCategory", o.category) ELSE o.category
           w == IF Given(v, "weight") THEN Clamp(1, 100, v["weight"]) ELSE o.weight
<1>1. c \in FailureCategory \cup {NoCategory}
  BY CategoryIsListed DEF Param, Raw
<1>2. w \in 1..100
  BY DEF Counted, Clamp, Raw
<1>3. ApplyOverrides(v, o) = [o EXCEPT !.category = c, !.weight = w]
  BY DEF ApplyOverrides
<1> HIDE DEF c, w
<1> QED
  BY <1>1, <1>2, <1>3 DEF Raw, Verdicts, Outcome, Passed

LEMMA GuardedTyped ==
  ASSUME NEW g, NEW v, NEW t, IsTurn(t), Counted(v)
  PROVE  LET guarded == Guarded(g, v, t)
             accepted == RegistryAccepts(Registry, CommonParams, v)
         IN  /\ guarded.outcome \in Outcome
             /\ Passed(guarded.outcome) <=> accepted /\ Passed(t.outcome)
             /\ accepted => guarded.ends = t.ends /\ guarded.memory = t.memory
             /\ ~accepted => guarded.ends /\ guarded.memory = Fresh
<1>1. CASE RegistryAccepts(Registry, CommonParams, v)
  <2> DEFINE o == ApplyOverrides(v, t.outcome)
             guarded == [t EXCEPT !.outcome = o]
  <2>1. Guarded(g, v, t) = guarded
    BY <1>1 DEF Guarded
  <2>2. o \in Outcome /\ Passed(o) = Passed(t.outcome)
    BY <1>1, TurnShape, OverridesTyped
  <2> HIDE DEF o
  <2>3. guarded.outcome = o /\ guarded.ends = t.ends /\ guarded.memory = t.memory
    BY DEF IsTurn, After, Resume
  <2> HIDE DEF guarded
  <2> QED
    BY <1>1, <2>1, <2>2, <2>3
<1>2. CASE ~RegistryAccepts(Registry, CommonParams, v)
  <2>1. Guarded(g, v, t) = After(Error, g)
    BY <1>2 DEF Guarded
  <2>2. Error \in Outcome
    BY DEF Error, Outcome, Verdicts, NoCategory
  <2> QED
    BY <1>2, <2>1, <2>2, TurnConstructors, Constructors
<1> QED
  BY <1>1, <1>2

(* What evaluate makes of a validator, before the registry and overrides.  *)
Found(g, v, m, fate) ==
  IF v.kind = "side_effect_exists" THEN side_effect_exists(g, v, m, fate)
  ELSE Dispatch(g, v, m, fate)

LEMMA EvaluateGuards ==
  ASSUME NEW g, NEW v, NEW m, m.turn \in Nat, m.right \in BOOLEAN, NEW fate, Counted(v)
  PROVE  LET t == Evaluate(g, v, m, fate)
             found == Found(g, v, m, fate)
             accepted == RegistryAccepts(Registry, CommonParams, v)
         IN  /\ t.outcome \in Outcome /\ IsTurn(found)
             /\ Passed(t.outcome) <=> accepted /\ Passed(found.outcome)
             /\ accepted => t.ends = found.ends /\ t.memory = found.memory
             /\ ~accepted => t.ends /\ t.memory = Fresh
             /\ \/ t.ends /\ t.memory = Fresh
                \/ ~t.ends /\ t.memory.turn \in Nat \ {0} /\ t.memory.right \in BOOLEAN
<1>1. Evaluate(g, v, m, fate) = Guarded(g, v, Found(g, v, m, fate))
  BY DEF Evaluate, EvaluateFlat, Found
<1>2. IsTurn(Found(g, v, m, fate))
  BY SideEffectTurn, DispatchTurn DEF Found
<1> DEFINE found == Found(g, v, m, fate)
           t == Evaluate(g, v, m, fate)
           accepted == RegistryAccepts(Registry, CommonParams, v)
<1>3. /\ t.outcome \in Outcome
      /\ Passed(t.outcome) <=> accepted /\ Passed(found.outcome)
      /\ accepted => t.ends = found.ends /\ t.memory = found.memory
      /\ ~accepted => t.ends /\ t.memory = Fresh
  <2>1. t = Guarded(g, v, found) /\ IsTurn(found)
    BY <1>1, <1>2
  <2> HIDE DEF found, t
  <2>2. t.outcome \in Outcome
    BY <2>1, GuardedTyped
  <2>3. Passed(t.outcome) <=> accepted /\ Passed(found.outcome)
    BY <2>1, GuardedTyped
  <2>4. accepted => t.ends = found.ends /\ t.memory = found.memory
    BY <2>1, GuardedTyped
  <2>5. ~accepted => t.ends /\ t.memory = Fresh
    BY <2>1, GuardedTyped
  <2> QED
    BY <2>2, <2>3, <2>4, <2>5
<1>4. \/ found.ends /\ found.memory = Fresh
      \/ ~found.ends /\ found.memory.turn \in Nat \ {0} /\ found.memory.right \in BOOLEAN
  BY <1>2, TurnShape
<1> HIDE DEF found, t, accepted
<1>5. \/ t.ends /\ t.memory = Fresh
      \/ ~t.ends /\ t.memory.turn \in Nat \ {0} /\ t.memory.right \in BOOLEAN
  BY <1>3, <1>4
<1> QED
  BY <1>2, <1>3, <1>5 DEF found, t, accepted

---------------------------------------------------------------------------
(* The request, from the first check to the answer.                        *)

(* The request is one of those that may be made, and is answered when      *)
(* every check was made.                                                   *)
RequestInv ==
  /\ \E s \in Start : task = s[2]
  /\ phase = "answered" => Len(outcomes) = Len(task)

(* A check that passed is one the registry knows, with parameters that it  *)
(* accepts.                                                                *)
AcceptInv ==
  \A i \in DOMAIN outcomes :
    Passed(outcomes[i]) => RegistryAccepts(Registry, CommonParams, task[i])

LEMMA NoOutcomes ==
  /\ <<>> \in Seq([verdict : Verdicts, weight : 1..100,
                   category : FailureCategory \cup {NoCategory}])
  /\ Len(<<>>) = 0 /\ DOMAIN <<>> = {}
OBVIOUS

LEMMA TaskShape ==
  ASSUME RequestInv
  PROVE  /\ Len(task) \in Nat /\ DOMAIN task = 1..Len(task)
         /\ \A i \in DOMAIN task : Counted(task[i])
BY StartAssumption DEF RequestInv, IsList

(* What a turn does when its tools fare so, and what it would have done    *)
(* had they all answered.                                                  *)
Next1 == Len(outcomes) + 1
Taken(fate) == Evaluate(guest, task[Next1], memory, fate)
Ideal == Taken(AllRun)

TurnBy(fate) ==
  /\ phase = "checking" /\ task' = task /\ phase' = phase /\ changes' = changes
  /\ Next1 \in DOMAIN task /\ Counted(task[Next1])
  /\ guest' = Taken(fate).guest /\ memory' = Taken(fate).memory
  /\ moved' = (moved \/ Taken(fate).guest # guest)
  /\ \/ /\ Taken(fate).ends
        /\ memory' = Fresh
        /\ Taken(fate).outcome \in Outcome
        /\ outcomes' = Append(outcomes, Taken(fate).outcome)
        /\ DOMAIN outcomes' = DOMAIN outcomes \cup {Next1}
        /\ Len(outcomes') = Next1
        /\ outcomes'[Next1] = Taken(fate).outcome
        /\ \A i \in DOMAIN outcomes : outcomes'[i] = outcomes[i]
        /\ agreed' = TRUE
        /\ witnessed' = IF agreed /\ Ideal.ends /\ Passed(Ideal.outcome)
                        THEN witnessed \cup {Next1} ELSE witnessed
     \/ /\ ~Taken(fate).ends
        /\ memory'.turn \in Nat \ {0} /\ memory'.right \in BOOLEAN
        /\ agreed' = (agreed /\ ~Ideal.ends /\ Ideal.memory = Taken(fate).memory)
        /\ outcomes' = outcomes /\ witnessed' = witnessed

LEMMA TurnMade ==
  ASSUME RequestInv, TypeOK, Turn
  PROVE  \E fate \in Fate : TurnBy(fate)
<1>1. Next1 \in DOMAIN task /\ Counted(task[Next1])
  BY TaskShape DEF TypeOK, Turn, Next1
<1>2. PICK fate \in Fate :
        /\ guest' = Taken(fate).guest
        /\ moved' = (moved \/ Taken(fate).guest # guest)
        /\ memory' = Taken(fate).memory
        /\ IF Taken(fate).ends
           THEN /\ outcomes' = Append(outcomes, Taken(fate).outcome)
                /\ agreed' = TRUE
                /\ witnessed' = IF agreed /\ Ideal.ends /\ Passed(Ideal.outcome)
                                THEN witnessed \cup {Next1} ELSE witnessed
           ELSE /\ agreed' = (agreed /\ ~Ideal.ends /\ Ideal.memory = Taken(fate).memory)
                /\ UNCHANGED <<outcomes, witnessed>>
  BY DEF Turn, Taken, Ideal, Next1
<1>3. /\ Taken(fate).outcome \in Outcome
      /\ \/ Taken(fate).ends /\ Taken(fate).memory = Fresh
         \/ /\ ~Taken(fate).ends /\ Taken(fate).memory.turn \in Nat \ {0}
            /\ Taken(fate).memory.right \in BOOLEAN
  <2>1. memory.turn \in Nat /\ memory.right \in BOOLEAN
    BY DEF TypeOK
  <2> DEFINE t == Evaluate(guest, task[Next1], memory, fate)
  <2>2. /\ t.outcome \in Outcome
        /\ \/ t.ends /\ t.memory = Fresh
           \/ ~t.ends /\ t.memory.turn \in Nat \ {0} /\ t.memory.right \in BOOLEAN
    BY <1>1, <2>1, EvaluateGuards
  <2> QED
    BY <2>2 DEF Taken
<1>4. task' = task /\ phase' = phase /\ phase = "checking" /\ changes' = changes
  BY DEF Turn
<1>5. outcomes \in Seq(Outcome)
  BY DEF TypeOK, Outcome
<1>6. CASE Taken(fate).ends
  <2> DEFINE o == Taken(fate).outcome
  <2>1. outcomes' = Append(outcomes, o) /\ o \in Outcome
    BY <1>2, <1>3, <1>6
  <2> HIDE DEF o
  <2>2. /\ DOMAIN outcomes' = DOMAIN outcomes \cup {Next1} /\ Len(outcomes') = Next1
        /\ outcomes'[Next1] = o
        /\ \A i \in DOMAIN outcomes : outcomes'[i] = outcomes[i]
    BY <1>5, <2>1 DEF Next1
  <2> QED
    BY <1>1, <1>2, <1>3, <1>4, <1>6, <2>1, <2>2 DEF TurnBy, o
<1>7. CASE ~Taken(fate).ends
  BY <1>1, <1>2, <1>3, <1>4, <1>7 DEF TurnBy
<1> QED
  BY <1>3, <1>6, <1>7

LEMMA RequestInductive ==
  ASSUME RequestInv, TypeOK, [Next]_vars
  PROVE  RequestInv'
BY DEF RequestInv, TypeOK, Next, vars, Validate, Turn, Learner, Answer

LEMMA TypeInductive ==
  ASSUME RequestInv, TypeOK, [Next]_vars
  PROVE  TypeOK'
<1>1. CASE Validate
  <2>1. /\ outcomes' = <<>> /\ Len(task') \in Nat /\ phase' = "checking"
        /\ witnessed' = {} /\ changes' = 0 /\ moved' = FALSE
        /\ memory' = memory /\ agreed' = agreed
    BY <1>1, TaskShape DEF Validate
  <2>2. outcomes' \in Seq([verdict : Verdicts, weight : 1..100,
                            category : FailureCategory \cup {NoCategory}])
    BY <2>1, NoOutcomes
  <2>3. Len(outcomes') <= Len(task')
    BY <2>1, NoOutcomes
  <2>4. witnessed' \subseteq DOMAIN task'
    BY <2>1
  <2>5. /\ phase' \in {"idle", "checking", "answered"}
        /\ changes' \in 0..MaxChanges
    BY <2>1, BoundAssumption
  <2>6. moved' \in BOOLEAN
    BY <2>1, Zenon
  <2>7. memory'.turn \in Nat /\ memory'.right \in BOOLEAN /\ agreed' \in BOOLEAN
    BY <2>1 DEF TypeOK
  <2> QED
    BY <2>2, <2>3, <2>4, <2>5, <2>6, <2>7 DEF TypeOK
<1>2. CASE Turn
  <2>1. PICK fate \in Fate : TurnBy(fate)
    BY <1>2, TurnMade
  <2>2. /\ phase' \in {"idle", "checking", "answered"} /\ changes' \in 0..MaxChanges
        /\ Len(task) \in Nat /\ DOMAIN task = 1..Len(task) /\ task' = task
        /\ witnessed \subseteq DOMAIN task /\ Next1 \in DOMAIN task
    BY <2>1, TaskShape DEF TurnBy, TypeOK
  <2>3. moved' \in BOOLEAN
    BY <2>1, Zenon DEF TurnBy
  <2>4. outcomes \in Seq(Outcome) /\ Len(outcomes) <= Len(task)
    BY DEF TypeOK, Outcome
  <2>5. CASE Taken(fate).ends
    <3> DEFINE o == Taken(fate).outcome
    <3>1. /\ outcomes' = Append(outcomes, o) /\ o \in Outcome /\ Len(outcomes') = Next1
          /\ memory' = Fresh /\ agreed' = TRUE
          /\ witnessed' \in {witnessed, witnessed \cup {Next1}}
      BY <2>1, <2>5 DEF TurnBy
    <3> HIDE DEF o
    <3>2. outcomes' \in Seq(Outcome) /\ Len(outcomes') <= Len(task')
      BY <2>2, <2>4, <3>1
    <3>3. memory'.turn \in Nat /\ memory'.right \in BOOLEAN /\ agreed' \in BOOLEAN
      BY <3>1, TurnConstructors
    <3> QED
      BY <2>2, <2>3, <3>1, <3>2, <3>3 DEF TypeOK, Outcome
  <2>6. CASE ~Taken(fate).ends
    <3>1. /\ outcomes' = outcomes /\ witnessed' = witnessed
          /\ memory'.turn \in Nat /\ memory'.right \in BOOLEAN
      BY <2>1, <2>6 DEF TurnBy
    <3>2. agreed' \in BOOLEAN
      BY <2>1, <2>6, Zenon DEF TurnBy
    <3> QED
      BY <2>2, <2>3, <2>4, <3>1, <3>2 DEF TypeOK, Outcome
  <2> QED
    BY <2>1, <2>5, <2>6 DEF TurnBy
<1>3. CASE Learner
  BY <1>3, BoundAssumption DEF TypeOK, Learner
<1>4. CASE Answer
  BY <1>4 DEF TypeOK, Answer
<1>5. CASE UNCHANGED vars
  BY <1>5 DEF TypeOK, vars
<1> QED
  BY <1>1, <1>2, <1>3, <1>4, <1>5 DEF Next

LEMMA TypeInitially ==
  ASSUME Init
  PROVE  RequestInv /\ TypeOK
<1>1. RequestInv
  BY DEF Init, RequestInv
<1>2. Len(task) \in Nat
  BY <1>1, TaskShape
<1>3. outcomes \in Seq([verdict : Verdicts, weight : 1..100,
                         category : FailureCategory \cup {NoCategory}])
  BY NoOutcomes DEF Init
<1>4. Len(outcomes) <= Len(task)
  BY <1>2, NoOutcomes DEF Init
<1>5. witnessed \subseteq DOMAIN task
  BY DEF Init
<1>6. phase \in {"idle", "checking", "answered"} /\ changes \in 0..MaxChanges
  BY BoundAssumption DEF Init
<1>7. moved \in BOOLEAN /\ agreed \in BOOLEAN
  BY Zenon DEF Init
<1>8. memory.turn \in Nat /\ memory.right \in BOOLEAN
  BY TurnConstructors DEF Init
<1> QED
  BY <1>1, <1>3, <1>4, <1>5, <1>6, <1>7, <1>8 DEF TypeOK

(* Every state of a validation is well formed, whatever the guest, the     *)
(* learner and the tools do: each outcome has a verdict, one of the        *)
(* categories there are, be it the author's, and a weight of 1 to 100      *)
(* (validators/mod.rs evaluate and dispatch, args.rs apply_overrides).     *)
THEOREM OutcomesAreTyped == Spec => []TypeOK
<1>1. Init => RequestInv /\ TypeOK
  BY TypeInitially
<1>2. RequestInv /\ TypeOK /\ [Next]_vars => (RequestInv /\ TypeOK)'
  BY RequestInductive, TypeInductive
<1> QED
  BY <1>1, <1>2, PTL DEF Spec

LEMMA AcceptInductive ==
  ASSUME RequestInv, TypeOK, AcceptInv, [Next]_vars
  PROVE  AcceptInv'
<1>1. CASE Validate
  BY <1>1 DEF AcceptInv, Validate
<1>2. CASE Turn
  <2>1. PICK fate \in Fate : TurnBy(fate)
    BY <1>2, TurnMade
  <2>2. Passed(Taken(fate).outcome) => RegistryAccepts(Registry, CommonParams, task[Next1])
    <3>1. memory.turn \in Nat /\ memory.right \in BOOLEAN /\ Counted(task[Next1])
      BY <2>1 DEF TurnBy, TypeOK
    <3> QED
      BY <3>1, EvaluateGuards DEF Taken
  <2> QED
    BY <2>1, <2>2 DEF AcceptInv, TurnBy
<1>3. CASE Learner \/ Answer \/ UNCHANGED vars
  BY <1>3 DEF AcceptInv, Learner, Answer, vars
<1> QED
  BY <1>1, <1>2, <1>3 DEF Next

(* A task with a validator the agent does not have, or with parameters the *)
(* registry refuses, nested or not, is never passed: whatever the guest    *)
(* is, whatever the tools do and however the learner works meanwhile.      *)
(* From AcceptInv: an answer reports every check, and only what the        *)
(* registry accepts can have passed (validators/mod.rs evaluate).          *)
THEOREM UnknownNeverPasses == Spec => []UnknownNeverCompletes
<1> DEFINE Inv == RequestInv /\ TypeOK /\ AcceptInv
<1>1. Init => Inv
  BY TypeInitially, NoOutcomes DEF Init, AcceptInv
<1>2. Inv /\ [Next]_vars => Inv'
  BY RequestInductive, TypeInductive, AcceptInductive
<1>3. Inv => UnknownNeverCompletes
  <2> SUFFICES ASSUME Inv, phase = "answered", AllPassed(outcomes)
               PROVE  \A i \in DOMAIN task : RegistryAccepts(Registry, CommonParams, task[i])
    BY DEF UnknownNeverCompletes, RegistryAccepts
  <2>1. DOMAIN outcomes = DOMAIN task
    BY TaskShape DEF RequestInv, TypeOK
  <2> QED
    BY <2>1 DEF AcceptInv, AllPassed
<1> QED
  BY <1>1, <1>2, <1>3, PTL DEF Spec

---------------------------------------------------------------------------
(* What the checks with an opposite find when they pass.                   *)

(* None of them is a script or a command, and each is made in one turn.    *)
LEMMA FoundByFamily ==
  ASSUME NEW g, NEW v, NEW m, NEW fate
  PROVE  LET o == Found(g, v, m, fate).outcome
         IN  /\ v.kind \in FileKinds => o = FileCheck(g, v, fate, SubjectUser)
             /\ v.kind \in ProcessKinds => o = ProcessCheck(g, v, SubjectUser)
             /\ v.kind \in SystemKinds => o = SystemCheck(g, v, fate)
             /\ v.kind \in IdentityKinds => o = IdentityCheck(g, v, fate)
<1>1. v.kind \in FileKinds \cup ProcessKinds \cup SystemKinds \cup IdentityKinds
        => Found(g, v, m, fate) = Dispatch(g, v, m, fate)
  BY DEF Found, FileKinds, ProcessKinds, SystemKinds, IdentityKinds
<1> QED
  BY <1>1, DispatchByFamily, TurnConstructors

LEMMA PathsFound ==
  ASSUME NEW g, NEW v, NEW m, NEW fate, Passed(Found(g, v, m, fate).outcome)
  PROVE  /\ v.kind = "file_exists" => Stat(g, v.path).kind = "regular"
         /\ v.kind = "file_missing" => Lstat(g, v.path).kind = "none"
         /\ v.kind = "directory_exists" => Stat(g, v.path).kind = "directory"
<1>1. CASE v.kind = "file_exists"
  <2>1. Found(g, v, m, fate).outcome = file_exists(g, v)
    BY <1>1, FoundByFamily DEF FileCheck, FileKinds
  <2> QED
    BY <1>1, <2>1, Constructors DEF file_exists
<1>2. CASE v.kind = "file_missing"
  <2>1. Found(g, v, m, fate).outcome = file_missing(g, v)
    BY <1>2, FoundByFamily DEF FileCheck, FileKinds
  <2> QED
    BY <1>2, <2>1, Constructors DEF file_missing, PassIf, Exists
<1>3. CASE v.kind = "directory_exists"
  <2>1. Found(g, v, m, fate).outcome = directory_exists(g, v)
    BY <1>3, FoundByFamily DEF FileCheck, FileKinds
  <2> QED
    BY <1>3, <2>1, Constructors DEF directory_exists
<1> QED
  BY <1>1, <1>2, <1>3

LEMMA ProcessesFound ==
  ASSUME NEW g, NEW v, NEW m, NEW fate, Counted(v), Passed(Found(g, v, m, fate).outcome)
  PROVE  /\ v.kind = "process_running" => Matching(g, v.pattern) # {}
         /\ v.kind = "process_not_running" => Matching(g, v.pattern) = {}
<1>1. CASE v.kind = "process_running"
  <2> DEFINE found == {p \in Matching(g, v.pattern) :
                         Given(v, "owner") => p.uid = Account(g, v["owner"]).uid}
             minimum == Param(v, "minCount", 1)
             required == IF minimum < 1 THEN 1 ELSE minimum
  <2>1. Found(g, v, m, fate).outcome = process_running(g, v)
    BY <1>1, FoundByFamily DEF ProcessCheck, ProcessKinds
  <2>2. Cardinality(found) >= required
    BY <2>1, Constructors DEF process_running, Compiled, PassIf
  <2>3. minimum \in Int
    BY DEF Param, Counted
  <2>4. found # {}
    <3> SUFFICES ASSUME found = {} PROVE FALSE
      OBVIOUS
    <3>1. Cardinality(found) = 0
      BY FS_EmptySet
    <3> HIDE DEF found, minimum
    <3> QED
      BY <2>2, <2>3, <3>1
  <2> QED
    BY <1>1, <2>4
<1>2. CASE v.kind = "process_not_running"
  <2>1. Found(g, v, m, fate).outcome = process_not_running(g, v)
    BY <1>2, FoundByFamily DEF ProcessCheck, ProcessKinds
  <2> QED
    BY <1>2, <2>1, Constructors DEF process_not_running, Compiled, PassIf
<1> QED
  BY <1>1, <1>2

(* How the tools may fare, and that they may all answer.                   *)
Ways == {fate \in [Program -> Fates] : \A p \in Shells : fate[p] # "complains"}

LEMMA FatesAreWays == Fate \subseteq Ways /\ AllRun \in Ways
<1>1. Shells \subseteq Program
  BY ProgramAssumption DEF Shells
<1> QED
  BY <1>1, FateAssumption DEF Ways, AllRun, Fates

(* What a tool leaves to be read when it did not answer. *)
LEMMA RunOutcomes ==
  ASSUME NEW fate \in Ways, NEW p \in Program, NEW output
  PROVE  LET run == Run(fate, p, output)
         IN  \/ run = output
             \/ run.out = {} /\ run.timedOut
             \/ run.out = {} /\ ~run.spawned
             \/ run.out = {} /\ run.err = {"complaint"} /\ fate # AllRun
<1>1. \/ Run(fate, p, output) \in {output, TimedOut, NotSpawned}
      \/ Run(fate, p, output) = Complaint /\ fate # AllRun
  BY DEF Run, Fates, Ways, AllRun
<1>2. TimedOut.out = {} /\ TimedOut.timedOut /\ NotSpawned.out = {} /\ ~NotSpawned.spawned
  BY DEF TimedOut, NotSpawned
<1>3. Complaint.out = {} /\ Complaint.err = {"complaint"}
  BY DEF Complaint, Exit
<1> QED
  BY <1>1, <1>2, <1>3

(* A word that systemctl prints is read as the state, so the positive one  *)
(* is found only where it is the state; any other also of a complaint.     *)
LEMMA StateFound ==
  ASSUME NEW g, NEW v, NEW fate \in Ways, NEW subcommand, NEW positive, NEW want \in BOOLEAN,
         positive # "complaint", want \/ fate = AllRun,
         Passed(ServiceState(g, v, fate, subcommand, positive, want))
  PROVE  LET answer == Systemctl(g, subcommand, v.unit)
             state == IF answer.out = {} THEN answer.err ELSE answer.out
         IN  want <=> state = {positive}
<1> DEFINE answer == Systemctl(g, subcommand, v.unit)
           output == Run(fate, "systemctl", answer)
           state == IF output.out = {} THEN output.err ELSE output.out
<1>1. output.spawned /\ ~output.timedOut /\ ((state = {positive}) = want)
  BY Constructors DEF ServiceState, PassIf
<1>2. output = answer
  <2>1. \/ output = answer \/ output.timedOut \/ ~output.spawned
        \/ output.out = {} /\ output.err = {"complaint"} /\ fate # AllRun
    BY RunOutcomes, ProgramAssumption
  <2> QED
    BY <1>1, <2>1
<1> HIDE DEF answer, output
<1> QED
  BY <1>1, <1>2 DEF answer

LEMMA UnitsFound ==
  ASSUME NEW g, NEW v, NEW m, NEW fate \in Ways, Passed(Found(g, v, m, fate).outcome)
  PROVE  LET u == g.unit[v.unit]
         IN  /\ v.kind = "service_active" => u.active = "active"
             /\ v.kind = "service_inactive" /\ fate = AllRun => u.active # "active"
             /\ v.kind = "service_enabled" => u.file = "enabled"
             /\ v.kind = "service_disabled" /\ fate = AllRun => u.file # "enabled"
             /\ v.kind = "service_failed" => u.active = "failed"
<1> DEFINE u == g.unit[v.unit]
           Shows(subcommand) ==
             LET answer == Systemctl(g, subcommand, v.unit)
             IN  IF answer.out = {} THEN answer.err ELSE answer.out
<1>1. Shows("is-active") = {u.active}
  BY DEF Systemctl, Exit
<1>2. (Shows("is-enabled") = {"enabled"}) <=> u.file = "enabled"
  <2>1. CASE u.file = "missing"
    BY <2>1 DEF Systemctl, Exit
  <2>2. CASE u.file # "missing"
    BY <2>2 DEF Systemctl, Exit
  <2> QED
    BY <2>1, <2>2
<1>3. CASE v.kind = "service_active"
  <2>1. Passed(ServiceState(g, v, fate, "is-active", "active", TRUE))
    BY <1>3, FoundByFamily DEF SystemCheck, SystemKinds, service_active
  <2>2. Shows("is-active") = {"active"}
    BY <2>1, StateFound
  <2> QED
    BY <1>1, <1>3, <2>2
<1>4. CASE v.kind = "service_inactive" /\ fate = AllRun
  <2>1. Passed(ServiceState(g, v, fate, "is-active", "active", FALSE))
    BY <1>4, FoundByFamily DEF SystemCheck, SystemKinds, service_inactive
  <2>2. Shows("is-active") # {"active"}
    <3>1. PICK no \in BOOLEAN : no = FALSE
      OBVIOUS
    <3>2. Passed(ServiceState(g, v, fate, "is-active", "active", no))
      BY <2>1, <3>1
    <3>3. (no \/ fate = AllRun) /\ "active" # "complaint"
      BY <1>4
    <3>4. no <=> Shows("is-active") = {"active"}
      BY <3>2, <3>3, StateFound
    <3> QED
      BY <3>1, <3>4
  <2> QED
    BY <1>1, <1>4, <2>2
<1>5. CASE v.kind = "service_enabled"
  <2>1. Passed(ServiceState(g, v, fate, "is-enabled", "enabled", TRUE))
    BY <1>5, FoundByFamily DEF SystemCheck, SystemKinds, service_enabled
  <2>2. Shows("is-enabled") = {"enabled"}
    BY <2>1, StateFound
  <2> QED
    BY <1>2, <1>5, <2>2
<1>6. CASE v.kind = "service_disabled" /\ fate = AllRun
  <2>1. Passed(ServiceState(g, v, fate, "is-enabled", "enabled", FALSE))
    BY <1>6, FoundByFamily DEF SystemCheck, SystemKinds, service_disabled
  <2>2. Shows("is-enabled") # {"enabled"}
    <3>1. PICK no \in BOOLEAN : no = FALSE
      OBVIOUS
    <3>2. Passed(ServiceState(g, v, fate, "is-enabled", "enabled", no))
      BY <2>1, <3>1
    <3>3. (no \/ fate = AllRun) /\ "enabled" # "complaint"
      BY <1>6
    <3>4. no <=> Shows("is-enabled") = {"enabled"}
      BY <3>2, <3>3, StateFound
    <3> QED
      BY <3>1, <3>4
  <2> QED
    BY <1>2, <1>6, <2>2
<1>7. CASE v.kind = "service_failed"
  <2> DEFINE answer == Exit(0, {u.active}, {})
             output == Run(fate, "systemctl", answer)
  <2>1. Found(g, v, m, fate).outcome = service_failed(g, v, fate)
    BY <1>7, FoundByFamily DEF SystemCheck, SystemKinds
  <2>2. output.out = {"failed"}
    BY <2>1, Constructors DEF service_failed, PassIf
  <2>3. output = answer \/ output.out = {}
    BY RunOutcomes, ProgramAssumption
  <2>4. output = answer
    BY <2>2, <2>3
  <2>5. answer.out = {u.active}
    BY DEF Exit
  <2> HIDE DEF answer, output
  <2> QED
    BY <1>7, <2>2, <2>4, <2>5
<1> QED
  BY <1>3, <1>4, <1>5, <1>6, <1>7

LEMMA UsersFound ==
  ASSUME NEW g, NEW v, NEW m, NEW fate, Passed(Found(g, v, m, fate).outcome)
  PROVE  /\ v.kind = "user_exists" => HasUser(g, v.user)
         /\ v.kind = "user_missing" => ~HasUser(g, v.user)
<1>1. CASE v.kind = "user_exists"
  <2>1. Found(g, v, m, fate).outcome = user_exists(g, v)
    BY <1>1, FoundByFamily DEF IdentityCheck, IdentityKinds
  <2> QED
    BY <1>1, <2>1, Constructors DEF user_exists, WithPasswd, PassIf
<1>2. CASE v.kind = "user_missing"
  <2>1. Found(g, v, m, fate).outcome = user_missing(g, v)
    BY <1>2, FoundByFamily DEF IdentityCheck, IdentityKinds
  <2> QED
    BY <1>2, <2>1, Constructors DEF user_missing, WithPasswd, PassIf
<1> QED
  BY <1>1, <1>2

(* What stat finds at a path lstat finds there too. *)
StatSound(g, v) == Given(v, "path") => (Exists(Stat(g, v.path)) => Exists(Lstat(g, v.path)))

(* The registry makes every check with an opposite say what it is about. *)
LEMMA SubjectRequired ==
  ASSUME NEW v, RegistryAccepts(Registry, CommonParams, v)
  PROVE  /\ v.kind \in {"file_exists", "file_missing", "directory_exists"} => "path" \in DOMAIN v
         /\ v.kind \in {"process_running", "process_not_running"} => "pattern" \in DOMAIN v
         /\ v.kind \in {"service_active", "service_inactive", "service_enabled",
                        "service_disabled", "service_failed"} => "unit" \in DOMAIN v
         /\ v.kind \in {"user_exists", "user_missing"} => "user" \in DOMAIN v
BY RegistryAssumption DEF RegistryAccepts, EntryAccepts

(* On one guest a check and its opposite never both pass, whatever became  *)
(* of the tools that each of them ran, unless the opposite is blind and    *)
(* its tool did not answer.                                                *)
LEMMA OpposedDisagree ==
  ASSUME NEW g, NEW v, NEW w, NEW m1, NEW m2, NEW f1 \in Ways, NEW f2 \in Ways,
         ~BlindAlone(w) \/ f2 = AllRun,
         Opposed(v, w), Counted(v), Counted(w), StatSound(g, v),
         RegistryAccepts(Registry, CommonParams, v), RegistryAccepts(Registry, CommonParams, w),
         Passed(Found(g, v, m1, f1).outcome), Passed(Found(g, w, m2, f2).outcome)
  PROVE  FALSE
<1>1. <<v.kind, w.kind>> \in OpposedKinds
      /\ \A p \in Subject \cap DOMAIN v \cap DOMAIN w : v[p] = w[p]
  BY DEF Opposed
<1>2. CASE v.kind \in {"file_exists", "directory_exists"}
  <2>1. w.kind \in {"file_missing", "directory_exists"} /\ w.kind # v.kind
    BY <1>1, <1>2 DEF OpposedKinds
  <2>2. "path" \in DOMAIN v /\ v.path = w.path
    BY <1>1, <1>2, <2>1, SubjectRequired DEF Subject
  <2>3. Stat(g, v.path).kind = IF v.kind = "file_exists" THEN "regular" ELSE "directory"
    BY <1>2, PathsFound
  <2>4. Lstat(g, v.path).kind # "none"
    BY <1>2, <2>2, <2>3 DEF StatSound, Given, Exists
  <2>5. CASE w.kind = "file_missing"
    BY <2>2, <2>4, <2>5, PathsFound
  <2>6. CASE w.kind = "directory_exists"
    <3>1. Stat(g, v.path).kind = "directory"
      BY <2>2, <2>6, PathsFound
    <3> QED
      BY <1>2, <2>1, <2>3, <2>6, <3>1
  <2> QED
    BY <2>1, <2>5, <2>6
<1>3. CASE v.kind = "process_running"
  <2>1. w.kind = "process_not_running"
    BY <1>1, <1>3 DEF OpposedKinds
  <2>2. v.pattern = w.pattern
    BY <1>1, <1>3, <2>1, SubjectRequired DEF Subject
  <2> QED
    BY <1>3, <2>1, <2>2, ProcessesFound
<1>4. CASE v.kind \in {"service_active", "service_enabled"}
  <2>1. /\ v.kind = "service_active" => w.kind \in {"service_inactive", "service_failed"}
        /\ v.kind = "service_enabled" => w.kind = "service_disabled"
    BY <1>1, <1>4 DEF OpposedKinds
  <2>2. v.unit = w.unit
    BY <1>1, <1>4, <2>1, SubjectRequired DEF Subject
  <2> DEFINE u == g.unit[v.unit]
  <2>3. /\ v.kind = "service_active" => u.active = "active"
        /\ v.kind = "service_enabled" => u.file = "enabled"
    BY UnitsFound
  <2>4. /\ w.kind = "service_inactive" => u.active # "active"
        /\ w.kind = "service_disabled" => u.file # "enabled"
        /\ w.kind = "service_failed" => u.active = "failed"
    <3>1. w.kind \in {"service_inactive", "service_disabled"} => f2 = AllRun
      BY DEF BlindAlone
    <3> QED
      BY <2>2, <3>1, UnitsFound
  <2> QED
    BY <1>4, <2>1, <2>3, <2>4
<1>5. CASE v.kind = "user_exists"
  <2>1. w.kind = "user_missing"
    BY <1>1, <1>5 DEF OpposedKinds
  <2>2. v.user = w.user
    BY <1>1, <1>5, <2>1, SubjectRequired DEF Subject
  <2> QED
    BY <1>5, <2>1, <2>2, UsersFound
<1> QED
  BY <1>1, <1>2, <1>3, <1>4, <1>5 DEF OpposedKinds

---------------------------------------------------------------------------
(* A request during which nothing moved was checked on one guest.          *)

(* The kernel's: what stat finds at the path of a check lstat finds too.   *)
PathsAreSound == \A i \in DOMAIN task : StatSound(guest, task[i])

(* g is the guest that every check of the request was made on, and on      *)
(* which those that were witnessed would have passed.                      *)
CheckedOn(g) ==
  /\ \A i \in DOMAIN task : StatSound(g, task[i])
  /\ phase = "checking" => g = guest
  /\ \A i \in DOMAIN outcomes : \E fate \in Fate : \E m :
       /\ m.turn \in Nat /\ m.right \in BOOLEAN
       /\ outcomes[i] = Evaluate(g, task[i], m, fate).outcome
  /\ \A i \in witnessed : \E m :
       /\ m.turn \in Nat /\ m.right \in BOOLEAN
       /\ Passed(Evaluate(g, task[i], m, AllRun).outcome)

OneGuestInv == ~moved => \E g : CheckedOn(g)

LEMMA OneGuestInductive ==
  ASSUME RequestInv, TypeOK, OneGuestInv, PathsAreSound, [Next]_vars
  PROVE  OneGuestInv'
<1>1. CASE Validate
  <2>1. outcomes' = <<>> /\ guest' = guest /\ task' = task /\ witnessed' = {}
    BY <1>1 DEF Validate
  <2>2. DOMAIN outcomes' = {}
    BY <2>1, NoOutcomes
  <2>3. CheckedOn(guest)'
    BY <2>1, <2>2 DEF CheckedOn, PathsAreSound
  <2> QED
    BY <2>1, <2>3 DEF OneGuestInv
<1>2. CASE Turn
  <2> SUFFICES ASSUME ~moved' PROVE \E g : CheckedOn(g)'
    BY DEF OneGuestInv
  <2>1. PICK fate \in Fate : TurnBy(fate)
    BY <1>2, TurnMade
  <2>2. /\ guest' = guest /\ ~moved /\ phase = "checking" /\ phase' = phase /\ task' = task
        /\ memory.turn \in Nat /\ memory.right \in BOOLEAN
    BY <2>1 DEF TurnBy, TypeOK
  <2>3. CheckedOn(guest)
    BY <2>2 DEF OneGuestInv, CheckedOn
  <2>4. CASE Taken(fate).ends
    <3>1. /\ DOMAIN outcomes' = DOMAIN outcomes \cup {Next1}
          /\ outcomes'[Next1] = Evaluate(guest, task[Next1], memory, fate).outcome
          /\ \A i \in DOMAIN outcomes : outcomes'[i] = outcomes[i]
          /\ \A i \in witnessed' :
               \/ i \in witnessed
               \/ i = Next1 /\ Passed(Evaluate(guest, task[Next1], memory, AllRun).outcome)
      BY <2>1, <2>4 DEF TurnBy, Taken, Ideal
    <3>2. ASSUME NEW i \in DOMAIN outcomes'
          PROVE  \E f \in Fate : \E m :
                   /\ m.turn \in Nat /\ m.right \in BOOLEAN
                   /\ outcomes'[i] = Evaluate(guest, task[i], m, f).outcome
      <4>1. CASE i \in DOMAIN outcomes
        BY <2>3, <3>1, <4>1 DEF CheckedOn
      <4>2. CASE i = Next1
        BY <2>2, <3>1, <4>2
      <4> QED
        BY <3>1, <4>1, <4>2
    <3>3. ASSUME NEW i \in witnessed'
          PROVE  \E m : /\ m.turn \in Nat /\ m.right \in BOOLEAN
                        /\ Passed(Evaluate(guest, task[i], m, AllRun).outcome)
      <4>1. CASE i \in witnessed
        BY <2>3, <4>1 DEF CheckedOn
      <4>2. CASE i = Next1 /\ Passed(Evaluate(guest, task[Next1], memory, AllRun).outcome)
        BY <2>2, <4>2
      <4> QED
        BY <3>1, <4>1, <4>2
    <3>4. CheckedOn(guest)'
      BY <2>2, <2>3, <3>2, <3>3 DEF CheckedOn
    <3> QED
      BY <2>2, <3>4
  <2>5. CASE ~Taken(fate).ends
    <3>1. outcomes' = outcomes /\ witnessed' = witnessed
      BY <2>1, <2>5 DEF TurnBy
    <3>2. CheckedOn(guest)'
      BY <2>2, <2>3, <3>1 DEF CheckedOn
    <3> QED
      BY <2>2, <3>2
  <2> QED
    BY <2>4, <2>5
<1>3. CASE Learner
  <2>1. CASE phase = "checking"
    BY <1>3, <2>1 DEF Learner, OneGuestInv
  <2>2. CASE phase # "checking"
    <3>1. /\ task' = task /\ outcomes' = outcomes /\ phase' = phase
          /\ witnessed' = witnessed /\ (~moved' => ~moved)
      BY <1>3 DEF Learner
    <3>2. ASSUME NEW g, CheckedOn(g)
          PROVE  CheckedOn(g)'
      BY <2>2, <3>1, <3>2 DEF CheckedOn
    <3> QED
      BY <3>1, <3>2, Zenon DEF OneGuestInv
  <2> QED
    BY <2>1, <2>2
<1>4. CASE Answer \/ UNCHANGED vars
  <2>1. /\ task' = task /\ outcomes' = outcomes /\ guest' = guest /\ moved' = moved
        /\ witnessed' = witnessed /\ phase' \in {phase, "answered"}
    BY <1>4 DEF Answer, vars
  <2>2. \A g : CheckedOn(g) => CheckedOn(g)'
    BY <2>1 DEF CheckedOn
  <2> QED
    BY <2>1, <2>2 DEF OneGuestInv
<1> QED
  BY <1>1, <1>2, <1>3, <1>4 DEF Next

(* A task that asks for a thing and for its opposite never passes unless   *)
(* the guest moved during the request, or the opposite is one of the blind *)
(* checks and the systemctl it asked did not answer: but for that the      *)
(* eight pairs disagree on any one guest whatever became of the tools      *)
(* (OpposedDisagree), and a request in which nothing moved was checked on  *)
(* one (OneGuestInv).  That stat finds nothing where lstat finds nothing   *)
(* is the kernel's part (filesystem.rs, process.rs, service.rs,            *)
(* identity.rs).                                                           *)
THEOREM OppositesNeedAChange == Spec /\ []PathsAreSound => []OpposedNeedsChange
<1> DEFINE Inv == RequestInv /\ TypeOK /\ AcceptInv /\ OneGuestInv
<1>1. Init /\ PathsAreSound => Inv
  <2> SUFFICES ASSUME Init, PathsAreSound PROVE Inv
    OBVIOUS
  <2>1. RequestInv /\ TypeOK
    BY TypeInitially
  <2>2. outcomes = <<>> /\ DOMAIN outcomes = {} /\ witnessed = {}
    BY NoOutcomes DEF Init
  <2>3. CheckedOn(guest)
    BY <2>2 DEF CheckedOn, PathsAreSound
  <2> QED
    BY <2>1, <2>2, <2>3 DEF AcceptInv, OneGuestInv
<1>2. Inv /\ PathsAreSound /\ [Next]_vars => Inv'
  BY RequestInductive, TypeInductive, AcceptInductive, OneGuestInductive
<1>3. Inv => OpposedNeedsChange
  <2> SUFFICES ASSUME Inv, phase = "answered", AllPassed(outcomes), ~moved,
                      NEW i \in DOMAIN task, NEW j \in DOMAIN task, Opposed(task[i], task[j]),
                      ~BlindAlone(task[j]) \/ j \in witnessed
               PROVE  FALSE
    BY DEF OpposedNeedsChange
  <2>1. DOMAIN outcomes = DOMAIN task
    BY TaskShape DEF RequestInv, TypeOK
  <2>2. PICK g : CheckedOn(g)
    BY DEF OneGuestInv
  <2>3. ASSUME NEW k \in DOMAIN task
        PROVE  /\ Counted(task[k]) /\ StatSound(g, task[k])
               /\ RegistryAccepts(Registry, CommonParams, task[k])
               /\ \E f \in Ways : \E m : Passed(Found(g, task[k], m, f).outcome)
    <3>1. Passed(outcomes[k]) /\ Counted(task[k])
      BY <2>1, TaskShape DEF AllPassed
    <3>2. PICK f \in Fate : \E m :
            /\ m.turn \in Nat /\ m.right \in BOOLEAN
            /\ outcomes[k] = Evaluate(g, task[k], m, f).outcome
      BY <2>1, <2>2 DEF CheckedOn
    <3>3. PICK m : /\ m.turn \in Nat /\ m.right \in BOOLEAN
                   /\ outcomes[k] = Evaluate(g, task[k], m, f).outcome
      BY <3>2
    <3>4. Passed(Evaluate(g, task[k], m, f).outcome)
      BY <3>1, <3>3
    <3>5. RegistryAccepts(Registry, CommonParams, task[k]) /\ Passed(Found(g, task[k], m, f).outcome)
      BY <3>1, <3>3, <3>4, EvaluateGuards
    <3> QED
      BY <2>2, <3>1, <3>5, FatesAreWays DEF CheckedOn
  <2>4. ASSUME j \in witnessed
        PROVE  \E m : Passed(Found(g, task[j], m, AllRun).outcome)
    <3>1. PICK m : /\ m.turn \in Nat /\ m.right \in BOOLEAN
                   /\ Passed(Evaluate(g, task[j], m, AllRun).outcome)
      BY <2>2, <2>4 DEF CheckedOn
    <3>2. Passed(Found(g, task[j], m, AllRun).outcome)
      BY <2>3, <3>1, EvaluateGuards
    <3> QED
      BY <3>2
  <2>5. PICK f1 \in Ways : \E m : Passed(Found(g, task[i], m, f1).outcome)
    BY <2>3
  <2>6. \E f2 \in Ways : /\ ~BlindAlone(task[j]) \/ f2 = AllRun
                         /\ \E m : Passed(Found(g, task[j], m, f2).outcome)
    BY <2>3, <2>4, FatesAreWays
  <2> QED
    BY <2>3, <2>5, <2>6, OpposedDisagree
<1> QED
  BY <1>1, <1>2, <1>3, PTL DEF Spec

---------------------------------------------------------------------------
(* A tool that did not answer: each check that passes passes also where    *)
(* every tool answers.                                                     *)

LEMMA RunsAll ==
  ASSUME NEW p \in Program
  PROVE  AllRun[p] = "runs" /\ \A output : Run(AllRun, p, output) = output
BY DEF AllRun, Run

LEMMA RunFails ==
  ASSUME NEW fate \in Ways, NEW p \in Program, NEW output
  PROVE  LET run == Run(fate, p, output)
         IN  run = Run(AllRun, p, output) \/ (~Success(run) /\ run.out = {})
<1>1. Run(fate, p, output) \in {output, TimedOut, NotSpawned, Complaint}
  BY DEF Run, Fates, Ways
<1>2. /\ ~Success(TimedOut) /\ TimedOut.out = {}
      /\ ~Success(NotSpawned) /\ NotSpawned.out = {}
  BY DEF TimedOut, NotSpawned, Success
<1>3. ~Success(Complaint) /\ Complaint.out = {}
  BY DEF Complaint, Exit, Success
<1>4. output = Run(AllRun, p, output)
  BY RunsAll
<1> QED
  BY <1>1, <1>2, <1>4, <1>3

LEMMA FileWitness ==
  ASSUME NEW g, NEW v, NEW fate \in Ways, NEW user, v.kind \in FileKinds,
         Passed(FileCheck(g, v, fate, user))
  PROVE  Passed(FileCheck(g, v, AllRun, user))
<1>1. CASE v.kind = "file_checksum"
  <2> DEFINE readable == Stat(g, v.path).kind \notin {"none", "directory"}
             answer == IF readable THEN Exit(0, {Stat(g, v.path).digest}, {})
                       ELSE Exit(1, {}, {"no such file"})
             output == Run(fate, "sha256sum", answer)
  <2>1. Passed(file_checksum(g, v, fate))
    BY <1>1 DEF FileCheck
  <2>2. Success(output)
    BY <2>1, Constructors DEF file_checksum
  <2>3. output = Run(AllRun, "sha256sum", answer)
    BY <2>2, RunFails, ProgramAssumption
  <2>4. file_checksum(g, v, AllRun) = file_checksum(g, v, fate)
    BY <2>3 DEF file_checksum
  <2> QED
    BY <1>1, <2>1, <2>4 DEF FileCheck
<1>2. CASE v.kind # "file_checksum"
  <2>1. FileCheck(g, v, AllRun, user) = FileCheck(g, v, fate, user)
    BY <1>2 DEF FileCheck, FileKinds
  <2> QED
    BY <2>1
<1> QED
  BY <1>1, <1>2

LEMMA StateWitness ==
  ASSUME NEW g, NEW v, NEW fate \in Ways, NEW subcommand, NEW positive, positive # "complaint",
         Passed(ServiceState(g, v, fate, subcommand, positive, TRUE))
  PROVE  Passed(ServiceState(g, v, AllRun, subcommand, positive, TRUE))
<1> DEFINE answer == Systemctl(g, subcommand, v.unit)
           output == Run(fate, "systemctl", answer)
           state == IF output.out = {} THEN output.err ELSE output.out
<1>1. output.spawned /\ ~output.timedOut /\ state = {positive}
  BY Constructors DEF ServiceState, PassIf
<1>2. output = answer
  <2>1. \/ output = answer \/ output.timedOut \/ ~output.spawned
        \/ output.out = {} /\ output.err = {"complaint"}
    BY RunOutcomes, ProgramAssumption
  <2> QED
    BY <1>1, <2>1
<1>3. output = Run(AllRun, "systemctl", answer)
  BY <1>2, RunsAll, ProgramAssumption
<1>4. ServiceState(g, v, AllRun, subcommand, positive, TRUE)
        = ServiceState(g, v, fate, subcommand, positive, TRUE)
  BY <1>3 DEF ServiceState
<1> QED
  BY <1>4

(* dpkg_status: a package that is found to be installed is. *)
LEMMA DpkgWitness ==
  ASSUME NEW g, NEW package, NEW fate \in Ways, DpkgStatus(g, package, fate).status = "installed"
  PROVE  DpkgStatus(g, package, AllRun) = DpkgStatus(g, package, fate)
<1> DEFINE answer == Exit(IF g.package[package].status # "unknown" THEN 0 ELSE 1, {}, {})
           output == Run(fate, "dpkg-query", answer)
<1>1. Success(output)
  BY DEF DpkgStatus, NoStatus
<1>2. output = Run(AllRun, "dpkg-query", answer)
  BY <1>1, RunFails, ProgramAssumption
<1> QED
  BY <1>2 DEF DpkgStatus

LEMMA SystemWitness ==
  ASSUME NEW g, NEW v, NEW fate \in Ways, v.kind \in SystemKinds, ~BlindAlone(v),
         Passed(SystemCheck(g, v, fate))
  PROVE  Passed(SystemCheck(g, v, AllRun))
<1>1. CASE v.kind = "service_active"
  BY <1>1, StateWitness DEF SystemCheck, service_active
<1>2. CASE v.kind = "service_enabled"
  BY <1>2, StateWitness DEF SystemCheck, service_enabled
<1>3. CASE v.kind = "service_failed"
  <2> DEFINE answer == Exit(0, {g.unit[v.unit].active}, {})
             output == Run(fate, "systemctl", answer)
  <2>1. Passed(service_failed(g, v, fate))
    BY <1>3 DEF SystemCheck
  <2>2. output.out = {"failed"}
    BY <2>1, Constructors DEF service_failed, PassIf
  <2>3. output = Run(AllRun, "systemctl", answer)
    BY <2>2, RunFails, ProgramAssumption
  <2>4. service_failed(g, v, AllRun) = service_failed(g, v, fate)
    BY <2>3 DEF service_failed
  <2> QED
    BY <1>3, <2>1, <2>4 DEF SystemCheck
<1>4. CASE v.kind = "unit_file_valid"
  <2> DEFINE answer == Exit(0, {}, g.unit[v.unit].complaints)
             output == Run(fate, "systemd-analyze", answer)
  <2>1. Passed(unit_file_valid(g, v, fate))
    BY <1>4 DEF SystemCheck
  <2>2. Success(output)
    BY <2>1, Constructors DEF unit_file_valid, PassIf
  <2>3. output = Run(AllRun, "systemd-analyze", answer)
    BY <2>2, RunFails, ProgramAssumption
  <2>4. unit_file_valid(g, v, AllRun) = unit_file_valid(g, v, fate)
    BY <2>3 DEF unit_file_valid
  <2> QED
    BY <1>4, <2>1, <2>4 DEF SystemCheck
<1>5. CASE v.kind = "journal_contains"
  <2> DEFINE shown == {e \in g.journal : /\ Given(v, "since") \/ e.attempt
                                         /\ Given(v, "unit") => e.unit = v["unit"]
                                         /\ Given(v, "priority") => e.priority <= v["priority"]}
             answer == Exit(0, {e.text : e \in shown}, {})
             output == Run(fate, "journalctl", answer)
  <2>1. Passed(journal_contains(g, v, fate))
    BY <1>5 DEF SystemCheck
  <2>2. v.text \in output.out
    BY <2>1, Constructors DEF journal_contains, PassIf
  <2>3. output = Run(AllRun, "journalctl", answer)
    BY <2>2, RunFails, ProgramAssumption
  <2>4. journal_contains(g, v, AllRun) = journal_contains(g, v, fate)
    BY <2>3 DEF journal_contains
  <2> QED
    BY <1>5, <2>1, <2>4 DEF SystemCheck
<1>6. CASE v.kind = "package_installed"
  <2>1. Passed(package_installed(g, v, fate))
    BY <1>6 DEF SystemCheck
  <2>2. DpkgStatus(g, v.package, AllRun) = DpkgStatus(g, v.package, fate)
    BY <2>1, DpkgWitness, Constructors DEF package_installed, PassIf
  <2>3. package_installed(g, v, AllRun) = package_installed(g, v, fate)
    BY <2>2 DEF package_installed
  <2> QED
    BY <1>6, <2>1, <2>3 DEF SystemCheck
<1>7. CASE v.kind \in {"port_listening", "repository_configured", "apt_cache_updated"}
  <2>1. SystemCheck(g, v, AllRun) = SystemCheck(g, v, fate)
    BY <1>7 DEF SystemCheck
  <2> QED
    BY <2>1
<1> QED
  BY <1>1, <1>2, <1>3, <1>4, <1>5, <1>6, <1>7 DEF SystemKinds, BlindAlone

LEMMA IdentityWitness ==
  ASSUME NEW g, NEW v, NEW fate \in Ways, v.kind \in IdentityKinds, ~BlindAlone(v),
         Passed(IdentityCheck(g, v, fate))
  PROVE  Passed(IdentityCheck(g, v, AllRun))
<1>1. CASE v.kind = "sudo_permission"
  <2> DEFINE mayRun == IF Given(v, "command") THEN <<v.user, v["command"]>> \in g.sudo
                       ELSE \E rule \in g.sudo : rule[1] = v.user
             answer == IF Given(v, "command") THEN Exit(IF mayRun THEN 0 ELSE 1, {}, {})
                       ELSE Exit(0, IF mayRun THEN {} ELSE {"not allowed to run sudo"}, {})
             output == Run(fate, "sudo", answer)
             allowed == /\ Success(output)
                        /\ Given(v, "command") \/ "not allowed to run sudo" \notin output.out
  <2>1. Passed(sudo_permission(g, v, fate))
    BY <1>1 DEF IdentityCheck
  <2>2. allowed = Param(v, "allowed", TRUE)
    BY <2>1, Constructors DEF sudo_permission, PassIf
  <2>3. Param(v, "allowed", TRUE) # FALSE
    BY <1>1 DEF BlindAlone
  <2>4. Success(output)
    <3> HIDE DEF output
    <3> QED
      BY <2>2, <2>3
  <2>5. output = Run(AllRun, "sudo", answer)
    BY <2>4, RunFails, ProgramAssumption
  <2>6. sudo_permission(g, v, AllRun) = sudo_permission(g, v, fate)
    BY <2>5 DEF sudo_permission
  <2> QED
    BY <1>1, <2>1, <2>6 DEF IdentityCheck
<1>2. CASE v.kind = "acl_contains"
  <2> DEFINE answer == IF Exists(Stat(g, v.path)) THEN Exit(0, g.acl[v.path], {})
                       ELSE Exit(1, {}, {"no such file"})
             output == Run(fate, "getfacl", answer)
  <2>1. Passed(acl_contains(g, v, fate))
    BY <1>2 DEF IdentityCheck
  <2>2. Success(output)
    BY <2>1, Constructors DEF acl_contains
  <2>3. output = Run(AllRun, "getfacl", answer)
    BY <2>2, RunFails, ProgramAssumption
  <2>4. acl_contains(g, v, AllRun) = acl_contains(g, v, fate)
    BY <2>3 DEF acl_contains
  <2> QED
    BY <1>2, <2>1, <2>4 DEF IdentityCheck
<1>3. CASE v.kind \notin {"sudo_permission", "acl_contains"}
  <2>1. IdentityCheck(g, v, AllRun) = IdentityCheck(g, v, fate)
    BY <1>3 DEF IdentityCheck, IdentityKinds
  <2> QED
    BY <2>1
<1> QED
  BY <1>1, <1>2, <1>3

(* In a namespace too: what is printed, or succeeds, is the answer. *)
LEMMA RunInFails ==
  ASSUME NEW g, NEW ns, NEW fate \in Ways, NEW p \in Program, NEW output
  PROVE  LET run == RunIn(g, ns, fate, p, output)
         IN  run = RunIn(g, ns, AllRun, p, output) \/ (~Success(run) /\ run.out = {})
<1> DEFINE run == RunIn(g, ns, fate, p, output)
           refused == Exit(1, {}, {"netns failed"})
<1>0. "ip" \in Program
  BY ProgramAssumption
<1>1. CASE ns = RootNamespace
  BY <1>1, RunFails DEF RunIn
<1>2. CASE ns # RootNamespace /\ ns \notin DOMAIN g.net
  <2>1. /\ run = Run(fate, "ip", refused)
        /\ RunIn(g, ns, AllRun, p, output) = Run(AllRun, "ip", refused)
    BY <1>2 DEF RunIn
  <2> QED
    BY <1>0, <2>1, RunFails
<1>3. CASE ns # RootNamespace /\ ns \in DOMAIN g.net
  <2>1. RunIn(g, ns, AllRun, p, output) = Run(AllRun, "ip", output)
    BY <1>3, RunsAll DEF RunIn
  <2>2. CASE fate[p] = "absent"
    <3>1. run = Run(fate, "ip", refused)
      BY <1>3, <2>2 DEF RunIn
    <3>2. Run(AllRun, "ip", refused) = refused
      BY <1>0, RunsAll
    <3>3. ~Success(refused) /\ refused.out = {}
      BY DEF Success, Exit
    <3> QED
      BY <1>0, <3>1, <3>2, <3>3, RunFails
  <2>3. CASE fate[p] = "late"
    BY <1>3, <2>3 DEF RunIn, TimedOut, Success
  <2>4. CASE fate[p] = "complains"
    <3>1. run = Run(fate, "ip", Complaint)
      BY <1>3, <2>4 DEF RunIn
    <3>2. ~Success(Complaint) /\ Complaint.out = {} /\ Complaint = Run(AllRun, "ip", Complaint)
      BY <1>0, RunsAll DEF Success, Complaint, Exit
    <3> QED
      BY <1>0, <3>1, <3>2, RunFails
  <2>5. CASE fate[p] = "runs"
    <3>1. run = Run(fate, "ip", output)
      BY <1>3, <2>5 DEF RunIn
    <3> QED
      BY <1>0, <2>1, <3>1, RunFails
  <2> QED
    BY <2>2, <2>3, <2>4, <2>5 DEF Ways, Fates
<1> QED
  BY <1>1, <1>2, <1>3

LEMMA NetworkWitness ==
  ASSUME NEW g, NEW v, NEW fate \in Ways, NEW lessonNamespace, v.kind \in NetworkKinds,
         Passed(NetworkCheck(g, v, fate, lessonNamespace))
  PROVE  Passed(NetworkCheck(g, v, AllRun, lessonNamespace))
<1> DEFINE ns == NamespaceFor(v, lessonNamespace)
<1>1. CASE v.kind = "interface_exists"
  <2> DEFINE answer == Exit(0, DOMAIN Net(g, ns).link, {})
             output == RunIn(g, ns, fate, "ip", answer)
  <2>1. Passed(interface_exists(g, v, fate, ns))
    BY <1>1 DEF NetworkCheck
  <2>2. v.interface \in output.out
    BY <2>1, Constructors DEF interface_exists, Reachable, PassIf
  <2>3. output = RunIn(g, ns, AllRun, "ip", answer)
    BY <2>2, RunInFails, ProgramAssumption
  <2>4. interface_exists(g, v, AllRun, ns) = interface_exists(g, v, fate, ns)
    BY <2>3 DEF interface_exists
  <2> QED
    BY <1>1, <2>1, <2>4 DEF NetworkCheck
<1>2. CASE v.kind = "interface_state"
  <2> DEFINE answer == IF v.interface \in DOMAIN Net(g, ns).link THEN Exit(0, {}, {})
                       ELSE Exit(1, {}, {"no such device"})
             output == RunIn(g, ns, fate, "ip", answer)
  <2>1. Passed(interface_state(g, v, fate, ns))
    BY <1>2 DEF NetworkCheck
  <2>2. Success(output)
    BY <2>1, Constructors DEF interface_state, OfInterface, Reachable, PassIf
  <2>3. output = RunIn(g, ns, AllRun, "ip", answer)
    BY <2>2, RunInFails, ProgramAssumption
  <2>4. interface_state(g, v, AllRun, ns) = interface_state(g, v, fate, ns)
    BY <2>3 DEF interface_state, OfInterface
  <2> QED
    BY <1>2, <2>1, <2>4 DEF NetworkCheck
<1>3. CASE v.kind = "ip_address"
  <2> DEFINE answer == IF v.interface \in DOMAIN Net(g, ns).link
                       THEN Exit(0, {a[2] : a \in {b \in Net(g, ns).address : b[1] = v.interface}}, {})
                       ELSE Exit(1, {}, {"no such device"})
             output == RunIn(g, ns, fate, "ip", answer)
  <2>1. Passed(ip_address(g, v, fate, ns))
    BY <1>3 DEF NetworkCheck
  <2>2. Success(output)
    BY <2>1, Constructors DEF ip_address, OfInterface, Reachable, PassIf
  <2>3. output = RunIn(g, ns, AllRun, "ip", answer)
    BY <2>2, RunInFails, ProgramAssumption
  <2>4. ip_address(g, v, AllRun, ns) = ip_address(g, v, fate, ns)
    BY <2>3 DEF ip_address, OfInterface
  <2> QED
    BY <1>3, <2>1, <2>4 DEF NetworkCheck
<1>4. CASE v.kind = "route_exists"
  <2> DEFINE answer == Exit(0, {r \in Net(g, ns).route : r.to = v.destination}, {})
             output == RunIn(g, ns, fate, "ip", answer)
  <2>1. Passed(route_exists(g, v, fate, ns))
    BY <1>4 DEF NetworkCheck
  <2>2. output.out # {}
    BY <2>1, Constructors DEF route_exists, RoutesTo, Reachable, PassIf
  <2>3. output = RunIn(g, ns, AllRun, "ip", answer)
    BY <2>2, RunInFails, ProgramAssumption
  <2>4. route_exists(g, v, AllRun, ns) = route_exists(g, v, fate, ns)
    BY <2>3 DEF route_exists, RoutesTo
  <2> QED
    BY <1>4, <2>1, <2>4 DEF NetworkCheck
<1>5. CASE v.kind = "default_route"
  <2> DEFINE answer == Exit(0, {r \in Net(g, ns).route : r.to = "default"}, {})
             output == RunIn(g, ns, fate, "ip", answer)
  <2>1. Passed(default_route(g, v, fate, ns))
    BY <1>5 DEF NetworkCheck
  <2>2. output.out # {}
    BY <2>1, Constructors DEF default_route, RoutesTo, Reachable, PassIf
  <2>3. output = RunIn(g, ns, AllRun, "ip", answer)
    BY <2>2, RunInFails, ProgramAssumption
  <2>4. default_route(g, v, AllRun, ns) = default_route(g, v, fate, ns)
    BY <2>3 DEF default_route, RoutesTo
  <2> QED
    BY <1>5, <2>1, <2>4 DEF NetworkCheck
<1>6. CASE v.kind = "dns_resolution"
  <2> DEFINE answer == Exit(0, {r.answer : r \in {d \in Net(g, ns).dns :
                         /\ d.name = v.name
                         /\ d.server = Param(v, "server", "default")}}, {})
             output == RunIn(g, ns, fate, "dig", answer)
  <2>1. Passed(dns_resolution(g, v, fate, ns))
    BY <1>6 DEF NetworkCheck
  <2>2. output.out # {}
    BY <2>1, Constructors DEF dns_resolution, PassIf
  <2>3. output = RunIn(g, ns, AllRun, "dig", answer)
    BY <2>2, RunInFails, ProgramAssumption
  <2>4. dns_resolution(g, v, AllRun, ns) = dns_resolution(g, v, fate, ns)
    BY <2>3 DEF dns_resolution
  <2> QED
    BY <1>6, <2>1, <2>4 DEF NetworkCheck
<1>7. CASE v.kind = "tcp_connection"
  <2> DEFINE answer == Exit(IF <<v.host, v.port>> \in Net(g, ns).open THEN 0 ELSE 1, {}, {})
             output == RunIn(g, ns, fate, "nc", answer)
  <2>1. Passed(tcp_connection(g, v, fate, ns))
    BY <1>7 DEF NetworkCheck
  <2>2. Success(output)
    BY <2>1, Constructors DEF tcp_connection, Reachable, PassIf
  <2>3. output = RunIn(g, ns, AllRun, "nc", answer)
    BY <2>2, RunInFails, ProgramAssumption
  <2>4. tcp_connection(g, v, AllRun, ns) = tcp_connection(g, v, fate, ns)
    BY <2>3 DEF tcp_connection
  <2> QED
    BY <1>7, <2>1, <2>4 DEF NetworkCheck
<1>8. CASE v.kind = "http_status"
  <2> DEFINE answer == IF v.url \in DOMAIN Net(g, ns).http
                       THEN Exit(0, {Net(g, ns).http[v.url].status}, {})
                       ELSE Exit(7, {0}, {"could not connect"})
             output == RunIn(g, ns, fate, "curl", answer)
  <2>1. Passed(http_status(g, v, fate, ns))
    BY <1>8 DEF NetworkCheck
  <2>2. output.out = {v.status}
    BY <2>1, Constructors DEF http_status, Curl, Reachable, PassIf
  <2>3. output = RunIn(g, ns, AllRun, "curl", answer)
    BY <2>2, RunInFails, ProgramAssumption
  <2>4. http_status(g, v, AllRun, ns) = http_status(g, v, fate, ns)
    BY <2>3 DEF http_status, Curl
  <2> QED
    BY <1>8, <2>1, <2>4 DEF NetworkCheck
<1>9. CASE v.kind = "http_body"
  <2> DEFINE answer == IF v.url \in DOMAIN Net(g, ns).http
                       THEN Exit(0, Net(g, ns).http[v.url].body, {})
                       ELSE Exit(7, {}, {"could not connect"})
             output == RunIn(g, ns, fate, "curl", answer)
  <2>1. Passed(http_body(g, v, fate, ns))
    BY <1>9 DEF NetworkCheck
  <2>2. v.contains \in output.out
    BY <2>1, Constructors DEF http_body, Curl, Reachable, PassIf
  <2>3. output = RunIn(g, ns, AllRun, "curl", answer)
    BY <2>2, RunInFails, ProgramAssumption
  <2>4. http_body(g, v, AllRun, ns) = http_body(g, v, fate, ns)
    BY <2>3 DEF http_body, Curl
  <2> QED
    BY <1>9, <2>1, <2>4 DEF NetworkCheck
<1>10. CASE v.kind = "firewall_rule"
  <2> DEFINE answer == Exit(0, ExtractBlock(Net(g, ns).ruleset, v), {})
             output == RunIn(g, ns, fate, "nft", answer)
  <2>1. Passed(firewall_rule(g, v, fate, ns))
    BY <1>10 DEF NetworkCheck
  <2>2. Success(output)
    BY <2>1, Constructors DEF firewall_rule, PassIf
  <2>3. output = RunIn(g, ns, AllRun, "nft", answer)
    BY <2>2, RunInFails, ProgramAssumption
  <2>4. firewall_rule(g, v, AllRun, ns) = firewall_rule(g, v, fate, ns)
    BY <2>3 DEF firewall_rule
  <2> QED
    BY <1>10, <2>1, <2>4 DEF NetworkCheck
<1>11. CASE v.kind = "remote_file_exists"
  <2> DEFINE answer == IF <<v.host, Param(v, "user", "student")>> \notin Net(g, ns).login
                       THEN Exit(255, {}, {"Permission denied"})
                       ELSE Exit(IF <<v.host, v.path>> \in Net(g, ns).remote THEN 0 ELSE 1, {}, {})
             output == RunIn(g, ns, fate, "ssh", answer)
  <2>1. Passed(remote_file_exists(g, v, fate, ns))
    BY <1>11 DEF NetworkCheck
  <2>2. Success(output)
    BY <2>1, Constructors DEF remote_file_exists, PassIf
  <2>3. output = RunIn(g, ns, AllRun, "ssh", answer)
    BY <2>2, RunInFails, ProgramAssumption
  <2>4. remote_file_exists(g, v, AllRun, ns) = remote_file_exists(g, v, fate, ns)
    BY <2>3 DEF remote_file_exists
  <2> QED
    BY <1>11, <2>1, <2>4 DEF NetworkCheck
<1>12. CASE v.kind = "udp_listener"
  <2>1. NetworkCheck(g, v, AllRun, lessonNamespace) = NetworkCheck(g, v, fate, lessonNamespace)
    BY <1>12 DEF NetworkCheck
  <2> QED
    BY <2>1
<1> QED
  BY <1>1, <1>2, <1>3, <1>4, <1>5, <1>6, <1>7, <1>8, <1>9, <1>10, <1>11, <1>12
     DEF NetworkKinds

(* A command that ran in time did what it does where every tool runs. *)
LEMMA ExecuteFails ==
  ASSUME NEW g, NEW fate \in Ways, NEW command, NEW user, NEW dir
  PROVE  LET run == Execute(g, fate, command, user, dir)
         IN  \/ run = Execute(g, AllRun, command, user, dir)
             \/ run.output.timedOut /\ run.output.err = {"timed out"}
             \/ ~run.output.spawned
<1> DEFINE p == IF user = Root THEN "bash" ELSE "runuser"
           done == Perform(g, command, user, dir)
           run == Execute(g, fate, command, user, dir)
<1>1. /\ run = Executed(g, fate, p, done)
      /\ Execute(g, AllRun, command, user, dir) = Executed(g, AllRun, p, done)
  BY DEF Execute
<1>2. /\ p \in Program /\ fate[p] \in Fates /\ fate[p] # "complains"
      /\ AllRun[p] = "runs"
  BY ProgramAssumption, RunsAll DEF Ways, Shells
<1> HIDE DEF p, done
<1>3. CASE fate[p] = "runs"
  BY <1>1, <1>2, <1>3 DEF Executed, Run
<1>4. CASE fate[p] = "late"
  <2>1. run.output = TimedOut
    BY <1>1, <1>4 DEF Executed, Run
  <2>2. TimedOut.timedOut /\ TimedOut.err = {"timed out"}
    BY DEF TimedOut
  <2> QED
    BY <2>1, <2>2
<1>5. CASE fate[p] = "absent"
  <2>1. run.output = NotSpawned
    BY <1>1, <1>5 DEF Executed, Run
  <2> QED
    BY <2>1 DEF NotSpawned
<1> QED
  BY <1>2, <1>3, <1>4, <1>5 DEF Fates

(* The kinds that are checked in several turns, but for those that nest.   *)
Several == {"unit_test_passes", "idempotent_result", "package_version", "ssh_key_valid"}

LEMMA ScriptWitness ==
  ASSUME NEW g, NEW v, NEW m, NEW fate \in Ways, NEW user, v.kind \in ScriptKinds \ Several,
         ~BlindAlone(v), Passed(ScriptCheck(g, v, m, fate, user).outcome)
  PROVE  ScriptCheck(g, v, m, AllRun, user) = ScriptCheck(g, v, m, fate, user)
<1>1. CASE v.kind \in {"script_exists", "script_executable"}
  BY <1>1 DEF ScriptCheck
<1>2. CASE v.kind = "script_exit_code"
  <2> DEFINE as == IF Given(v, "stdin") THEN Root ELSE user
             run == Execute(g, fate, v.path, as, WorkingDir(v))
  <2>1. /\ ScriptCheck(g, v, m, fate, user) = ExitsWith(g, v, run)
        /\ ScriptCheck(g, v, m, AllRun, user)
             = ExitsWith(g, v, Execute(g, AllRun, v.path, as, WorkingDir(v)))
    BY <1>2 DEF ScriptCheck, script_exit_code
  <2> HIDE DEF as
  <2>0. Passed(ExitsWith(g, v, run).outcome)
    BY <2>1
  <2>2. run.output.spawned /\ ~run.output.timedOut
    BY <2>0, Constructors DEF ExitsWith, OfOneRun, After
  <2>3. run = Execute(g, AllRun, v.path, as, WorkingDir(v))
    BY <2>2, ExecuteFails
  <2> QED
    BY <2>1, <2>3
<1>3. CASE v.kind = "stdout_exact"
  <2> DEFINE run == Execute(g, fate, v.command, user, WorkingDir(v))
  <2>1. Passed(Prints(g, v, run).outcome)
    BY <1>3 DEF ScriptCheck, stdout_exact
  <2>2. run.output.spawned /\ ~run.output.timedOut
    BY <2>1, Constructors DEF Prints, OfOneRun, After
  <2>3. run = Execute(g, AllRun, v.command, user, WorkingDir(v))
    BY <2>2, ExecuteFails
  <2> QED
    BY <1>3, <2>3 DEF ScriptCheck, stdout_exact
<1>4. CASE v.kind = "stdout_contains"
  <2> DEFINE run == Execute(g, fate, v.command, user, WorkingDir(v))
  <2>1. Passed(PrintsAmongOthers(g, v, run).outcome)
    BY <1>4 DEF ScriptCheck, stdout_contains
  <2>2. run.output.spawned /\ ~run.output.timedOut
    BY <2>1, Constructors DEF PrintsAmongOthers, OfOneRun, After
  <2>3. run = Execute(g, AllRun, v.command, user, WorkingDir(v))
    BY <2>2, ExecuteFails
  <2> QED
    BY <1>4, <2>3 DEF ScriptCheck, stdout_contains
<1>5. CASE v.kind = "stderr_contains"
  <2> DEFINE run == Execute(g, fate, v.command, user, WorkingDir(v))
  <2>1. Passed(Complains(g, v, run).outcome)
    BY <1>5 DEF ScriptCheck, stderr_contains
  <2>2. run.output.spawned /\ v.text \in run.output.err
    BY <2>1, Constructors DEF Complains, After, PassIf
  <2>3. v.text # "timed out"
    BY <1>5 DEF BlindAlone
  <2>4. run = Execute(g, AllRun, v.command, user, WorkingDir(v))
    <3>1. \/ run = Execute(g, AllRun, v.command, user, WorkingDir(v))
          \/ run.output.err = {"timed out"}
          \/ ~run.output.spawned
      BY ExecuteFails
    <3> HIDE DEF run
    <3> QED
      BY <2>2, <2>3, <3>1
  <2> QED
    BY <1>5, <2>4 DEF ScriptCheck, stderr_contains
<1>6. CASE v.kind = "shellcheck_passes"
  <2> DEFINE reported == {f \in g.lint[v.path] : /\ f.level <= Param(v, "severity", 1)
                                                 /\ f.code \notin Param(v, "exclude", {})}
             clean == Exists(Stat(g, v.path)) /\ reported = {}
             answer == Exit(IF clean THEN 0 ELSE 1, {}, {})
             output == Run(fate, "shellcheck", answer)
  <2>1. Passed(shellcheck_passes(g, v, fate))
    BY <1>6 DEF ScriptCheck, After
  <2>2. Success(output)
    BY <2>1, Constructors DEF shellcheck_passes, PassIf
  <2>3. output = Run(AllRun, "shellcheck", answer)
    BY <2>2, RunFails, ProgramAssumption
  <2>4. shellcheck_passes(g, v, AllRun) = shellcheck_passes(g, v, fate)
    BY <2>3 DEF shellcheck_passes
  <2> QED
    BY <1>6, <2>4 DEF ScriptCheck
<1> QED
  BY <1>1, <1>2, <1>3, <1>4, <1>5, <1>6 DEF ScriptKinds, Several

LEMMA OneTurn ==
  ASSUME NEW g, NEW v, NEW m, NEW fate, v.kind \notin Several
  PROVE  Dispatch(g, v, m, fate).ends
<1>1. \A run, holds, c : OfOneRun(g, v, run, holds, c).ends /\ Complains(g, v, run).ends
  BY TurnConstructors DEF OfOneRun, Complains
<1>2. CASE v.kind \in ScriptKinds
  <2>1. v.kind \in {"script_exists", "script_executable", "script_exit_code", "stdout_exact",
                   "stdout_contains", "stderr_contains", "shellcheck_passes"}
    BY <1>2 DEF ScriptKinds, Several
  <2>2. ScriptCheck(g, v, m, fate, SubjectUser).ends
    BY <1>1, <2>1, TurnConstructors
    DEF ScriptCheck, script_exit_code, stdout_exact, stdout_contains, stderr_contains, ExitsWith,
        Prints, PrintsAmongOthers
  <2> QED
    BY <1>2, <2>2 DEF Dispatch
<1>3. CASE v.kind \notin ScriptKinds
  BY <1>3, TurnConstructors DEF Dispatch, Several
<1> QED
  BY <1>2, <1>3

(* dispatch: a check of one turn that passes also passes where every tool  *)
(* answers.                                                                *)
LEMMA OneTurnWitness ==
  ASSUME NEW g, NEW v, NEW m, NEW fate \in Ways, v.kind \notin Several, ~BlindAlone(v),
         Passed(Dispatch(g, v, m, fate).outcome)
  PROVE  Passed(Dispatch(g, v, m, AllRun).outcome)
<1>1. CASE v.kind \in ScriptKinds
  BY <1>1, ScriptWitness DEF Dispatch
<1>2. CASE v.kind \in FileKinds
  BY <1>2, DispatchByFamily, FileWitness, TurnConstructors
<1>3. CASE v.kind \in ProcessKinds
  BY <1>3, DispatchByFamily
<1>4. CASE v.kind \in SystemKinds
  BY <1>4, DispatchByFamily, SystemWitness, TurnConstructors
<1>5. CASE v.kind \in IdentityKinds
  BY <1>5, DispatchByFamily, IdentityWitness, TurnConstructors
<1>6. CASE v.kind \in NetworkKinds
  BY <1>6, DispatchByFamily, NetworkWitness, TurnConstructors
<1>7. CASE v.kind \notin FileKinds \cup ProcessKinds \cup SystemKinds \cup IdentityKinds
                        \cup NetworkKinds \cup ScriptKinds
                        \cup {"package_version", "ssh_key_valid"}
  BY <1>7, DispatchByFamily, TurnConstructors, Constructors
<1> QED
  BY <1>1, <1>2, <1>3, <1>4, <1>5, <1>6, <1>7 DEF Several

---------------------------------------------------------------------------
(* The turns of a check.  One whose tools do not all answer either leads   *)
(* where it would have led had they answered, or leaves the check in a     *)
(* memory from which it can no longer pass.                                *)

(* A script that has already failed a case. *)
Doomed(v, m) == v.kind = "unit_test_passes" /\ ~m.right

(* Or a nested check that has, or one that has already failed. *)
Spoilt(v, m) ==
  IF v.kind = "side_effect_exists"
  THEN m.turn # 0 /\ (~m.right \/ Doomed(v["then"][m.turn], m.kept))
  ELSE Doomed(v, m)

(* before and after say whether the check could no longer pass before turn *)
(* t and cannot after it; ideal is the turn had all tools answered.        *)
Follows(before, t, after, ideal) ==
  /\ t.ends /\ Passed(t.outcome) => ideal.ends /\ Passed(ideal.outcome) /\ ~before
  /\ ~t.ends => after \/ (~ideal.ends /\ ideal.memory = t.memory)
  /\ ~t.ends /\ before => after

LEMMA SameOrFails ==
  ASSUME NEW t, NEW after, NEW ideal, t = ideal \/ (t.ends /\ ~Passed(t.outcome))
  PROVE  Follows(FALSE, t, after, ideal)
BY DEF Follows

LEMMA CaseRunFollows ==
  ASSUME NEW g, NEW v, NEW m, NEW cases, NEW fate \in Ways, NEW user,
         v.kind = "unit_test_passes"
  PROVE  LET t == CaseRun(g, v, m, cases, fate, user)
         IN  Follows(Doomed(v, m), t, Doomed(v, t.memory), CaseRun(g, v, m, cases, AllRun, user))
<1> DEFINE n == m.turn + 1
           run == Execute(g, fate, v.path, user, cases[n])
           right == /\ m.right /\ ~run.output.timedOut
                    /\ run.output.out = g.expected[cases[n]]
           t == CaseRun(g, v, m, cases, fate, user)
           ideal == CaseRun(g, v, m, cases, AllRun, user)
<1> SUFFICES Follows(Doomed(v, m), t, Doomed(v, t.memory), ideal)
  OBVIOUS
<1>1. t = IF ~run.output.spawned THEN After(Error, run.guest)
          ELSE IF n < Len(cases) THEN Resume(Memory(n, cases, right), run.guest)
          ELSE After(PassIf(right, "script_logic_failure"), run.guest)
  BY DEF CaseRun
<1>2. ~run.output.spawned \/ run.output.timedOut \/ t = ideal
  <2>1. CASE run = Execute(g, AllRun, v.path, user, cases[n])
    BY <2>1 DEF CaseRun
  <2> QED
    BY <2>1, ExecuteFails
<1>3. (right => m.right) /\ (run.output.timedOut => ~right)
  OBVIOUS
<1> HIDE DEF n, run, right, t, ideal
<1>4. ~Passed(PassIf(right, "script_logic_failure")) \/ right
  BY Constructors DEF PassIf
<1>5. CASE ~run.output.spawned
  BY <1>1, <1>5, TurnConstructors, Constructors DEF Follows
<1>6. CASE run.output.spawned /\ n < Len(cases)
  <2>1. ~t.ends /\ t.memory.right = right
    BY <1>1, <1>6, TurnConstructors
  <2>2. Doomed(v, t.memory) <=> ~right
    BY <2>1 DEF Doomed
  <2>3. Doomed(v, m) <=> ~m.right
    BY DEF Doomed
  <2> QED
    BY <1>2, <1>3, <1>6, <2>1, <2>2, <2>3 DEF Follows
<1>7. CASE run.output.spawned /\ ~(n < Len(cases))
  <2>1. t.ends /\ t.outcome = PassIf(right, "script_logic_failure")
    BY <1>1, <1>7, TurnConstructors
  <2> QED
    BY <1>2, <1>3, <1>4, <1>7, <2>1 DEF Follows, Doomed
<1> QED
  BY <1>5, <1>6, <1>7

LEMMA UnitTestFollows ==
  ASSUME NEW g, NEW v, NEW m, NEW fate \in Ways, NEW user, v.kind = "unit_test_passes"
  PROVE  LET t == unit_test_passes(g, v, m, fate, user)
         IN  Follows(Doomed(v, m), t, Doomed(v, t.memory), unit_test_passes(g, v, m, AllRun, user))
<1> DEFINE cases == IF m.turn > 0 THEN m.kept ELSE g.fixture[Fixture(v)]
           t == unit_test_passes(g, v, m, fate, user)
           ideal == unit_test_passes(g, v, m, AllRun, user)
<1>1. \/ t \in {After(Error, g), After(Fail("wrong_path"), g)}
      \/ /\ t = CaseRun(g, v, m, cases, fate, user)
         /\ ideal = CaseRun(g, v, m, cases, AllRun, user)
  BY DEF unit_test_passes
<1>2. CASE t \in {After(Error, g), After(Fail("wrong_path"), g)}
  BY <1>2, TurnConstructors, Constructors DEF Follows
<1>3. CASE /\ t = CaseRun(g, v, m, cases, fate, user)
           /\ ideal = CaseRun(g, v, m, cases, AllRun, user)
  <2> HIDE DEF cases, t, ideal
  <2>1. Follows(Doomed(v, m), t, Doomed(v, t.memory), ideal)
    BY <1>3, CaseRunFollows
  <2> QED
    BY <2>1 DEF t, ideal
<1> QED
  BY <1>1, <1>2, <1>3

LEMMA IdempotentFollows ==
  ASSUME NEW g, NEW v, NEW m, NEW fate \in Ways, NEW user
  PROVE  LET t == idempotent_result(g, v, m, fate, user)
         IN  t = idempotent_result(g, v, m, AllRun, user) \/ (t.ends /\ ~Passed(t.outcome))
<1> DEFINE run == Execute(g, fate, v.command, user, AgentDir)
           t == idempotent_result(g, v, m, fate, user)
<1>1. CASE run = Execute(g, AllRun, v.command, user, AgentDir)
  BY <1>1 DEF idempotent_result
<1>2. CASE run.output.timedOut \/ ~run.output.spawned
  <2>1. t \in {After(Error, run.guest), After(Fail("script_logic_failure"), run.guest)}
    BY <1>2 DEF idempotent_result
  <2> HIDE DEF run, t
  <2>2. t.ends /\ ~Passed(t.outcome)
    BY <2>1, TurnConstructors, Constructors
  <2> QED
    BY <2>2 DEF t
<1> QED
  BY <1>1, <1>2, ExecuteFails

LEMMA PackageVersionFollows ==
  ASSUME NEW g, NEW v, NEW m, NEW fate \in Ways
  PROVE  LET t == package_version(g, v, m, fate)
         IN  t = package_version(g, v, m, AllRun) \/ (t.ends /\ ~Passed(t.outcome))
<1>1. CASE m.turn = 0
  <2>1. CASE DpkgStatus(g, v.package, fate).status = "installed"
    <3>1. DpkgStatus(g, v.package, AllRun) = DpkgStatus(g, v.package, fate)
      BY <2>1, DpkgWitness
    <3> QED
      BY <1>1, <3>1 DEF package_version, VersionFound
  <2>2. CASE DpkgStatus(g, v.package, fate).status # "installed"
    <3>1. package_version(g, v, m, fate) = After(Fail("task_partially_completed"), g)
      BY <1>1, <2>2 DEF package_version, VersionFound
    <3> QED
      BY <3>1, TurnConstructors, Constructors
  <2> QED
    BY <2>1, <2>2
<1>2. CASE m.turn # 0
  <2> DEFINE holds == <<m.kept, Param(v, "comparison", "eq"), v.version>> \in g.order
             answer == Exit(IF holds THEN 0 ELSE 1, {}, {})
             output == Run(fate, "dpkg", answer)
  <2>1. package_version(g, v, m, fate) = After(VersionFits(g, v, m.kept, fate), g)
        /\ package_version(g, v, m, AllRun) = After(VersionFits(g, v, m.kept, AllRun), g)
    BY <1>2 DEF package_version
  <2>2. CASE Success(output)
    <3>1. output = Run(AllRun, "dpkg", answer)
      BY <2>2, RunFails, ProgramAssumption
    <3>2. VersionFits(g, v, m.kept, AllRun) = VersionFits(g, v, m.kept, fate)
      BY <3>1 DEF VersionFits
    <3> QED
      BY <2>1, <3>2
  <2>3. CASE ~Success(output)
    <3>1. ~Passed(VersionFits(g, v, m.kept, fate))
      BY <2>3, Constructors DEF VersionFits, PassIf
    <3> QED
      BY <2>1, <3>1, TurnConstructors
  <2> QED
    BY <2>2, <2>3
<1> QED
  BY <1>1, <1>2

LEMMA KeyFollows ==
  ASSUME NEW g, NEW v, NEW m, NEW fate \in Ways
  PROVE  LET t == ssh_key_valid(g, v, m, fate)
         IN  t = ssh_key_valid(g, v, m, AllRun) \/ (t.ends /\ ~Passed(t.outcome))
<1> DEFINE answer == Exit(IF v.path \in DOMAIN g.key THEN 0 ELSE 1, {}, {})
           output == Run(fate, "ssh-keygen", answer)
<1>1. CASE m.turn # 0
  BY <1>1 DEF ssh_key_valid
<1>2. CASE m.turn = 0 /\ Success(output)
  <2>1. output = Run(AllRun, "ssh-keygen", answer)
    BY <1>2, RunFails, ProgramAssumption
  <2> QED
    BY <1>2, <2>1 DEF ssh_key_valid, KeyRead
<1>3. CASE m.turn = 0 /\ ~Success(output)
  <2>1. ssh_key_valid(g, v, m, fate) \in {After(Error, g), After(Fail("permission_denied"), g)}
    BY <1>3 DEF ssh_key_valid, KeyRead
  <2> QED
    BY <2>1, TurnConstructors, Constructors
<1> QED
  BY <1>1, <1>2, <1>3

LEMMA DispatchFollows ==
  ASSUME NEW g, NEW v, NEW m, NEW fate \in Ways, ~BlindAlone(v)
  PROVE  LET t == Dispatch(g, v, m, fate)
         IN  Follows(Doomed(v, m), t, Doomed(v, t.memory), Dispatch(g, v, m, AllRun))
<1> DEFINE t == Dispatch(g, v, m, fate)
           ideal == Dispatch(g, v, m, AllRun)
<1>1. CASE v.kind = "unit_test_passes"
  <2>1. \A f : Dispatch(g, v, m, f) = unit_test_passes(g, v, m, f, SubjectUser)
    BY <1>1 DEF Dispatch, ScriptCheck, ScriptKinds
  <2> QED
    BY <1>1, <2>1, UnitTestFollows
<1>2. CASE v.kind \in {"idempotent_result", "package_version", "ssh_key_valid"}
  <2>1. t = ideal \/ (t.ends /\ ~Passed(t.outcome))
    <3>1. CASE v.kind = "idempotent_result"
      <4>1. \A f : Dispatch(g, v, m, f) = idempotent_result(g, v, m, f, SubjectUser)
        BY <3>1 DEF Dispatch, ScriptCheck, ScriptKinds
      <4> QED
        BY <4>1, IdempotentFollows
    <3>2. CASE v.kind = "package_version"
      BY <3>2, DispatchByFamily, PackageVersionFollows
    <3>3. CASE v.kind = "ssh_key_valid"
      BY <3>3, DispatchByFamily, KeyFollows
    <3> QED
      BY <1>2, <3>1, <3>2, <3>3
  <2>2. Doomed(v, m) = FALSE
    BY <1>2 DEF Doomed
  <2> HIDE DEF t, ideal
  <2>3. Follows(FALSE, t, Doomed(v, t.memory), ideal)
    BY <2>1, SameOrFails
  <2> QED
    BY <2>2, <2>3 DEF t, ideal
<1>3. CASE v.kind \notin Several
  <2>1. t.ends /\ ideal.ends /\ (Passed(t.outcome) => Passed(ideal.outcome))
    BY <1>3, OneTurn, OneTurnWitness
  <2>2. ~Doomed(v, m)
    BY <1>3 DEF Doomed, Several
  <2> QED
    BY <2>1, <2>2 DEF Follows
<1> QED
  BY <1>1, <1>2, <1>3 DEF Several

(* evaluate, around a turn that follows the ideal one. *)
LEMMA GuardedFollows ==
  ASSUME NEW g, NEW v, Counted(v), NEW t, NEW ideal, IsTurn(t), IsTurn(ideal),
         NEW before, NEW after, NEW later,
         RegistryAccepts(Registry, CommonParams, v) => later = after,
         RegistryAccepts(Registry, CommonParams, v) => Follows(before, t, after, ideal)
  PROVE  Follows(before, Guarded(g, v, t), later, Guarded(g, v, ideal))
<1> DEFINE u == Guarded(g, v, t)
           i == Guarded(g, v, ideal)
<1>1. CASE RegistryAccepts(Registry, CommonParams, v)
  <2>1. /\ Passed(u.outcome) <=> Passed(t.outcome)
        /\ u.ends = t.ends /\ u.memory = t.memory
    BY <1>1, GuardedTyped
  <2>2. /\ Passed(i.outcome) <=> Passed(ideal.outcome)
        /\ i.ends = ideal.ends /\ i.memory = ideal.memory
    BY <1>1, GuardedTyped
  <2> HIDE DEF u, i
  <2>3. Follows(before, u, later, i)
    BY <1>1, <2>1, <2>2 DEF Follows
  <2> QED
    BY <2>3 DEF u, i
<1>2. CASE ~RegistryAccepts(Registry, CommonParams, v)
  <2>1. ~Passed(u.outcome) /\ u.ends
    BY <1>2, GuardedTyped
  <2> HIDE DEF u, i
  <2>2. Follows(before, u, later, i)
    BY <2>1 DEF Follows
  <2> QED
    BY <2>2 DEF u, i
<1> QED
  BY <1>1, <1>2

LEMMA FlatFollows ==
  ASSUME NEW g, NEW v, NEW m, m.turn \in Nat, NEW fate \in Ways, Counted(v), ~BlindAlone(v)
  PROVE  LET t == EvaluateFlat(g, v, m, fate)
         IN  Follows(Doomed(v, m), t, Doomed(v, t.memory), EvaluateFlat(g, v, m, AllRun))
<1> DEFINE t == Dispatch(g, v, m, fate)
           ideal == Dispatch(g, v, m, AllRun)
<1>1. IsTurn(t) /\ IsTurn(ideal) /\ Follows(Doomed(v, m), t, Doomed(v, t.memory), ideal)
  BY DispatchTurn, DispatchFollows
<1> HIDE DEF t, ideal
<1>2. RegistryAccepts(Registry, CommonParams, v)
        => Doomed(v, Guarded(g, v, t).memory) = Doomed(v, t.memory)
  BY <1>1, GuardedTyped
<1>3. Follows(Doomed(v, m), Guarded(g, v, t), Doomed(v, Guarded(g, v, t).memory),
              Guarded(g, v, ideal))
  BY <1>1, <1>2, GuardedFollows
<1> QED
  BY <1>3 DEF t, ideal, EvaluateFlat

---------------------------------------------------------------------------
(* A command, and then other checks on what it did.                        *)

LEMMA NestedFollows ==
  ASSUME NEW g, NEW v, NEW m, NEW fate \in Ways, v.kind = "side_effect_exists",
         m.turn \in Nat \ {0}, m.right \in BOOLEAN, m.kept.turn \in Nat,
         Counted(v["then"][m.turn]), ~BlindAlone(v["then"][m.turn])
  PROVE  LET t == NestedTurn(g, v, m, fate)
         IN  Follows(Spoilt(v, m), t, Spoilt(v, t.memory), NestedTurn(g, v, m, AllRun))
<1> DEFINE w == v["then"][m.turn]
           nested == EvaluateFlat(g, w, m.kept, fate)
           other == EvaluateFlat(g, w, m.kept, AllRun)
           right == m.right /\ Passed(nested.outcome)
           rightly == m.right /\ Passed(other.outcome)
           t == NestedTurn(g, v, m, fate)
           ideal == NestedTurn(g, v, m, AllRun)
<1> SUFFICES Follows(Spoilt(v, m), t, Spoilt(v, t.memory), ideal)
  OBVIOUS
<1>1. Follows(Doomed(w, m.kept), nested, Doomed(w, nested.memory), other)
  BY FlatFollows
<1>2. t = IF ~nested.ends THEN Resume(Memory(m.turn, nested.memory, m.right), nested.guest)
          ELSE IF m.turn < Len(v["then"])
          THEN Resume(Memory(m.turn + 1, Fresh, right), nested.guest)
          ELSE After(PassIf(right, "script_logic_failure"), nested.guest)
  BY DEF NestedTurn
<1>3. ideal = IF ~other.ends THEN Resume(Memory(m.turn, other.memory, m.right), other.guest)
              ELSE IF m.turn < Len(v["then"])
              THEN Resume(Memory(m.turn + 1, Fresh, rightly), other.guest)
              ELSE After(PassIf(rightly, "script_logic_failure"), other.guest)
  BY DEF NestedTurn
<1>4. Spoilt(v, m) <=> ~m.right \/ Doomed(w, m.kept)
  BY DEF Spoilt
<1>5. /\ right => m.right /\ Passed(nested.outcome)
      /\ m.right /\ Passed(nested.outcome) => right
      /\ m.right /\ Passed(other.outcome) => rightly
      /\ right \in BOOLEAN /\ rightly \in BOOLEAN
  BY Zenon
<1>6. /\ right => Passed(PassIf(right, "script_logic_failure"))
      /\ rightly => Passed(PassIf(rightly, "script_logic_failure"))
      /\ ~right => ~Passed(PassIf(right, "script_logic_failure"))
  BY Constructors DEF PassIf
<1> HIDE DEF nested, other, right, rightly, t, ideal
<1>7. CASE ~nested.ends
  <2>1. ~t.ends /\ t.memory = Memory(m.turn, nested.memory, m.right)
    BY <1>2, <1>7, TurnConstructors
  <2>2. Spoilt(v, t.memory) <=> ~m.right \/ Doomed(w, nested.memory)
    BY <2>1, TurnConstructors DEF Spoilt
  <2>3. ~other.ends /\ other.memory = nested.memory => ~ideal.ends /\ ideal.memory = t.memory
    BY <1>3, <2>1, TurnConstructors
  <2> QED
    BY <1>1, <1>4, <1>7, <2>1, <2>2, <2>3 DEF Follows
<1>8. CASE nested.ends /\ m.turn < Len(v["then"])
  <2>1. ~t.ends /\ t.memory = Memory(m.turn + 1, Fresh, right)
    BY <1>2, <1>8, TurnConstructors
  <2>2. CASE right
    <3>1. other.ends /\ rightly /\ ~Doomed(w, m.kept) /\ m.right
      BY <1>1, <1>5, <1>8, <2>2 DEF Follows
    <3>2. right = rightly
      BY <1>5, <2>2, <3>1
    <3>3. ~ideal.ends /\ ideal.memory = Memory(m.turn + 1, Fresh, rightly)
      <4>1. ideal = Resume(Memory(m.turn + 1, Fresh, rightly), other.guest)
        BY <1>3, <1>8, <3>1
      <4> QED
        BY <4>1, TurnConstructors
    <3>4. ideal.memory = t.memory
      BY <2>1, <3>2, <3>3
    <3> QED
      BY <1>4, <2>1, <3>1, <3>3, <3>4 DEF Follows
  <2>3. CASE ~right
    <3>1. t.memory.turn # 0 /\ ~t.memory.right
      BY <2>1, <2>3, TurnConstructors
    <3>2. Spoilt(v, t.memory)
      BY <3>1 DEF Spoilt
    <3> QED
      BY <2>1, <3>2 DEF Follows
  <2> QED
    BY <2>2, <2>3
<1>9. CASE nested.ends /\ ~(m.turn < Len(v["then"]))
  <2>1. t.ends /\ t.outcome = PassIf(right, "script_logic_failure")
    BY <1>2, <1>9, TurnConstructors
  <2>2. CASE right
    <3>1. other.ends /\ rightly /\ ~Doomed(w, m.kept) /\ m.right
      BY <1>1, <1>5, <1>9, <2>2 DEF Follows
    <3>2. ideal.ends /\ ideal.outcome = PassIf(rightly, "script_logic_failure")
      <4>1. ideal = After(PassIf(rightly, "script_logic_failure"), other.guest)
        BY <1>3, <1>9, <3>1
      <4> QED
        BY <4>1, TurnConstructors
    <3> QED
      BY <1>4, <1>6, <2>1, <3>1, <3>2 DEF Follows
  <2>3. CASE ~right
    BY <1>6, <2>1, <2>3 DEF Follows
  <2> QED
    BY <2>2, <2>3
<1> QED
  BY <1>7, <1>8, <1>9

LEMMA SideEffectFollows ==
  ASSUME NEW g, NEW v, NEW fate \in Ways
  PROVE  LET t == SideEffect(g, v, fate)
         IN  t = SideEffect(g, v, AllRun) \/ (t.ends /\ ~Passed(t.outcome))
<1> DEFINE run == Execute(g, fate, v.command, SubjectUser, Home(SubjectUser))
           t == SideEffect(g, v, fate)
<1>1. CASE run = Execute(g, AllRun, v.command, SubjectUser, Home(SubjectUser))
  BY <1>1 DEF SideEffect
<1>2. CASE run.output.timedOut \/ ~run.output.spawned
  <2>1. t \in {After(Error, g), After(Fail("script_logic_failure"), run.guest)}
    BY <1>2 DEF SideEffect
  <2> HIDE DEF run, t
  <2>2. t.ends /\ ~Passed(t.outcome)
    BY <2>1, TurnConstructors, Constructors
  <2> QED
    BY <2>2 DEF t
<1> QED
  BY <1>1, <1>2, ExecuteFails

(* What a side effect keeps: which of the nested checks comes next, and    *)
(* what is kept of that one.                                               *)
LEMMA SideEffectKeeps ==
  ASSUME NEW g, NEW v, NEW m, m.turn \in Nat, m.right \in BOOLEAN, NEW fate,
         IsList(v["then"]), \A k \in DOMAIN v["then"] : Counted(v["then"][k]),
         m.turn # 0 => m.turn \in DOMAIN v["then"] /\ m.kept.turn \in Nat,
         ~side_effect_exists(g, v, m, fate).ends
  PROVE  LET t == side_effect_exists(g, v, m, fate)
         IN  t.memory.turn \in DOMAIN v["then"] /\ t.memory.kept.turn \in Nat
<1> DEFINE t == side_effect_exists(g, v, m, fate)
<1> SUFFICES t.memory.turn \in DOMAIN v["then"] /\ t.memory.kept.turn \in Nat
  OBVIOUS
<1>1. Len(v["then"]) \in Nat /\ DOMAIN v["then"] = 1..Len(v["then"])
  BY DEF IsList
<1>2. CASE m.turn = 0
  <2> DEFINE run == Execute(g, fate, v.command, SubjectUser, Home(SubjectUser))
  <2>1. \/ \E o, h : t = After(o, h)
        \/ Len(v["then"]) # 0 /\ \E m1 : m1 = Memory(1, Fresh, TRUE) /\ t = Resume(m1, run.guest)
    BY <1>2 DEF side_effect_exists, SideEffect
  <2>2. \A m1 : m1 = Memory(1, Fresh, TRUE) => m1.turn = 1 /\ m1.kept = Fresh
    BY DEF Memory
  <2>3. \A o, h : t # After(o, h)
    BY TurnConstructors
  <2> HIDE DEF run, t
  <2>4. PICK m1 : m1.turn = 1 /\ m1.kept = Fresh /\ t = Resume(m1, run.guest) /\ Len(v["then"]) # 0
    BY <2>1, <2>2, <2>3, Zenon
  <2>5. t.memory = m1 /\ Fresh.turn = 0
    BY <2>4, TurnConstructors
  <2> QED
    BY <1>1, <2>4, <2>5
<1>3. CASE m.turn # 0
  <2> DEFINE w == v["then"][m.turn]
             nested == EvaluateFlat(g, w, m.kept, fate)
             right == m.right /\ Passed(nested.outcome)
  <2>1. t = IF ~nested.ends THEN Resume(Memory(m.turn, nested.memory, m.right), nested.guest)
            ELSE IF m.turn < Len(v["then"])
            THEN Resume(Memory(m.turn + 1, Fresh, right), nested.guest)
            ELSE After(PassIf(right, "script_logic_failure"), nested.guest)
    BY <1>3 DEF side_effect_exists, NestedTurn
  <2>2. ~nested.ends => nested.memory.turn \in Nat
    <3> DEFINE found == Dispatch(g, w, m.kept, fate)
    <3>1. IsTurn(found) /\ Counted(w)
      BY <1>3, DispatchTurn
    <3>2. nested = Guarded(g, w, found)
      BY DEF EvaluateFlat
    <3> HIDE DEF found, nested, w
    <3>3. ~nested.ends => nested.ends = found.ends /\ nested.memory = found.memory
      BY <3>1, <3>2, GuardedTyped
    <3> QED
      BY <3>1, <3>3, TurnShape
  <2>3. ~t.ends
    OBVIOUS
  <2> HIDE DEF nested, right, t
  <2>4. CASE ~nested.ends
    <3>1. t.memory = Memory(m.turn, nested.memory, m.right)
      BY <2>1, <2>4, TurnConstructors
    <3> QED
      BY <1>3, <2>2, <2>4, <3>1, TurnConstructors
  <2>5. CASE nested.ends
    <3>1. m.turn < Len(v["then"]) /\ t.memory = Memory(m.turn + 1, Fresh, right)
      BY <2>1, <2>3, <2>5, TurnConstructors
    <3>2. t.memory.turn = m.turn + 1 /\ t.memory.kept = Fresh /\ Fresh.turn = 0
      BY <3>1, TurnConstructors
    <3>3. m.turn + 1 \in 1..Len(v["then"])
      BY <1>1, <3>1
    <3> QED
      BY <1>1, <3>2, <3>3
  <2> QED
    BY <2>4, <2>5
<1> QED
  BY <1>2, <1>3

---------------------------------------------------------------------------
(* Any turn of any check, and the request it is made for.                  *)

LEMMA FoundFollows ==
  ASSUME NEW g, NEW v, NEW m, m.turn \in Nat, m.right \in BOOLEAN, NEW fate \in Ways,
         Counted(v), ~Blind(v), RegistryAccepts(Registry, CommonParams, v),
         v.kind = "side_effect_exists" =>
           /\ \A k \in DOMAIN v["then"] : Counted(v["then"][k])
           /\ m.turn # 0 => m.turn \in DOMAIN v["then"] /\ m.kept.turn \in Nat
  PROVE  LET t == Found(g, v, m, fate)
         IN  Follows(Spoilt(v, m), t, Spoilt(v, t.memory), Found(g, v, m, AllRun))
<1> DEFINE t == Found(g, v, m, fate)
           ideal == Found(g, v, m, AllRun)
<1> SUFFICES Follows(Spoilt(v, m), t, Spoilt(v, t.memory), ideal)
  OBVIOUS
<1>1. CASE v.kind = "side_effect_exists" /\ m.turn = 0
  <2>1. t = SideEffect(g, v, fate) /\ ideal = SideEffect(g, v, AllRun)
    BY <1>1 DEF Found, side_effect_exists
  <2>2. Spoilt(v, m) = FALSE
    BY <1>1 DEF Spoilt
  <2>3. t = ideal \/ (t.ends /\ ~Passed(t.outcome))
    BY <2>1, SideEffectFollows
  <2> HIDE DEF t, ideal
  <2>4. Follows(FALSE, t, Spoilt(v, t.memory), ideal)
    BY <2>3, SameOrFails
  <2> QED
    BY <2>2, <2>4
<1>2. CASE v.kind = "side_effect_exists" /\ m.turn # 0
  <2>1. t = NestedTurn(g, v, m, fate) /\ ideal = NestedTurn(g, v, m, AllRun)
    BY <1>2 DEF Found, side_effect_exists
  <2>2. Given(v, "then")
    BY <1>2, RegistryAssumption DEF RegistryAccepts, EntryAccepts, Given
  <2>3. /\ m.turn \in DOMAIN v["then"] /\ m.kept.turn \in Nat /\ m.turn \in Nat \ {0}
        /\ Counted(v["then"][m.turn])
    BY <1>2
  <2>4. ~BlindAlone(v["then"][m.turn])
    BY <2>2, <2>3 DEF Blind
  <2> HIDE DEF t, ideal
  <2> QED
    BY <1>2, <2>1, <2>3, <2>4, NestedFollows
<1>3. CASE v.kind # "side_effect_exists"
  <2>1. t = Dispatch(g, v, m, fate) /\ ideal = Dispatch(g, v, m, AllRun)
    BY <1>3 DEF Found
  <2>2. ~BlindAlone(v)
    BY DEF Blind
  <2>3. Spoilt(v, m) = Doomed(v, m) /\ Spoilt(v, t.memory) = Doomed(v, t.memory)
    BY <1>3 DEF Spoilt
  <2> HIDE DEF t, ideal
  <2>4. Follows(Doomed(v, m), t, Doomed(v, t.memory), ideal)
    BY <2>1, <2>2, DispatchFollows
  <2> QED
    BY <2>3, <2>4
<1> QED
  BY <1>1, <1>2, <1>3

(* What the memory of a side effect is about, while one is being checked.  *)
Keeps(v, m) ==
  v.kind = "side_effect_exists" /\ m.turn # 0 =>
    m.turn \in DOMAIN v["then"] /\ m.kept.turn \in Nat

LEMMA EvaluateFollows ==
  ASSUME NEW g, NEW v, NEW m, m.turn \in Nat, m.right \in BOOLEAN, NEW fate \in Ways, Counted(v),
         Given(v, "then") => IsList(v["then"]) /\ \A k \in DOMAIN v["then"] : Counted(v["then"][k]),
         Keeps(v, m)
  PROVE  LET t == Evaluate(g, v, m, fate)
         IN  /\ ~Blind(v) => Follows(Spoilt(v, m), t, Spoilt(v, t.memory),
                                     Evaluate(g, v, m, AllRun))
             /\ ~t.ends => Keeps(v, t.memory)
<1> DEFINE found == Found(g, v, m, fate)
           other == Found(g, v, m, AllRun)
           accepted == RegistryAccepts(Registry, CommonParams, v)
           t == Evaluate(g, v, m, fate)
           ideal == Evaluate(g, v, m, AllRun)
<1>1. t = Guarded(g, v, found) /\ ideal = Guarded(g, v, other)
  BY DEF Evaluate, EvaluateFlat, Found
<1>2. IsTurn(found) /\ IsTurn(other)
  BY SideEffectTurn, DispatchTurn DEF Found
<1>3. v.kind = "side_effect_exists" /\ accepted
        => IsList(v["then"]) /\ \A k \in DOMAIN v["then"] : Counted(v["then"][k])
  BY RegistryAssumption DEF RegistryAccepts, EntryAccepts, Given
<1>4. accepted => t.memory = found.memory /\ t.ends = found.ends
  <2> HIDE DEF found, t
  <2> QED
    BY <1>1, <1>2, GuardedTyped
<1>5. ASSUME ~Blind(v)
      PROVE  Follows(Spoilt(v, m), t, Spoilt(v, t.memory), ideal)
  <2>1. accepted => Follows(Spoilt(v, m), found, Spoilt(v, found.memory), other)
    BY <1>3, <1>5, FoundFollows DEF Keeps
  <2>2. accepted => Spoilt(v, t.memory) = Spoilt(v, found.memory)
    BY <1>4
  <2> HIDE DEF found, other, t, ideal
  <2> QED
    BY <1>1, <1>2, <2>1, <2>2, GuardedFollows
<1>6. ASSUME ~t.ends
      PROVE  Keeps(v, t.memory)
  <2>1. accepted
    <3> HIDE DEF found, t
    <3> QED
      BY <1>1, <1>2, <1>6, GuardedTyped
  <2>2. CASE v.kind = "side_effect_exists"
    <3>1. found = side_effect_exists(g, v, m, fate)
      BY <2>2 DEF Found
    <3>2. ~found.ends /\ t.memory = found.memory
      BY <1>4, <1>6, <2>1
    <3>3. m.turn # 0 => m.turn \in DOMAIN v["then"] /\ m.kept.turn \in Nat
      BY <2>2 DEF Keeps
    <3> HIDE DEF found, t
    <3>4. found.memory.turn \in DOMAIN v["then"] /\ found.memory.kept.turn \in Nat
      BY <1>3, <2>1, <2>2, <3>1, <3>2, <3>3, SideEffectKeeps
    <3> QED
      BY <3>2, <3>4 DEF Keeps
  <2>3. CASE v.kind # "side_effect_exists"
    BY <2>3 DEF Keeps
  <2> QED
    BY <2>2, <2>3
<1> QED
  BY <1>5, <1>6

(* While a check is being made, its memory is about it, and a turn of it   *)
(* that did not go as with all tools answering has spoilt it.              *)
MemoryInv ==
  /\ memory.turn # 0 => phase = "checking" /\ Next1 \in DOMAIN task /\ Keeps(task[Next1], memory)
  /\ ~agreed => /\ phase = "checking" /\ Next1 \in DOMAIN task
                /\ Blind(task[Next1]) \/ Spoilt(task[Next1], memory)

LEMMA WitnessInductive ==
  ASSUME RequestInv, TypeOK, MemoryInv, PassWitnessed, [Next]_vars
  PROVE  MemoryInv' /\ PassWitnessed'
<1>1. CASE Validate
  <2>1. memory' = memory /\ agreed' = agreed /\ outcomes' = <<>> /\ phase # "checking"
    BY <1>1 DEF Validate
  <2>2. memory'.turn = 0 /\ agreed'
    BY <2>1 DEF MemoryInv
  <2>3. DOMAIN outcomes' = {}
    BY <2>1, NoOutcomes
  <2> QED
    BY <2>2, <2>3 DEF MemoryInv, PassWitnessed
<1>2. CASE Turn
  <2> DEFINE v == task[Next1]
  <2>1. PICK fate \in Fate : TurnBy(fate)
    BY <1>2, TurnMade
  <2>2. /\ Counted(v) /\ Next1 \in DOMAIN task /\ phase = "checking" /\ phase' = phase
        /\ task' = task /\ memory' = Taken(fate).memory
        /\ memory.turn \in Nat /\ memory.right \in BOOLEAN
    BY <2>1 DEF TurnBy, TypeOK
  <2>3. Given(v, "then") => IsList(v["then"]) /\ \A k \in DOMAIN v["then"] : Counted(v["then"][k])
    BY <2>2, StartAssumption DEF RequestInv
  <2>4. Keeps(v, memory)
    BY DEF MemoryInv, Keeps
  <2>5. /\ ~Blind(v) => Follows(Spoilt(v, memory), Taken(fate), Spoilt(v, Taken(fate).memory), Ideal)
        /\ ~Taken(fate).ends => Keeps(v, Taken(fate).memory)
    <3>1. fate \in Ways
      BY FatesAreWays
    <3> DEFINE t == Evaluate(guest, v, memory, fate)
    <3>2. /\ ~Blind(v) => Follows(Spoilt(v, memory), t, Spoilt(v, t.memory),
                                  Evaluate(guest, v, memory, AllRun))
          /\ ~t.ends => Keeps(v, t.memory)
      <4> HIDE DEF v
      <4> QED
        BY <2>2, <2>3, <2>4, <3>1, EvaluateFollows
    <3> QED
      BY <3>2 DEF Taken, Ideal
  <2>6. ~agreed => Blind(v) \/ Spoilt(v, memory)
    BY DEF MemoryInv
  <2>7. CASE Taken(fate).ends
    <3>1. /\ memory'.turn = 0 /\ agreed'
          /\ DOMAIN outcomes' = DOMAIN outcomes \cup {Next1}
          /\ outcomes'[Next1] = Taken(fate).outcome
          /\ \A i \in DOMAIN outcomes : outcomes'[i] = outcomes[i]
          /\ witnessed \subseteq witnessed'
          /\ agreed /\ Ideal.ends /\ Passed(Ideal.outcome) => Next1 \in witnessed'
      BY <2>1, <2>7, TurnConstructors DEF TurnBy
    <3>2. Passed(Taken(fate).outcome) /\ ~Blind(v) => Next1 \in witnessed'
      BY <2>5, <2>6, <2>7, <3>1 DEF Follows
    <3>3. MemoryInv'
      BY <3>1 DEF MemoryInv
    <3>4. ASSUME NEW i \in DOMAIN outcomes', Passed(outcomes'[i]), ~Blind(task'[i])
          PROVE  i \in witnessed'
      <4>1. CASE i \in DOMAIN outcomes
        BY <2>2, <3>1, <3>4, <4>1 DEF PassWitnessed, PassedCheck
      <4>2. CASE i = Next1
        BY <2>2, <3>1, <3>2, <3>4, <4>2
      <4> QED
        BY <3>1, <4>1, <4>2
    <3> QED
      BY <3>3, <3>4 DEF PassWitnessed, PassedCheck
  <2>8. CASE ~Taken(fate).ends
    <3>1. /\ outcomes' = outcomes /\ witnessed' = witnessed /\ Next1' = Next1
          /\ agreed /\ ~Ideal.ends /\ Ideal.memory = Taken(fate).memory => agreed'
      BY <2>1, <2>8 DEF TurnBy, Next1
    <3>2. ~agreed' => Blind(v) \/ Spoilt(v, memory')
      BY <2>2, <2>5, <2>6, <2>8, <3>1 DEF Follows
    <3>3. MemoryInv'
      BY <2>2, <2>5, <2>8, <3>1, <3>2 DEF MemoryInv
    <3> QED
      BY <2>2, <3>1, <3>3 DEF PassWitnessed, PassedCheck
  <2> QED
    BY <2>7, <2>8
<1>3. CASE Learner
  BY <1>3 DEF MemoryInv, PassWitnessed, PassedCheck, Learner, Next1
<1>4. CASE Answer
  <2>1. Next1 \notin DOMAIN task
    BY <1>4, TaskShape DEF Answer, Next1, TypeOK
  <2>2. memory'.turn = 0 /\ agreed'
    BY <1>4, <2>1 DEF MemoryInv, Answer
  <2> QED
    BY <1>4, <2>2 DEF MemoryInv, PassWitnessed, PassedCheck, Answer
<1>5. CASE UNCHANGED vars
  BY <1>5 DEF MemoryInv, PassWitnessed, PassedCheck, vars, Next1
<1> QED
  BY <1>1, <1>2, <1>3, <1>4, <1>5 DEF Next

(* A check that is not blind and passed did so of what an agent whose      *)
(* tools all answer would have seen, at each of its turns, on the guest as *)
(* it was then: a tool that is missing, hangs or fails never is the reason *)
(* of a pass, though the guest may change between two turns of one check.  *)
(* From MemoryInv: a turn that went otherwise has left the check in a      *)
(* memory from which it does not pass any more (validators/mod.rs evaluate *)
(* and validate_task, script.rs, network.rs and package.rs).               *)
THEOREM PassesAreWitnessed == Spec => []PassWitnessed
<1> DEFINE Inv == RequestInv /\ TypeOK /\ MemoryInv /\ PassWitnessed
<1>1. Init => Inv
  <2> SUFFICES ASSUME Init PROVE Inv
    OBVIOUS
  <2>1. memory.turn = 0 /\ agreed /\ DOMAIN outcomes = {}
    BY TurnConstructors, NoOutcomes DEF Init
  <2> QED
    BY <2>1, TypeInitially DEF MemoryInv, PassWitnessed
<1>2. Inv /\ [Next]_vars => Inv'
  BY RequestInductive, TypeInductive, WitnessInductive
<1>3. Inv => PassWitnessed
  OBVIOUS
<1> QED
  BY <1>1, <1>2, <1>3, PTL DEF Spec

---------------------------------------------------------------------------
(* The loops.  A fold is a recursive function over the sets of indices;    *)
(* what it goes through is a sequence, one iteration for each element.     *)
(* The provers cannot instantiate a lemma about any operator, so Iteration *)
(* is that of each of the loops there are, and the lemmas are about it.    *)

Iteration(loop, s, x) ==
  CASE loop.over = "ruleset" -> AfterLine(loop.v, s, x)
    [] loop.over = "weights" -> IF x.verdict \in loop.verdicts THEN s + x.weight ELSE s

Iterates(loop, base, seq, D, it) ==
  it = [s \in SUBSET D |-> IF s = {} THEN base
                           ELSE Iteration(loop, it[s \ {Max(s)}], seq[Max(s)])]

(* A number that has a property and whose successors inherit it: all have. *)
LEMMA ByInduction ==
  ASSUME NEW T \in SUBSET Nat, 0 \in T, NEW n \in Nat,
         \A k \in 0..n : k \in T /\ k < n => k + 1 \in T
  PROVE  \A k \in 0..n : k \in T
<1> DEFINE B == {k \in 0..n : k \notin T}
<1> SUFFICES ASSUME B # {} PROVE FALSE
  OBVIOUS
<1>1. B \subseteq Nat
  OBVIOUS
<1>2. PICK k \in B : \A m \in B : <<m, k>> \notin OpToRel(<, Nat)
  BY <1>1, NatLessThanWellFounded, WFMin
<1>3. \A m \in B : ~(m < k)
  <2> SUFFICES ASSUME NEW m \in B, m < k PROVE FALSE
    OBVIOUS
  <2>1. <<m, k>> \in OpToRel(<, Nat)
    BY <1>1 DEF OpToRel
  <2> QED
    BY <1>2, <2>1
<1>4. k # 0 /\ k - 1 \in 0..n
  OBVIOUS
<1>5. k - 1 \in T
  BY <1>3, <1>4
<1> QED
  BY <1>4, <1>5

LEMMA MaxOfSet ==
  ASSUME NEW k \in Nat, NEW s \in SUBSET (1..(k + 1)), k + 1 \in s
  PROVE  Max(s) = k + 1
<1>1. \E x \in s : \A y \in s : x >= y
  <2>1. \A y \in s : k + 1 >= y
    OBVIOUS
  <2> QED
    BY <2>1
<1>2. Max(s) \in s /\ \A y \in s : Max(s) >= y
  BY <1>1, Zenon DEF Max
<1> HIDE DEF Max
<1>3. Max(s) \in 1..(k + 1) /\ Max(s) >= k + 1
  BY <1>2
<1> QED
  BY <1>3

LEMMA LoopExists ==
  ASSUME NEW loop, NEW base, NEW seq, NEW n \in Nat
  PROVE  \E it : Iterates(loop, base, seq, 1..n, it)
<1> DEFINE T == {k \in Nat : \E it : Iterates(loop, base, seq, 1..k, it)}
<1>1. 0 \in T
  <2> DEFINE it == [s \in SUBSET (1..0) |-> base]
  <2>1. \A s \in SUBSET (1..0) : s = {}
    OBVIOUS
  <2>2. Iterates(loop, base, seq, 1..0, it)
    BY <2>1 DEF Iterates
  <2> QED
    BY <2>2
<1>2. ASSUME NEW k \in Nat, k \in T
      PROVE  k + 1 \in T
  <2>1. PICK f : Iterates(loop, base, seq, 1..k, f)
    BY <1>2
  <2> DEFINE it == [s \in SUBSET (1..(k + 1)) |->
                      IF s \subseteq 1..k THEN f[s]
                      ELSE Iteration(loop, f[s \ {k + 1}], seq[k + 1])]
             Longer(s) == IF s = {} THEN base ELSE Iteration(loop, it[s \ {Max(s)}], seq[Max(s)])
  <2>2. ASSUME NEW s \in SUBSET (1..(k + 1))
        PROVE  it[s] = Longer(s)
    <3>1. CASE s \subseteq 1..k
      <4>1. it[s] = f[s]
        BY <3>1
      <4>2. f[s] = IF s = {} THEN base ELSE Iteration(loop, f[s \ {Max(s)}], seq[Max(s)])
        BY <2>1, <3>1 DEF Iterates
      <4>3. s \ {Max(s)} \subseteq 1..k /\ s \ {Max(s)} \in SUBSET (1..(k + 1))
        BY <3>1
      <4>4. it[s \ {Max(s)}] = f[s \ {Max(s)}]
        BY <4>3
      <4> QED
        BY <4>1, <4>2, <4>4
    <3>2. CASE ~(s \subseteq 1..k)
      <4>1. k + 1 \in s
        BY <3>2
      <4>2. Max(s) = k + 1 /\ s # {}
        BY <4>1, MaxOfSet
      <4>3. s \ {k + 1} \subseteq 1..k /\ s \ {k + 1} \in SUBSET (1..(k + 1))
        OBVIOUS
      <4>4. it[s \ {k + 1}] = f[s \ {k + 1}]
        BY <4>3
      <4>5. it[s] = Iteration(loop, f[s \ {k + 1}], seq[k + 1])
        BY <3>2
      <4> QED
        BY <4>2, <4>4, <4>5
    <3> QED
      BY <3>1, <3>2
  <2>3. it = [s \in SUBSET (1..(k + 1)) |-> Longer(s)]
    <3> HIDE DEF Longer
    <3> QED
      BY <2>2
  <2>4. Iterates(loop, base, seq, 1..(k + 1), it)
    BY <2>3 DEF Iterates
  <2> QED
    BY <2>4
<1> HIDE DEF T
<1>3. T \in SUBSET Nat
  BY DEF T
<1>4. n \in T
  BY <1>1, <1>2, <1>3, ByInduction
<1> QED
  BY <1>4 DEF T

(* st is what a loop over n elements goes through. *)
Goes(loop, base, seq, n, st) ==
  st[0] = base /\ \A k \in 0..n : k < n => st[k + 1] = Iteration(loop, st[k], seq[k + 1])

LEMMA LoopTurns ==
  ASSUME NEW loop, NEW base, NEW seq, NEW n \in Nat, NEW it,
         Iterates(loop, base, seq, 1..n, it)
  PROVE  \E st : Goes(loop, base, seq, n, st) /\ it[1..n] = st[n]
<1> DEFINE st == [k \in 0..n |-> it[1..k]]
<1>1. st[0] = base
  <2>1. 1..0 = {} /\ {} \in SUBSET (1..n)
    OBVIOUS
  <2> QED
    BY <2>1 DEF Iterates
<1>2. ASSUME NEW k \in 0..n, k < n
      PROVE  st[k + 1] = Iteration(loop, st[k], seq[k + 1])
  <2> DEFINE s == 1..(k + 1)
  <2>1. s \in SUBSET (1..n) /\ s # {} /\ s \ {k + 1} = 1..k /\ k + 1 \in 0..n
    BY <1>2
  <2>2. Max(s) = k + 1
    BY MaxOfSet
  <2>3. it[s] = Iteration(loop, it[s \ {Max(s)}], seq[Max(s)])
    BY <2>1 DEF Iterates
  <2> QED
    BY <2>1, <2>2, <2>3
<1>3. st[n] = it[1..n]
  OBVIOUS
<1> QED
  BY <1>1, <1>2, <1>3 DEF Goes

---------------------------------------------------------------------------
(* The lines of a ruleset.                                                 *)

LEMMA LinesInTurn ==
  ASSUME NEW v, NEW ruleset, IsList(ruleset)
  PROVE  \E st :
           /\ st[0] = [inTable |-> ~Given(v, "table"), inChain |-> ~Given(v, "chain"),
                       depth |-> 0, rules |-> {}]
           /\ \A k \in 0..Len(ruleset) : k < Len(ruleset) =>
                st[k + 1] = AfterLine(v, st[k], ruleset[k + 1])
           /\ ExtractBlock(ruleset, v) = st[Len(ruleset)].rules
<1> DEFINE n == Len(ruleset)
           base == [inTable |-> ~Given(v, "table"), inChain |-> ~Given(v, "chain"),
                    depth |-> 0, rules |-> {}]
           loop == [over |-> "ruleset", v |-> v]
           Turns(it) == [s \in SUBSET DOMAIN ruleset |->
                           IF s = {} THEN base
                           ELSE AfterLine(v, it[s \ {Max(s)}], ruleset[Max(s)])]
           it == CHOOSE i : i = Turns(i)
<1>1. ExtractBlock(ruleset, v) = it[DOMAIN ruleset].rules
  BY Zenon DEF ExtractBlock, FoldLeft, MapThenFoldSet
<1>2. \A s, line : Iteration(loop, s, line) = AfterLine(v, s, line)
  BY DEF Iteration
<1>3. n \in Nat /\ DOMAIN ruleset = 1..n
  BY DEF IsList
<1> HIDE DEF n, base, loop
<1>4. \A i : Iterates(loop, base, ruleset, 1..n, i) <=> i = Turns(i)
  BY <1>2, <1>3 DEF Iterates
<1>5. \E i : i = Turns(i)
  BY <1>3, <1>4, LoopExists
<1>6. it = Turns(it)
  <2> HIDE DEF Turns
  <2> QED
    BY <1>5
<1>7. Iterates(loop, base, ruleset, 1..n, it)
  BY <1>4, <1>6
<1> HIDE DEF it
<1>8. PICK st : Goes(loop, base, ruleset, n, st) /\ it[1..n] = st[n]
  BY <1>3, <1>7, LoopTurns
<1>9. \A k \in 0..n : k < n => st[k + 1] = AfterLine(v, st[k], ruleset[k + 1])
  BY <1>2, <1>8 DEF Goes
<1>10. st[0] = base /\ ExtractBlock(ruleset, v) = st[n].rules
  BY <1>1, <1>3, <1>8 DEF Goes
<1> QED
  BY <1>9, <1>10 DEF n, base

(* What a line does to being in the table, in the chain, and to the rules. *)
LEMMA LineEffect ==
  ASSUME NEW v, NEW s, NEW line
  PROVE  LET t == AfterLine(v, s, line)
         IN  /\ Given(v, "table") /\ t.inTable =>
                  \/ line.form = "table" /\ Occurs(v["table"], line.name)
                  \/ line.form # "table" /\ s.inTable
             /\ Given(v, "chain") /\ t.inChain =>
                  \/ line.form = "chain" /\ line.name = v["chain"]
                  \/ line.form # "chain" /\ s.inChain
             /\ \/ t.rules = s.rules
                \/ /\ line.form = "rule" /\ t.rules = s.rules \cup {line.text}
                   /\ s.inTable /\ s.inChain
<1> DEFINE anyTable == ~Given(v, "table")
           anyChain == ~Given(v, "chain")
           inTable == IF line.form = "table" /\ ~anyTable THEN Occurs(v["table"], line.name)
                      ELSE s.inTable
           leftTable == line.form = "table" /\ ~anyTable /\ ~inTable
           inChain == IF line.form = "chain" /\ ~anyChain THEN line.name = v["chain"]
                      ELSE IF leftTable THEN anyChain ELSE s.inChain
           depth == CASE line.form \in {"table", "chain"} -> s.depth + 1
                      [] line.form = "close" /\ s.depth > 0 -> s.depth - 1
                      [] OTHER -> s.depth
           t == AfterLine(v, s, line)
<1>1. /\ t.inTable = inTable
      /\ t.inChain = IF depth = 0 /\ line.form = "close" THEN anyChain ELSE inChain
      /\ t.rules = IF inTable /\ inChain /\ line.form = "rule"
                   THEN s.rules \cup {line.text} ELSE s.rules
  BY DEF AfterLine
<1>2. Given(v, "table") /\ t.inTable =>
        \/ line.form = "table" /\ Occurs(v["table"], line.name)
        \/ line.form # "table" /\ s.inTable
  <2> HIDE DEF t
  <2> QED
    BY <1>1, Zenon
<1>3. Given(v, "chain") /\ t.inChain =>
        \/ line.form = "chain" /\ line.name = v["chain"]
        \/ line.form # "chain" /\ s.inChain
  <2> HIDE DEF t, depth
  <2> QED
    BY <1>1, Zenon
<1>4. \/ t.rules = s.rules
      \/ /\ line.form = "rule" /\ t.rules = s.rules \cup {line.text}
         /\ s.inTable /\ s.inChain
  <2>1. line.form = "rule" => line.form # "table" /\ line.form # "chain"
    OBVIOUS
  <2> HIDE DEF t, depth
  <2> QED
    BY <1>1, <2>1, Zenon
<1> QED
  BY <1>2, <1>3, <1>4

(* The lines that were read since the last of a form, which has the name.  *)
Since(ruleset, k, form, Named(_)) ==
  \E j \in 1..k : /\ ruleset[j].form = form /\ Named(ruleset[j].name)
                  /\ \A m \in (j + 1)..k : ruleset[m].form # form

LEMMA RulesLieInBlock ==
  ASSUME NEW v, NEW ruleset, IsList(ruleset), NEW text \in ExtractBlock(ruleset, v)
  PROVE  \E k \in DOMAIN ruleset :
           /\ ruleset[k].form = "rule" /\ ruleset[k].text = text
           /\ Given(v, "table") => LiesIn(ruleset, k, "table", LAMBDA m : Occurs(v["table"], m))
           /\ Given(v, "chain") => LiesIn(ruleset, k, "chain", LAMBDA m : m = v["chain"])
<1> DEFINE n == Len(ruleset)
           InTable(k) == Since(ruleset, k, "table", LAMBDA m : Occurs(v["table"], m))
           InChain(k) == Since(ruleset, k, "chain", LAMBDA m : m = v["chain"])
           Lies(k) ==
             /\ Given(v, "table") => LiesIn(ruleset, k, "table", LAMBDA m : Occurs(v["table"], m))
             /\ Given(v, "chain") => LiesIn(ruleset, k, "chain", LAMBDA m : m = v["chain"])
           Collected(t, k) == \E i \in 1..k : ruleset[i].form = "rule" /\ ruleset[i].text = t /\ Lies(i)
<1>1. n \in Nat /\ DOMAIN ruleset = 1..n
  BY DEF IsList
<1>2. PICK st :
        /\ st[0] = [inTable |-> ~Given(v, "table"), inChain |-> ~Given(v, "chain"),
                    depth |-> 0, rules |-> {}]
        /\ \A k \in 0..n : k < n => st[k + 1] = AfterLine(v, st[k], ruleset[k + 1])
        /\ ExtractBlock(ruleset, v) = st[n].rules
  BY LinesInTurn
<1> HIDE DEF n
<1> DEFINE Good(k) == /\ Given(v, "table") /\ st[k].inTable => InTable(k)
                      /\ Given(v, "chain") /\ st[k].inChain => InChain(k)
                      /\ \A t \in st[k].rules : Collected(t, k)
           T == {k \in Nat : k <= n => Good(k)}
<1>3. Good(0)
  <2>1. /\ st[0].inTable = ~Given(v, "table") /\ st[0].inChain = ~Given(v, "chain")
        /\ st[0].rules = {}
    BY <1>2
  <2> HIDE DEF InTable, InChain, Collected
  <2> QED
    BY <2>1, Zenon
<1>4. ASSUME NEW k \in 0..n, k < n, Good(k)
      PROVE  Good(k + 1)
  <2> DEFINE line == ruleset[k + 1]
             t == AfterLine(v, st[k], line)
  <2>1. st[k + 1] = t
    BY <1>2, <1>4
  <2>2. Given(v, "table") /\ t.inTable => InTable(k + 1)
    <3>1. CASE line.form = "table" /\ Occurs(v["table"], line.name)
      BY <1>1, <3>1 DEF Since
    <3>2. CASE line.form # "table" /\ InTable(k)
      BY <1>1, <3>2 DEF Since
    <3> HIDE DEF InTable, line
    <3> QED
      BY <1>4, <3>1, <3>2, LineEffect
  <2>3. Given(v, "chain") /\ t.inChain => InChain(k + 1)
    <3>1. CASE line.form = "chain" /\ line.name = v["chain"]
      BY <1>1, <3>1 DEF Since
    <3>2. CASE line.form # "chain" /\ InChain(k)
      BY <1>1, <3>2 DEF Since
    <3> HIDE DEF InChain, line
    <3> QED
      BY <1>4, <3>1, <3>2, LineEffect
  <2>4. ASSUME NEW x \in t.rules
        PROVE  Collected(x, k + 1)
    <3>1. CASE x \in st[k].rules
      <4>1. Collected(x, k)
        BY <1>4, <3>1
      <4> HIDE DEF Lies
      <4> QED
        BY <1>1, <4>1
    <3>2. CASE x \notin st[k].rules
      <4>1. line.form = "rule" /\ x = line.text /\ st[k].inTable /\ st[k].inChain
        <5> HIDE DEF line
        <5> QED
          BY <2>4, <3>2, LineEffect
      <4>2. Given(v, "table") => InTable(k)
        BY <1>4, <4>1
      <4>3. Given(v, "chain") => InChain(k)
        BY <1>4, <4>1
      <4>4. Given(v, "table") =>
              LiesIn(ruleset, k + 1, "table", LAMBDA m : Occurs(v["table"], m))
        BY <1>1, <4>1, <4>2 DEF Since, LiesIn
      <4>5. Given(v, "chain") => LiesIn(ruleset, k + 1, "chain", LAMBDA m : m = v["chain"])
        BY <1>1, <4>1, <4>3 DEF Since, LiesIn
      <4>6. Lies(k + 1)
        BY <4>4, <4>5
      <4> HIDE DEF Lies
      <4> QED
        BY <1>1, <4>1, <4>6
    <3> QED
      BY <3>1, <3>2
  <2> HIDE DEF t, InTable, InChain, Collected
  <2> QED
    BY <2>1, <2>2, <2>3, <2>4
<1>5. Good(n)
  <2> HIDE DEF Good
  <2>1. T \in SUBSET Nat /\ 0 \in T
    BY <1>3
  <2>2. \A k \in 0..n : k \in T /\ k < n => k + 1 \in T
    BY <1>4
  <2> HIDE DEF T
  <2>3. \A k \in 0..n : k \in T
    BY <1>1, <2>1, <2>2, ByInduction
  <2> QED
    BY <1>1, <2>3 DEF T
<1>6. Collected(text, n)
  <2> HIDE DEF Collected
  <2> QED
    BY <1>2, <1>5
<1> HIDE DEF Lies
<1>7. PICK i \in DOMAIN ruleset : ruleset[i].form = "rule" /\ ruleset[i].text = text /\ Lies(i)
  BY <1>1, <1>6
<1> QED
  BY <1>7 DEF Lies

(* The rulesets that are asked about are lists of lines. *)
RulesetsAreLists ==
  \A i \in DOMAIN task : task[i].kind = "firewall_rule" =>
    IsList(Net(guest, NamespaceFor(task[i], LessonNamespace)).ruleset)

LEMMA FirewallNarrows ==
  ASSUME NEW g, NEW v, NEW ns, IsList(Net(g, ns).ruleset),
         Passed(firewall_rule(g, v, AllRun, ns))
  PROVE  v.contains \in ExtractBlock(Net(g, ns).ruleset, v)
<1> DEFINE answer == Exit(0, ExtractBlock(Net(g, ns).ruleset, v), {})
           output == RunIn(g, ns, AllRun, "nft", answer)
<1>1. v.contains \in output.out
  <2> HIDE DEF output
  <2> QED
    BY Constructors DEF firewall_rule, PassIf, output, answer
<1>2. output = answer \/ output = Exit(1, {}, {"netns failed"})
  <2>1. "nft" \in Program /\ "ip" \in Program
    BY ProgramAssumption
  <2> HIDE DEF answer
  <2> QED
    BY <2>1, RunsAll DEF RunIn
<1>3. Exit(1, {}, {"netns failed"}).out = {} /\ answer.out = ExtractBlock(Net(g, ns).ruleset, v)
  BY DEF Exit
<1> QED
  BY <1>1, <1>2, <1>3

(* A check of the firewall holds only of a rule in the chain the author    *)
(* named, in a table whose name his occurs in, whatever the rulesets are,  *)
(* as long as they are lists: no line before the table, between chains or  *)
(* after the last is taken for one of the block (network.rs                *)
(* extract_block).                                                         *)
THEOREM RulesAreNarrowed == Spec /\ []RulesetsAreLists => []NarrowedToBlock
<1>1. RulesetsAreLists => NarrowedToBlock
  <2> SUFFICES ASSUME RulesetsAreLists,
                      NEW i \in DOMAIN task, task[i].kind = "firewall_rule",
                      Passed(firewall_rule(guest, task[i], AllRun,
                                           NamespaceFor(task[i], LessonNamespace)))
               PROVE  LET v == task[i]
                          ruleset == Net(guest, NamespaceFor(v, LessonNamespace)).ruleset
                      IN  \E k \in DOMAIN ruleset :
          /\ ruleset[k].form = "rule" /\ ruleset[k].text = v.contains
          /\ Given(v, "table") => LiesIn(ruleset, k, "table", LAMBDA n : Occurs(v["table"], n))
          /\ Given(v, "chain") => LiesIn(ruleset, k, "chain", LAMBDA n : n = v["chain"])
    BY DEF NarrowedToBlock
  <2> DEFINE ns == NamespaceFor(task[i], LessonNamespace)
  <2>1. IsList(Net(guest, ns).ruleset)
    BY DEF RulesetsAreLists
  <2>2. task[i].contains \in ExtractBlock(Net(guest, ns).ruleset, task[i])
    BY <2>1, FirewallNarrows
  <2> QED
    BY <2>1, <2>2, RulesLieInBlock DEF LiesIn
<1> QED
  BY <1>1, PTL

---------------------------------------------------------------------------
(* What is reported of a whole task.                                       *)

LEMMA WeightInTurn ==
  ASSUME NEW o, IsList(o), NEW verdicts
  PROVE  \E st :
           /\ st[0] = 0
           /\ \A k \in 0..Len(o) : k < Len(o) =>
                st[k + 1] = IF o[k + 1].verdict \in verdicts THEN st[k] + o[k + 1].weight ELSE st[k]
           /\ Weight(o, verdicts) = st[Len(o)]
<1> DEFINE n == Len(o)
           loop == [over |-> "weights", verdicts |-> verdicts]
           Counts(sum, x) == IF x.verdict \in verdicts THEN sum + x.weight ELSE sum
           Turns(it) == [s \in SUBSET DOMAIN o |->
                           IF s = {} THEN 0 ELSE Counts(it[s \ {Max(s)}], o[Max(s)])]
           it == CHOOSE i : i = Turns(i)
<1>1. Weight(o, verdicts) = it[DOMAIN o]
  BY Zenon DEF Weight, FoldLeft, MapThenFoldSet
<1>2. \A s, x : Iteration(loop, s, x) = Counts(s, x)
  BY DEF Iteration
<1>3. n \in Nat /\ DOMAIN o = 1..n
  BY DEF IsList
<1> HIDE DEF n, loop, Counts
<1>4. \A i : Iterates(loop, 0, o, 1..n, i) <=> i = Turns(i)
  BY <1>2, <1>3 DEF Iterates
<1>5. \E i : i = Turns(i)
  BY <1>3, <1>4, LoopExists
<1>6. it = Turns(it)
  <2> HIDE DEF Turns
  <2> QED
    BY <1>5
<1>7. Iterates(loop, 0, o, 1..n, it)
  BY <1>4, <1>6
<1> HIDE DEF it
<1>8. PICK st : Goes(loop, 0, o, n, st) /\ it[1..n] = st[n]
  BY <1>3, <1>7, LoopTurns
<1>9. \A k \in 0..n : k < n => st[k + 1] = Counts(st[k], o[k + 1])
  BY <1>2, <1>8 DEF Goes
<1>10. st[0] = 0 /\ Weight(o, verdicts) = st[n]
  BY <1>1, <1>3, <1>8 DEF Goes
<1> QED
  BY <1>9, <1>10 DEF n, Counts

(* The weights of what passed and of what failed add up, and a task of one *)
(* check at least has a weight.                                            *)
LEMMA WeightsAddUp ==
  ASSUME NEW o \in Seq(Outcome)
  PROVE  LET total == Weight(o, Verdicts)
             earned == Weight(o, {"pass"})
             failing == Weight(o, {"fail", "error"})
         IN  /\ total \in Nat /\ earned \in Nat /\ failing \in Nat
             /\ total = earned + failing /\ Len(o) <= total
             /\ (\A i \in DOMAIN o : Passed(o[i])) => failing = 0
<1> DEFINE n == Len(o)
           Adds(st, verdicts) ==
             /\ st[0] = 0
             /\ \A k \in 0..n : k < n =>
                  st[k + 1] = IF o[k + 1].verdict \in verdicts
                              THEN st[k] + o[k + 1].weight ELSE st[k]
             /\ Weight(o, verdicts) = st[n]
<1>1. n \in Nat /\ DOMAIN o = 1..n /\ IsList(o)
  BY DEF IsList
<1>2. PICK t : Adds(t, Verdicts)
  BY <1>1, WeightInTurn
<1>3. PICK e : Adds(e, {"pass"})
  BY <1>1, WeightInTurn
<1>4. PICK f : Adds(f, {"fail", "error"})
  BY <1>1, WeightInTurn
<1> DEFINE none == \A i \in DOMAIN o : Passed(o[i])
           Good(k) == /\ t[k] \in Nat /\ e[k] \in Nat /\ f[k] \in Nat
                      /\ t[k] = e[k] + f[k] /\ k <= t[k]
                      /\ none => f[k] = 0
           T == {k \in Nat : k <= n => Good(k)}
<1>5. Good(0)
  BY <1>2, <1>3, <1>4
<1>6. ASSUME NEW k \in 0..n, k < n, Good(k)
      PROVE  Good(k + 1)
  <2> DEFINE x == o[k + 1]
  <2>1. x \in Outcome /\ k + 1 \in DOMAIN o
    BY <1>1, <1>6
  <2>2. x.verdict \in Verdicts /\ x.weight \in 1..100 /\ (none => x.verdict = "pass")
    BY <2>1 DEF Outcome, Passed
  <2>3. /\ t[k + 1] = IF x.verdict \in Verdicts THEN t[k] + x.weight ELSE t[k]
        /\ e[k + 1] = IF x.verdict = "pass" THEN e[k] + x.weight ELSE e[k]
        /\ f[k + 1] = IF x.verdict \in {"fail", "error"} THEN f[k] + x.weight ELSE f[k]
    BY <1>2, <1>3, <1>4, <1>6
  <2>4. /\ t[k] \in Nat /\ e[k] \in Nat /\ f[k] \in Nat
        /\ t[k] = e[k] + f[k] /\ k <= t[k]
    BY <1>1, <1>6
  <2>5. /\ t[k + 1] \in Nat /\ e[k + 1] \in Nat /\ f[k + 1] \in Nat
        /\ t[k + 1] = e[k + 1] + f[k + 1] /\ k + 1 <= t[k + 1]
    <3> DEFINE w == x.weight
    <3>1. w \in 1..100 /\ t[k + 1] = t[k] + w
      BY <2>2, <2>3
    <3>2. \/ e[k + 1] = e[k] + w /\ f[k + 1] = f[k]
          \/ e[k + 1] = e[k] /\ f[k + 1] = f[k] + w
      BY <2>2, <2>3 DEF Verdicts
    <3> DEFINE t1 == t[k]
               e1 == e[k]
               f1 == f[k]
    <3>3. k \in Nat /\ t1 \in Nat /\ e1 \in Nat /\ f1 \in Nat /\ t1 = e1 + f1 /\ k <= t1
      BY <1>1, <2>4
    <3> HIDE DEF x, none, Good, w, n, t1, e1, f1
    <3>4. t[k + 1] = t1 + w
      BY <3>1 DEF t1
    <3>5. \/ e[k + 1] = e1 + w /\ f[k + 1] = f1
          \/ e[k + 1] = e1 /\ f[k + 1] = f1 + w
      BY <3>2 DEF e1, f1
    <3> QED
      BY <3>1, <3>3, <3>4, <3>5
  <2>6. ASSUME none PROVE f[k + 1] = 0
    <3>1. f[k] = 0 /\ x.verdict = "pass"
      BY <1>1, <1>6, <2>2, <2>6
    <3> HIDE DEF x, none, Good
    <3> QED
      BY <2>3, <3>1
  <2> HIDE DEF none
  <2> QED
    BY <1>1, <2>5, <2>6
<1>7. Good(n)
  <2> HIDE DEF Good, n
  <2>1. T \in SUBSET Nat /\ 0 \in T
    BY <1>5
  <2>2. \A k \in 0..n : k \in T /\ k < n => k + 1 \in T
    BY <1>6
  <2> HIDE DEF T
  <2>3. \A k \in 0..n : k \in T
    BY <1>1, <2>1, <2>2, ByInduction
  <2> QED
    BY <1>1, <2>3 DEF T
<1> QED
  BY <1>2, <1>3, <1>4, <1>7

LEMMA PercentOf ==
  ASSUME NEW earned \in Nat, NEW failing \in Nat, NEW total \in Nat \ {0},
         total = earned + failing
  PROVE  LET percent == (200 * earned + total) \div (2 * total)
         IN  /\ failing = 0 => percent = 100
             /\ percent = 100 => 200 * failing <= total
<1> DEFINE a == 200 * earned + total
           d == 2 * total
           percent == a \div d
<1>1. a \in Nat /\ d \in Nat \ {0} /\ 201 * total = a + 200 * failing /\ d = 2 * total
  OBVIOUS
<1> HIDE DEF a, d
<1>2. percent \in Int /\ d * percent <= a /\ a < d * (percent + 1)
  BY <1>1
<1> HIDE DEF percent
<1>3. ASSUME failing = 0 PROVE percent = 100
  <2>1. a = 201 * total
    BY <1>1, <1>3
  <2>2. ~(percent >= 101)
    <3> SUFFICES ASSUME percent >= 101 PROVE FALSE
      OBVIOUS
    <3>1. d * percent >= d * 101
      BY <1>1, <1>2
    <3> QED
      BY <1>1, <1>2, <2>1, <3>1
  <2>3. ~(percent <= 99)
    <3> SUFFICES ASSUME percent <= 99 PROVE FALSE
      OBVIOUS
    <3>1. d * (percent + 1) <= d * 100
      BY <1>1, <1>2
    <3> QED
      BY <1>1, <1>2, <2>1, <3>1
  <2> QED
    BY <1>2, <2>2, <2>3
<1>4. ASSUME percent = 100 PROVE 200 * failing <= total
  BY <1>1, <1>2, <1>4
<1> QED
  BY <1>3, <1>4 DEF percent, a, d

LEMMA FirstThat ==
  ASSUME NEW n \in Nat, NEW I \in SUBSET (1..n), I # {}
  PROVE  Min(I) \in I
<1>1. \E x \in I : \A y \in I : x <= y
  <2>1. I \in SUBSET Nat
    OBVIOUS
  <2>2. PICK x \in I : \A y \in I : <<y, x>> \notin OpToRel(<, Nat)
    BY <2>1, NatLessThanWellFounded, WFMin
  <2>3. \A y \in I : ~(y < x)
    BY <2>1, <2>2 DEF OpToRel
  <2> QED
    BY <2>1, <2>3
<1> QED
  BY <1>1, Zenon DEF Min

(* The first of what did not pass, a real failure before an error.         *)
LEMMA PrimaryOf ==
  ASSUME NEW o \in Seq(Outcome)
  PROVE  LET p == PrimaryFailure(o)
         IN  /\ (\A i \in DOMAIN o : Passed(o[i])) => p = 0
             /\ FailedCategories(o) # {} => p # 0 /\ ~Errored(o[p])
             /\ FailedCategories(o) = {} /\ AnyErrored(o) => p # 0 /\ Errored(o[p])
<1> DEFINE n == Len(o)
           R == {i \in 1..n : o[i].verdict = "fail"}
           U == {i \in 1..n : ~Passed(o[i])}
           p == PrimaryFailure(o)
<1>1. n \in Nat /\ DOMAIN o = 1..n
  OBVIOUS
<1>2. \A i \in 1..n : o[i].verdict \in Verdicts
  <2>1. \A i \in 1..n : o[i] \in Outcome
    OBVIOUS
  <2> QED
    BY <2>1 DEF Outcome
<1>3. p = IF (IF R # {} THEN Min(R) ELSE 0) # 0 THEN (IF R # {} THEN Min(R) ELSE 0)
          ELSE IF U # {} THEN Min(U) ELSE 0
  BY DEF PrimaryFailure, SelectInSeq
<1>4. R # {} => Min(R) \in R
  BY <1>1, FirstThat
<1>5. U # {} => Min(U) \in U
  BY <1>1, FirstThat
<1>6. FailedCategories(o) # {} <=> R # {}
  BY <1>1 DEF FailedCategories
<1>7. ASSUME R # {} PROVE p \in R
  <2> HIDE DEF R, U, p
  <2>1. Min(R) # 0
    BY <1>1, <1>4, <1>7 DEF R
  <2> QED
    BY <1>3, <1>4, <1>7, <2>1
<1>8. ASSUME R = {} PROVE p = IF U # {} THEN Min(U) ELSE 0
  <2> HIDE DEF R, U, p
  <2> QED
    BY <1>3, <1>8
<1>9. (\A i \in DOMAIN o : Passed(o[i])) => p = 0
  <2> SUFFICES ASSUME \A i \in DOMAIN o : Passed(o[i]) PROVE p = 0
    OBVIOUS
  <2>1. R = {} /\ U = {}
    BY <1>1 DEF Passed
  <2> HIDE DEF R, U, p
  <2> QED
    BY <1>8, <2>1
<1>10. FailedCategories(o) # {} => p # 0 /\ ~Errored(o[p])
  <2> SUFFICES ASSUME R # {} PROVE p # 0 /\ ~Errored(o[p])
    BY <1>6
  <2> HIDE DEF p
  <2>1. p \in R
    BY <1>7
  <2> QED
    BY <2>1 DEF Errored
<1>11. FailedCategories(o) = {} /\ AnyErrored(o) => p # 0 /\ Errored(o[p])
  <2> SUFFICES ASSUME R = {}, AnyErrored(o) PROVE p # 0 /\ Errored(o[p])
    BY <1>6
  <2>1. U # {}
    BY <1>1 DEF AnyErrored, Errored, Passed
  <2> HIDE DEF p
  <2>2. p \in U
    <3> HIDE DEF R, U
    <3> QED
      BY <1>5, <1>8, <2>1
  <2> QED
    BY <1>2, <2>2 DEF Errored, Passed, Verdicts
<1> QED
  BY <1>9, <1>10, <1>11

(* Of the outcomes of any request: the task is shown as 100 % when it      *)
(* passed and, when it did not, only if what failed weighs less than half  *)
(* a percent; the lesson is said to be at fault exactly when no check      *)
(* really failed and the first that did not pass is one that errored       *)
(* (validation.rs from_outcomes, feedback.rs shape_feedback).              *)
THEOREM FeedbackIsFit == Spec => []FeedbackFits
<1>1. TypeOK => FeedbackFits
  <2> SUFFICES ASSUME TypeOK
               PROVE  LET result == FromOutcomes(outcomes)
                          feedback == ShapeFeedback(outcomes)
                          failing == Weight(outcomes, {"fail", "error"})
                      IN  /\ result.passed => result.percent = 100 /\ ~result.errored
                          /\ result.percent = 100 => 200 * failing <= Weight(outcomes, Verdicts)
                          /\ feedback.authoring <=> /\ result.primary # 0
                                                    /\ Errored(outcomes[result.primary])
    BY DEF FeedbackFits
  <2> DEFINE o == outcomes
             result == FromOutcomes(o)
             feedback == ShapeFeedback(o)
             total == Weight(o, Verdicts)
             earned == Weight(o, {"pass"})
             failing == Weight(o, {"fail", "error"})
  <2>1. o \in Seq(Outcome)
    BY DEF TypeOK, Outcome
  <2>2. /\ result.passed = AllPassed(o) /\ result.errored = AnyErrored(o)
        /\ result.percent = CompletionPercent(o) /\ result.primary = PrimaryFailure(o)
    BY DEF FromOutcomes
  <2>3. CompletionPercent(o) = IF total = 0 THEN 0 ELSE (200 * earned + total) \div (2 * total)
    BY DEF CompletionPercent
  <2>4. ~AllPassed(o) <=> o = <<>> \/ \E i \in DOMAIN o : ~Passed(o[i])
    BY DEF AllPassed
  <2>5. ASSUME AllPassed(o)
        PROVE  CompletionPercent(o) = 100 /\ ~AnyErrored(o)
    <3>1. o # <<>> /\ \A i \in DOMAIN o : Passed(o[i])
      BY <2>5 DEF AllPassed
    <3>2. ~AnyErrored(o)
      BY <3>1 DEF AnyErrored, Errored, Passed
    <3>3. Len(o) > 0
      BY <2>1, <3>1
    <3>4. /\ total \in Nat \ {0} /\ earned \in Nat /\ failing \in Nat
          /\ total = earned + failing /\ failing = 0
      BY <2>1, <3>1, <3>3, WeightsAddUp
    <3> HIDE DEF o, total, earned, failing
    <3> QED
      BY <2>3, <3>2, <3>4, PercentOf
  <2>6. ASSUME CompletionPercent(o) = 100
        PROVE  200 * failing <= total
    <3>1. /\ total \in Nat /\ earned \in Nat /\ failing \in Nat
          /\ total = earned + failing
      BY <2>1, WeightsAddUp
    <3> HIDE DEF o, total, earned, failing
    <3>2. total # 0
      BY <2>3, <2>6
    <3> QED
      BY <2>3, <2>6, <3>1, <3>2, PercentOf
  <2>7. feedback.authoring <=> PrimaryFailure(o) # 0 /\ Errored(o[PrimaryFailure(o)])
    <3> DEFINE p == PrimaryFailure(o)
               faulty == ~AllPassed(o) /\ AnyErrored(o) /\ FailedCategories(o) = {}
    <3>1. feedback.authoring <=> faulty
      BY <2>2 DEF ShapeFeedback
    <3>2. faulty => p # 0 /\ Errored(o[p])
      BY <2>1, PrimaryOf
    <3>3. ASSUME p # 0, Errored(o[p])
          PROVE  faulty
      <4>1. FailedCategories(o) = {}
        BY <2>1, <3>3, PrimaryOf
      <4>2. ~\A i \in DOMAIN o : Passed(o[i])
        BY <2>1, <3>3, PrimaryOf
      <4>3. PICK i \in DOMAIN o : ~Passed(o[i])
        BY <4>2
      <4>4. o[i].verdict # "fail"
        BY <4>1 DEF FailedCategories
      <4>5. o[i].verdict \in Verdicts
        <5>1. o[i] \in Outcome
          BY <2>1, <4>3
        <5> QED
          BY <5>1 DEF Outcome
      <4>6. AnyErrored(o)
        BY <4>3, <4>4, <4>5 DEF AnyErrored, Errored, Passed, Verdicts
      <4> QED
        BY <4>1, <4>3, <4>6 DEF AllPassed
    <3> QED
      BY <3>1, <3>2, <3>3
  <2> HIDE DEF o, result, feedback, total, earned, failing
  <2> QED
    BY <2>2, <2>5, <2>6, <2>7 DEF o, result, feedback, total, earned, failing
<1> QED
  BY <1>1, OutcomesAreTyped, PTL
=============================================================================
