-------------------------- MODULE MCTaskValidation --------------------------
(***************************************************************************)
(* Instances of TaskValidation.  A guest differs from Plain in what one    *)
(* family of checks looks at; a scenario is a set of such guests, any of   *)
(* which the learner may turn into any other, and the tasks set in it.     *)
(* Every validator occurs in some task.                                    *)
(***************************************************************************)
EXTENDS TaskValidation

CONSTANT Families  \* the scenarios of this instance

MCNumeral(n) == ToString(n)
MCLower(word) == IF word = "HELLO" THEN "hello" ELSE word
MCTrim(word) == IF word = " hello" THEN "hello" ELSE word
MCOccurs(a, b) == a = b \/ <<a, b>> \in {<<"10.0.0.1", "10.0.0.10">>, <<"filter", "filter6">>}
MCHome(user) == "home"

Programs ==
  {"sha256sum", "systemctl", "systemd-analyze", "journalctl", "dpkg-query", "dpkg", "sudo",
   "getfacl", "ip", "dig", "nc", "curl", "nft", "ssh-keygen", "ssh", "runuser", "bash",
   "shellcheck"}

(* A turn of a check runs one program, in a namespace through ip: that all *)
(* programs fare alike during a turn leaves out no outcome of it.          *)
MCFate ==
  {[p \in Programs |-> IF how = "complains" /\ p \in Shells THEN "runs" ELSE how] : how \in Fates}

---------------------------------------------------------------------------
(* Guests.                                                                 *)

NoNode ==
  [kind |-> "none", mode |-> {}, size |-> 0, uid |-> 0, gid |-> 0, device |-> 1, inode |-> 0,
   lines |-> 0, unterminated |-> FALSE, text |-> {}, digest |-> "d0", entries |-> {},
   shebang |-> {}]
Regular ==
  [NoNode EXCEPT !.kind = "regular", !.mode = {256, 128, 32, 4}, !.size = 5, !.uid = 1000,
                 !.gid = 1000, !.inode = 7, !.lines = 1, !.text = {"HELLO"}, !.digest = "d1"]
Script == [Regular EXCEPT !.mode = {256, 64}, !.shebang = {"bash"}, !.text = {"hello"}]
Directory ==
  [NoNode EXCEPT !.kind = "directory", !.inode = 9,
                 !.entries = {[name |-> ".h", hidden |-> TRUE], [name |-> "f", hidden |-> FALSE]}]
Empty == [Directory EXCEPT !.entries = {}]
Symlink == [NoNode EXCEPT !.kind = "symlink", !.inode = 11]

At(path, node) == [link |-> node, at |-> node, target |-> NoPath, real |-> path]
Linked(path, node) == [link |-> Symlink, at |-> node, target |-> path, real |-> path]

Student ==
  [wellFormed |-> TRUE, name |-> "student", uid |-> 1000, gid |-> 1000, home |-> "home",
   shell |-> "/bin/bash"]
Ann == [Student EXCEPT !.name = "ann", !.uid = 1001, !.gid = 1001]
Group(name, gid, members) ==
  [wellFormed |-> TRUE, name |-> name, gid |-> gid, members |-> members]

Shell ==
  [pid |-> 20, ppid |-> 1, uid |-> 1000, cmdline |-> {"bash"}, comm |-> "bash", session |-> 20,
   pgrp |-> 20, tpgid |-> 20, cwd |-> "home"]
Agent ==
  [Shell EXCEPT !.pid = 10, !.uid = 0, !.cmdline = {"agent"}, !.comm = "agent", !.session = 10]
Helper == [Agent EXCEPT !.pid = 11, !.ppid = 10, !.cmdline = {"sleep", "runuser"}]
Sleep ==
  [Shell EXCEPT !.pid = 30, !.ppid = 20, !.cmdline = {"sleep", "300"}, !.comm = "sleep",
                !.pgrp = 30]

RootNet ==
  [link |-> [i \in {"eth0"} |-> [oper |-> "up", flagUp |-> TRUE]],
   address |-> {<<"eth0", "10.0.0.5/24">>},
   route |-> {[to |-> "default", via |-> "10.0.0.1", dev |-> "eth0"]},
   dns |-> {[server |-> "default", name |-> "web.lab", answer |-> "10.0.0.9"]},
   open |-> {<<"web.lab", 80>>},
   http |-> [u \in {"http://web.lab"} |-> [status |-> 200, body |-> {"hello"}]],
   login |-> {<<"web.lab", "student">>}, remote |-> {<<"web.lab", "a">>},
   ruleset |-> <<>>]

Plain ==
  [file |-> [p \in {"a", "b", "home", "/", "ln"} |->
               IF p \in {"home", "/"} THEN At(p, Directory) ELSE At(p, NoNode)],
   passwd |-> <<Student>>, group |-> <<Group("student", 1000, {})>>,
   shadow |-> <<[name |-> "student", hash |-> "x"]>>, lost |-> {},
   procs |-> {Agent, Helper, Shell}, agentPid |-> 10, sockets |-> {},
   signals |-> [h \in {"trap"} |-> {"SIGTERM"}],
   unit |-> [u \in {"web"} |-> [active |-> "active", file |-> "enabled", complaints |-> {}]],
   journal |-> {}, package |-> [p \in {"tree"} |-> [status |-> "unknown", version |-> "none"]],
   order |-> {<<"2", "ge", "1">>}, sources |-> {[name |-> "sources.list", uris |-> {"deb"}]},
   stamps |-> {}, sudo |-> {}, acl |-> [p \in {"a"} |-> {}],
   net |-> [n \in {RootNamespace} |-> RootNet], key |-> [p \in {} |-> "rsa"],
   fixture |-> [f \in {"cases"} |-> <<"case-1", "case-2">>],
   expected |-> [d \in {"case-1", "case-2"} |-> IF d = "case-1" THEN {"a"} ELSE {"b"}],
   lint |-> [p \in {"a"} |-> {}], ran |-> 0]

(* Commands: "cat" prints the name of the directory's case, "fixed" what   *)
(* the first case expects; "append" adds a line to a, "make" creates it;   *)
(* "count" prints how often it ran; "loop" does not end, "fail" complains. *)
MCPerform(g, command, user, dir) ==
  LET does(status, out, err, h) == [ends |-> TRUE, output |-> Exit(status, out, err), guest |-> h]
      case(d) == CASE d = "case-1" -> {"a"} [] d = "case-2" -> {"b"} [] OTHER -> {}
  IN  CASE command = "cat" -> does(0, case(dir), {}, g)
        [] command \in {"a", "fixed"} ->
             IF Stat(g, "a").text = {"hello"} THEN does(0, case(dir), {}, g)
             ELSE does(1, {"a"}, {"usage"}, g)
        [] command = "make" -> does(0, {"made"}, {}, [g EXCEPT !.file["b"] = At("b", Regular)])
        [] command = "count" -> does(0, IF g.ran = 0 THEN {"first"} ELSE {"again"}, {},
                                     [g EXCEPT !.ran = 1])
        [] command = "fail" -> does(1, {}, {"no such file"}, g)
        [] command = "loop" -> [ends |-> FALSE, output |-> Exit(0, {}, {}), guest |-> g]

---------------------------------------------------------------------------
(* Scenarios.                                                              *)

V(kind) == [kind |-> kind]
WithPath(kind) == [kind |-> kind, path |-> "a"]
OneEach(checks) == {<<v>> : v \in checks}

FileGuests ==
  {[Plain EXCEPT !.file["a"] = n] :
     n \in {At("a", NoNode), At("a", Regular), At("a", Directory), At("a", Empty),
            Linked("b", NoNode), Linked("home", Directory), Linked("b", Regular)}}
  \cup {[Plain EXCEPT !.file["a"] = At("a", Regular), !.file["b"] = At("b", Regular)]}
FileTasks ==
  {<<WithPath("file_exists"), WithPath("file_missing")>>,
   <<WithPath("directory_exists"), WithPath("file_missing")>>,
   <<WithPath("file_exists"), WithPath("directory_exists")>>,
   <<WithPath("directory_exists"), WithPath("directory_missing")>>,
   <<[kind |-> "symbolic_link_exists", path |-> "a", target |-> "b"],
     [kind |-> "symbolic_link_exists", path |-> "a", target |-> "home", resolved |-> TRUE,
      weight |-> 100]>>,
   <<[kind |-> "file_checksum", path |-> "a", sha256 |-> "d1", weight |-> 100],
     [kind |-> "directory_contains", path |-> "a", entries |-> {"f"}, exact |-> TRUE,
      includeHidden |-> FALSE],
     [kind |-> "directory_empty", path |-> "a", weight |-> 500]>>}
  \cup OneEach({[kind |-> "file_type", path |-> "a", fileType |-> "symlink"],
                [kind |-> "file_type", path |-> "a", fileType |-> "regular",
                 failureCategory |-> "wrong_path"],
                [kind |-> "file_size", path |-> "a", min |-> 1, max |-> 5],
                [kind |-> "file_owner", path |-> "a", owner |-> "student"],
                [kind |-> "file_group", path |-> "a", group |-> "student"],
                [kind |-> "file_mode", path |-> "a", mode |-> [form |-> "octal", bits |-> {256}],
                 mask |-> [form |-> "octal", bits |-> {256, 2}]],
                [kind |-> "file_mode", path |-> "a", mode |-> [form |-> "negative", bits |-> {}]],
                [kind |-> "file_contains", path |-> "a", text |-> " hello", trim |-> TRUE,
                 caseSensitive |-> FALSE],
                [kind |-> "file_matches_regex", path |-> "a", pattern |-> "HELLO"],
                [kind |-> "file_matches_regex", path |-> "a", pattern |-> Malformed],
                [kind |-> "file_line_count", path |-> "a", equals |-> 1],
                [kind |-> "hard_link_exists", path |-> "a", linkTo |-> "b"]})

ProcessGuests ==
  {[Plain EXCEPT !.procs = @ \cup more] :
     more \in {{}, {Sleep}, {[Sleep EXCEPT !.ppid = 1, !.pgrp = 20]},
               {Sleep, [Sleep EXCEPT !.pid = 31, !.uid = 0]},
               {[Shell EXCEPT !.pid = 21, !.session = 20, !.cwd = "a"]}}}
  \cup {[Plain EXCEPT !.procs = {Agent, [Shell EXCEPT !.cwd = "a"]},
                      !.signals = [h \in {} |-> {}]]}
ProcessTasks ==
  {<<[kind |-> "process_running", pattern |-> "sleep"],
     [kind |-> "process_not_running", pattern |-> "sleep"]>>,
   <<[kind |-> "process_running", pattern |-> "sleep", owner |-> "student", minCount |-> 1],
     [kind |-> "process_owner", pattern |-> "sleep", owner |-> "student"]>>,
   <<[kind |-> "process_count", pattern |-> "sleep", min |-> 1, max |-> 2],
     [kind |-> "process_command", pattern |-> "sleep", contains |-> "300"]>>,
   <<[kind |-> "background_job_running", pattern |-> "sleep"],
     [kind |-> "background_job_running", pattern |-> "sleep", detached |-> TRUE]>>,
   <<[kind |-> "current_directory", path |-> "home"],
     [kind |-> "process_signal_received", handle |-> "trap", signal |-> "SIGTERM"]>>}

SystemGuests ==
  {[Plain EXCEPT !.unit["web"] = u] :
     u \in {[active |-> "active", file |-> "enabled", complaints |-> {}],
            [active |-> "failed", file |-> "disabled", complaints |-> {"bad"}],
            [active |-> "inactive", file |-> "missing", complaints |-> {"absent"}]}}
  \cup {[Plain EXCEPT !.journal = {[text |-> "up", unit |-> "web", priority |-> 3,
                                    attempt |-> old]},
                      !.sockets = {[protocol |-> "tcp", port |-> 80, address |-> "127.0.0.1",
                                    state |-> "LISTEN"]}] : old \in BOOLEAN}
SystemTasks ==
  {<<[kind |-> "service_active", unit |-> "web"], [kind |-> "service_inactive", unit |-> "web"]>>,
   <<[kind |-> "service_enabled", unit |-> "web"], [kind |-> "service_disabled", unit |-> "web"]>>,
   <<[kind |-> "service_active", unit |-> "web"], [kind |-> "service_failed", unit |-> "web"]>>,
   <<[kind |-> "unit_file_valid", unit |-> "web"],
     [kind |-> "journal_contains", text |-> "up", unit |-> "web", priority |-> 4]>>,
   <<[kind |-> "port_listening", port |-> 80, address |-> "0.0.0.0"],
     [kind |-> "port_listening", port |-> 80],
     [kind |-> "journal_contains", text |-> "up", since |-> "yesterday"]>>}

PackageGuests ==
  {[Plain EXCEPT !.package["tree"] = p] :
     p \in {[status |-> "unknown", version |-> "none"], [status |-> "installed", version |-> "1"],
            [status |-> "installed", version |-> "2"],
            [status |-> "config-files", version |-> "2"]}}
  \cup {[Plain EXCEPT !.stamps = {7200}, !.sources = {}], [Plain EXCEPT !.stamps = {7200, 60}]}
PackageTasks ==
  {<<[kind |-> "package_installed", package |-> "tree", version |-> "2"],
     [kind |-> "package_removed", package |-> "tree", purged |-> TRUE]>>,
   <<[kind |-> "package_version", package |-> "tree", version |-> "1", comparison |-> "ge"],
     [kind |-> "repository_configured", uri |-> "deb"],
     [kind |-> "apt_cache_updated"]>>}

AccountGuests ==
  {[Plain EXCEPT !.passwd = p, !.group = q, !.lost = lost] :
     p \in {<<Student>>, <<Student, Ann>>, <<[Ann EXCEPT !.wellFormed = FALSE], Student>>},
     q \in {<<Group("student", 1000, {}), Group("staff", 1001, {"student"})>>},
     lost \in {{}, {"passwd"}}}
  \cup {[Plain EXCEPT !.shadow = <<[name |-> "student", hash |-> "!"]>>,
                      !.sudo = {<<"student", "reboot">>}, !.file["a"] = At("a", Regular),
                      !.acl["a"] = {[text |-> "u:ann:r", default |-> FALSE]}]}
AccountTasks ==
  {<<[kind |-> "user_exists", user |-> "ann", uidMin |-> 1000],
     [kind |-> "user_missing", user |-> "ann"]>>,
   <<[kind |-> "group_exists", group |-> "staff"],
     [kind |-> "group_membership", user |-> "student", group |-> "staff"],
     [kind |-> "group_membership", user |-> "ann", group |-> "staff", primary |-> TRUE]>>,
   <<[kind |-> "sudo_permission", user |-> "student", command |-> "reboot"],
     [kind |-> "sudo_permission", user |-> "student", allowed |-> FALSE],
     [kind |-> "password_locked", user |-> "student"]>>,
   <<[kind |-> "login_shell", user |-> "ann", shell |-> "/bin/bash"],
     [kind |-> "home_directory", user |-> "ann", path |-> "home", mustExist |-> TRUE],
     [kind |-> "acl_contains", path |-> "a", entry |-> "u:ann:r"]>>}

Rules(table, chain) ==
  <<[form |-> "table", name |-> table], [form |-> "chain", name |-> chain],
    [form |-> "rule", text |-> "drop"], [form |-> "close"], [form |-> "close"],
    [form |-> "table", name |-> "nat"], [form |-> "chain", name |-> "input"],
    [form |-> "rule", text |-> "accept"], [form |-> "close"],
    [form |-> "chain", name |-> "post"], [form |-> "rule", text |-> "drop"],
    [form |-> "close"], [form |-> "close"]>>
NetGuests ==
  {[Plain EXCEPT !.net = [n \in {RootNamespace, "lab"} |-> net]] :
     net \in {RootNet, [RootNet EXCEPT !.route = {[to |-> "default", via |-> "10.0.0.10",
                                                   dev |-> "eth0"]},
                                       !.ruleset = Rules("filter6", "input")],
              [RootNet EXCEPT !.link["eth0"] = [oper |-> "down", flagUp |-> FALSE],
                              !.address = {}, !.route = {}, !.dns = {}, !.open = {}, !.login = {},
                              !.http = [u \in {} |-> [status |-> 0, body |-> {}]],
                              !.ruleset = Rules("filter", "output")]}}
  \cup {[Plain EXCEPT !.file["a"] = At("a", [Regular EXCEPT !.mode = m]),
                      !.key = [p \in {"a"} |-> "rsa"],
                      !.sockets = {[protocol |-> "udp", port |-> 53, address |-> "0.0.0.0",
                                    state |-> "bound"]}] : m \in {{256, 128}, {256, 32}}}
InLab(v) == v @@ [namespace |-> "lab"]
NetTasks ==
  {<<InLab([kind |-> "interface_exists", interface |-> "eth0"]),
     [kind |-> "interface_state", interface |-> "eth0", state |-> "up"]>>,
   <<[kind |-> "ip_address", interface |-> "eth0", address |-> "10.0.0.5/24"],
     [kind |-> "default_route", via |-> "10.0.0.1"]>>,
   <<InLab([kind |-> "route_exists", destination |-> "default", dev |-> "eth0"]),
     [kind |-> "dns_resolution", name |-> "web.lab", expect |-> "10.0.0.9"]>>,
   <<[kind |-> "tcp_connection", host |-> "web.lab", port |-> 80],
     [kind |-> "http_status", url |-> "http://web.lab", status |-> 200],
     [kind |-> "http_body", url |-> "http://web.lab", contains |-> "hello"]>>,
   <<[kind |-> "firewall_rule", contains |-> "drop", table |-> "filter", chain |-> "input"],
     [kind |-> "firewall_rule", contains |-> "accept", chain |-> "input"]>>,
   <<[kind |-> "ssh_key_valid", path |-> "a", keyType |-> "rsa", requireSafeMode |-> TRUE],
     [kind |-> "remote_file_exists", host |-> "web.lab", path |-> "a"],
     [kind |-> "udp_listener", port |-> 53]>>}

ScriptGuests ==
  {[Plain EXCEPT !.file["a"] = n] : n \in {At("a", NoNode), At("a", Regular), At("a", Script)}}
ScriptTasks ==
  {<<[kind |-> "script_exists", path |-> "a", interpreter |-> "bash"],
     [kind |-> "script_executable", path |-> "a", forUser |-> "student"]>>,
   <<[kind |-> "unit_test_passes", path |-> "a", fixture |-> "cases"],
     [kind |-> "shellcheck_passes", path |-> "a", severity |-> 1]>>,
   <<[kind |-> "script_exit_code", path |-> "a", exitCode |-> 0],
     [kind |-> "stderr_contains", command |-> "fail", text |-> "no such file"]>>,
   <<[kind |-> "stdout_exact", command |-> "count", expected |-> {"first"}],
     [kind |-> "stdout_contains", command |-> "count", text |-> "again"]>>,
   <<[kind |-> "idempotent_result", command |-> "count", runs |-> 2],
     [kind |-> "idempotent_result", command |-> "make", runs |-> 9]>>,
   <<[kind |-> "script_exit_code", path |-> "a", exitCode |-> 1, stdin |-> "x"],
     [kind |-> "stdout_exact", command |-> "loop", expected |-> {}]>>,
   <<[kind |-> "side_effect_exists", command |-> "make",
      then |-> <<[kind |-> "file_exists", path |-> "b"]>>],
     [kind |-> "side_effect_exists", command |-> "make",
      then |-> <<[kind |-> "file_checksum", path |-> "b", sha256 |-> "d2"]>>]>>,
   <<[kind |-> "side_effect_exists", command |-> "make",
      then |-> <<[kind |-> "file_vanishes", path |-> "b"]>>]>>,
   <<[kind |-> "side_effect_exists", command |-> "make",
      then |-> <<[kind |-> "unit_test_passes", path |-> "a", fixture |-> "cases"],
                 [kind |-> "file_exists", path |-> "b"]>>]>>}

(* Tasks the registry refuses, and weights that rounding swallows. *)
OddGuests == {Plain, [Plain EXCEPT !.file["a"] = At("a", Regular)]}
OddTasks ==
  {<<[kind |-> "file_vanishes", path |-> "a"], WithPath("file_exists")>>,
   <<[kind |-> "file_exists", paht |-> "a", path |-> "a"]>>,
   <<[kind |-> "file_size", path |-> "a"]>>,
   <<[kind |-> "port_listening", port |-> 0]>>,
   <<[kind |-> "directory_exists", path |-> "home", weight |-> 100],
     [kind |-> "directory_exists", path |-> "/", weight |-> 100],
     [kind |-> "file_exists", path |-> "a", weight |-> -3]>>}

(* The guests of a scenario have a line of their own in the journal, so    *)
(* that the learner of one does not end up in another.                     *)
Marked(family, guests) ==
  {[g EXCEPT !.journal = @ \cup {[text |-> family, unit |-> "lab", priority |-> 7,
                                  attempt |-> FALSE]}] : g \in guests}

Scenario(family) ==
  CASE family = "file" -> [guests |-> Marked(family, FileGuests), tasks |-> FileTasks]
    [] family = "process" -> [guests |-> Marked(family, ProcessGuests), tasks |-> ProcessTasks]
    [] family = "system" -> [guests |-> Marked(family, SystemGuests), tasks |-> SystemTasks]
    [] family = "package" -> [guests |-> Marked(family, PackageGuests), tasks |-> PackageTasks]
    [] family = "account" -> [guests |-> Marked(family, AccountGuests), tasks |-> AccountTasks]
    [] family = "network" -> [guests |-> Marked(family, NetGuests), tasks |-> NetTasks]
    [] family = "script" -> [guests |-> Marked(family, ScriptGuests), tasks |-> ScriptTasks]
    [] family = "odd" -> [guests |-> Marked(family, OddGuests), tasks |-> OddTasks]

MCStart == UNION {Scenario(f).guests \X Scenario(f).tasks : f \in Families}
MCReach(g) == UNION {IF g \in Scenario(f).guests THEN Scenario(f).guests \ {g} ELSE {} :
                       f \in Families}

---------------------------------------------------------------------------
(* lessons/schema/validators.json: each kind with the parameters it must   *)
(* and those it may have.  A name stands for the same type wherever it is  *)
(* used; a name that is not listed by type takes any value of its own.     *)

Kinds ==
  {<<"file_exists", {"path"}, {}>>,
   <<"file_missing", {"path"}, {}>>,
   <<"directory_exists", {"path"}, {}>>,
   <<"directory_missing", {"path"}, {}>>,
   <<"symbolic_link_exists", {"path"}, {"target", "resolved"}>>,
   <<"hard_link_exists", {"path", "linkTo"}, {}>>,
   <<"file_type", {"path", "fileType"}, {}>>,
   <<"file_size", {"path"}, {"equals", "min", "max"}>>,
   <<"file_owner", {"path", "owner"}, {}>>,
   <<"file_group", {"path", "group"}, {}>>,
   <<"file_mode", {"path", "mode"}, {"mask"}>>,
   <<"file_contains", {"path", "text"}, {"caseSensitive", "trim"}>>,
   <<"file_matches_regex", {"path", "pattern"}, {"caseSensitive", "multiline"}>>,
   <<"file_line_count", {"path"}, {"equals", "min", "max"}>>,
   <<"file_checksum", {"path", "sha256"}, {}>>,
   <<"directory_contains", {"path", "entries"}, {"exact", "includeHidden"}>>,
   <<"directory_empty", {"path"}, {"includeHidden"}>>,
   <<"current_directory", {"path"}, {"resolveSymlinks"}>>,
   <<"process_running", {"pattern"}, {"minCount", "owner"}>>,
   <<"process_not_running", {"pattern"}, {}>>,
   <<"process_owner", {"pattern", "owner"}, {}>>,
   <<"process_count", {"pattern"}, {"equals", "min", "max"}>>,
   <<"process_command", {"pattern", "contains"}, {}>>,
   <<"process_signal_received", {"handle", "signal"}, {}>>,
   <<"background_job_running", {"pattern"}, {"detached"}>>,
   <<"service_active", {"unit"}, {}>>,
   <<"service_inactive", {"unit"}, {}>>,
   <<"service_enabled", {"unit"}, {}>>,
   <<"service_disabled", {"unit"}, {}>>,
   <<"service_failed", {"unit"}, {}>>,
   <<"unit_file_valid", {"unit"}, {}>>,
   <<"journal_contains", {"text"}, {"unit", "since", "priority"}>>,
   <<"port_listening", {"port"}, {"protocol", "address", "process"}>>,
   <<"user_exists", {"user"}, {"uidMin"}>>,
   <<"user_missing", {"user"}, {}>>,
   <<"group_exists", {"group"}, {}>>,
   <<"group_membership", {"user", "group"}, {"primary"}>>,
   <<"sudo_permission", {"user"}, {"command", "allowed"}>>,
   <<"password_locked", {"user"}, {"locked"}>>,
   <<"login_shell", {"user", "shell"}, {}>>,
   <<"home_directory", {"user", "path"}, {"mustExist"}>>,
   <<"acl_contains", {"path", "entry"}, {"isDefault"}>>,
   <<"interface_exists", {"interface"}, {}>>,
   <<"interface_state", {"interface", "state"}, {}>>,
   <<"ip_address", {"interface", "address"}, {}>>,
   <<"route_exists", {"destination"}, {"via", "dev"}>>,
   <<"default_route", {}, {"via", "dev"}>>,
   <<"dns_resolution", {"name"}, {"expect", "server"}>>,
   <<"tcp_connection", {"host", "port"}, {"timeoutMs"}>>,
   <<"udp_listener", {"port"}, {"address"}>>,
   <<"http_status", {"url", "status"}, {"method", "timeoutMs"}>>,
   <<"http_body", {"url", "contains"}, {"timeoutMs"}>>,
   <<"firewall_rule", {"contains"}, {"table", "chain"}>>,
   <<"ssh_key_valid", {"path"}, {"keyType", "requireSafeMode"}>>,
   <<"remote_file_exists", {"host", "path"}, {"user"}>>,
   <<"script_exists", {"path"}, {"interpreter"}>>,
   <<"script_executable", {"path"}, {"forUser"}>>,
   <<"script_exit_code", {"path", "exitCode"}, {"args", "stdin", "timeoutMs", "fixture"}>>,
   <<"stdout_exact", {"command", "expected"}, {"trimTrailingNewline", "timeoutMs", "fixture"}>>,
   <<"stdout_contains", {"command", "text"}, {"timeoutMs", "fixture"}>>,
   <<"stderr_contains", {"command", "text"}, {"timeoutMs", "fixture"}>>,
   <<"unit_test_passes", {"path", "fixture"}, {"timeoutMs"}>>,
   <<"shellcheck_passes", {"path"}, {"severity", "exclude"}>>,
   <<"side_effect_exists", {"command", "then"}, {"timeoutMs"}>>,
   <<"idempotent_result", {"command"}, {"runs", "timeoutMs"}>>,
   <<"package_installed", {"package"}, {"version"}>>,
   <<"package_removed", {"package"}, {"purged"}>>,
   <<"repository_configured", {"uri"}, {"file"}>>,
   <<"package_version", {"package", "version"}, {"comparison"}>>,
   <<"apt_cache_updated", {}, {"maxAgeSeconds"}>>}

ParamSpec(name) ==
  CASE name = "port" -> [type |-> "port"]
    [] name \in {"path", "linkTo", "shell", "file"} -> [type |-> "path"]
    [] name \in {"mode", "mask"} -> [type |-> "mode"]
    [] name = "fileType" ->
         [type |-> "enum", values |-> {"regular", "directory", "symlink", "fifo", "socket"}]
    [] name = "failureCategory" ->
         [type |-> "enum", values |-> {"wrong_path", "wrong_file_contents", "permission_denied"}]
    [] OTHER -> [type |-> "any"]

ParamSpecs(names) == [p \in names |-> ParamSpec(p)]
KindRow(kind) == CHOOSE row \in Kinds : row[1] = kind
MCRegistry ==
  [kind \in {row[1] : row \in Kinds} |->
     [implemented |-> TRUE, params |-> ParamSpecs(KindRow(kind)[2] \cup KindRow(kind)[3]),
      required |-> KindRow(kind)[2],
      oneOf |-> IF kind \in {"file_size", "file_line_count", "process_count"}
                THEN {"equals", "min", "max"} ELSE {}]]
MCCommon == ParamSpecs({"message", "failureCategory", "runAs", "namespace", "weight"})
=============================================================================
