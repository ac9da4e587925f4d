---------------------------- MODULE SystemChecks ----------------------------
(***************************************************************************)
(* The validators of units, ports and packages (validators/service.rs and  *)
(* package.rs).  The guest has                                             *)
(*   unit     name -> [active, file, complaints]: the words systemctl and  *)
(*            systemd-analyze print of it; file = "missing" when there is  *)
(*            no such unit                                                 *)
(*   journal  entries [text, unit, priority, attempt]: attempt tells those *)
(*            written since the attempt began                              *)
(*   package  name -> [status, version]; status "unknown" to dpkg          *)
(*   sources  apt source files, [name, uris]                               *)
(*   stamps   the ages of the files that an update touches                 *)
(* A priority is a number, 0 the most urgent.                              *)
(***************************************************************************)
EXTENDS GuestFacts

UnsafeUnit == "--unsafe"

(* What a systemctl that reaches its manager prints: the state on stdout,  *)
(* or a complaint on stderr when is-enabled is asked of a unit that does   *)
(* not exist.  One that does not reach it complains of that (Fates).       *)
Systemctl(g, subcommand, unit) ==
  LET u == g.unit[unit]
  IN  CASE subcommand = "is-active" -> Exit(IF u.active = "active" THEN 0 ELSE 3, {u.active}, {})
        [] subcommand = "is-enabled" /\ u.file = "missing" -> Exit(1, {}, {"no such unit"})
        [] subcommand = "is-enabled" /\ u.file # "missing" ->
             Exit(IF u.file = "enabled" THEN 0 ELSE 1, {u.file}, {})

(* The printed word decides, so every other word is the negative state,    *)
(* what systemctl complains of on stderr included.                         *)
ServiceState(g, v, fate, subcommand, positive, wantPositive) ==
  LET output == Run(fate, "systemctl", Systemctl(g, subcommand, v.unit))
      state == IF output.out = {} THEN output.err ELSE output.out
  IN  IF v.unit = UnsafeUnit \/ ~output.spawned \/ output.timedOut THEN Error
      ELSE PassIf((state = {positive}) = wantPositive, "service_not_active")

service_active(g, v, fate) == ServiceState(g, v, fate, "is-active", "active", TRUE)
service_inactive(g, v, fate) == ServiceState(g, v, fate, "is-active", "active", FALSE)
service_enabled(g, v, fate) == ServiceState(g, v, fate, "is-enabled", "enabled", TRUE)
service_disabled(g, v, fate) == ServiceState(g, v, fate, "is-enabled", "enabled", FALSE)

service_failed(g, v, fate) ==
  LET output == Run(fate, "systemctl", Exit(0, {g.unit[v.unit].active}, {}))
  IN  IF v.unit = UnsafeUnit \/ ~output.spawned THEN Error
      ELSE PassIf(output.out = {"failed"}, "service_not_active")

unit_file_valid(g, v, fate) ==
  LET output == Run(fate, "systemd-analyze", Exit(0, {}, g.unit[v.unit].complaints))
  IN  IF v.unit = UnsafeUnit \/ ~output.spawned THEN Error
      ELSE PassIf(Success(output) /\ output.err = {}, "script_syntax_failure")

(* Without "since", only what this attempt wrote counts. *)
journal_contains(g, v, fate) ==
  LET shown == {e \in g.journal : /\ Given(v, "since") \/ e.attempt
                                  /\ Given(v, "unit") => e.unit = v["unit"]
                                  /\ Given(v, "priority") => e.priority <= v["priority"]}
      output == Run(fate, "journalctl", Exit(0, {e.text : e \in shown}, {}))
  IN  IF ~output.spawned THEN Error ELSE PassIf(v.text \in output.out, "service_not_active")

(* The process that listens, which the registry lets an author name, is    *)
(* not looked at.                                                          *)
port_listening(g, v) ==
  LET listening == {s \in Sockets(g, Param(v, "protocol", "tcp")) : s.port = v.port}
  IN  PassIf(/\ listening # {}
             /\ Given(v, "address") => \E s \in listening : s.address = v["address"],
             "wrong_port")

---------------------------------------------------------------------------
(* Packages.  dpkg_status does not tell a package that dpkg does not know  *)
(* from a dpkg-query that did not answer.                                  *)

NoStatus == [status |-> "none", version |-> "none"]

DpkgStatus(g, package, fate) ==
  LET known == g.package[package].status # "unknown"
      output == Run(fate, "dpkg-query", Exit(IF known THEN 0 ELSE 1, {}, {}))
  IN  IF Success(output) THEN g.package[package] ELSE NoStatus

package_installed(g, v, fate) ==
  LET found == DpkgStatus(g, v.package, fate)
  IN  PassIf(/\ found.status = "installed"
             /\ Given(v, "version") => found.version = v["version"],
             "task_partially_completed")

package_removed(g, v, fate) ==
  LET found == DpkgStatus(g, v.package, fate)
  IN  PassIf(/\ found.status # "installed"
             /\ ~(Flag(v, "purged") /\ found.status = "config-files"),
             "task_partially_completed")

(* Two turns: dpkg-query says which version is installed, and dpkg         *)
(* compares it.  g.order holds the triples <<a, comparison, b>> that       *)
(* dpkg --compare-versions accepts.                                        *)
VersionFound(g, v, fate) ==
  LET found == DpkgStatus(g, v.package, fate)
  IN  IF found.status # "installed" THEN After(Fail("task_partially_completed"), g)
      ELSE Resume(Memory(1, found.version, TRUE), g)

VersionFits(g, v, version, fate) ==
  LET holds == <<version, Param(v, "comparison", "eq"), v.version>> \in g.order
      output == Run(fate, "dpkg", Exit(IF holds THEN 0 ELSE 1, {}, {}))
  IN  IF ~output.spawned THEN Error ELSE PassIf(Success(output), "task_partially_completed")

package_version(g, v, memory, fate) ==
  IF memory.turn = 0 THEN VersionFound(g, v, fate)
  ELSE After(VersionFits(g, v, memory.kept, fate), g)

repository_configured(g, v) ==
  PassIf(\E s \in g.sources : /\ Given(v, "file") => s.name = v["file"]
                              /\ v.uri \in s.uris,
         "task_partially_completed")

(* The newest of the stamps; one in the future is fresh. *)
apt_cache_updated(g, v) ==
  LET given == Param(v, "maxAgeSeconds", 3600)
      maxAge == IF given < 1 THEN 1 ELSE given
  IN  PassIf(\E age \in g.stamps : age <= maxAge, "task_partially_completed")

SystemKinds ==
  {"service_active", "service_inactive", "service_enabled", "service_disabled",
   "service_failed", "unit_file_valid", "journal_contains", "port_listening",
   "package_installed", "package_removed", "repository_configured",
   "apt_cache_updated"}

(* service::dispatch and package::dispatch, but for package_version, which *)
(* takes two turns.                                                        *)
SystemCheck(g, v, fate) ==
  CASE v.kind = "service_active" -> service_active(g, v, fate)
    [] v.kind = "service_inactive" -> service_inactive(g, v, fate)
    [] v.kind = "service_enabled" -> service_enabled(g, v, fate)
    [] v.kind = "service_disabled" -> service_disabled(g, v, fate)
    [] v.kind = "service_failed" -> service_failed(g, v, fate)
    [] v.kind = "unit_file_valid" -> unit_file_valid(g, v, fate)
    [] v.kind = "journal_contains" -> journal_contains(g, v, fate)
    [] v.kind = "port_listening" -> port_listening(g, v)
    [] v.kind = "package_installed" -> package_installed(g, v, fate)
    [] v.kind = "package_removed" -> package_removed(g, v, fate)
    [] v.kind = "repository_configured" -> repository_configured(g, v)
    [] v.kind = "apt_cache_updated" -> apt_cache_updated(g, v)
=============================================================================
