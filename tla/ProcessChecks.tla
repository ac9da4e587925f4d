--------------------------- MODULE ProcessChecks ---------------------------
(***************************************************************************)
(* The process and job validators (validators/process.rs).  A process has  *)
(* the fields pid, ppid, uid, cmdline and comm (what a pattern matches),   *)
(* session, pgrp, tpgid (-1 for no terminal) and cwd.  g.signals maps the   *)
(* handles that have a signal log to what was logged.                      *)
(***************************************************************************)
EXTENDS GuestFacts, FiniteSets

(* A pattern that does not compile is an error of the lesson. *)
Compiled(v, outcome) == IF v.pattern = Malformed THEN Error ELSE outcome

process_running(g, v) ==
  LET found == {p \in Matching(g, v.pattern) :
                  Given(v, "owner") => p.uid = Account(g, v["owner"]).uid}
      minimum == Param(v, "minCount", 1)
      required == IF minimum < 1 THEN 1 ELSE minimum
  IN  Compiled(v, IF Given(v, "owner") /\ ~HasUser(g, v["owner"]) THEN Fail("wrong_ownership")
                  ELSE PassIf(Cardinality(found) >= required, "process_not_running"))

process_not_running(g, v) ==
  Compiled(v, PassIf(Matching(g, v.pattern) = {}, "process_not_running"))

process_owner(g, v) ==
  LET found == Matching(g, v.pattern)
  IN  Compiled(v, IF found = {} THEN Fail("process_not_running")
                  ELSE PassIf(\A p \in found : UserForUid(g, p.uid) = v.owner, "wrong_ownership"))

process_count(g, v) ==
  Compiled(v, PassIf(SatisfiedBy(v, Cardinality(Matching(g, v.pattern))), "process_not_running"))

process_command(g, v) ==
  Compiled(v, PassIf(\E p \in Matching(g, v.pattern) : v.contains \in MatchText(p),
                     "process_not_running"))

(* The log of linuxlab-signal-trap; no log, or another signal, is a fail. *)
process_signal_received(g, v) ==
  IF v.handle = Malformed THEN Error
  ELSE PassIf(v.handle \in DOMAIN g.signals /\ v.signal \in g.signals[v.handle],
              "process_not_running")

(* Detached: given to init.  Otherwise: not the group in the foreground. *)
background_job_running(g, v, user) ==
  LET found == {p \in Matching(g, v.pattern) : p.uid = Account(g, user).uid}
  IN  Compiled(v, IF ~HasUser(g, user) THEN Error
                  ELSE IF Flag(v, "detached")
                  THEN PassIf(\E p \in found : p.ppid = InitPid, "process_not_running")
                  ELSE PassIf(\E p \in found : p.tpgid < 0 \/ p.pgrp # p.tpgid,
                              "process_not_running"))

ProcessKinds ==
  {"process_running", "process_not_running", "process_owner", "process_count",
   "process_command", "process_signal_received", "background_job_running"}

(* process::dispatch *)
ProcessCheck(g, v, user) ==
  CASE v.kind = "process_running" -> process_running(g, v)
    [] v.kind = "process_not_running" -> process_not_running(g, v)
    [] v.kind = "process_owner" -> process_owner(g, v)
    [] v.kind = "process_count" -> process_count(g, v)
    [] v.kind = "process_command" -> process_command(g, v)
    [] v.kind = "process_signal_received" -> process_signal_received(g, v)
    [] v.kind = "background_job_running" -> background_job_running(g, v, user)
=============================================================================
