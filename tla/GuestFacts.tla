----------------------------- MODULE GuestFacts -----------------------------
(***************************************************************************)
(* What the guest agent can observe of the machine it runs in (sys.rs):    *)
(* files, accounts, processes, sockets, and the output of the tools it     *)
(* runs under a timeout.                                                   *)
(*                                                                         *)
(* A guest g is a record with the fields                                   *)
(*   file      path -> [link, at, target, real]: what lstat and stat find  *)
(*             there, where the link points, the canonical path            *)
(*   passwd, group, shadow   the lines of the account files                *)
(*   lost      the files of /etc and /proc that cannot be read             *)
(*   procs, agentPid, sockets                                              *)
(* and those that the module of each family of checks adds.  A text is the *)
(* set of the words that occur in it.                                      *)
(***************************************************************************)
EXTENDS CheckOutcome

CONSTANTS
  Numeral(_),   \* the decimal text of a user or group id
  Lower(_),     \* a word in lower case
  Trim(_),      \* a word without the blanks around it
  Occurs(_, _), \* whether a text occurs in another
  InitPid       \* the process every orphan is given to

(* A pattern is a word, or one that does not compile. *)
Malformed == "malformed"

(* How a program fares: it runs, it outlives its timeout, it cannot be     *)
(* spawned, or it runs and fails for a reason of its own, which it says on *)
(* stderr.  A fate gives one for each program.                             *)
Fates == {"runs", "late", "absent", "complains"}

Exit(status, out, err) ==
  [spawned |-> TRUE, timedOut |-> FALSE, status |-> status, out |-> out, err |-> err]

(* run_with: a timeout is an output of its own making. *)
TimedOut == [spawned |-> TRUE, timedOut |-> TRUE, status |-> -1, out |-> {}, err |-> {"timed out"}]
Complaint == Exit(1, {}, {"complaint"})
NotSpawned == [spawned |-> FALSE, timedOut |-> FALSE, status |-> -1, out |-> {}, err |-> {}]

Run(fate, program, output) ==
  CASE fate[program] = "runs" -> output
    [] fate[program] = "late" -> TimedOut
    [] fate[program] = "absent" -> NotSpawned
    [] fate[program] = "complains" -> Complaint

Success(o) == o.spawned /\ o.status = 0 /\ ~o.timedOut

---------------------------------------------------------------------------
(* Accounts.  A line that is malformed is skipped, and the first that      *)
(* matches counts.                                                         *)

Lost(g, file) == file \in g.lost
WellFormed(entry) == entry.wellFormed

Passwd(g) == IF Lost(g, "passwd") THEN <<>> ELSE SelectSeq(g.passwd, WellFormed)
Groups(g) == IF Lost(g, "group") THEN <<>> ELSE SelectSeq(g.group, WellFormed)

UserIndex(g, user) == SelectInSeq(Passwd(g), LAMBDA e : e.name = user)
GroupIndex(g, group) == SelectInSeq(Groups(g), LAMBDA e : e.name = group)
HasUser(g, user) == UserIndex(g, user) # 0
Account(g, user) == Passwd(g)[UserIndex(g, user)]

UserForUid(g, uid) ==
  LET i == SelectInSeq(Passwd(g), LAMBDA e : e.uid = uid)
  IN  IF i = 0 THEN Numeral(uid) ELSE Passwd(g)[i].name

GroupForGid(g, gid) ==
  LET i == SelectInSeq(Groups(g), LAMBDA e : e.gid = gid)
  IN  IF i = 0 THEN Numeral(gid) ELSE Groups(g)[i].name

(* groups_for_user: an error, here no group, when a file cannot be read. *)
GroupsForUser(g, user) ==
  IF Lost(g, "passwd") THEN {}
  ELSE {Groups(g)[i].name : i \in {j \in DOMAIN Groups(g) :
          \/ user \in Groups(g)[j].members
          \/ HasUser(g, user) /\ Groups(g)[j].gid = Account(g, user).gid}}

---------------------------------------------------------------------------
(* Files.                                                                  *)

Lstat(g, path) == g.file[path].link
Stat(g, path) == g.file[path].at
Exists(node) == node.kind # "none"
IsDir(g, path) == Stat(g, path).kind = "directory"

(* fs::canonicalize and read_link; NoPath when they fail. *)
NoPath == "none"
Canonical(g, path) == IF Exists(Stat(g, path)) THEN g.file[path].real ELSE NoPath
ReadLink(g, path) == g.file[path].target

(* parse_mode: octal text or a JSON integer that is not negative. *)
ParsesAsMode(m) == m.form \in {"octal", "number"}

---------------------------------------------------------------------------
(* Processes.                                                              *)

Processes(g) == IF Lost(g, "proc") THEN {} ELSE g.procs

(* match_text: the command line, or the executable of one that has none. *)
MatchText(p) == IF p.cmdline = {} THEN {p.comm} ELSE p.cmdline

(* candidate_processes: all but the agent and four generations under it. *)
OwnTree(g) ==
  LET generation[n \in 0..4] ==
        IF n = 0 THEN {g.agentPid}
        ELSE generation[n - 1] \cup
               {p.pid : p \in {q \in Processes(g) : q.ppid \in generation[n - 1]}}
  IN  generation[4]

CandidateProcesses(g) == {p \in Processes(g) : p.pid \notin OwnTree(g)}

Matching(g, pattern) == {p \in CandidateProcesses(g) : pattern \in MatchText(p)}

(* find_login_shell: the first session leader, else the youngest shell. *)
LoginShells(g, user) ==
  LET shells == {p \in Processes(g) : /\ HasUser(g, user) /\ p.uid = Account(g, user).uid
                                      /\ p.comm \in {"bash", "sh", "dash", "-bash"}}
      leaders == {p \in shells : p.pid = p.session}
  IN  IF leaders # {} THEN {p \in leaders : \A q \in leaders : p.pid <= q.pid}
      ELSE {p \in shells : \A q \in shells : p.pid >= q.pid}

(* read_sockets: a bound UDP socket counts as listening. *)
Sockets(g, protocol) ==
  {s \in g.sockets : /\ s.protocol = protocol /\ ~Lost(g, "procnet")
                     /\ protocol = "udp" \/ s.state = "LISTEN"}
=============================================================================
