--------------------------- MODULE NetworkChecks ---------------------------
(***************************************************************************)
(* The networking validators (validators/network.rs).  g.net maps each     *)
(* network namespace to a record: link (interface -> [oper, flagUp]),      *)
(* address (pairs <<interface, address>>), route ([to, via, dev]), dns     *)
(* ([server, name, answer]), open (pairs <<host, port>>), http (url ->     *)
(* [status, body]), login (pairs <<host, user>>), remote (pairs <<host,    *)
(* path>>) and ruleset, the lines nft prints.  g.key maps a path to the    *)
(* type of the key there.                                                  *)
(***************************************************************************)
EXTENDS GuestFacts

RootNamespace == "root"

(* Ctx::namespace_for: the validator's own namespace, else the lesson's. *)
NamespaceFor(v, lessonNamespace) == Param(v, "namespace", lessonNamespace)

(* In a namespace it is ip that is spawned: a program that is missing is   *)
(* then a command that failed.                                             *)
RunIn(g, namespace, fate, program, output) ==
  IF namespace = RootNamespace THEN Run(fate, program, output)
  ELSE IF namespace \notin DOMAIN g.net \/ fate[program] = "absent"
  THEN Run(fate, "ip", Exit(1, {}, {"netns failed"}))
  ELSE IF fate[program] = "late" THEN TimedOut
  ELSE Run(fate, "ip", IF fate[program] = "complains" THEN Complaint ELSE output)

Net(g, namespace) ==
  IF namespace \in DOMAIN g.net THEN g.net[namespace] ELSE g.net[RootNamespace]

Unreachable == Fail("network_unreachable")
Reachable(o, holds) == IF ~o.spawned THEN Error ELSE PassIf(holds, "network_unreachable")

interface_exists(g, v, fate, ns) ==
  LET output == RunIn(g, ns, fate, "ip", Exit(0, DOMAIN Net(g, ns).link, {}))
  IN  Reachable(output, v.interface \in output.out)

(* A command about one interface fails when there is none of that name. *)
OfInterface(g, v, fate, ns, facts) ==
  RunIn(g, ns, fate, "ip", IF v.interface \in DOMAIN Net(g, ns).link THEN Exit(0, facts, {})
                           ELSE Exit(1, {}, {"no such device"}))

(* Up, or of unknown state with its flag up, as a loopback is. *)
interface_state(g, v, fate, ns) ==
  LET output == OfInterface(g, v, fate, ns, {})
      link == Net(g, ns).link[v.interface]
      isUp == link.oper = "up" \/ (link.oper = "unknown" /\ link.flagUp)
  IN  Reachable(output, Success(output) /\ isUp = (v.state = "up"))

ip_address(g, v, fate, ns) ==
  LET here == {a \in Net(g, ns).address : a[1] = v.interface}
      output == OfInterface(g, v, fate, ns, {a[2] : a \in here})
  IN  Reachable(output, Success(output) /\ v.address \in output.out)

(* The gateway and the device are looked for in the text of the routes, so *)
(* one may be a prefix of another, and each may come from another route.   *)
RouteTextFits(v, routes) ==
  /\ Given(v, "via") => \E r \in routes : Occurs(v["via"], r.via)
  /\ Given(v, "dev") => \E r \in routes : Occurs(v["dev"], r.dev)

RoutesTo(g, v, fate, ns, destination) ==
  RunIn(g, ns, fate, "ip", Exit(0, {r \in Net(g, ns).route : r.to = destination}, {}))

route_exists(g, v, fate, ns) ==
  LET output == RoutesTo(g, v, fate, ns, v.destination)
  IN  Reachable(output, output.out # {} /\ RouteTextFits(v, output.out))

default_route(g, v, fate, ns) ==
  LET output == RoutesTo(g, v, fate, ns, "default")
  IN  Reachable(output, output.out # {} /\ RouteTextFits(v, output.out))

dns_resolution(g, v, fate, ns) ==
  LET records == {r \in Net(g, ns).dns : /\ r.name = v.name
                                         /\ r.server = Param(v, "server", "default")}
      output == RunIn(g, ns, fate, "dig", Exit(0, {r.answer : r \in records}, {}))
  IN  IF ~output.spawned THEN Error
      ELSE PassIf(output.out # {} /\ (Given(v, "expect") => v["expect"] \in output.out),
                  "dns_failure")

tcp_connection(g, v, fate, ns) ==
  LET answers == <<v.host, v.port>> \in Net(g, ns).open
      output == RunIn(g, ns, fate, "nc", Exit(IF answers THEN 0 ELSE 1, {}, {}))
  IN  Reachable(output, Success(output))

(* The sockets are those of the agent's own namespace. *)
udp_listener(g, v) ==
  LET bound == {s \in Sockets(g, "udp") : s.port = v.port}
  IN  PassIf(/\ bound # {}
             /\ Given(v, "address") => \E s \in bound : s.address = v["address"],
             "wrong_port")

(* curl; it prints the status 000 of a server that does not answer. *)
Curl(g, v, fate, ns, printed, printedOfNone) ==
  RunIn(g, ns, fate, "curl", IF v.url \in DOMAIN Net(g, ns).http
                             THEN Exit(0, printed, {})
                             ELSE Exit(7, printedOfNone, {"could not connect"}))

http_status(g, v, fate, ns) ==
  LET output == Curl(g, v, fate, ns, {Net(g, ns).http[v.url].status}, {0})
  IN  Reachable(output, output.out = {v.status})

http_body(g, v, fate, ns) ==
  LET output == Curl(g, v, fate, ns, Net(g, ns).http[v.url].body, {})
  IN  Reachable(output, v.contains \in output.out)

(* Mutant of ExtractBlock: a chain once entered is never left. *)
ExtractBlockOpen(ruleset, v) ==
  LET named(line) == /\ line.form = "chain"
                     /\ Given(v, "chain") => line.name = v["chain"]
      from == SelectInSeq(ruleset, named)
  IN  {ruleset[i].text : i \in {j \in DOMAIN ruleset : j > from /\ ruleset[j].form = "rule"}}

(* One line of extract_block, of form table or chain (which open a block,  *)
(* with a name), rule (with a text) or close.                              *)
AfterLine(v, s, line) ==
  LET anyTable == ~Given(v, "table")
      anyChain == ~Given(v, "chain")
      inTable == IF line.form = "table" /\ ~anyTable THEN Occurs(v["table"], line.name)
                 ELSE s.inTable
      leftTable == line.form = "table" /\ ~anyTable /\ ~inTable
      inChain == IF line.form = "chain" /\ ~anyChain THEN line.name = v["chain"]
                 ELSE IF leftTable THEN anyChain ELSE s.inChain
      depth == CASE line.form \in {"table", "chain"} -> s.depth + 1
                 [] line.form = "close" /\ s.depth > 0 -> s.depth - 1
                 [] OTHER -> s.depth
  IN  [inTable |-> inTable, depth |-> depth,
       inChain |-> IF depth = 0 /\ line.form = "close" THEN anyChain ELSE inChain,
       rules |-> IF inTable /\ inChain /\ line.form = "rule"
                 THEN s.rules \cup {line.text} ELSE s.rules]

(* extract_block: the rules in the named table and chain. *)
ExtractBlock(ruleset, v) ==
  LET Line(s, line) == AfterLine(v, s, line)
  IN  FoldLeft(Line, [inTable |-> ~Given(v, "table"), inChain |-> ~Given(v, "chain"),
                      depth |-> 0, rules |-> {}], ruleset).rules

firewall_rule(g, v, fate, ns) ==
  LET ruleset == Net(g, ns).ruleset
      output == RunIn(g, ns, fate, "nft", Exit(0, ExtractBlock(ruleset, v), {}))
  IN  IF ~Success(output) THEN Error
      ELSE PassIf(v.contains \in output.out, "network_unreachable")

(* OpenSSH refuses a private key that others can read: no bit of 0077. *)
OthersBits == {32, 16, 8, 4, 2, 1}

(* Two turns when the mode matters: ssh-keygen reads the key, then it is   *)
(* looked at who may read the file.                                        *)
KeyRead(g, v, fate) ==
  LET valid == v.path \in DOMAIN g.key
      output == Run(fate, "ssh-keygen", Exit(IF valid THEN 0 ELSE 1, {}, {}))
  IN  IF ~output.spawned THEN After(Error, g)
      ELSE IF ~Success(output) \/ (Given(v, "keyType") /\ v["keyType"] # g.key[v.path])
      THEN After(Fail("permission_denied"), g)
      ELSE IF Flag(v, "requireSafeMode") THEN Resume(Memory(1, {}, TRUE), g)
      ELSE After(Pass, g)

KeyKept(g, v) ==
  IF ~Exists(Stat(g, v.path)) THEN Fail("wrong_path")
  ELSE PassIf(Stat(g, v.path).mode \cap OthersBits = {}, "wrong_permissions")

ssh_key_valid(g, v, memory, fate) ==
  IF memory.turn = 0 THEN KeyRead(g, v, fate) ELSE After(KeyKept(g, v), g)

remote_file_exists(g, v, fate, ns) ==
  LET login == <<v.host, Param(v, "user", "student")>> \in Net(g, ns).login
      there == <<v.host, v.path>> \in Net(g, ns).remote
      output == RunIn(g, ns, fate, "ssh",
                      IF ~login THEN Exit(255, {}, {"Permission denied"})
                      ELSE Exit(IF there THEN 0 ELSE 1, {}, {}))
  IN  IF ~output.spawned THEN Error
      ELSE IF Success(output) THEN Pass
      ELSE Fail(IF "Permission denied" \in output.err THEN "permission_denied"
                ELSE "network_unreachable")

NetworkKinds ==
  {"interface_exists", "interface_state", "ip_address", "route_exists", "default_route",
   "dns_resolution", "tcp_connection", "udp_listener", "http_status", "http_body",
   "firewall_rule", "remote_file_exists"}

(* network::dispatch, but for ssh_key_valid, which takes two turns. *)
NetworkCheck(g, v, fate, lessonNamespace) ==
  LET ns == NamespaceFor(v, lessonNamespace)
  IN  CASE v.kind = "interface_exists" -> interface_exists(g, v, fate, ns)
        [] v.kind = "interface_state" -> interface_state(g, v, fate, ns)
        [] v.kind = "ip_address" -> ip_address(g, v, fate, ns)
        [] v.kind = "route_exists" -> route_exists(g, v, fate, ns)
        [] v.kind = "default_route" -> default_route(g, v, fate, ns)
        [] v.kind = "dns_resolution" -> dns_resolution(g, v, fate, ns)
        [] v.kind = "tcp_connection" -> tcp_connection(g, v, fate, ns)
        [] v.kind = "udp_listener" -> udp_listener(g, v)
        [] v.kind = "http_status" -> http_status(g, v, fate, ns)
        [] v.kind = "http_body" -> http_body(g, v, fate, ns)
        [] v.kind = "firewall_rule" -> firewall_rule(g, v, fate, ns)
        [] v.kind = "remote_file_exists" -> remote_file_exists(g, v, fate, ns)
=============================================================================
