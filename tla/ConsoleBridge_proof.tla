------------------------ MODULE ConsoleBridge_proof ------------------------
(***************************************************************************)
(* Proofs about ConsoleBridge, for any number of session commands and      *)
(* keystrokes in flight, any faults and any number of machines.            *)
(***************************************************************************)
EXTENDS ConsoleBridge, TLAPS

LEMMA TailOK ==
  ASSUME NEW S, NEW q \in Seq(S), q # <<>>
  PROVE  /\ Tail(q) \in Seq(S) /\ Head(q) \in S /\ Head(q) = q[1]
         /\ Len(q) \in Nat \ {0} /\ Len(Tail(q)) = Len(q) - 1
         /\ \A i \in 1..Len(Tail(q)) : i + 1 \in 1..Len(q) /\ Tail(q)[i] = q[i + 1]
OBVIOUS

LEMMA AppendOK ==
  ASSUME NEW S, NEW q \in Seq(S), NEW t \in S
  PROVE  /\ Append(q, t) \in Seq(S)
         /\ Len(q) \in Nat /\ Len(Append(q, t)) = Len(q) + 1
         /\ \A i \in 1..Len(q) : Append(q, t)[i] = q[i]
         /\ Append(q, t)[Len(q) + 1] = t
OBVIOUS

LEMMA RunsOK ==
  ASSUME runs \in 0..MaxRuns, runs < MaxRuns
  PROVE  runs + 1 \in Run /\ runs + 1 \in 0..MaxRuns /\ runs + 1 # NoRun
BY RunsAssumption DEF Run, NoRun

---------------------------------------------------------------------------
(* Type correctness.  It is not inductive alone: a reader is spawned for   *)
(* the run of its command, which has one by then.                          *)

BusyInv ==
  \A s \in Session : job[s].at \in {"connect", "attach", "spawn", "wait"} => job[s].run \in Run

LEMMA TypeStep ==
  ASSUME TypeOK, BusyInv, [Next]_vars
  PROVE  TypeOK' /\ BusyInv'
<1> USE DEF TypeOK, Job, Places
<1>1. \A t \in Task : Asks(t) => lock' \in Seq(Task)
  BY AppendOK DEF Asks
<1>2. \A t : Has(t) /\ Release => lock' \in Seq(Task)
  BY TailOK DEF Has, Release
<1>3. Session \subseteq Task /\ Key \subseteq Task
  BY DEF Task
<1>4. ASSUME NEW s \in Session, NEW l \in Places, Goto(s, l)
      PROVE  job' \in [Session -> Job]
  BY <1>4 DEF Goto
<1>5. ASSUME NEW s \in Session, NEW l \in Places, Goto(s, l),
             l \in {"connect", "attach", "spawn", "wait"} => job[s].run \in Run
      PROVE  BusyInv'
  BY <1>5 DEF Goto, BusyInv
<1>6. ASSUME UNCHANGED job PROVE BusyInv'
  BY <1>6 DEF BusyInv
<1>0. ASSUME NEW s \in Session, NEW j \in Job, job' = [job EXCEPT ![s] = j],
             j.at \in {"connect", "attach", "spawn", "wait"} => j.run \in Run
      PROVE  BusyInv' /\ job' \in [Session -> Job]
  BY <1>0 DEF BusyInv
<1>7. ASSUME NEW s \in Session, NEW b \in BOOLEAN, Launched(s, b)
      PROVE  BusyInv' /\ job' \in [Session -> Job] /\ runs' \in 0..MaxRuns
             /\ machine' \in Run /\ ready' = NoRun
  <2> DEFINE j == [job[s] EXCEPT !.at = "connect", !.run = runs + 1, !.whpx = b]
  <2>1. runs + 1 \in Run /\ runs + 1 \in 0..MaxRuns
    BY <1>7, RunsOK DEF Launched
  <2>2. j \in Job /\ j.run \in Run
    BY <2>1
  <2>3. job' = [job EXCEPT ![s] = j]
    BY <1>7 DEF Launched
  <2> HIDE DEF j
  <2> QED
    BY <1>0, <1>7, <2>1, <2>2, <2>3 DEF Launched
<1>8. ASSUME NEW s \in Session, StartSession(s) PROVE TypeOK' /\ BusyInv'
  <2> DEFINE j == [job[s] EXCEPT !.op = "start", !.at = "launch"]
  <2>1. j \in Job /\ j.at = "launch" /\ job' = [job EXCEPT ![s] = j]
    BY <1>8 DEF StartSession
  <2> HIDE DEF j
  <2>2. BusyInv' /\ job' \in [Session -> Job]
    BY <1>0, <2>1
  <2> QED
    BY <1>8, <2>2 DEF StartSession, bridge, keys
<1>9. ASSUME NEW s \in Session, Launch(s) PROVE TypeOK' /\ BusyInv'
  BY <1>4, <1>5, <1>7, <1>9 DEF Launch, bridge, keys
<1>10. ASSUME NEW s \in Session, Connect(s) PROVE TypeOK' /\ BusyInv'
  BY <1>1, <1>3, <1>4, <1>5, <1>10 DEF Connect, At, host, keys, BusyInv
<1>11. ASSUME NEW s \in Session, ConnectFails(s) PROVE TypeOK' /\ BusyInv'
  BY <1>4, <1>5, <1>11 DEF ConnectFails, At, bridge, host, keys, BusyInv
<1>12. ASSUME NEW s \in Session, Attach(s) PROVE TypeOK' /\ BusyInv'
  BY <1>2, <1>4, <1>5, <1>12 DEF Attach, At, host, keys, BusyInv
<1>13. ASSUME NEW s \in Session, Spawn(s) PROVE TypeOK' /\ BusyInv'
  BY <1>4, <1>5, <1>13 DEF Spawn, At, host, keys, BusyInv
<1>14. ASSUME NEW s \in Session, Answered(s) PROVE TypeOK' /\ BusyInv'
  BY <1>4, <1>5, <1>14 DEF Answered, At, bridge, keys, BusyInv
<1>15. ASSUME NEW s \in Session, GivesUp(s) PROVE TypeOK' /\ BusyInv'
  BY <1>1, <1>3, <1>4, <1>5, <1>15 DEF GivesUp, host, keys
<1>16. ASSUME NEW s \in Session, StopSession(s) PROVE TypeOK' /\ BusyInv'
  <2> DEFINE j == [job[s] EXCEPT !.op = "stop", !.at = "detach"]
  <2>1. j \in Job /\ j.at = "detach" /\ job' = [job EXCEPT ![s] = j]
    BY <1>16 DEF StopSession
  <2> HIDE DEF j
  <2>2. BusyInv' /\ job' \in [Session -> Job]
    BY <1>0, <2>1
  <2> QED
    BY <1>1, <1>3, <1>16, <2>2 DEF StopSession, host, keys
<1>17. ASSUME NEW s \in Session, Detach(s) PROVE TypeOK' /\ BusyInv'
  BY <1>2, <1>4, <1>5, <1>17 DEF Detach, host, keys
<1>18. ASSUME NEW s \in Session, Kill(s) PROVE TypeOK' /\ BusyInv'
  BY <1>4, <1>5, <1>18 DEF Kill, bridge, keys
<1>19. ASSUME NEW s \in Session, Fallback(s) PROVE TypeOK' /\ BusyInv'
  BY <1>4, <1>5, <1>7, <1>19 DEF Fallback, bridge, keys
<1>20. ASSUME NEW k \in Key, Type(k) PROVE TypeOK' /\ BusyInv'
  BY <1>1, <1>3, <1>6, <1>20 DEF Type, host
<1>21. ASSUME NEW k \in Key, Written(k) \/ NotWritten(k) PROVE TypeOK' /\ BusyInv'
  BY <1>2, <1>6, <1>21 DEF Written, NotWritten, Returns, host
<1>22. ASSUME NEW r \in Run, PumpEnds(r) PROVE TypeOK' /\ BusyInv'
  BY <1>6, <1>22 DEF PumpEnds, host, keys
<1>23. CASE Hangs \/ Dies
  BY <1>6, <1>23 DEF Hangs, Dies, bridge, keys
<1>24. CASE UNCHANGED vars
  BY <1>6, <1>24 DEF vars, bridge, host, keys
<1> QED
  BY <1>8, <1>9, <1>10, <1>11, <1>12, <1>13, <1>14, <1>15, <1>16, <1>17, <1>18, <1>19,
     <1>20, <1>21, <1>22, <1>23, <1>24 DEF Next, Connects, Ends, Stops

LEMMA InitOK == Init => TypeOK /\ BusyInv
BY RunsAssumption, WhpxAssumption DEF Init, TypeOK, BusyInv, Job, Places, Task, Run

(* Every variable keeps its type, for any tasks, faults and bound.         *)
THEOREM TypeCorrect == Spec => []TypeOK
<1>1. TypeOK /\ BusyInv /\ [Next]_vars => (TypeOK /\ BusyInv)'
  BY TypeStep
<1> QED
  BY <1>1, InitOK, PTL DEF Spec

---------------------------------------------------------------------------
(* A key is read where it was typed.                                       *)

(* The ways to the live machine: the writer, and a command in line for it  *)
(* that has connected to that machine.                                     *)
Reaches == writer = machine /\ machine # NoRun
Routes == {s \in Session : job[s].at = "attach" /\ job[s].run = machine /\ machine # NoRun}

(* A key behind such a way was typed at the live machine. *)
HomeInv ==
  \A i \in 1..Len(lock) : lock[i] \in Key =>
    /\ key[lock[i]] = "waiting"
    /\ Reaches => home[lock[i]] = machine
    /\ \A j \in 1..(i - 1) : lock[j] \in Routes => home[lock[i]] = machine

(* A task is in line once, and a session command only where it waits. *)
LineInv ==
  \A i \in 1..Len(lock) :
    /\ lock[i] \in Session => job[lock[i]].at \in {"attach", "detach"}
    /\ \A j \in 1..Len(lock) : lock[j] = lock[i] => j = i

(* A machine that is launched is none that was known. *)
RunInv ==
  /\ writer <= runs /\ machine <= runs
  /\ \A s \in Session : job[s].run <= runs

UnreadInv == \A k \in Key : key[k] = "idle" => got[k] = NoRun

KeyInv == HomeInv /\ LineInv /\ RunInv /\ UnreadInv /\ KeyStaysHome

NoNewWay(t) ==
  /\ Reaches' => Reaches /\ machine' = machine
  /\ \A s \in Session \ {t} : s \in Routes' => s \in Routes /\ machine' = machine

(* Nobody joins or leaves the line. *)
LEMMA LineStands ==
  ASSUME TypeOK, HomeInv, LineInv, UNCHANGED <<lock, home, key>>,
         NEW t, NoNewWay(t), \A s \in Session \ {t} : job'[s] = job[s],
         t \in Session => /\ job[t].at \notin {"attach", "detach"}
                          /\ job'[t].at \notin {"attach", "detach"}
  PROVE  HomeInv' /\ LineInv'
<1>1. \A i \in 1..Len(lock) : lock[i] \in Session => lock[i] # t
  BY DEF LineInv
<1>2. LineInv'
  BY <1>1 DEF LineInv
<1>3. \A u : u \in Routes' => u \in Routes /\ machine' = machine
  BY DEF NoNewWay, Routes
<1>4. HomeInv'
  BY <1>3 DEF HomeInv, NoNewWay
<1> QED
  BY <1>2, <1>4

(* A session command joins it. *)
LEMMA LineGrows ==
  ASSUME TypeOK, HomeInv, LineInv, UNCHANGED <<home, key, machine, writer>>,
         NEW t \in Session, Asks(t), \A s \in Session \ {t} : job'[s] = job[s],
         job[t].at \notin {"attach", "detach"}, job'[t].at \in {"attach", "detach"}
  PROVE  HomeInv' /\ LineInv'
<1> DEFINE n == Len(lock)
<1>1. /\ lock' = Append(lock, t) /\ n \in Nat /\ Len(lock') = n + 1
      /\ \A i \in 1..n : lock'[i] = lock[i]
      /\ lock'[n + 1] = t
  BY AppendOK DEF Asks, TypeOK, Task
<1>2. \A i \in 1..n : lock[i] # t
  BY DEF LineInv
<1>3. t \notin Key
  BY TasksAssumption
<1> HIDE DEF n
<1>4. LineInv'
  <2> SUFFICES ASSUME NEW i \in 1..(n + 1)
               PROVE  /\ lock'[i] \in Session => job'[lock'[i]].at \in {"attach", "detach"}
                      /\ \A j \in 1..(n + 1) : lock'[j] = lock'[i] => j = i
    BY <1>1 DEF LineInv
  <2>1. CASE i = n + 1
    BY <1>1, <1>2, <2>1
  <2>2. CASE i \in 1..n
    BY <1>1, <1>2, <2>2 DEF LineInv, n
  <2> QED
    BY <1>1, <2>1, <2>2
<1>5. HomeInv'
  <2> SUFFICES ASSUME NEW i \in 1..(n + 1), lock'[i] \in Key
               PROVE  /\ key[lock'[i]] = "waiting"
                      /\ Reaches => home[lock'[i]] = machine
                      /\ \A j \in 1..(i - 1) : lock'[j] \in Routes' => home[lock'[i]] = machine
    BY <1>1 DEF HomeInv, Reaches
  <2>1. i \in 1..n /\ lock'[i] = lock[i]
    BY <1>1, <1>3
  <2>2. \A j \in 1..(i - 1) : j \in 1..n /\ lock'[j] = lock[j] /\ lock[j] # t
    BY <1>1, <1>2, <2>1
  <2>3. ASSUME NEW j \in 1..(i - 1), lock'[j] \in Routes' PROVE lock[j] \in Routes
    BY <2>2, <2>3 DEF Routes
  <2> QED
    BY <2>1, <2>3 DEF HomeInv, n
<1> QED
  BY <1>4, <1>5

(* The first one leaves. *)
LEMMA LineMoves ==
  ASSUME TypeOK, HomeInv, LineInv, UNCHANGED <<home, machine>>,
         NEW t, Has(t), Release,
         \A k \in Key \ {t} : key'[k] = key[k],
         Reaches' => Reaches \/ t \in Routes,
         \A s \in Session \ {t} : job'[s] = job[s]
  PROVE  HomeInv' /\ LineInv'
<1> DEFINE n == Len(lock)
<1>1. /\ n \in Nat \ {0} /\ Len(lock') = n - 1 /\ lock[1] = t
      /\ \A i \in 1..(n - 1) : i + 1 \in 1..n /\ lock'[i] = lock[i + 1]
  BY TailOK DEF Has, Release, TypeOK
<1>2. \A i \in 2..n : lock[i] # t
  BY <1>1 DEF LineInv
<1> HIDE DEF n
<1>3. \A i \in 1..(n - 1) : i + 1 \in 2..n /\ lock'[i] # t
  BY <1>1, <1>2
<1>4. LineInv'
  <2> SUFFICES ASSUME NEW i \in 1..(n - 1)
               PROVE  /\ lock'[i] \in Session => job'[lock'[i]].at \in {"attach", "detach"}
                      /\ \A j \in 1..(n - 1) : lock'[j] = lock'[i] => j = i
    BY <1>1 DEF LineInv
  <2>1. lock'[i] \in Session => job'[lock'[i]].at \in {"attach", "detach"}
    BY <1>1, <1>3 DEF LineInv, n
  <2>2. ASSUME NEW j \in 1..(n - 1), lock'[j] = lock'[i] PROVE j = i
    <3>1. j + 1 = i + 1
      BY <1>1, <2>2 DEF LineInv, n
    <3> QED
      BY <1>1, <3>1
  <2> QED
    BY <2>1, <2>2
<1>5. HomeInv'
  <2> SUFFICES ASSUME NEW i \in 1..(n - 1), lock'[i] \in Key
               PROVE  /\ key'[lock'[i]] = "waiting"
                      /\ Reaches' => home[lock'[i]] = machine
                      /\ \A j \in 1..(i - 1) : lock'[j] \in Routes' => home[lock'[i]] = machine
    BY <1>1 DEF HomeInv
  <2> DEFINE k == lock[i + 1]
  <2>1. lock'[i] = k /\ i + 1 \in 1..n /\ 1 \in 1..((i + 1) - 1) /\ k \in Key
    BY <1>1
  <2>2. /\ key[k] = "waiting"
        /\ Reaches => home[k] = machine
        /\ \A j \in 1..((i + 1) - 1) : lock[j] \in Routes => home[k] = machine
    BY <2>1 DEF HomeInv, n
  <2>3. key'[lock'[i]] = "waiting"
    BY <1>3, <2>1, <2>2
  <2>4. Reaches' => home[k] = machine
    BY <1>1, <2>1, <2>2
  <2>5. ASSUME NEW j \in 1..(i - 1), lock'[j] \in Routes' PROVE home[k] = machine
    <3>1. j \in 1..(n - 1) /\ j + 1 \in 1..((i + 1) - 1)
      BY <1>1
    <3>2. lock'[j] = lock[j + 1] /\ lock'[j] # t
      BY <1>1, <1>3, <3>1
    <3>3. lock[j + 1] \in Routes
      BY <2>5, <3>2 DEF Routes
    <3> QED
      BY <2>2, <3>1, <3>3
  <2> QED
    BY <2>1, <2>3, <2>4, <2>5
<1> QED
  BY <1>4, <1>5

(* A key joins the line. *)
LEMMA KeyJoins ==
  ASSUME TypeOK, HomeInv, LineInv, NEW k \in Key, Type(k)
  PROVE  HomeInv' /\ LineInv'
<1> DEFINE n == Len(lock)
<1>1. /\ lock' = Append(lock, k) /\ n \in Nat /\ Len(lock') = n + 1
      /\ \A i \in 1..n : lock'[i] = lock[i]
      /\ lock'[n + 1] = k
  BY AppendOK DEF Type, Asks, TypeOK, Task
<1>2. UNCHANGED <<writer, job, machine>> /\ key[k] = "idle"
      /\ key'[k] = "waiting" /\ home'[k] = machine
      /\ \A u \in Key \ {k} : key'[u] = key[u] /\ home'[u] = home[u]
  BY DEF Type, host, TypeOK
<1>3. \A i \in 1..n : lock[i] # k
  BY <1>2 DEF HomeInv
<1> HIDE DEF n
<1>4. LineInv'
  <2> SUFFICES ASSUME NEW i \in 1..(n + 1)
               PROVE  /\ lock'[i] \in Session => job'[lock'[i]].at \in {"attach", "detach"}
                      /\ \A j \in 1..(n + 1) : lock'[j] = lock'[i] => j = i
    BY <1>1 DEF LineInv
  <2>1. CASE i = n + 1
    BY <1>1, <1>3, <2>1, TasksAssumption
  <2>2. CASE i \in 1..n
    BY <1>1, <1>2, <1>3, <2>2 DEF LineInv, n
  <2> QED
    BY <1>1, <2>1, <2>2
<1>5. HomeInv'
  <2> SUFFICES ASSUME NEW i \in 1..(n + 1), lock'[i] \in Key
               PROVE  /\ key'[lock'[i]] = "waiting"
                      /\ Reaches' => home'[lock'[i]] = machine
                      /\ \A j \in 1..(i - 1) : lock'[j] \in Routes' => home'[lock'[i]] = machine
    BY <1>1, <1>2 DEF HomeInv
  <2>1. Reaches' => Reaches
    BY <1>2 DEF Reaches
  <2>2. Routes' = Routes
    BY <1>2 DEF Routes
  <2>3. CASE i = n + 1
    BY <1>1, <1>2, <2>3
  <2>4. CASE i \in 1..n
    <3>1. \A j \in 1..(i - 1) : j \in 1..n /\ lock'[j] = lock[j]
      BY <1>1, <2>4
    <3> QED
      BY <1>1, <1>2, <1>3, <2>1, <2>2, <2>4, <3>1 DEF HomeInv, n
  <2> QED
    BY <1>1, <2>3, <2>4
<1> QED
  BY <1>4, <1>5

LEMMA RunStep ==
  ASSUME TypeOK, BusyInv, RunInv, [Next]_vars
  PROVE  RunInv'
<1> USE DEF RunInv
<1>1. /\ runs \in Nat /\ writer \in Nat /\ machine \in Nat /\ NoRun <= runs
      /\ \A s \in Session : job[s].run \in Nat
  BY DEF TypeOK, Run, NoRun, Job
<1>2. ASSUME NEW s \in Session, \A u \in Session : job'[u].run = job[u].run,
             runs' = runs, writer' \in {writer, NoRun, job[s].run}, machine' \in {machine, NoRun}
      PROVE  RunInv'
  BY <1>1, <1>2
<1>3. ASSUME UNCHANGED <<writer, job, runs>>, machine' \in {machine, NoRun} PROVE RunInv'
  BY <1>1, <1>3
<1>4. ASSUME NEW s \in Session, NEW l, Goto(s, l) PROVE \A u \in Session : job'[u].run = job[u].run
  BY <1>4 DEF Goto, TypeOK, Job
<1>5. ASSUME NEW s \in Session, NEW b, Launched(s, b), writer' = writer PROVE RunInv'
  <2>1. \A u \in Session : job'[u].run \in {job[u].run, runs + 1}
    BY <1>5 DEF Launched, TypeOK, Job
  <2>2. runs' = runs + 1 /\ machine' = runs + 1
    BY <1>5 DEF Launched
  <2> QED
    BY <1>1, <1>5, <2>1, <2>2
<1>6. ASSUME NEW s \in Session,
             \/ StartSession(s) \/ Launch(s) \/ Connects(s) \/ Attach(s) \/ Spawn(s)
             \/ Ends(s) \/ StopSession(s) \/ Detach(s) \/ Stops(s)
      PROVE  RunInv'
  <2>1. CASE StartSession(s) \/ StopSession(s)
    <3>1. \A u \in Session : job'[u].run = job[u].run
      BY <2>1 DEF StartSession, StopSession, TypeOK, Job
    <3> QED
      BY <1>2, <2>1, <3>1 DEF StartSession, StopSession, bridge, host
  <2>2. CASE Launch(s)
    BY <1>2, <1>4, <1>5, <2>2 DEF Launch, bridge
  <2>3. CASE Connects(s) \/ Ends(s)
    BY <1>2, <1>4, <2>3 DEF Connects, Connect, ConnectFails, Ends, Answered, GivesUp, bridge, host
  <2>4. CASE Attach(s) \/ Detach(s) \/ Spawn(s)
    BY <1>2, <1>4, <2>4 DEF Attach, Detach, Spawn, host
  <2>5. CASE Kill(s)
    BY <1>2, <1>4, <2>5 DEF Kill, bridge
  <2>6. CASE Fallback(s)
    BY <1>2, <1>4, <1>5, <2>6 DEF Fallback, bridge
  <2> QED
    BY <1>6, <2>1, <2>2, <2>3, <2>4, <2>5, <2>6 DEF Stops
<1>7. ASSUME NEW k \in Key, Type(k) \/ Written(k) \/ NotWritten(k) PROVE RunInv'
  BY <1>3, <1>7 DEF Type, Written, NotWritten, host
<1>8. ASSUME NEW r \in Run, PumpEnds(r) PROVE RunInv'
  BY <1>3, <1>8 DEF PumpEnds, host
<1>9. CASE Hangs \/ Dies \/ UNCHANGED vars
  BY <1>3, <1>9 DEF Hangs, Dies, vars, bridge, host
<1> QED
  BY <1>6, <1>7, <1>8, <1>9 DEF Next

(* Who may read a key: the machine it was typed at. *)
LEMMA ReadStep ==
  ASSUME TypeOK, HomeInv, UnreadInv, KeyStaysHome, [Next]_vars
  PROVE  UnreadInv' /\ KeyStaysHome'
<1> USE DEF UnreadInv, KeyStaysHome
<1>1. ASSUME UNCHANGED keys PROVE UnreadInv' /\ KeyStaysHome'
  BY <1>1 DEF keys
<1>2. ASSUME NEW k \in Key, Type(k) PROVE UnreadInv' /\ KeyStaysHome'
  BY <1>2 DEF Type, TypeOK
<1>3. ASSUME NEW k \in Key, Written(k) PROVE UnreadInv' /\ KeyStaysHome'
  <2>1. lock[1] = k /\ 1 \in 1..Len(lock) /\ Reaches
    BY <1>3, TailOK DEF Written, Returns, Has, Reaches, TypeOK
  <2>2. home[k] = writer
    BY <2>1 DEF HomeInv, Reaches
  <2> QED
    BY <1>3, <2>2 DEF Written, Returns, TypeOK
<1>4. ASSUME NEW k \in Key, NotWritten(k) PROVE UnreadInv' /\ KeyStaysHome'
  BY <1>4 DEF NotWritten, Returns, TypeOK
<1>5. ASSUME NEW s \in Session,
             \/ StartSession(s) \/ Launch(s) \/ Connects(s) \/ Attach(s) \/ Spawn(s)
             \/ Ends(s) \/ StopSession(s) \/ Detach(s) \/ Stops(s)
      PROVE  UnreadInv' /\ KeyStaysHome'
  BY <1>1, <1>5 DEF StartSession, Launch, Connects, Connect, ConnectFails, Attach, Spawn,
     Ends, Answered, GivesUp, StopSession, Detach, Stops, Kill, Fallback
<1>6. ASSUME NEW r \in Run, PumpEnds(r) PROVE UnreadInv' /\ KeyStaysHome'
  BY <1>1, <1>6 DEF PumpEnds
<1>7. CASE Hangs \/ Dies \/ UNCHANGED vars
  BY <1>1, <1>7 DEF Hangs, Dies, vars
<1> QED
  BY <1>2, <1>3, <1>4, <1>5, <1>6, <1>7 DEF Next

LEMMA LineStep ==
  ASSUME TypeOK, BusyInv, HomeInv, LineInv, RunInv, [Next]_vars
  PROVE  HomeInv' /\ LineInv'
<1>1. ASSUME NEW s \in Session, NEW l, Goto(s, l)
      PROVE  /\ job'[s].at = l /\ job'[s].run = job[s].run
             /\ \A u \in Session \ {s} : job'[u] = job[u]
  BY <1>1 DEF Goto, TypeOK, Job
<1>2. ASSUME UNCHANGED writer, machine' = NoRun PROVE \A t : NoNewWay(t)
  BY <1>2 DEF NoNewWay, Reaches, Routes
<1>3. ASSUME NEW t, UNCHANGED <<writer, machine>>, \A u \in Session \ {t} : job'[u] = job[u]
      PROVE  NoNewWay(t)
  BY <1>3 DEF NoNewWay, Reaches, Routes
(* The number of a machine that is launched is new. *)
<1>4. ASSUME NEW s \in Session, NEW b, Launched(s, b), UNCHANGED writer
      PROVE  /\ NoNewWay(s) /\ job'[s].at = "connect"
             /\ \A u \in Session \ {s} : job'[u] = job[u]
  <2>1. /\ machine' = runs + 1 /\ job'[s].at = "connect"
        /\ \A u \in Session \ {s} : job'[u] = job[u]
    BY <1>4 DEF Launched, TypeOK, Job
  <2>2. writer # machine' /\ \A u \in Session \ {s} : job'[u].run # machine'
    BY <2>1 DEF RunInv, TypeOK, Run, NoRun, Job
  <2> QED
    BY <1>4, <2>1, <2>2 DEF NoNewWay, Reaches, Routes
<1>5. ASSUME NEW s \in Session, StartSession(s) PROVE HomeInv' /\ LineInv'
  <2>1. /\ job[s].at = "idle" /\ job'[s].at = "launch" /\ UNCHANGED <<writer, lock, home, key>>
        /\ \A u \in Session \ {s} : job'[u] = job[u]
    BY <1>5 DEF StartSession, At, bridge, keys, TypeOK, Job
  <2> QED
    BY <1>2, <1>3, <1>5, <2>1, LineStands DEF StartSession
<1>6. ASSUME NEW s \in Session, Launch(s) PROVE HomeInv' /\ LineInv'
  <2>1. job[s].at = "launch" /\ UNCHANGED <<writer, lock, home, key>>
    BY <1>6 DEF Launch, At, bridge, keys
  <2>2. CASE \E b : Launched(s, b)
    BY <1>4, <2>1, <2>2, LineStands
  <2>3. CASE Goto(s, "idle") /\ UNCHANGED machine
    BY <1>1, <1>3, <2>1, <2>3, LineStands
  <2> QED
    BY <1>6, <2>2, <2>3 DEF Launch
<1>7. ASSUME NEW s \in Session, Connect(s) \/ GivesUp(s) PROVE HomeInv' /\ LineInv'
  <2>1. UNCHANGED <<home, key, machine, writer>> /\ Asks(s) /\ job[s].at \in {"connect", "wait"}
    BY <1>7 DEF Connect, GivesUp, At, host, keys
  <2>2. /\ job'[s].at \in {"attach", "detach"} /\ \A u \in Session \ {s} : job'[u] = job[u]
    BY <1>1, <1>7 DEF Connect, GivesUp
  <2> QED
    BY <2>1, <2>2, LineGrows
<1>8. ASSUME NEW s \in Session, StopSession(s) PROVE HomeInv' /\ LineInv'
  <2>1. UNCHANGED <<home, key, machine, writer>> /\ Asks(s) /\ job[s].at = "idle"
    BY <1>8 DEF StopSession, At, host, keys
  <2>2. /\ job'[s].at = "detach" /\ \A u \in Session \ {s} : job'[u] = job[u]
    BY <1>8 DEF StopSession, TypeOK, Job
  <2> QED
    BY <2>1, <2>2, LineGrows
<1>9. ASSUME NEW s \in Session, ConnectFails(s) \/ Spawn(s) \/ Answered(s)
      PROVE  HomeInv' /\ LineInv'
  <2>1. /\ job[s].at \in {"connect", "spawn", "wait"}
        /\ UNCHANGED <<writer, lock, home, key, machine>>
    BY <1>9 DEF ConnectFails, Spawn, Answered, At, bridge, host, keys
  <2>2. /\ job'[s].at \in {"wait", "idle"} /\ \A u \in Session \ {s} : job'[u] = job[u]
    BY <1>1, <1>9 DEF ConnectFails, Spawn, Answered
  <2> QED
    BY <1>3, <2>1, <2>2, LineStands
<1>10. ASSUME NEW s \in Session, Attach(s) PROVE HomeInv' /\ LineInv'
  <2>1. /\ job[s].at = "attach" /\ writer' = job[s].run /\ Has(s) /\ Release
        /\ UNCHANGED <<home, key, machine>>
    BY <1>10 DEF Attach, At, host, keys
  <2>2. \A u \in Session \ {s} : job'[u] = job[u]
    BY <1>1, <1>10 DEF Attach
  <2>3. Reaches' => s \in Routes
    BY <2>1 DEF Reaches, Routes
  <2> QED
    BY <2>1, <2>2, <2>3, LineMoves
<1>11. ASSUME NEW s \in Session, Detach(s) PROVE HomeInv' /\ LineInv'
  <2>1. writer' = NoRun /\ Has(s) /\ Release /\ UNCHANGED <<home, key, machine>>
    BY <1>11 DEF Detach, host, keys
  <2>2. \A u \in Session \ {s} : job'[u] = job[u]
    BY <1>1, <1>11 DEF Detach
  <2>3. ~Reaches'
    BY <2>1 DEF Reaches
  <2> QED
    BY <2>1, <2>2, <2>3, LineMoves
<1>12. ASSUME NEW s \in Session, Stops(s) PROVE HomeInv' /\ LineInv'
  <2>1. job[s].at = "kill" /\ UNCHANGED <<writer, lock, home, key>>
    BY <1>12 DEF Stops, Kill, Fallback, At, bridge, keys
  <2>2. CASE Launched(s, FALSE)
    BY <1>4, <2>1, <2>2, LineStands
  <2>3. CASE machine' = NoRun /\ Goto(s, "idle")
    BY <1>1, <1>2, <2>1, <2>3, LineStands
  <2> QED
    BY <1>12, <2>2, <2>3 DEF Stops, Kill, Fallback
<1>13. ASSUME NEW k \in Key, Written(k) \/ NotWritten(k) PROVE HomeInv' /\ LineInv'
  <2>1. Has(k) /\ Release /\ UNCHANGED <<home, machine, writer, job>>
    BY <1>13 DEF Written, NotWritten, Returns, host
  <2>2. \A u \in Key \ {k} : key'[u] = key[u]
    BY <1>13 DEF Written, NotWritten, Returns, TypeOK
  <2>3. Reaches' => Reaches
    BY <2>1 DEF Reaches
  <2> QED
    BY <2>1, <2>2, <2>3, LineMoves
<1>14. ASSUME UNCHANGED <<writer, lock, home, key, job>>, machine' \in {machine, NoRun}
       PROVE  HomeInv' /\ LineInv'
  <2>1. Reaches' => Reaches /\ machine' = machine
    BY <1>14 DEF Reaches
  <2>2. \A u : u \in Routes' => u \in Routes /\ machine' = machine
    BY <1>14 DEF Routes
  <2>3. LineInv'
    BY <1>14 DEF LineInv
  <2> QED
    BY <1>14, <2>1, <2>2, <2>3 DEF HomeInv
<1>15. ASSUME NEW r \in Run, PumpEnds(r) PROVE HomeInv' /\ LineInv'
  BY <1>14, <1>15 DEF PumpEnds, host, keys
<1>16. CASE Hangs \/ Dies \/ UNCHANGED vars
  BY <1>14, <1>16 DEF Hangs, Dies, vars, bridge, host, keys
<1> QED
  BY <1>5, <1>6, <1>7, <1>8, <1>9, <1>10, <1>11, <1>12, <1>13, <1>15, <1>16, KeyJoins
     DEF Next, Connects, Ends

LEMMA KeyInit == Init => KeyInv
BY DEF Init, KeyInv, HomeInv, LineInv, RunInv, UnreadInv, KeyStaysHome, NoRun

(* However long a keystroke waits for the writer, and however often        *)
(* machines are stopped, started and attached meanwhile, the machine that  *)
(* reads it is the one that ran when it was typed.                         *)
THEOREM KeysStayHome == Spec => []KeyStaysHome
<1>1. TypeOK /\ BusyInv /\ KeyInv /\ [Next]_vars => (TypeOK /\ BusyInv /\ KeyInv)'
  BY TypeStep, LineStep, RunStep, ReadStep DEF KeyInv
<1>2. KeyInv => KeyStaysHome
  BY DEF KeyInv
<1> QED
  BY <1>1, <1>2, InitOK, KeyInit, PTL DEF Spec
---------------------------------------------------------------------------
(* The terminal of a ready machine.                                        *)

(* A command and the machine it has launched: no other has that machine.   *)
HasMachine(s) == job[s].at \in {"connect", "attach", "spawn", "wait"}

OwnerInv ==
  /\ \A s, t \in Session :
       HasMachine(s) /\ HasMachine(t) /\ job[s].run = job[t].run => s = t
  /\ machine # NoRun => machine = runs

(* The console of a machine is untouched until its command has attached it.*)
FreshInv ==
  /\ \A r \in Run : r > runs => pump[r] = "none" /\ r \notin closed
  /\ \A s \in Session : job[s].at \in {"connect", "attach"} =>
       /\ pump[job[s].run] = "none"
       /\ writer # job[s].run /\ job[s].run \notin closed

(* The writer is installed for the machines in the order of their launch:  *)
(* that is the order in which their commands have asked for it.            *)
OrderInv ==
  /\ \A s \in Session : At(s, "attach") => \E i \in 1..Len(lock) : lock[i] = s
  /\ \A i, j \in 1..Len(lock) :
       /\ i < j /\ lock[i] \in Session /\ lock[j] \in Session
       /\ At(lock[i], "attach") /\ At(lock[j], "attach")
       => job[lock[i]].run < job[lock[j]].run

(* A console that was attached stays so, and nobody is about to replace    *)
(* it, until a command is about to end the machine.                        *)
Attached(r) ==
  pump[r] # "none" \/ \E s \in Session : At(s, "spawn") /\ job[s].run = r

Stands(r) ==
  /\ writer = r /\ r \notin closed /\ pump[r] # "done"
  /\ \A t \in Session : ~At(t, "attach")

AttachedInv ==
  machine # NoRun /\ Attached(machine) =>
    Stands(machine) \/ \E t \in Session : At(t, "kill")

ConsoleInv == OwnerInv /\ FreshInv /\ OrderInv /\ AttachedInv

(* What the invariants of the line and of the runs say of a machine and of *)
(* a command.                                                              *)
LEMMA ConsoleTypes ==
  ASSUME TypeOK, BusyInv, RunInv
  PROVE  /\ runs \in Nat /\ machine \in Nat /\ writer \in Nat
         /\ machine # NoRun => machine \in Run
         /\ \A s \in Session : /\ job[s] \in Job /\ job[s].run \in Nat /\ job[s].run <= runs
                               /\ HasMachine(s) => job[s].run \in Run
         /\ writer <= runs /\ machine <= runs
BY DEF TypeOK, BusyInv, RunInv, Run, NoRun, Job, HasMachine

LEMMA GoesTo ==
  ASSUME TypeOK, NEW s \in Session, NEW l, Goto(s, l)
  PROVE  /\ job'[s].at = l /\ job'[s].run = job[s].run
         /\ \A u \in Session \ {s} : job'[u] = job[u]
BY DEF Goto, TypeOK, Job

(* Somebody joins the line, and is the last to have launched a machine if  *)
(* it is to attach one.                                                    *)
LEMMA OrderGrows ==
  ASSUME TypeOK, BusyInv, LineInv, RunInv, OrderInv, NEW t \in Task, Asks(t),
         \A u \in Session \ {t} : job'[u] = job[u],
         t \in Session =>
           /\ job[t].at \notin {"attach", "detach"}
           /\ At(t, "attach")' =>
                \A u \in Session \ {t} : At(u, "attach") => job[u].run < job'[t].run
  PROVE  OrderInv'
<1> DEFINE n == Len(lock)
<1>1. /\ lock' = Append(lock, t) /\ n \in Nat /\ Len(lock') = n + 1
      /\ \A i \in 1..n : lock'[i] = lock[i]
      /\ lock'[n + 1] = t
  BY AppendOK DEF Asks, TypeOK
<1>2. \A i \in 1..n : lock[i] \in Session => lock[i] # t
  BY DEF LineInv
<1>3. ASSUME NEW s \in Session, At(s, "attach")' PROVE \E i \in 1..Len(lock') : lock'[i] = s
  <2>1. CASE s = t
    BY <1>1, <2>1
  <2>2. CASE s # t
    <3>1. PICK i \in 1..n : lock[i] = s
      BY <1>3, <2>2 DEF OrderInv, At
    <3>2. i \in 1..(n + 1) /\ lock'[i] = s
      BY <1>1, <3>1
    <3> QED  BY <1>1, <3>2
  <2> QED  BY <2>1, <2>2
<1>4. ASSUME NEW i \in 1..(n + 1), NEW j \in 1..(n + 1),
             i < j, lock'[i] \in Session, lock'[j] \in Session,
             job'[lock'[i]].at = "attach", job'[lock'[j]].at = "attach"
      PROVE  job'[lock'[i]].run < job'[lock'[j]].run
  <2>1. i \in 1..n /\ lock'[i] = lock[i] /\ lock[i] # t
    BY <1>1, <1>2, <1>4
  <2>2. job'[lock'[i]] = job[lock[i]] /\ At(lock[i], "attach")
    BY <1>4, <2>1 DEF At
  <2>3. CASE j = n + 1
    <3>1. t \in Session /\ At(t, "attach")' /\ lock[i] \in Session \ {t} /\ lock'[j] = t
      BY <1>1, <1>4, <2>1, <2>3 DEF At
    <3> QED  BY <2>2, <3>1
  <2>4. CASE j \in 1..n
    <3>1. lock'[j] = lock[j] /\ lock[j] # t
      BY <1>1, <1>2, <1>4, <2>4
    <3>2. job'[lock'[j]] = job[lock[j]] /\ At(lock[j], "attach")
      BY <1>4, <3>1 DEF At
    <3> QED  BY <1>4, <2>1, <2>2, <2>4, <3>1, <3>2 DEF OrderInv
  <2> QED  BY <1>1, <2>3, <2>4
<1> HIDE DEF n
<1> QED  BY <1>1, <1>3, <1>4 DEF OrderInv, At

(* The first one leaves it, and attaches no more. *)
LEMMA OrderMoves ==
  ASSUME TypeOK, LineInv, OrderInv, NEW t, Has(t), Release,
         \A u \in Session \ {t} : job'[u] = job[u],
         t \in Session => ~At(t, "attach")'
  PROVE  OrderInv'
<1> DEFINE n == Len(lock)
<1>1. /\ n \in Nat \ {0} /\ Len(lock') = n - 1 /\ lock[1] = t
      /\ \A i \in 1..(n - 1) : i + 1 \in 1..n /\ lock'[i] = lock[i + 1]
  BY TailOK DEF Has, Release, TypeOK
<1>2. ASSUME NEW s \in Session, At(s, "attach")' PROVE \E i \in 1..(n - 1) : lock'[i] = s
  <2>1. s # t /\ At(s, "attach")
    BY <1>2 DEF At
  <2>2. PICK i \in 1..n : lock[i] = s
    BY <2>1 DEF OrderInv
  <2>3. i - 1 \in 1..(n - 1) /\ (i - 1) + 1 = i
    BY <1>1, <2>1, <2>2
  <2>4. lock'[i - 1] = lock[(i - 1) + 1]
    BY <1>1, <2>3
  <2> QED  BY <2>2, <2>3, <2>4
<1>3. ASSUME NEW i \in 1..(n - 1), NEW j \in 1..(n - 1),
             i < j, lock'[i] \in Session, lock'[j] \in Session,
             job'[lock'[i]].at = "attach", job'[lock'[j]].at = "attach"
      PROVE  job'[lock'[i]].run < job'[lock'[j]].run
  <2>1. /\ lock'[i] = lock[i + 1] /\ lock'[j] = lock[j + 1]
        /\ i + 1 \in 1..n /\ j + 1 \in 1..n /\ i + 1 < j + 1
    BY <1>1, <1>3
  <2>2. /\ job'[lock'[i]] = job[lock[i + 1]] /\ At(lock[i + 1], "attach")
        /\ job'[lock'[j]] = job[lock[j + 1]] /\ At(lock[j + 1], "attach")
    BY <1>3, <2>1 DEF At
  <2> QED  BY <1>3, <2>1, <2>2 DEF OrderInv
<1> HIDE DEF n
<1> QED  BY <1>1, <1>2, <1>3 DEF OrderInv, At

(* A step that leaves the bridge alone, brings nobody to a console and     *)
(* takes nobody from a machine it is about to end.                         *)
LEMMA ConsoleStands ==
  ASSUME ConsoleInv, UNCHANGED <<bridge, runs>>, machine' \in {machine, NoRun},
         NEW s \in Session,
         \A u \in Session \ {s} : job'[u] = job[u],
         job[s].at # "attach",
         job[s].at = "kill" => machine' = NoRun,
         \/ job'[s] = job[s]
         \/ job'[s].at \notin {"connect", "attach", "spawn", "wait"}
         \/ job'[s].at = "wait" /\ HasMachine(s) /\ job'[s].run = job[s].run
  PROVE  ConsoleInv'
<1>1. \A u \in Session : HasMachine(u)' => HasMachine(u) /\ job'[u].run = job[u].run
  BY DEF HasMachine
<1>2. \A u \in Session :
        job'[u].at \in {"connect", "attach", "spawn"} => job'[u] = job[u]
  OBVIOUS
<1>3. OwnerInv'
  BY <1>1 DEF ConsoleInv, OwnerInv
<1>4. FreshInv'
  BY <1>2 DEF ConsoleInv, FreshInv, bridge
<1>5. OrderInv'
  BY <1>2 DEF ConsoleInv, OrderInv, At, bridge
<1>6. AttachedInv'
  <2> SUFFICES ASSUME machine' # NoRun, Attached(machine)'
               PROVE  Stands(machine)' \/ \E t \in Session : At(t, "kill")'
    BY DEF AttachedInv
  <2>1. machine' = machine /\ Attached(machine)
    BY <1>2 DEF Attached, At, bridge
  <2>2. ASSUME Stands(machine) PROVE Stands(machine)'
    BY <1>2, <2>1, <2>2 DEF Stands, At, bridge
  <2>3. ASSUME NEW t \in Session, At(t, "kill") PROVE At(t, "kill")'
    BY <2>1, <2>3 DEF At
  <2> QED  BY <2>1, <2>2, <2>3 DEF ConsoleInv, AttachedInv
<1> QED  BY <1>3, <1>4, <1>5, <1>6 DEF ConsoleInv

(* A new machine: nothing is known of its console. *)
LEMMA ConsoleLaunched ==
  ASSUME TypeOK, BusyInv, RunInv, ConsoleInv, UNCHANGED bridge,
         NEW s \in Session, NEW b, Launched(s, b), job[s].at \in {"launch", "kill"}
  PROVE  ConsoleInv'
<1>1. /\ job'[s].at = "connect" /\ job'[s].run = runs + 1
      /\ machine' = runs + 1 /\ runs' = runs + 1
      /\ \A u \in Session \ {s} : job'[u] = job[u]
  BY DEF Launched, TypeOK, Job
<1>2. runs + 1 \in Run /\ runs \in Nat /\ runs + 1 > runs
  BY RunsOK, ConsoleTypes DEF Launched, TypeOK
<1>3. \A u \in Session : job[u].run # runs + 1
  BY ConsoleTypes
<1>4. OwnerInv'
  BY <1>1, <1>3 DEF ConsoleInv, OwnerInv, HasMachine
<1>5. pump[runs + 1] = "none" /\ runs + 1 \notin closed /\ writer # runs + 1
  BY <1>2, ConsoleTypes DEF ConsoleInv, FreshInv
<1>6. FreshInv'
  <2>1. \A r \in Run : r > runs' => r > runs
    BY <1>1, <1>2 DEF Run
  <2> QED  BY <1>1, <1>5, <2>1 DEF ConsoleInv, FreshInv, bridge
<1>7. OrderInv'
  BY <1>1 DEF ConsoleInv, OrderInv, At, bridge
<1>8. AttachedInv'
  <2>1. ~Attached(machine)'
    BY <1>1, <1>3, <1>5 DEF Attached, At, bridge
  <2> QED  BY <2>1 DEF AttachedInv
<1> QED  BY <1>4, <1>6, <1>7, <1>8 DEF ConsoleInv

(* A command joins the line. *)
LEMMA ConsoleAsks ==
  ASSUME TypeOK, BusyInv, LineInv, RunInv, ConsoleInv, NEW s \in Session,
         Connect(s) \/ GivesUp(s) \/ StopSession(s)
  PROVE  ConsoleInv'
<1>1. /\ Asks(s) /\ UNCHANGED <<writer, pump, closed, machine, runs>>
      /\ job[s].at \in {"connect", "wait", "idle"}
  BY DEF Connect, GivesUp, StopSession, At, host
<1>2. /\ \A u \in Session \ {s} : job'[u] = job[u]
      /\ job'[s].run = job[s].run
      /\ \/ job'[s].at = "detach"
         \/ job'[s].at = "attach" /\ job[s].at = "connect" /\ machine = job[s].run
  <2>1. CASE Connect(s)
    BY <2>1, GoesTo DEF Connect, At
  <2>2. CASE GivesUp(s)
    BY <2>2, GoesTo DEF GivesUp
  <2>3. CASE StopSession(s)
    BY <2>3 DEF StopSession, TypeOK, Job
  <2> QED  BY <2>1, <2>2, <2>3
<1>3. OwnerInv'
  BY <1>1, <1>2 DEF ConsoleInv, OwnerInv, HasMachine
<1>4. FreshInv'
  BY <1>1, <1>2 DEF ConsoleInv, FreshInv
<1>5. ASSUME NEW u \in Session \ {s}, At(u, "attach"), At(s, "attach")'
      PROVE  job[u].run < job'[s].run
  <2>1. HasMachine(s) /\ HasMachine(u) /\ job[s].run = machine /\ job'[s].run = machine
    BY <1>2, <1>5 DEF At, HasMachine
  <2>2. machine = runs /\ job[u].run # machine
    BY <2>1, ConsoleTypes DEF ConsoleInv, OwnerInv, Run, NoRun
  <2> QED  BY <2>1, <2>2, ConsoleTypes
<1>6. OrderInv'
  BY <1>1, <1>2, <1>5, OrderGrows DEF ConsoleInv, Task
<1>7. AttachedInv'
  <2> SUFFICES ASSUME machine # NoRun, Attached(machine)'
               PROVE  Stands(machine)' \/ \E t \in Session : At(t, "kill")'
    BY <1>1 DEF AttachedInv
  <2>1. Attached(machine)
    BY <1>1, <1>2 DEF Attached, At
  <2>2. ASSUME NEW t \in Session, At(t, "kill") PROVE At(t, "kill")'
    BY <1>1, <1>2, <2>2 DEF At
  <2>3. ASSUME Stands(machine) PROVE Stands(machine)'
    <3>1. job'[s].at # "attach"
      <4> SUFFICES ASSUME job'[s].at = "attach" PROVE FALSE
        OBVIOUS
      <4>1. job[s].at = "connect" /\ machine = job[s].run /\ pump[machine] = "none"
        BY <1>2 DEF ConsoleInv, FreshInv
      <4>2. PICK u \in Session : At(u, "spawn") /\ job[u].run = machine
        BY <2>1, <4>1 DEF Attached
      <4>3. u = s
        BY <4>1, <4>2 DEF ConsoleInv, OwnerInv, HasMachine, At
      <4> QED  BY <4>1, <4>2, <4>3 DEF At
    <3> QED  BY <1>1, <1>2, <2>3, <3>1 DEF Stands, At
  <2> QED  BY <2>1, <2>2, <2>3 DEF ConsoleInv, AttachedInv
<1> QED  BY <1>3, <1>4, <1>6, <1>7 DEF ConsoleInv

(* The writer of a machine is installed: the newest in line comes last. *)
LEMMA ConsoleAttach ==
  ASSUME TypeOK, BusyInv, LineInv, RunInv, ConsoleInv, NEW s \in Session, Attach(s)
  PROVE  ConsoleInv'
<1> DEFINE r == job[s].run
<1>1. /\ Has(s) /\ Release /\ At(s, "attach") /\ writer' = r
      /\ closed' = closed \cup ({writer} \ {NoRun})
      /\ UNCHANGED <<pump, machine, runs>>
  BY DEF Attach, host
<1>2. /\ job'[s].at = "spawn" /\ job'[s].run = r
      /\ \A u \in Session \ {s} : job'[u] = job[u]
  BY GoesTo DEF Attach
<1>3. /\ HasMachine(s) /\ r \in Run /\ r <= runs /\ runs \in Nat
      /\ pump[r] = "none" /\ writer # r /\ r \notin closed
  BY <1>1, ConsoleTypes DEF ConsoleInv, FreshInv, HasMachine, At
<1>4. OwnerInv'
  BY <1>1, <1>2, <1>3 DEF ConsoleInv, OwnerInv, HasMachine
<1>5. FreshInv'
  <2>1. ASSUME NEW q \in Run, q > runs PROVE pump'[q] = "none" /\ q \notin closed'
    BY <1>1, <2>1, ConsoleTypes DEF ConsoleInv, FreshInv, Run
  <2>2. ASSUME NEW u \in Session, job'[u].at \in {"connect", "attach"}
        PROVE  /\ pump'[job'[u].run] = "none"
               /\ writer' # job'[u].run /\ job'[u].run \notin closed'
    <3>1. u # s /\ job'[u] = job[u]
      BY <1>2, <2>2
    <3>2. job[u].run # r
      BY <1>3, <2>2, <3>1 DEF ConsoleInv, OwnerInv, HasMachine
    <3>3. /\ pump[job[u].run] = "none"
          /\ writer # job[u].run /\ job[u].run \notin closed
      BY <2>2, <3>1 DEF ConsoleInv, FreshInv
    <3> QED  BY <1>1, <3>1, <3>2, <3>3
  <2> QED  BY <1>1, <2>1, <2>2 DEF FreshInv
<1>6. OrderInv'
  BY <1>1, <1>2, OrderMoves DEF ConsoleInv, At
<1>7. ASSUME r = runs, NEW u \in Session \ {s} PROVE ~At(u, "attach")
  <2> SUFFICES ASSUME At(u, "attach") PROVE FALSE
    OBVIOUS
  <2>1. PICK i \in 1..Len(lock) : lock[i] = u
    BY DEF ConsoleInv, OrderInv
  <2>2. lock[1] = s /\ 1 \in 1..Len(lock) /\ 1 < i
    BY <1>1, <2>1, TailOK DEF Has, TypeOK
  <2>3. r < job[u].run
    BY <1>1, <2>1, <2>2 DEF ConsoleInv, OrderInv
  <2> QED  BY <1>7, <2>3, ConsoleTypes
<1>8. AttachedInv'
  <2> SUFFICES ASSUME machine # NoRun, Attached(machine)'
               PROVE  Stands(machine)' \/ \E t \in Session : At(t, "kill")'
    BY <1>1 DEF AttachedInv
  <2>1. machine = runs
    BY DEF ConsoleInv, OwnerInv
  <2>2. CASE r = machine
    <3>1. \A u \in Session : ~At(u, "attach")'
      BY <1>2, <1>7, <2>1, <2>2 DEF At
    <3> QED  BY <1>1, <1>3, <2>2, <3>1 DEF Stands
  <2>3. CASE r # machine
    <3>1. Attached(machine)
      BY <1>1, <1>2, <2>3 DEF Attached, At
    <3>2. ~Stands(machine)
      BY <1>1 DEF Stands
    <3>3. PICK t \in Session : At(t, "kill")
      BY <3>1, <3>2 DEF ConsoleInv, AttachedInv
    <3>4. At(t, "kill")'
      BY <1>1, <1>2, <3>3 DEF At
    <3> QED  BY <3>4
  <2> QED  BY <2>2, <2>3
<1> QED  BY <1>4, <1>5, <1>6, <1>8 DEF ConsoleInv

LEMMA ConsoleDetach ==
  ASSUME TypeOK, BusyInv, LineInv, RunInv, ConsoleInv, NEW s \in Session, Detach(s)
  PROVE  ConsoleInv'
<1>1. /\ Has(s) /\ Release /\ At(s, "detach") /\ writer' = NoRun
      /\ closed' = closed \cup ({writer} \ {NoRun})
      /\ UNCHANGED <<pump, machine, runs>>
  BY DEF Detach, host
<1>2. /\ job'[s].at = "kill" /\ \A u \in Session \ {s} : job'[u] = job[u]
  BY GoesTo DEF Detach
<1>3. OwnerInv'
  BY <1>1, <1>2 DEF ConsoleInv, OwnerInv, HasMachine
<1>4. FreshInv'
  <2>1. ASSUME NEW q \in Run, q > runs PROVE pump'[q] = "none" /\ q \notin closed'
    BY <1>1, <2>1, ConsoleTypes DEF ConsoleInv, FreshInv, Run
  <2>2. ASSUME NEW u \in Session, job'[u].at \in {"connect", "attach"}
        PROVE  /\ pump'[job'[u].run] = "none"
               /\ writer' # job'[u].run /\ job'[u].run \notin closed'
    <3>1. job'[u] = job[u]
      BY <1>2, <2>2
    <3>2. /\ pump[job[u].run] = "none" /\ job[u].run \in Run
          /\ writer # job[u].run /\ job[u].run \notin closed
      BY <2>2, <3>1, ConsoleTypes DEF ConsoleInv, FreshInv, HasMachine
    <3> QED  BY <1>1, <3>1, <3>2 DEF Run, NoRun
  <2> QED  BY <1>1, <2>1, <2>2 DEF FreshInv
<1>5. OrderInv'
  BY <1>1, <1>2, OrderMoves DEF ConsoleInv, At
<1>6. AttachedInv'
  BY <1>2 DEF AttachedInv, At
<1> QED  BY <1>3, <1>4, <1>5, <1>6 DEF ConsoleInv

LEMMA ConsoleSpawn ==
  ASSUME TypeOK, BusyInv, LineInv, RunInv, ConsoleInv, NEW s \in Session, Spawn(s)
  PROVE  ConsoleInv'
<1> DEFINE r == job[s].run
<1>1. /\ At(s, "spawn") /\ UNCHANGED <<writer, lock, closed, machine, runs>>
      /\ pump' = [pump EXCEPT ![r] = "reading"]
  BY DEF Spawn, host
<1>2. /\ job'[s].at = "wait" /\ job'[s].run = r
      /\ \A u \in Session \ {s} : job'[u] = job[u]
  BY GoesTo DEF Spawn
<1>3. HasMachine(s) /\ r \in Run /\ r <= runs /\ runs \in Nat
  BY <1>1, ConsoleTypes DEF HasMachine, At
<1>4. \A q \in Run : pump'[q] = IF q = r THEN "reading" ELSE pump[q]
  BY <1>1 DEF TypeOK
<1>5. OwnerInv'
  BY <1>1, <1>2, <1>3 DEF ConsoleInv, OwnerInv, HasMachine
<1>6. FreshInv'
  <2>1. ASSUME NEW q \in Run, q > runs PROVE pump'[q] = "none" /\ q \notin closed'
    BY <1>1, <1>3, <1>4, <2>1 DEF ConsoleInv, FreshInv, Run
  <2>2. ASSUME NEW u \in Session, job'[u].at \in {"connect", "attach"}
        PROVE  /\ pump'[job'[u].run] = "none"
               /\ writer' # job'[u].run /\ job'[u].run \notin closed'
    <3>1. u # s /\ job'[u] = job[u]
      BY <1>2, <2>2
    <3>2. job[u].run # r /\ job[u].run \in Run
      BY <1>3, <2>2, <3>1, ConsoleTypes DEF ConsoleInv, OwnerInv, HasMachine
    <3> QED  BY <1>1, <1>4, <2>2, <3>1, <3>2 DEF ConsoleInv, FreshInv
  <2> QED  BY <1>1, <2>1, <2>2 DEF FreshInv
<1>7. OrderInv'
  BY <1>1, <1>2 DEF ConsoleInv, OrderInv, At
<1>8. AttachedInv'
  <2> SUFFICES ASSUME machine # NoRun, Attached(machine)'
               PROVE  Stands(machine)' \/ \E t \in Session : At(t, "kill")'
    BY <1>1 DEF AttachedInv
  <2>1. machine \in Run
    BY ConsoleTypes
  <2>2. Attached(machine)
    <3>1. CASE machine = r
      BY <1>1, <3>1 DEF Attached, At
    <3>2. CASE machine # r
      BY <1>1, <1>2, <1>4, <2>1, <3>2 DEF Attached, At
    <3> QED  BY <3>1, <3>2
  <2>3. ASSUME Stands(machine) PROVE Stands(machine)'
    BY <1>1, <1>2, <1>4, <2>1, <2>3 DEF Stands, At
  <2>4. ASSUME NEW t \in Session, At(t, "kill") PROVE At(t, "kill")'
    BY <1>1, <1>2, <2>4 DEF At
  <2> QED  BY <2>2, <2>3, <2>4 DEF ConsoleInv, AttachedInv
<1> QED  BY <1>5, <1>6, <1>7, <1>8 DEF ConsoleInv

(* A reader ends with its console, which is not that of a machine whose    *)
(* console stands.                                                         *)
LEMMA ConsolePump ==
  ASSUME TypeOK, BusyInv, RunInv, ConsoleInv, NEW r \in Run, PumpEnds(r)
  PROVE  ConsoleInv'
<1>1. /\ UNCHANGED <<writer, lock, closed, job, machine, runs>>
      /\ pump[r] = "reading" /\ (machine # r \/ r \in closed)
      /\ \A q \in Run : pump'[q] = IF q = r THEN "done" ELSE pump[q]
  BY DEF PumpEnds, Ended, host, TypeOK
<1>2. OwnerInv' /\ OrderInv'
  BY <1>1 DEF ConsoleInv, OwnerInv, HasMachine, OrderInv, At
<1>3. FreshInv'
  BY <1>1, ConsoleTypes DEF ConsoleInv, FreshInv, HasMachine
<1>4. AttachedInv'
  <2> SUFFICES ASSUME machine # NoRun, Attached(machine)'
               PROVE  Stands(machine)' \/ \E t \in Session : At(t, "kill")'
    BY <1>1 DEF AttachedInv
  <2>1. machine \in Run
    BY ConsoleTypes
  <2>2. Attached(machine)
    BY <1>1, <2>1 DEF Attached, At
  <2>3. ASSUME Stands(machine) PROVE Stands(machine)'
    BY <1>1, <2>1, <2>3 DEF Stands, At
  <2> QED  BY <1>1, <2>2, <2>3 DEF ConsoleInv, AttachedInv, At
<1> QED  BY <1>2, <1>3, <1>4 DEF ConsoleInv

(* Keys come and go; the machine may end. *)
LEMMA ConsoleRest ==
  ASSUME ConsoleInv, UNCHANGED <<writer, pump, closed, job, runs>>,
         machine' \in {machine, NoRun}, OrderInv'
  PROVE  ConsoleInv'
<1>1. OwnerInv' /\ FreshInv'
  BY DEF ConsoleInv, OwnerInv, HasMachine, FreshInv
<1>2. AttachedInv'
  BY DEF ConsoleInv, AttachedInv, Attached, Stands, At
<1> QED  BY <1>1, <1>2 DEF ConsoleInv

LEMMA ConsoleSession ==
  ASSUME TypeOK, BusyInv, LineInv, RunInv, ConsoleInv, NEW s \in Session,
         \/ StartSession(s) \/ Launch(s) \/ Connects(s) \/ Attach(s) \/ Spawn(s)
         \/ Ends(s) \/ StopSession(s) \/ Detach(s) \/ Stops(s)
  PROVE  ConsoleInv'
<1>1. ASSUME NEW l \in {"idle", "wait"}, Goto(s, l), UNCHANGED <<bridge, runs>>,
             machine' \in {machine, NoRun}, job[s].at # "attach",
             job[s].at = "kill" => machine' = NoRun,
             l = "wait" => HasMachine(s)
      PROVE  ConsoleInv'
  BY <1>1, GoesTo, ConsoleStands
<1>2. CASE StartSession(s)
  <2>1. /\ job[s].at = "idle" /\ job'[s].at = "launch" /\ UNCHANGED <<bridge, runs>>
        /\ machine' \in {machine, NoRun}
        /\ \A u \in Session \ {s} : job'[u] = job[u]
    BY <1>2 DEF StartSession, At, TypeOK, Job
  <2> QED  BY <2>1, ConsoleStands
<1>3. CASE Launch(s)
  <2>1. UNCHANGED bridge /\ job[s].at = "launch"
    BY <1>3 DEF Launch, At
  <2>2. CASE Launched(s, whpx)
    BY <2>1, <2>2, ConsoleLaunched
  <2>3. CASE Goto(s, "idle") /\ UNCHANGED <<machine, ready, runs>>
    BY <1>1, <2>1, <2>3
  <2> QED  BY <1>3, <2>2, <2>3 DEF Launch
<1>4. CASE ConnectFails(s) \/ Answered(s)
  BY <1>1, <1>4 DEF ConnectFails, Answered, At, host, HasMachine
<1>5. CASE Stops(s)
  <2>1. UNCHANGED bridge /\ job[s].at = "kill"
    BY <1>5 DEF Stops, Kill, Fallback, At
  <2>2. CASE Launched(s, FALSE)
    BY <2>1, <2>2, ConsoleLaunched
  <2>3. CASE Goto(s, "idle") /\ machine' = NoRun /\ runs' = runs
    BY <1>1, <2>1, <2>3
  <2> QED  BY <1>5, <2>2, <2>3 DEF Stops, Kill, Fallback
<1> QED
  BY <1>2, <1>3, <1>4, <1>5, ConsoleAsks, ConsoleAttach, ConsoleDetach, ConsoleSpawn
     DEF Connects, Ends

LEMMA ConsoleStep ==
  ASSUME TypeOK, BusyInv, LineInv, RunInv, ConsoleInv, [Next]_vars
  PROVE  ConsoleInv'
<1>1. ASSUME NEW k \in Key, Type(k) PROVE ConsoleInv'
  <2>1. Asks(k) /\ k \in Task /\ k \notin Session /\ UNCHANGED job
    BY <1>1, TasksAssumption DEF Type, Task
  <2>2. OrderInv'
    BY <2>1, OrderGrows DEF ConsoleInv
  <2> QED  BY <1>1, <2>2, ConsoleRest DEF Type, host
<1>2. ASSUME NEW k \in Key, Written(k) \/ NotWritten(k) PROVE ConsoleInv'
  <2>1. Has(k) /\ Release /\ k \notin Session /\ UNCHANGED job
    BY <1>2, TasksAssumption DEF Written, NotWritten, Returns
  <2>2. OrderInv'
    BY <2>1, OrderMoves DEF ConsoleInv
  <2> QED  BY <1>2, <2>2, ConsoleRest DEF Written, NotWritten, host
<1>3. CASE Hangs \/ Dies \/ UNCHANGED vars
  <2>1. /\ UNCHANGED <<bridge, job, runs>> /\ machine' \in {machine, NoRun}
    BY <1>3 DEF Hangs, Dies, vars, host
  <2>2. OrderInv'
    BY <2>1 DEF ConsoleInv, OrderInv, At, bridge
  <2> QED  BY <2>1, <2>2, ConsoleRest DEF bridge
<1> QED  BY <1>1, <1>2, <1>3, ConsoleSession, ConsolePump DEF Next

LEMMA ConsoleInit == Init => ConsoleInv
BY DEF Init, ConsoleInv, OwnerInv, HasMachine, FreshInv, OrderInv, AttachedInv, At, NoRun, Run

(* The terminal of a ready machine is attached to it and is being read     *)
(* once every command has returned: the line for the writer is served in   *)
(* the order of the launches, so that no attach that was slow replaces the *)
(* console of a machine that came after its own.                           *)
THEOREM TerminalIsAttached == Spec => []ReadyIsAttached
<1> DEFINE I == TypeOK /\ BusyInv /\ KeyInv /\ ConsoleInv
<1>1. I /\ [Next]_vars => I'
  BY TypeStep, LineStep, RunStep, ReadStep, ConsoleStep DEF KeyInv
<1>2. I => ReadyIsAttached
  <2> SUFFICES ASSUME I, ready = machine, ready # NoRun, pump[ready] # "none",
                      \A s \in Session : At(s, "idle")
               PROVE  writer = ready /\ pump[ready] = "reading"
    BY DEF ReadyIsAttached
  <2>1. Stands(machine)
    BY DEF ConsoleInv, AttachedInv, Attached, At
  <2>2. machine \in Run
    BY DEF TypeOK
  <2> QED  BY <2>1, <2>2 DEF Stands, TypeOK
<1>3. Init => I
  BY InitOK, KeyInit, ConsoleInit
<1> QED  BY <1>1, <1>2, <1>3, PTL DEF Spec
============================================================================
