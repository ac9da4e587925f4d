----------------------- MODULE RuntimeInstall_proof -----------------------
(***************************************************************************)
(* Proofs about RuntimeInstall, for any number of concurrent calls, any    *)
(* files of the runtime, any bundle and any number of mishaps; and that a  *)
(* call that is alone implements RuntimeSlot.                              *)
(***************************************************************************)
EXTENDS RuntimeInstall, TLAPS

LEMMA Names ==
  /\ Manifest \in Packaged /\ Compressed \in Packaged
  /\ Raw \notin Packaged
  /\ Raw \in File /\ Packaged \subseteq File
  /\ Required \subseteq File
BY PartAssumption DEF Packaged, File, Required, Manifest, Compressed, Raw

LEMMA PutOK ==
  ASSUME NEW d \in Directory, NEW f \in File, NEW c \in Content
  PROVE  /\ Put(d, f, c) \in Directory
         /\ Put(d, f, c).exists = d.exists
         /\ Put(d, f, c).file[f] = c
         /\ \A g \in File : g # f => Put(d, f, c).file[g] = d.file[g]
BY DEF Put, Directory

LEMMA NoDirOK == NoDir \in Directory /\ \A f \in File : NoDir.file[f] = "absent"
BY DEF NoDir, Empty, Directory, Content

LEMMA MovedOK ==
  ASSUME open \in [Task -> Handle],
         NEW from \in {"staging", "root"}, NEW to \in {"root", "gone"}
  PROVE  /\ Moved(from, to) \in [Task -> Handle]
         /\ \A u \in Task : Moved(from, to)[u].file = open[u].file
BY DEF Moved, Handle

LEMMA ClosedOK == Closed \in Handle
BY Names DEF Closed, Handle

LEMMA ThinnedOK ==
  ASSUME NEW d \in Directory, NEW e \in Thinned(d)
  PROVE  /\ e \in Directory
         /\ \A f \in File : e.file[f] \in {"absent", d.file[f]}
<1>1. PICK gone \in SUBSET File :
        e = [d EXCEPT !.file = [f \in File |-> IF f \in gone THEN "absent" ELSE d.file[f]]]
  BY DEF Thinned
<1> QED
  BY <1>1 DEF Directory, Content

---------------------------------------------------------------------------
(* Type correctness.  It is not inductive alone: what a copy writes is     *)
(* defined for a packaged file only.                                       *)

WriterInv ==
  \A t \in Task :
    /\ pc[t] = "copying" => open[t].file \in Packaged
    /\ pc[t] = "unpacking" => open[t].file = Raw

LEMMA LoopType ==
  ASSUME TypeOK, NEW t \in Task, NEW left \in SUBSET Packaged, NEW body \in Pc,
         NEW next \in Pc, NEW then \in SUBSET Packaged, Loop(t, left, body, next, then)
  PROVE  pc' \in [Task -> Pc] /\ todo' \in [Task -> SUBSET Packaged]
BY DEF TypeOK, Loop, Goto

LEMMA LeaveType ==
  ASSUME TypeOK, NEW t \in Task, NEW l \in Pc, Leave(t, l)
  PROVE  pc' \in [Task -> Pc] /\ todo' \in [Task -> SUBSET Packaged]
BY DEF TypeOK, Leave, Goto

LEMMA GotoType ==
  ASSUME TypeOK, NEW t \in Task, NEW l \in Pc, Goto(t, l)
  PROVE  pc' \in [Task -> Pc]
BY DEF TypeOK, Goto

LEMMA FinishType ==
  ASSUME TypeOK, NEW t \in Task, NEW c \in Content, Finish(t, c)
  PROVE  root' \in Directory /\ staging' \in Directory /\ open' \in [Task -> Handle]
<1>1. open[t].file \in File
  BY DEF TypeOK, Handle
<1>2. Put(root, open[t].file, c) \in Directory /\ Put(staging, open[t].file, c) \in Directory
  BY <1>1, PutOK DEF TypeOK
<1> QED
  BY <1>2, ClosedOK DEF TypeOK, Finish

LEMMA BeginType ==
  ASSUME TypeOK, NEW t \in Task, NEW f \in File, NEW l \in Pc, Begin(t, f, l)
  PROVE  /\ staging' \in Directory /\ open' \in [Task -> Handle]
         /\ pc' \in [Task -> Pc] /\ root' = root /\ todo' = todo
<1>1. Put(staging, f, "part") \in Directory
  BY PutOK DEF TypeOK, Content
<1>2. [file |-> f, dir |-> "staging"] \in Handle
  BY DEF Handle
<1> QED
  BY <1>1, <1>2, GotoType DEF TypeOK, Begin

LEMMA RemoveType ==
  ASSUME TypeOK, RemoveStaging \/ RemoveStagingFails
  PROVE  staging' \in Directory /\ open' \in [Task -> Handle]
BY NoDirOK, ThinnedOK, MovedOK DEF TypeOK, RemoveStaging, RemoveStagingFails

LEMMA TypeStep ==
  ASSUME TypeOK, WriterInv, [Next]_vars
  PROVE  TypeOK'
<1> USE DEF TypeOK
<1>1. ASSUME NEW t \in Task, Install(t) \/ Reinstall(t) \/ Check(t) PROVE TypeOK'
  BY <1>1 DEF Install, Reinstall, Check, Goto, dirs, Pc
<1>2. ASSUME NEW t \in Task, Clear(t) \/ Cleanup(t) PROVE TypeOK'
  BY <1>2, RemoveType DEF Clear, Cleanup, Goto, Pc, StagePc
<1>3. ASSUME NEW t \in Task, Mkdir(t) PROVE TypeOK'
  <2>1. Loop(t, Shipped, "copy", "verify", Packaged) /\ Shipped \in SUBSET Packaged
    BY <1>3 DEF Mkdir, Shipped
  <2>2. pc' \in [Task -> Pc] /\ todo' \in [Task -> SUBSET Packaged]
    BY <2>1, LoopType DEF Pc, StagePc
  <2> QED
    BY <1>3, <2>2 DEF Mkdir, Directory
<1>4. ASSUME NEW t \in Task, GiveUp(t) PROVE
        /\ pc' \in [Task -> Pc] /\ todo' \in [Task -> SUBSET Packaged]
        /\ root' = root /\ staging' = staging /\ open' = open
  BY <1>4, LeaveType DEF GiveUp, dirs, Pc
<1>5. ASSUME NEW t \in Task, CopyBegin(t) PROVE TypeOK'
  <2>1. CASE \E f \in todo[t] : Begin(t, f, "copying")
    <3>1. PICK f \in todo[t] : Begin(t, f, "copying")
      BY <2>1
    <3>2. f \in File /\ "copying" \in Pc
      BY Names DEF Pc, StagePc, WritingPc
    <3> QED
      BY <1>5, <3>1, <3>2, BeginType DEF CopyBegin
  <2> QED
    BY <1>4, <1>5, <2>1 DEF CopyBegin
<1>6. ASSUME NEW t \in Task, CopyEnd(t) PROVE TypeOK'
  <2>1. open[t].file \in Packaged
    BY <1>6 DEF WriterInv, CopyEnd, At
  <2>2. root' \in Directory /\ staging' \in Directory /\ open' \in [Task -> Handle]
    BY <1>6, <2>1, FinishType DEF CopyEnd
  <2>3. /\ Loop(t, todo[t] \ {open[t].file}, "copy", "verify", Packaged)
        /\ todo[t] \ {open[t].file} \in SUBSET Packaged
        /\ "copy" \in Pc /\ "verify" \in Pc
    BY <1>6 DEF CopyEnd, Pc, StagePc
  <2>4. pc' \in [Task -> Pc] /\ todo' \in [Task -> SUBSET Packaged]
    BY <2>3, LoopType
  <2> QED
    BY <1>6, <2>2, <2>4 DEF CopyEnd
<1>7. ASSUME NEW t \in Task, Verify(t) PROVE TypeOK'
  <2>1. PICK f \in todo[t] :
          \/ Loop(t, todo[t] \ {f}, "verify", "unpack", {}) /\ UNCHANGED dirs
          \/ GiveUp(t)
    BY <1>7 DEF Verify
  <2>2. ASSUME Loop(t, todo[t] \ {f}, "verify", "unpack", {})
        PROVE  pc' \in [Task -> Pc] /\ todo' \in [Task -> SUBSET Packaged]
    <3>1. todo[t] \ {f} \in SUBSET Packaged /\ {} \in SUBSET Packaged
      OBVIOUS
    <3>2. "verify" \in Pc /\ "unpack" \in Pc
      BY DEF Pc, StagePc
    <3> QED
      BY <2>2, <3>1, <3>2, LoopType
  <2> QED
    BY <1>4, <1>7, <2>1, <2>2 DEF Verify, dirs
<1>8. ASSUME NEW t \in Task, UnpackBegin(t) PROVE TypeOK'
  <2>1. "unpacking" \in Pc
    BY DEF Pc, StagePc, WritingPc
  <2>2. CASE Begin(t, Raw, "unpacking")
    BY <1>8, <2>1, <2>2, Names, BeginType DEF UnpackBegin
  <2> QED
    BY <1>4, <1>8, <2>2 DEF UnpackBegin
<1>9. ASSUME NEW t \in Task, UnpackEnd(t) PROVE TypeOK'
  <2>1. root' \in Directory /\ staging' \in Directory /\ open' \in [Task -> Handle]
    BY <1>9, FinishType DEF UnpackEnd, Content
  <2> QED
    BY <1>9, <2>1, GotoType DEF UnpackEnd, Pc, StagePc
<1>10. ASSUME NEW t \in Task, Drop(t) \/ VerifyRaw(t) PROVE TypeOK'
  <2>1. Put(staging, Compressed, "absent") \in Directory
    BY Names, PutOK DEF Content
  <2> QED
    BY <1>4, <1>10, <2>1, GotoType DEF Drop, VerifyRaw, dirs, Pc, StagePc, ReadyPc
<1>11. ASSUME NEW t \in Task, Retire(t) PROVE TypeOK'
  <2>1. ASSUME NEW f \in Present(root), RetireFile(t, f) PROVE TypeOK'
    <3>1. Put(root, f, "absent") \in Directory
      BY PutOK DEF Present, Content
    <3> QED
      BY <1>11, <2>1, <3>1, NoDirOK DEF RetireFile, Retire, Handle
  <2> QED
    BY <1>11, <2>1, NoDirOK, GotoType DEF Retire, dirs, Pc, ReadyPc
<1>12. ASSUME NEW t \in Task, Activate(t) PROVE TypeOK'
  BY <1>12, NoDirOK, MovedOK, GotoType DEF Activate, dirs, Pc
<1>13. ASSUME NEW f \in AllFaults, Mishap(f) PROVE mishaps' \in 0..MaxMishaps
  BY <1>13, MishapsAssumption DEF Mishap
<1>14. ASSUME NEW t \in Task, IoError(t) PROVE TypeOK'
  BY <1>13, <1>14, ClosedOK, LeaveType DEF IoError, AllFaults, Pc
<1>15. CASE Crash
  BY <1>13, <1>15, ClosedOK, NoDirOK DEF Crash, AllFaults, Pc, Machine
<1>16. ASSUME NEW f \in File, Damage(f) PROVE TypeOK'
  <2>1. root' \in Directory /\ mishaps' \in 0..MaxMishaps
    <3>1. Put(root, f, "absent") \in Directory /\ Put(root, f, "wrong") \in Directory
      BY PutOK DEF Content
    <3> QED
      BY <1>13, <1>16, <3>1 DEF Damage, AllFaults
  <2> QED
    BY <1>16, <2>1 DEF Damage, Handle
<1>17. CASE VmStarts \/ VmStops \/ StrayEnds
  <2>1. running' \subseteq Machine
    BY <1>17 DEF VmStarts, VmStops, StrayEnds, Machine
  <2>2. mishaps' \in 0..MaxMishaps
    BY <1>13, <1>17 DEF VmStarts, VmStops, StrayEnds, AllFaults
  <2> QED
    BY <1>17, <2>1, <2>2 DEF VmStarts, VmStops, StrayEnds, dirs
<1>18. CASE UNCHANGED vars
  BY <1>18 DEF vars, dirs
<1> QED
  BY <1>1, <1>2, <1>3, <1>5, <1>6, <1>7, <1>8, <1>9, <1>10, <1>11, <1>12,
     <1>14, <1>15, <1>16, <1>17, <1>18 DEF Next, Step

LEMMA WriterStep ==
  ASSUME TypeOK, WriterInv, [Next]_vars
  PROVE  WriterInv'
<1>1. ASSUME \A u \in Task : /\ open'[u].file = open[u].file
                             /\ pc'[u] \in WritingPc => pc'[u] = pc[u]
      PROVE  WriterInv'
  BY <1>1 DEF WriterInv, WritingPc
<1>2. ASSUME NEW t \in Task, NEW l \in Pc \ WritingPc,
             pc' = [pc EXCEPT ![t] = l],
             \A u \in Task \ {t} : open'[u].file = open[u].file
      PROVE  WriterInv'
  BY <1>2 DEF WriterInv, WritingPc, TypeOK
<1>3. ASSUME NEW t \in Task, NEW f \in File, NEW l \in WritingPc, Begin(t, f, l),
             l = "copying" => f \in Packaged, l = "unpacking" => f = Raw
      PROVE  WriterInv'
  BY <1>3 DEF WriterInv, Begin, Goto, TypeOK, WritingPc
<1>4. ASSUME NEW t \in Task, NEW c, Finish(t, c)
      PROVE  \A u \in Task \ {t} : open'[u].file = open[u].file
  BY <1>4 DEF Finish, TypeOK
<1>5. ASSUME RemoveStaging \/ RemoveStagingFails
      PROVE  \A u \in Task : open'[u].file = open[u].file
  BY <1>5, MovedOK DEF RemoveStaging, RemoveStagingFails, TypeOK
<1>6. "idle" \notin WritingPc /\ Pc \ WritingPc = {"idle", "check", "clear", "cleanup",
        "mkdir", "copy", "verify", "unpack", "drop", "verifyRaw", "retire", "activate"}
  BY DEF Pc, StagePc, ReadyPc, WritingPc
<1>7. ASSUME NEW t \in Task, GiveUp(t) PROVE WriterInv'
  BY <1>2, <1>6, <1>7 DEF GiveUp, Leave, Goto, dirs
<1>8. ASSUME NEW t \in Task, Install(t) \/ Reinstall(t) \/ Check(t) PROVE WriterInv'
  BY <1>2, <1>6, <1>8 DEF Install, Reinstall, Check, Goto, dirs
<1>9. ASSUME NEW t \in Task, Clear(t) \/ Cleanup(t) PROVE WriterInv'
  BY <1>2, <1>5, <1>6, <1>9 DEF Clear, Cleanup, Goto
<1>10. ASSUME NEW t \in Task, Mkdir(t) PROVE WriterInv'
  BY <1>2, <1>6, <1>10 DEF Mkdir, Loop, Goto
<1>11. ASSUME NEW t \in Task, CopyBegin(t) PROVE WriterInv'
  <2>1. CASE \E f \in todo[t] : Begin(t, f, "copying")
    <3>1. PICK f \in todo[t] : Begin(t, f, "copying")
      BY <2>1
    <3>2. f \in Packaged /\ f \in File
      BY Names DEF TypeOK
    <3> QED
      BY <1>3, <3>1, <3>2 DEF WritingPc
  <2> QED
    BY <1>7, <1>11, <2>1 DEF CopyBegin
<1>12. ASSUME NEW t \in Task, CopyEnd(t) PROVE WriterInv'
  BY <1>2, <1>4, <1>6, <1>12 DEF CopyEnd, Loop, Goto
<1>13. ASSUME NEW t \in Task, Verify(t) PROVE WriterInv'
  <2>1. CASE \E f \in todo[t] :
               Loop(t, todo[t] \ {f}, "verify", "unpack", {}) /\ UNCHANGED dirs
    BY <1>2, <1>6, <2>1 DEF Loop, Goto, dirs
  <2> QED
    BY <1>7, <1>13, <2>1 DEF Verify
<1>14. ASSUME NEW t \in Task, UnpackBegin(t) PROVE WriterInv'
  <2>1. CASE Begin(t, Raw, "unpacking")
    BY <1>3, <2>1, Names DEF WritingPc
  <2> QED
    BY <1>7, <1>14, <2>1 DEF UnpackBegin
<1>15. ASSUME NEW t \in Task, UnpackEnd(t) PROVE WriterInv'
  BY <1>2, <1>4, <1>6, <1>15 DEF UnpackEnd, Goto
<1>16. ASSUME NEW t \in Task, Drop(t) \/ VerifyRaw(t) PROVE WriterInv'
  BY <1>2, <1>6, <1>7, <1>16 DEF Drop, VerifyRaw, Goto, dirs
<1>17. ASSUME NEW t \in Task, Retire(t) PROVE WriterInv'
  <2>1. ASSUME NEW f \in Present(root), RetireFile(t, f) PROVE WriterInv'
    BY <1>1, <2>1 DEF RetireFile, TypeOK, Handle
  <2>2. CASE root' = NoDir /\ UNCHANGED <<pc, staging, open>>
    BY <1>1, <2>2
  <2>3. CASE (Goto(t, "activate") \/ Goto(t, "idle")) /\ UNCHANGED dirs
    BY <1>2, <1>6, <2>3 DEF Goto, dirs
  <2> QED
    BY <1>17, <2>1, <2>2, <2>3 DEF Retire
<1>18. ASSUME NEW t \in Task, Activate(t) PROVE WriterInv'
  <2>1. \A u \in Task : open'[u].file = open[u].file
    BY <1>18, MovedOK DEF Activate, dirs, TypeOK
  <2> QED
    BY <1>2, <1>6, <1>18, <2>1 DEF Activate, Goto
<1>19. ASSUME NEW t \in Task, IoError(t) PROVE WriterInv'
  BY <1>2, <1>6, <1>19 DEF IoError, Leave, Goto, TypeOK
<1>20. CASE Crash
  BY <1>20 DEF Crash, WriterInv
<1>21. ASSUME NEW f \in File, Damage(f) PROVE WriterInv'
  BY <1>1, <1>21 DEF Damage, TypeOK, Handle
<1>22. CASE VmStarts \/ VmStops \/ StrayEnds
  BY <1>1, <1>22 DEF VmStarts, VmStops, StrayEnds, dirs
<1>23. CASE UNCHANGED vars
  BY <1>1, <1>23 DEF vars, dirs
<1> QED
  BY <1>8, <1>9, <1>10, <1>11, <1>12, <1>13, <1>14, <1>15, <1>16, <1>17, <1>18,
     <1>19, <1>20, <1>21, <1>22, <1>23 DEF Next, Step

LEMMA InitOK == Init => TypeOK /\ WriterInv
<1> SUFFICES ASSUME Init PROVE TypeOK /\ WriterInv
  OBVIOUS
<1>1. bundle \in [Packaged -> Content]
  BY BundledAssumption DEF Init
<1>2. open \in [Task -> Handle] /\ pc \in [Task -> Pc]
  BY ClosedOK DEF Init, Pc
<1>3. mishaps \in 0..MaxMishaps /\ todo \in [Task -> SUBSET Packaged]
  BY MishapsAssumption DEF Init
<1>4. WriterInv
  BY DEF Init, WriterInv
<1> QED
  BY <1>1, <1>2, <1>3, <1>4, NoDirOK DEF Init, TypeOK

(* However the calls interleave, and whatever fails, each variable stays   *)
(* what it is declared to be; a copy only ever writes packaged files.      *)
THEOREM TypeCorrect == Spec => []TypeOK
<1>1. Init => TypeOK /\ WriterInv
  BY InitOK
<1>2. TypeOK /\ WriterInv /\ [Next]_vars => (TypeOK /\ WriterInv)'
  BY TypeStep, WriterStep
<1> QED
  BY <1>1, <1>2, PTL DEF Spec

---------------------------------------------------------------------------
(* What the directories hold.  The cheap check may trust a raw image of    *)
(* the right size because nobody begins one before every packaged file has *)
(* been hashed, and a packaged file is never written but from the bundle.  *)

BundleGood == \A f \in Part \cup {Manifest} : bundle[f] = "good"

Traceable(d) ==
  /\ \A f \in Packaged : d.file[f] \in {"absent", "part", bundle[f]}
  /\ d.file[Raw] \in {"absent", "part", "good"}
  /\ d.file[Raw] # "absent" => BundleGood

HashedInv ==
  \A t \in Task :
    /\ pc[t] = "verify" => \A f \in (Part \cup {Manifest}) \ todo[t] : bundle[f] = "good"
    /\ pc[t] \in {"unpack", "unpacking"} => BundleGood

ContentInv == Traceable(root) /\ Traceable(staging) /\ HashedInv

LEMMA NoDirTraceable == Traceable(NoDir)
BY Names, NoDirOK DEF Traceable

LEMMA PutTraceable ==
  ASSUME NEW d \in Directory, Traceable(d), NEW f \in File, NEW c \in Content,
         f \in Packaged => c \in {"absent", "part", bundle[f]},
         f = Raw => c # "wrong" /\ BundleGood
  PROVE  Traceable(Put(d, f, c))
<1> DEFINE e == Put(d, f, c)
<1>1. e.file[f] = c /\ \A g \in File : g # f => e.file[g] = d.file[g]
  BY PutOK
<1> HIDE DEF e
<1>2. \A g \in Packaged : e.file[g] \in {"absent", "part", bundle[g]}
  BY <1>1, Names DEF Traceable
<1>3. e.file[Raw] \in {"absent", "part", "good"} /\ (e.file[Raw] # "absent" => BundleGood)
  BY <1>1, Names DEF Traceable, Content
<1>4. Traceable(e)
  BY <1>2, <1>3 DEF Traceable
<1> QED
  BY <1>4 DEF e

LEMMA DropTraceable ==
  ASSUME NEW d \in Directory, Traceable(d), NEW f \in File
  PROVE  Traceable(Put(d, f, "absent"))
<1> DEFINE e == Put(d, f, "absent")
<1>1. e.file[f] = "absent" /\ \A g \in File : g # f => e.file[g] = d.file[g]
  BY PutOK DEF Content
<1> HIDE DEF e
<1>2. Traceable(e)
  BY <1>1, Names DEF Traceable
<1> QED
  BY <1>2 DEF e

LEMMA RemoveTraceable ==
  ASSUME TypeOK, Traceable(staging), RemoveStaging \/ RemoveStagingFails
  PROVE  Traceable(staging')
<1>1. CASE RemoveStaging
  BY <1>1, NoDirTraceable DEF RemoveStaging
<1>2. CASE RemoveStagingFails
  <2>1. \A f \in File : staging'.file[f] \in {"absent", staging.file[f]}
    BY <1>2, ThinnedOK DEF RemoveStagingFails, TypeOK
  <2> QED
    BY <2>1, Names DEF Traceable
<1> QED
  BY <1>1, <1>2

LEMMA FinishTraceable ==
  ASSUME TypeOK, Traceable(root), Traceable(staging), NEW t \in Task, NEW c \in Content,
         Finish(t, c),
         open[t].file \in Packaged => c \in {"absent", "part", bundle[open[t].file]},
         open[t].file = Raw => c # "wrong" /\ BundleGood
  PROVE  Traceable(root') /\ Traceable(staging')
<1>1. open[t].file \in File
  BY DEF TypeOK, Handle
<1>2. Traceable(Put(root, open[t].file, c)) /\ Traceable(Put(staging, open[t].file, c))
  BY <1>1, PutTraceable DEF TypeOK
<1> QED
  BY <1>2 DEF Finish

LEMMA ContentStep ==
  ASSUME TypeOK, WriterInv, ContentInv, [Next]_vars, "corrupt" \notin Faults
  PROVE  ContentInv'
<1> USE DEF ContentInv
<1>1. ASSUME bundle' = bundle, Traceable(root'), Traceable(staging'), HashedInv'
      PROVE  ContentInv'
  BY <1>1 DEF Traceable, BundleGood
<1>2. ASSUME bundle' = bundle,
             \A u \in Task :
               /\ pc'[u] = "verify" => pc[u] = "verify" /\ todo'[u] = todo[u]
               /\ pc'[u] \in {"unpack", "unpacking"} => pc[u] \in {"unpack", "unpacking"}
      PROVE  HashedInv'
  BY <1>2 DEF HashedInv, BundleGood
<1>3. ASSUME bundle' = bundle, NEW t \in Task, NEW l, pc' = [pc EXCEPT ![t] = l],
             \A u \in Task \ {t} : todo'[u] = todo[u],
             l = "verify" => \A f \in (Part \cup {Manifest}) \ todo'[t] : bundle[f] = "good",
             l \in {"unpack", "unpacking"} => BundleGood
      PROVE  HashedInv'
  BY <1>3 DEF HashedInv, BundleGood, TypeOK
<1>4. ASSUME NEW t \in Task, GiveUp(t), bundle' = bundle PROVE ContentInv'
  <2>1. HashedInv'
    BY <1>3, <1>4 DEF GiveUp, Leave, Goto, TypeOK
  <2> QED
    BY <1>1, <1>4, <2>1 DEF GiveUp, dirs
<1>5. ASSUME NEW t \in Task, Install(t) \/ Reinstall(t) \/ Check(t) PROVE ContentInv'
  <2>1. HashedInv'
    BY <1>3, <1>5 DEF Install, Reinstall, Check, Goto
  <2> QED
    BY <1>1, <1>5, <2>1 DEF Install, Reinstall, Check, dirs
<1>6. ASSUME NEW t \in Task, Clear(t) \/ Cleanup(t) PROVE ContentInv'
  <2>1. HashedInv'
    BY <1>3, <1>6 DEF Clear, Cleanup, Goto
  <2> QED
    BY <1>1, <1>6, <2>1, RemoveTraceable DEF Clear, Cleanup
<1>7. ASSUME NEW t \in Task, Mkdir(t) PROVE ContentInv'
  <2>1. HashedInv'
    BY <1>3, <1>7 DEF Mkdir, Loop, Goto, TypeOK, Packaged
  <2>2. staging'.file = staging.file
    BY <1>7 DEF Mkdir, TypeOK, Directory
  <2> QED
    BY <1>1, <1>7, <2>1, <2>2 DEF Mkdir, Traceable
<1>8. ASSUME NEW t \in Task, CopyBegin(t) PROVE ContentInv'
  <2>1. ASSUME NEW f \in todo[t], Begin(t, f, "copying") PROVE ContentInv'
    <3>1. f \in Packaged /\ f \in File /\ f # Raw
      BY Names DEF TypeOK
    <3>2. Traceable(staging')
      BY <2>1, <3>1, PutTraceable DEF Begin, TypeOK, Content
    <3>3. HashedInv'
      BY <1>3, <1>8, <2>1 DEF CopyBegin, Begin, Goto
    <3> QED
      BY <1>1, <1>8, <2>1, <3>2, <3>3 DEF CopyBegin, Begin
  <2> QED
    BY <1>4, <1>8, <2>1 DEF CopyBegin
<1>9. ASSUME NEW t \in Task, CopyEnd(t) PROVE ContentInv'
  <2>1. open[t].file \in Packaged /\ open[t].file # Raw
    BY <1>9, Names DEF WriterInv, CopyEnd, At
  <2>2. bundle[open[t].file] \in Content
    BY <2>1 DEF TypeOK
  <2>3. Traceable(root') /\ Traceable(staging')
    BY <1>9, <2>1, <2>2, FinishTraceable DEF CopyEnd
  <2>4. HashedInv'
    BY <1>3, <1>9 DEF CopyEnd, Loop, Goto, TypeOK, Packaged
  <2> QED
    BY <1>1, <1>9, <2>3, <2>4 DEF CopyEnd
<1>10. ASSUME NEW t \in Task, Verify(t) PROVE ContentInv'
  <2>1. PICK f \in todo[t] :
          \/ Verifies(f) /\ Loop(t, todo[t] \ {f}, "verify", "unpack", {}) /\ UNCHANGED dirs
          \/ GiveUp(t)
    BY <1>10 DEF Verify
  <2>2. CASE Verifies(f) /\ Loop(t, todo[t] \ {f}, "verify", "unpack", {}) /\ UNCHANGED dirs
    <3>1. f \in Part \cup {Manifest} => bundle[f] = "good"
      BY <2>2, PartAssumption, Names
         DEF Verifies, Traceable, Packaged, Manifest, Compressed
    <3>2. \A g \in (Part \cup {Manifest}) \ (todo[t] \ {f}) : bundle[g] = "good"
      BY <1>10, <3>1 DEF HashedInv, Verify, At
    <3>3. HashedInv'
      BY <1>3, <1>10, <2>2, <3>2 DEF Verify, Loop, Goto, TypeOK, BundleGood
    <3> QED
      BY <1>1, <1>10, <2>2, <3>3 DEF Verify, dirs
  <2> QED
    BY <1>4, <1>10, <2>1, <2>2 DEF Verify
<1>11. ASSUME NEW t \in Task, UnpackBegin(t) PROVE ContentInv'
  <2>1. BundleGood
    BY <1>11 DEF HashedInv, UnpackBegin, At
  <2>2. CASE Begin(t, Raw, "unpacking")
    <3>1. Traceable(staging')
      BY <2>1, <2>2, Names, PutTraceable DEF Begin, TypeOK, Content
    <3>2. HashedInv'
      BY <1>3, <1>11, <2>1, <2>2 DEF UnpackBegin, Begin, Goto
    <3> QED
      BY <1>1, <1>11, <2>2, <3>1, <3>2 DEF UnpackBegin, Begin
  <2> QED
    BY <1>4, <1>11, <2>2 DEF UnpackBegin
<1>12. ASSUME NEW t \in Task, UnpackEnd(t) PROVE ContentInv'
  <2>1. BundleGood /\ open[t].file = Raw /\ Raw \notin Packaged
    BY <1>12, Names DEF HashedInv, WriterInv, UnpackEnd, At
  <2>2. Traceable(root') /\ Traceable(staging')
    BY <1>12, <2>1, FinishTraceable DEF UnpackEnd, Content
  <2>3. HashedInv'
    BY <1>3, <1>12 DEF UnpackEnd, Goto
  <2> QED
    BY <1>1, <1>12, <2>2, <2>3 DEF UnpackEnd
<1>13. ASSUME NEW t \in Task, Drop(t) \/ VerifyRaw(t) PROVE ContentInv'
  <2>1. CASE GiveUp(t)
    BY <1>4, <1>13, <2>1 DEF Drop, VerifyRaw
  <2>2. CASE ~GiveUp(t)
    <3>1. HashedInv'
      BY <1>3, <1>13, <2>2 DEF Drop, VerifyRaw, Goto
    <3>2. Traceable(Put(staging, Compressed, "absent"))
      BY Names, DropTraceable DEF TypeOK
    <3> QED
      BY <1>1, <1>13, <2>2, <3>1, <3>2 DEF Drop, VerifyRaw, dirs
  <2> QED
    BY <2>1, <2>2
<1>14. ASSUME NEW t \in Task, Retire(t) PROVE ContentInv'
  <2>1. ASSUME NEW f \in Present(root), RetireFile(t, f) PROVE ContentInv'
    <3>1. Traceable(root')
      BY <2>1, NoDirTraceable, DropTraceable DEF RetireFile, Present, TypeOK
    <3>2. HashedInv'
      BY <1>2, <1>14, <2>1 DEF Retire, RetireFile
    <3> QED
      BY <1>1, <1>14, <2>1, <3>1, <3>2 DEF Retire, RetireFile
  <2>2. CASE root' = NoDir /\ UNCHANGED <<pc, staging, open>>
    BY <1>1, <1>2, <1>14, <2>2, NoDirTraceable DEF Retire
  <2>3. CASE (Goto(t, "activate") \/ Goto(t, "idle")) /\ UNCHANGED dirs
    <3>1. HashedInv'
      BY <1>3, <1>14, <2>3 DEF Retire, Goto
    <3> QED
      BY <1>1, <1>14, <2>3, <3>1 DEF Retire, dirs
  <2> QED
    BY <1>14, <2>1, <2>2, <2>3 DEF Retire
<1>15. ASSUME NEW t \in Task, Activate(t) PROVE ContentInv'
  <2>1. HashedInv'
    BY <1>3, <1>15 DEF Activate, Goto
  <2> QED
    BY <1>1, <1>15, <2>1, NoDirTraceable DEF Activate, dirs
<1>16. ASSUME NEW t \in Task, IoError(t) PROVE ContentInv'
  <2>1. HashedInv'
    BY <1>3, <1>16 DEF IoError, Leave, Goto, TypeOK
  <2> QED
    BY <1>1, <1>16, <2>1 DEF IoError
<1>17. CASE Crash
  <2>1. HashedInv'
    BY <1>2, <1>17 DEF Crash
  <2> QED
    BY <1>1, <1>17, <2>1, NoDirTraceable DEF Crash
<1>18. ASSUME NEW f \in File, Damage(f) PROVE ContentInv'
  <2>1. Traceable(root')
    BY <1>18, DropTraceable DEF Damage, Mishap, TypeOK
  <2>2. HashedInv'
    BY <1>2, <1>18 DEF Damage
  <2> QED
    BY <1>1, <1>18, <2>1, <2>2 DEF Damage
<1>19. CASE VmStarts \/ VmStops \/ StrayEnds
  <2>1. HashedInv'
    BY <1>2, <1>19 DEF VmStarts, VmStops, StrayEnds
  <2> QED
    BY <1>1, <1>19, <2>1 DEF VmStarts, VmStops, StrayEnds, dirs
<1>20. CASE UNCHANGED vars
  <2>1. HashedInv'
    BY <1>2, <1>20 DEF vars
  <2> QED
    BY <1>1, <1>20, <2>1 DEF vars, dirs
<1> QED
  BY <1>5, <1>6, <1>7, <1>8, <1>9, <1>10, <1>11, <1>12, <1>13, <1>14, <1>15,
     <1>16, <1>17, <1>18, <1>19, <1>20 DEF Next, Step

(* Unless something changes a file and keeps its size, the size check of   *)
(* a launch never accepts a runtime whose hashes would not match: however  *)
(* many calls share the staging directory, and wherever they stop.         *)
THEOREM QuickCheckIsSound == "corrupt" \notin Faults => (Spec => []QuickCheckSound)
<1> SUFFICES ASSUME "corrupt" \notin Faults PROVE Spec => []QuickCheckSound
  OBVIOUS
<1>1. Init => TypeOK /\ WriterInv /\ ContentInv
  <2> SUFFICES ASSUME Init PROVE ContentInv
    BY InitOK
  <2> QED
    BY NoDirTraceable DEF Init, ContentInv, HashedInv
<1>2. TypeOK /\ WriterInv /\ ContentInv /\ [Next]_vars => (TypeOK /\ WriterInv /\ ContentInv)'
  BY TypeStep, WriterStep, ContentStep
<1>3. TypeOK /\ ContentInv => QuickCheckSound
  <2> SUFFICES ASSUME TypeOK, Traceable(root), QuickOk(root) PROVE Complete(root)
    BY DEF ContentInv, QuickCheckSound
  <2>1. root.file[Raw] = "good" /\ BundleGood
    BY DEF QuickOk, SizeOk, Required, Traceable
  <2>2. \A f \in Part \cup {Manifest} : root.file[f] = "good"
    BY <2>1 DEF QuickOk, SizeOk, Required, Traceable, BundleGood, Packaged
  <2> QED
    BY <2>1, <2>2 DEF Complete, Required
<1> QED
  BY <1>1, <1>2, <1>3, PTL DEF Spec

---------------------------------------------------------------------------
(* An installation that is alone, file by file, implements RuntimeSlot.    *)

Hashed == Part \cup {Manifest}

(* A call that is alone has a file open while it writes it, in a staging   *)
(* directory nobody moves.                                                 *)
OpenInv ==
  \A t \in Task : open[t].dir = IF pc[t] \in WritingPc THEN "staging" ELSE "none"

(* What was found good stays so until the staged runtime is made live.     *)
StagedInv ==
  \A t \in Task :
    /\ pc[t] = "verify" => \A f \in Hashed \ todo[t] : staging.file[f] = "good"
    /\ pc[t] \in {"unpack", "unpacking", "drop", "verifyRaw"}
         => \A f \in Hashed : staging.file[f] = "good"
    /\ pc[t] \in ReadyPc => Complete(staging)

(* A live directory that is not there has no files. *)
GoneInv == ~root.exists => \A f \in File : root.file[f] = "absent"

AloneInv == TypeOK /\ WriterInv /\ OpenInv /\ StagedInv /\ GoneInv

Alone == \E c : Task = {c}
NoDamage == "quarantine" \notin Faults /\ "corrupt" \notin Faults

Spare == \E t \in Task : pc[t] \in ReadyPc /\ Complete(staging)
SlotStep == Slot!Next \/ ((Complete(root)' <=> Complete(root)) /\ (Spare' <=> Spare))

LEMMA HashedOK ==
  /\ Hashed \subseteq Packaged /\ Hashed \subseteq File
  /\ Compressed \notin Hashed /\ Raw \notin Hashed
  /\ Required = Hashed \cup {Raw}
BY PartAssumption, Names DEF Hashed, Packaged, File, Required, Manifest, Compressed, Raw

(* A file that is written is the only one that changes. *)
LEMMA PutKeeps ==
  ASSUME NEW d \in Directory, NEW f \in File, NEW c, NEW e, e = Put(d, f, c)
  PROVE  /\ e.exists = d.exists
         /\ \A g \in File \ {f} : e.file[g] = d.file[g]
BY DEF Put, Directory

---------------------------------------------------------------------------
(* What a step is to the slot.                                             *)

(* A call that gives up, or is not that far. *)
LEMMA SlotLeaves ==
  ASSUME UNCHANGED root, \A t \in Task : pc'[t] \notin ReadyPc
  PROVE  SlotStep
<1>1. Complete(root)' = Complete(root)
  BY DEF Complete
<1>2. ~Spare'
  BY DEF Spare
<1>3. Spare' = FALSE
  BY <1>2
<1>4. CASE Spare
  BY <1>1, <1>3, <1>4 DEF SlotStep, Spare, Slot!Next, Slot!Abandon
<1>5. CASE ~Spare
  BY <1>1, <1>2, <1>5 DEF SlotStep
<1> QED
  BY <1>4, <1>5

LEMMA SlotStages ==
  ASSUME UNCHANGED root, \A t \in Task : pc[t] \notin ReadyPc
  PROVE  SlotStep
<1>1. Complete(root)' = Complete(root)
  BY DEF Complete
<1>2. ~Spare
  BY DEF Spare
<1>3. CASE Spare'
  <2>1. Spare' = TRUE
    BY <1>3
  <2> QED
    BY <1>1, <1>2, <2>1 DEF SlotStep, Spare, Slot!Next, Slot!Stage
<1>4. CASE ~Spare'
  BY <1>1, <1>2, <1>4 DEF SlotStep
<1> QED
  BY <1>3, <1>4

LEMMA SlotRests ==
  ASSUME UNCHANGED <<root, staging>>, \A t \in Task : pc'[t] \in ReadyPc <=> pc[t] \in ReadyPc
  PROVE  SlotStep
BY DEF SlotStep, Spare, Complete

(* One file less in the live directory, while a replacement is ready. *)
LEMMA SlotRetires ==
  ASSUME UNCHANGED <<pc, staging>>, Spare,
         \A f \in File : root'.file[f] \in {"absent", root.file[f]}
  PROVE  SlotStep
<1>1. Complete(root)' => Complete(root)
  BY Names DEF Complete
<1>2. Spare' = Spare
  BY DEF Spare, Complete
<1>3. CASE Complete(root)' <=> Complete(root)
  BY <1>2, <1>3 DEF SlotStep
<1>4. CASE Complete(root) /\ ~Complete(root)'
  <2>1. Complete(root)' = FALSE
    BY <1>4
  <2> QED
    BY <1>2, <1>4, <2>1 DEF SlotStep, Spare, Slot!Next, Slot!Retire
<1> QED
  BY <1>1, <1>3, <1>4

LEMMA SlotActivates ==
  ASSUME Spare, ~Complete(root), root' = staging, Complete(staging),
         \A t \in Task : pc'[t] \notin ReadyPc
  PROVE  SlotStep
<1>1. Complete(root)'
  BY DEF Complete
<1>2. ~Spare'
  BY DEF Spare
<1>3. Complete(root)' = TRUE /\ Spare' = FALSE
  BY <1>1, <1>2
<1> QED
  BY <1>3 DEF SlotStep, Spare, Slot!Next, Slot!Activate

---------------------------------------------------------------------------
(* Every step.                                                             *)

LEMMA GoneIsIncomplete == GoneInv /\ ~root.exists => ~Complete(root)
BY Names DEF GoneInv, Complete, Required

Kept == OpenInv' /\ StagedInv' /\ GoneInv' /\ SlotStep

LEMMA AloneStep ==
  ASSUME Alone, NoDamage, AloneInv, [Next]_vars
  PROVE  Kept
<1>0. PICK c : Task = {c}
  BY DEF Alone
<1> USE DEF AloneInv
<1>1. ASSUME NEW l, pc' = [pc EXCEPT ![c] = l] PROVE pc'[c] = l
  BY <1>0, <1>1 DEF TypeOK
<1>2. /\ pc[c] \notin WritingPc => ~Held("staging") /\ open[c].dir = "none"
      /\ ~Held("root")
  BY <1>0 DEF OpenInv, Held
<1>3. /\ staging \in Directory /\ root \in Directory /\ open[c] \in Handle
      /\ c \in Task /\ pc[c] \in Pc /\ pc \in [Task -> Pc] /\ open \in [Task -> Handle]
      /\ todo \in [Task -> SUBSET Packaged]
  BY <1>0 DEF TypeOK
(* A step that leaves the live directory alone and is not ready after it.  *)
<1>4. ASSUME NEW l \in Pc, pc' = [pc EXCEPT ![c] = l], UNCHANGED root,
             l \notin ReadyPc,
             open'[c].dir = IF l \in WritingPc THEN "staging" ELSE "none",
             l = "verify" => \A f \in Hashed \ todo'[c] : staging'.file[f] = "good",
             l \in {"unpack", "unpacking", "drop", "verifyRaw"}
               => \A f \in Hashed : staging'.file[f] = "good"
      PROVE  Kept
  <2>1. SlotStep
    BY <1>0, <1>1, <1>4, SlotLeaves
  <2> QED
    BY <1>0, <1>1, <1>4, <2>1 DEF OpenInv, StagedInv, GoneInv, Kept
(* ... and changes no file of the staging directory either. *)
<1>5. ASSUME NEW l \in {"idle", "check", "clear", "cleanup"}, pc' = [pc EXCEPT ![c] = l],
             UNCHANGED root, open'[c].dir = "none"
      PROVE  Kept
  BY <1>4, <1>5 DEF Pc, ReadyPc, WritingPc
<1>6. ASSUME GiveUp(c), pc[c] \notin WritingPc PROVE Kept
  BY <1>2, <1>5, <1>6 DEF GiveUp, Leave, Goto, dirs
<1>7. ASSUME RemoveStaging \/ RemoveStagingFails, pc[c] \notin WritingPc
      PROVE  open'[c].dir = "none"
  BY <1>2, <1>3, <1>7 DEF RemoveStaging, RemoveStagingFails, Moved, Held
<1>8. CASE Install(c) \/ Reinstall(c) \/ Check(c)
  BY <1>2, <1>5, <1>8 DEF Install, Reinstall, Check, At, Goto, dirs, WritingPc
<1>9. CASE Clear(c)
  <2>1. open'[c].dir = "none" /\ UNCHANGED root
    BY <1>7, <1>9 DEF Clear, At, WritingPc
  <2>2. CASE Goto(c, "mkdir")
    BY <1>4, <2>1, <2>2 DEF Goto, Pc, StagePc, ReadyPc, WritingPc
  <2>3. CASE Goto(c, "idle")
    BY <1>5, <2>1, <2>3 DEF Goto
  <2> QED
    BY <1>9, <2>2, <2>3 DEF Clear
<1>10. CASE Cleanup(c)
  BY <1>5, <1>7, <1>10 DEF Cleanup, At, Goto, WritingPc
<1>11. CASE Mkdir(c)
  <2>1. open'[c].dir = "none" /\ UNCHANGED root
    BY <1>2, <1>11 DEF Mkdir, At, WritingPc
  <2>2. CASE Goto(c, "copy")
    BY <1>4, <2>1, <2>2 DEF Goto, Pc, StagePc, ReadyPc, WritingPc
  <2>3. CASE Goto(c, "verify") /\ todo' = [todo EXCEPT ![c] = Packaged]
    <3>1. Hashed \ todo'[c] = {}
      BY <1>3, <2>3, HashedOK
    <3> QED
      BY <1>4, <2>1, <2>3, <3>1 DEF Goto, Pc, StagePc, ReadyPc, WritingPc
  <2> QED
    BY <1>11, <2>2, <2>3 DEF Mkdir, Loop
<1>12. ASSUME NEW f \in File, NEW l \in WritingPc, Begin(c, f, l), f \notin Hashed \/ l = "copying",
              l = "unpacking" => \A g \in Hashed : staging.file[g] = "good"
       PROVE  Kept
  <2>1. open'[c].dir = "staging" /\ UNCHANGED root /\ pc' = [pc EXCEPT ![c] = l]
    BY <1>3, <1>12 DEF Begin, Goto
  <2>2. \A g \in File \ {f} : staging'.file[g] = staging.file[g]
    BY <1>3, <1>12, PutKeeps DEF Begin
  <2>3. l = "unpacking" => \A g \in Hashed : staging'.file[g] = "good"
    BY <1>12, <2>2, HashedOK
  <2> QED
    BY <1>4, <1>12, <2>1, <2>3 DEF Pc, StagePc, ReadyPc, WritingPc
<1>13. CASE CopyBegin(c)
  <2>1. CASE ~staging.exists
    BY <1>6, <1>13, <2>1 DEF CopyBegin, At, WritingPc
  <2>2. CASE staging.exists
    <3>1. PICK f \in todo[c] : Begin(c, f, "copying")
      BY <1>13, <2>2 DEF CopyBegin
    <3> QED
      BY <1>3, <1>12, <3>1, Names DEF WritingPc
  <2> QED
    BY <2>1, <2>2
(* The file that was open is in the staging directory. *)
<1>14. ASSUME NEW x, Finish(c, x), pc[c] \in WritingPc
       PROVE  /\ UNCHANGED root /\ staging' = Put(staging, open[c].file, x)
              /\ open'[c].dir = "none"
  BY <1>0, <1>3, <1>14 DEF Finish, OpenInv, Closed
<1>15. CASE CopyEnd(c)
  <2>1. UNCHANGED root /\ open'[c].dir = "none"
    BY <1>14, <1>15 DEF CopyEnd, At, WritingPc
  <2>2. CASE Goto(c, "copy")
    BY <1>4, <2>1, <2>2 DEF Goto, Pc, StagePc, ReadyPc, WritingPc
  <2>3. CASE Goto(c, "verify") /\ todo' = [todo EXCEPT ![c] = Packaged]
    <3>1. Hashed \ todo'[c] = {}
      BY <1>3, <2>3, HashedOK
    <3> QED
      BY <1>4, <2>1, <2>3, <3>1 DEF Goto, Pc, StagePc, ReadyPc, WritingPc
  <2> QED
    BY <1>15, <2>2, <2>3 DEF CopyEnd, Loop
<1>16. CASE Verify(c)
  <2>1. PICK f \in todo[c] :
          IF Verifies(f)
          THEN Loop(c, todo[c] \ {f}, "verify", "unpack", {}) /\ UNCHANGED dirs
          ELSE GiveUp(c)
    BY <1>16 DEF Verify
  <2>2. CASE ~Verifies(f)
    BY <1>6, <1>16, <2>1, <2>2 DEF Verify, At, WritingPc
  <2>3. CASE Verifies(f)
    <3>1. UNCHANGED root /\ UNCHANGED staging /\ open'[c].dir = "none"
      BY <1>2, <1>16, <2>1, <2>3 DEF Verify, At, WritingPc, dirs
    <3>2. \A g \in Hashed \ (todo[c] \ {f}) : staging.file[g] = "good"
      BY <1>0, <1>16, <2>3, HashedOK DEF Verify, At, StagedInv, Verifies
    <3>3. CASE todo[c] \ {f} = {} /\ Goto(c, "unpack")
      BY <1>4, <3>1, <3>2, <3>3 DEF Goto, Pc, StagePc, ReadyPc, WritingPc
    <3>4. CASE Goto(c, "verify") /\ todo' = [todo EXCEPT ![c] = todo[c] \ {f}]
      <4>1. todo'[c] = todo[c] \ {f}
        BY <1>3, <3>4
      <4> QED
        BY <1>4, <3>1, <3>2, <3>4, <4>1 DEF Goto, Pc, StagePc, ReadyPc, WritingPc
    <3> QED
      BY <2>1, <2>3, <3>3, <3>4 DEF Loop
  <2> QED
    BY <2>2, <2>3
<1>17. CASE UnpackBegin(c)
  <2>1. CASE staging.file[Compressed] = "absent"
    BY <1>6, <1>17, <2>1 DEF UnpackBegin, At, WritingPc
  <2>2. CASE staging.file[Compressed] # "absent"
    <3>1. Begin(c, Raw, "unpacking") /\ \A g \in Hashed : staging.file[g] = "good"
      BY <1>0, <1>17, <2>2 DEF UnpackBegin, At, StagedInv
    <3> QED
      BY <1>12, <3>1, HashedOK, Names DEF WritingPc
  <2> QED
    BY <2>1, <2>2
<1>18. CASE UnpackEnd(c)
  <2>1. PICK x \in {"good", "part"} :
          /\ Finish(c, x)
          /\ Goto(c, "drop") \/ Goto(c, "cleanup")
    BY <1>18 DEF UnpackEnd
  <2>2. pc[c] = "unpacking" /\ open[c].file = Raw
    BY <1>0, <1>18 DEF UnpackEnd, At, WriterInv
  <2>3. UNCHANGED root /\ staging' = Put(staging, Raw, x) /\ open'[c].dir = "none"
    <3>1. Finish(c, x) /\ pc[c] \in WritingPc
      BY <2>1, <2>2 DEF WritingPc
    <3> QED
      BY <1>14, <2>2, <3>1
  <2>4. \A g \in File \ {Raw} : staging'.file[g] = staging.file[g]
    BY <1>3, <2>3, PutKeeps, Names
  <2>5. \A g \in Hashed : staging'.file[g] = "good"
    BY <1>0, <2>2, <2>4, HashedOK DEF StagedInv
  <2>6. CASE Goto(c, "drop")
    BY <1>4, <2>3, <2>5, <2>6 DEF Goto, Pc, StagePc, ReadyPc, WritingPc
  <2>7. CASE Goto(c, "cleanup")
    BY <1>5, <2>3, <2>7 DEF Goto
  <2> QED
    BY <2>1, <2>6, <2>7
<1>19. CASE Drop(c)
  <2>1. CASE staging.file[Compressed] = "absent"
    BY <1>6, <1>19, <2>1 DEF Drop, At, WritingPc
  <2>2. CASE staging.file[Compressed] # "absent"
    <3>1. /\ UNCHANGED root /\ open'[c].dir = "none" /\ Goto(c, "verifyRaw")
          /\ staging' = Put(staging, Compressed, "absent")
      BY <1>2, <1>19, <2>2 DEF Drop, At, WritingPc
    <3>2. \A g \in File \ {Compressed} : staging'.file[g] = staging.file[g]
      BY <1>3, <3>1, PutKeeps, Names
    <3>3. \A g \in Hashed : staging'.file[g] = "good"
      BY <1>0, <1>19, <3>2, HashedOK DEF StagedInv, Drop, At
    <3> QED
      BY <1>4, <3>1, <3>3 DEF Goto, Pc, StagePc, ReadyPc, WritingPc
  <2> QED
    BY <2>1, <2>2
<1>20. CASE VerifyRaw(c)
  <2>1. CASE staging.file[Raw] # "good"
    BY <1>6, <1>20, <2>1 DEF VerifyRaw, At, WritingPc
  <2>2. CASE staging.file[Raw] = "good"
    <3>1. UNCHANGED <<root, staging, open>> /\ pc[c] = "verifyRaw" /\ pc' = [pc EXCEPT ![c] = "retire"]
      BY <1>20, <2>2 DEF VerifyRaw, At, Goto, dirs
    <3>2. pc'[c] = "retire" /\ open[c].dir = "none"
      BY <1>1, <1>2, <3>1 DEF WritingPc
    <3>3. Complete(staging)
      BY <1>0, <2>2, <3>1, HashedOK DEF StagedInv, Complete
    <3>4. OpenInv' /\ StagedInv' /\ GoneInv'
      BY <1>0, <3>1, <3>2, <3>3 DEF OpenInv, StagedInv, GoneInv, WritingPc, ReadyPc, Complete
    <3>5. SlotStep
      BY <1>0, <3>1, SlotStages DEF ReadyPc
    <3> QED
      BY <3>4, <3>5 DEF Kept
  <2> QED
    BY <2>1, <2>2
(* Nothing of the staging directory or the place of the call changes. *)
<1>21. ASSUME UNCHANGED <<pc, staging, todo>>, open'[c].dir = open[c].dir, GoneInv', SlotStep
       PROVE  Kept
  BY <1>0, <1>21 DEF OpenInv, StagedInv, Complete, Kept
<1>22. ASSUME pc[c] \in ReadyPc PROVE Spare /\ Complete(staging) /\ open[c].dir = "none"
  BY <1>0, <1>2, <1>22 DEF StagedInv, Spare, WritingPc, ReadyPc
<1>23. CASE Retire(c)
  <2>1. pc[c] = "retire" /\ todo' = todo /\ Spare /\ Complete(staging) /\ open[c].dir = "none"
    BY <1>22, <1>23 DEF Retire, At, ReadyPc
  <2>2. CASE ~root.exists /\ Goto(c, "activate") /\ UNCHANGED dirs
    <3>1. pc'[c] = "activate" /\ UNCHANGED <<root, staging, open>>
      BY <1>1, <2>2 DEF Goto, dirs
    <3>2. OpenInv' /\ StagedInv' /\ GoneInv'
      BY <1>0, <2>1, <3>1 DEF OpenInv, StagedInv, GoneInv, WritingPc, ReadyPc, Complete
    <3>3. SlotStep
      BY <1>0, <2>1, <3>1, SlotRests DEF ReadyPc
    <3> QED
      BY <3>2, <3>3 DEF Kept
  <2>3. ASSUME NEW f \in Present(root), RetireFile(c, f) PROVE Kept
    <3>1. f \in File /\ root.file[f] # "absent" /\ root.exists
      BY <2>3 DEF Present, GoneInv
    <3> DEFINE rest == Put(root, f, "absent")
    <3>2. /\ rest.exists
          /\ \A g \in File : rest.file[g] \in {"absent", root.file[g]}
      BY <1>3, <3>1 DEF Directory, Put
    <3> HIDE DEF rest
    <3>3. root' = IF Present(rest) = {} THEN NoDir ELSE rest
      BY <2>3 DEF RetireFile, rest
    <3>4. GoneInv' /\ \A g \in File : root'.file[g] \in {"absent", root.file[g]}
      BY <3>2, <3>3, NoDirOK DEF GoneInv
    <3>5. open'[c].dir = open[c].dir /\ UNCHANGED <<pc, staging>>
      BY <1>3, <2>1, <2>3 DEF RetireFile
    <3>6. SlotStep
      BY <2>1, <3>4, <3>5, SlotRetires
    <3> QED
      BY <1>21, <2>1, <3>4, <3>5, <3>6
  <2>4. CASE Present(root) = {} /\ root' = NoDir /\ UNCHANGED <<pc, staging, open>>
    <3>1. GoneInv' /\ \A g \in File : root'.file[g] \in {"absent", root.file[g]}
      BY <2>4, NoDirOK DEF GoneInv
    <3>2. SlotStep
      BY <2>1, <2>4, <3>1, SlotRetires
    <3> QED
      BY <1>21, <2>1, <2>4, <3>1, <3>2
  <2>5. CASE Goto(c, "idle") /\ UNCHANGED dirs
    BY <1>5, <2>1, <2>5 DEF Goto, dirs
  <2> QED
    BY <1>23, <2>2, <2>3, <2>4, <2>5 DEF Retire
<1>24. CASE Activate(c)
  <2>1. /\ pc[c] = "activate" /\ Spare /\ Complete(staging) /\ open[c].dir = "none"
        /\ pc' = [pc EXCEPT ![c] = "idle"]
    BY <1>22, <1>24 DEF Activate, At, Goto, ReadyPc
  <2>2. CASE UNCHANGED dirs
    BY <1>5, <2>1, <2>2 DEF dirs
  <2>3. CASE staging.exists /\ ~root.exists /\ root' = staging /\ open' = Moved("staging", "root")
    <3>1. pc'[c] = "idle" /\ open'[c].dir = "none"
      BY <1>1, <1>3, <2>1, <2>3 DEF Moved
    <3>2. OpenInv' /\ StagedInv' /\ GoneInv'
      BY <1>0, <2>3, <3>1 DEF OpenInv, StagedInv, GoneInv, WritingPc, ReadyPc
    <3>3. SlotStep
      BY <1>0, <2>1, <2>3, <3>1, GoneIsIncomplete, SlotActivates DEF ReadyPc
    <3> QED
      BY <3>2, <3>3 DEF Kept
  <2> QED
    BY <1>24, <2>2, <2>3 DEF Activate
<1>25. CASE IoError(c)
  <2>1. UNCHANGED root /\ open'[c].dir = "none"
    BY <1>3, <1>25 DEF IoError, Closed
  <2>2. CASE Leave(c, "cleanup")
    BY <1>5, <2>1, <2>2 DEF Leave, Goto
  <2>3. CASE Leave(c, "idle")
    BY <1>5, <2>1, <2>3 DEF Leave, Goto
  <2> QED
    BY <1>25, <2>2, <2>3 DEF IoError
<1>26. CASE Crash
  <2>1. UNCHANGED root /\ pc'[c] = "idle" /\ open'[c].dir = "none"
    BY <1>3, <1>26 DEF Crash, Closed
  <2>2. SlotStep
    BY <1>0, <2>1, SlotLeaves DEF ReadyPc
  <2> QED
    BY <1>0, <2>1, <2>2 DEF OpenInv, StagedInv, GoneInv, WritingPc, ReadyPc, Kept
<1>27. CASE VmStarts \/ VmStops \/ StrayEnds \/ UNCHANGED vars
  <2>1. UNCHANGED <<pc, root, staging, open, todo>>
    BY <1>27 DEF VmStarts, VmStops, StrayEnds, vars, dirs
  <2>2. GoneInv' /\ SlotStep
    BY <2>1, SlotRests DEF GoneInv
  <2> QED
    BY <1>21, <2>1, <2>2
<1>28. ASSUME NEW f \in File, Damage(f) PROVE FALSE
  BY <1>28 DEF Damage, Mishap, NoDamage
<1> QED
  BY <1>0, <1>8, <1>9, <1>10, <1>11, <1>13, <1>15, <1>16, <1>17, <1>18, <1>19, <1>20,
     <1>23, <1>24, <1>25, <1>26, <1>27, <1>28 DEF Next, Step

LEMMA AloneInit == Init => OpenInv /\ StagedInv /\ GoneInv /\ Slot!Init
<1> SUFFICES ASSUME Init PROVE OpenInv /\ StagedInv /\ GoneInv /\ Slot!Init
  OBVIOUS
<1>1. OpenInv /\ StagedInv /\ GoneInv
  BY NoDirOK DEF Init, OpenInv, StagedInv, GoneInv, Closed, WritingPc, ReadyPc
<1>2. ~Complete(root) /\ ~Spare
  BY <1>1, GoneIsIncomplete DEF Init, NoDir, Spare, ReadyPc
<1>3. Complete(root) = FALSE /\ Spare = FALSE
  BY <1>2
<1> QED
  BY <1>1, <1>3 DEF Spare, Slot!Init

(* One call of the installer at a time, with no file of the live directory *)
(* damaged from outside: whatever the bundle holds and however often the   *)
(* application crashes or an operation fails, the live runtime is given up *)
(* only for a verified replacement, and becomes usable only as one.        *)
THEOREM AloneIsSlot == Alone /\ NoDamage => (Spec => ActsAsSlot)
<1> SUFFICES ASSUME Alone, NoDamage PROVE Spec => ActsAsSlot
  OBVIOUS
<1>1. Init => AloneInv /\ Slot!Init
  BY InitOK, AloneInit DEF AloneInv
<1>2. AloneInv /\ [Next]_vars => AloneInv'
  BY TypeStep, WriterStep, AloneStep DEF AloneInv, Kept
<1>3. AloneInv /\ [Next]_vars
        => [Slot!Next]_(<<Complete(root), \E t \in Task : pc[t] \in ReadyPc /\ Complete(staging)>>)
  <2> SUFFICES ASSUME AloneInv, [Next]_vars, ~Slot!Next
               PROVE  /\ Complete(root)' = Complete(root)
                      /\ (\E t \in Task : pc[t] \in ReadyPc /\ Complete(staging))'
                           = (\E t \in Task : pc[t] \in ReadyPc /\ Complete(staging))
    OBVIOUS
  <2>1. (Complete(root)' <=> Complete(root)) /\ (Spare' <=> Spare)
    BY AloneStep DEF Kept, SlotStep
  <2>2. Complete(root)' = Complete(root)
    BY <2>1 DEF Complete
  <2>3. Spare' = Spare
    BY <2>1 DEF Spare
  <2> QED
    BY <2>2, <2>3 DEF Spare
<1> QED
  BY <1>1, <1>2, <1>3, PTL DEF Spec, ActsAsSlot, Slot!Spec
===========================================================================
