---------------------------- MODULE RuntimeSlot ----------------------------
(***************************************************************************)
(* What the installer promises of the live runtime directory, whatever it  *)
(* does file by file: the directory only becomes usable when a verified    *)
(* replacement takes its place, and only stops being usable while such a   *)
(* replacement is at hand (crates/runtime-manager/src/install.rs, module   *)
(* comment).                                                               *)
(***************************************************************************)
VARIABLES
  live,   \* the live directory holds a complete runtime
  spare   \* a verified replacement is ready beside it

Init == live = FALSE /\ spare = FALSE

Stage == ~spare /\ spare' = TRUE /\ UNCHANGED live

Retire == live /\ spare /\ live' = FALSE /\ UNCHANGED spare

Activate == ~live /\ spare /\ live' = TRUE /\ spare' = FALSE

(* The replacement is lost: to a crash, or to a directory in use. *)
Abandon == spare /\ spare' = FALSE /\ UNCHANGED live

Next == Stage \/ Retire \/ Activate \/ Abandon

Spec == Init /\ [][Next]_<<live, spare>>
=============================================================================
