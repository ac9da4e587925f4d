-------------------------- MODULE MCConsoleBridge --------------------------
(* ConsoleBridge with a command that starts and stops, a second one that   *)
(* only stops, and two keystrokes.                                         *)
EXTENDS ConsoleBridge
=============================================================================
