---------------------------- MODULE MCAgentLink ----------------------------
(* Two requests and the command that starts the machine; one lesson that   *)
(* asks for everything and may use sudo, one that asks for nothing and may *)
(* not.                                                                    *)
EXTENDS AgentLink
=============================================================================
