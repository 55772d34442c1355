---------------------------- MODULE MC_GatewayControl ----------------------------
(***************************************************************************)
(* GatewayControl for TLC.  Cooldowns longer than a poll cycle, so that    *)
(* the balancer and commands act within them.                              *)
(***************************************************************************)
EXTENDS GatewayControl

Cooldowns == [emergency |-> 2, high |-> 1, save |-> 1]
==================================================================================
