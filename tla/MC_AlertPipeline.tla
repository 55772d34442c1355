---------------------------- MODULE MC_AlertPipeline ----------------------------
(***************************************************************************)
(* AlertPipeline for TLC.  Two kinds, so that a message brings two alerts; *)
(* a key that outlives one tick, so that it expires during an emission.    *)
(***************************************************************************)
EXTENDS AlertPipeline

CONSTANTS h1, h2

TwoHandlers == {h1, h2}
TwoTicks    == 2
=================================================================================
