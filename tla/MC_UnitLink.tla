----------------------------- MODULE MC_UnitLink -----------------------------
(***************************************************************************)
(* UnitLink for TLC.  Two slots and bursts of one, so that the ring wraps  *)
(* and fills, and a replay takes two passes; a heartbeat due before the    *)
(* timeout, and a counter that wraps soon after it.                        *)
(***************************************************************************)
EXTENDS UnitLink

CONSTANTS m1, m2

TwoMessages == {m1, m2}
==============================================================================
