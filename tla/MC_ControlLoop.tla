---------------------------- MODULE MC_ControlLoop ----------------------------
(***************************************************************************)
(* ControlLoop for TLC.  A rate key that lives for one tick and a cycle    *)
(* two ticks apart, as 5 s and 10 s are; cooldowns that outlive a cycle.   *)
(***************************************************************************)
EXTENDS ControlLoop

CONSTANTS r1, u1, u2

OneReplica  == {r1}
TwoUnits    == {u1, u2}
OneTick     == 1
TwoTicks    == 2
ThreeTicks  == 3
HotOrOff    == {"offline", "critical"}
OneTextRule == {Text}
===============================================================================
