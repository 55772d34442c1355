---------------------------- MODULE MC_UnitSafety ----------------------------
(***************************************************************************)
(* UnitSafety for TLC: every duration is a few ticks, in the order of the  *)
(* firmware's constants (a PID cycle < the hardware watchdog < the off-    *)
(* time guard < the emergency delay).                                      *)
(***************************************************************************)
EXTENDS UnitSafety

OneTick       == 1
ShortWatchdog == 2
Guard         == 4
LongDelay     == 5
Counter       == 5
==============================================================================
