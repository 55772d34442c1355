---------------------------- MODULE MC_Maintenance ----------------------------
(***************************************************************************)
(* Maintenance for TLC.  Two units, one of which cannot be analysed; two   *)
(* zones, so that a unit can move; a RUL of 0, which is shown as 180, one  *)
(* that is just risky enough for an alert, and one without any risk.       *)
(***************************************************************************)
EXTENDS Maintenance

CONSTANTS u1, u2, z1, z2, r1, hourly, demanded

TwoUnits == {u1, u2}
TwoZones == {z1, z2}
Thresholds == {0, 109, 400}
===============================================================================
