--------------------------- MODULE MC_RateLimiter ---------------------------
(***************************************************************************)
(* RateLimiter for TLC.  Two tasks, so that pipelines overtake each other; *)
(* more requests than the rate, and time for the window to slide twice.    *)
(***************************************************************************)
EXTENDS RateLimiter

CONSTANTS r1, r2

TwoTasks == {r1, r2}
=============================================================================
