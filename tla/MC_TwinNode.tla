----------------------------- MODULE MC_TwinNode -----------------------------
(***************************************************************************)
(* TwinNode for TLC.  Two handlers, so that persists and broadcasts        *)
(* overlap; two clients, so that one can be removed before another.        *)
(***************************************************************************)
EXTENDS TwinNode

CONSTANTS h1, h2, boot, c1, c2

TwoHandlers == {h1, h2}
TwoClients  == {c1, c2}
===============================================================================
