--------------------------- MODULE MCRateLimiter ---------------------------
(***************************************************************************)
(* Model checking of RateLimiter and PeerLimits, which share no state: a   *)
(* behaviour moves one of them, picked at the start, and leaves the other  *)
(* in its initial state, where none of its fair actions is enabled.        *)
(* Liveness is checked, so no symmetry is used.                            *)
(***************************************************************************)
EXTENDS RateLimiter, PeerLimits

VARIABLE part

MCInit == part \in {"bucket", "peers"} /\ Init /\ PeerInit

MCNext ==
    /\ UNCHANGED part
    /\ IF part = "bucket" THEN Next ELSE UNCHANGED vars
    /\ IF part = "peers" THEN PeerNext ELSE UNCHANGED peerVars

MCSpec == MCInit /\ [][MCNext]_<<part, vars, peerVars>> /\ Fairness
=============================================================================
