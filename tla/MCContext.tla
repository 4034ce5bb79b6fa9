----------------------------- MODULE MCContext -----------------------------
(***************************************************************************)
(* Model checking of the request context and of the audit registry its     *)
(* sessions lead to.  A behaviour moves one of them, picked at the start,  *)
(* and leaves the other in its initial state.  Workers, requests and       *)
(* sessions are interchangeable; the configurations use the workers as the *)
(* registry's threads and the context's sessions among the registry's, so  *)
(* that one permutation serves both parts.                                 *)
(***************************************************************************)
EXTENDS RequestContext, AuditRegistry, TLC

VARIABLE part

Parts == {"context", "audit"}

MCInit == part \in Parts /\ Init /\ AuditInit

MCNext ==
    /\ UNCHANGED part
    /\ IF part = "context" THEN Next ELSE UNCHANGED vars
    /\ IF part = "audit" THEN AuditNext ELSE UNCHANGED auditVars

MCSpec == MCInit /\ [][MCNext]_<<part, vars, auditVars>>

Symmetry ==
    Permutations(Workers) \cup Permutations(Posts) \cup Permutations(Streams)
      \cup Permutations(Sockets) \cup Permutations(Sessions)
=============================================================================
