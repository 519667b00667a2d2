----------------------------- MODULE MCReviewRoom -----------------------------
(* The author's page and a moderator's. *)
EXTENDS ReviewRoom
CONSTANTS pa, pm, m1

MCOwner == [p \in Pages |-> IF p = pa THEN Author ELSE m1]
=============================================================================
