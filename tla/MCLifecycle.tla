---------------------------- MODULE MCLifecycle ----------------------------
(* Two arguments in one debate, so that a step on a ticket that moved both of *)
(* them would show.                                                           *)
EXTENDS ModerationLifecycle, TLC

Symmetry ==
    Permutations(Users) \cup Permutations(Moderators) \cup Permutations(Texts)
=============================================================================
