---------------------------- MODULE MCModeration ----------------------------
(* Instances of Moderation for TLC: accounts of a role and texts are         *)
(* interchangeable; ids are not, they are handed out in order.               *)
EXTENDS Moderation, TLC

Symmetry ==
    Permutations(Users) \cup Permutations(Moderators) \cup Permutations(Texts)
=============================================================================
