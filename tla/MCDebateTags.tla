----------------------------- MODULE MCDebateTags -----------------------------
(* Concurrent proposals of debates: a word with and without blanks, and another. *)
EXTENDS DebateTags, TLC
CONSTANTS
    w1, w2,
    MaxNames    \* bound: names typed in all requests together

MCNames == {[word |-> w1, padded |-> FALSE],
            [word |-> w1, padded |-> TRUE],
            [word |-> w2, padded |-> FALSE]}

Asked == {r \in Requests : request[r] # None}
NamesTyped == MapThenSumSet(LAMBDA r : Len(request[r].createdTags), Asked)

MCNext == Next /\ NamesTyped' =< MaxNames
MCSpec == Init /\ [][MCNext]_vars

Symmetry == Permutations(Requests)
=============================================================================
