------------------------------ MODULE DebateTags ------------------------------
(***************************************************************************)
(* Proposing debates with tags: concurrent transactions of createDebate    *)
(* over the tables debate_tag and assoc_debate_tag, and the boards that    *)
(* show a debate through its tags.                                         *)
(*                                                                         *)
(* At READ COMMITTED each statement sees what was committed before it      *)
(* began.  Letter case, which look-ups ignore, is left out of names; the   *)
(* blanks around them, which look-ups treat unevenly, are not.             *)
(***************************************************************************)
EXTENDS Naturals, Sequences, FiniteSets, SequencesExt

CONSTANTS
    Requests,       \* calls of createDebate, each of which proposes one debate
    Words,          \* tag names without the blanks around them
    Names,          \* tag names as they are typed
    MaxNewTags,     \* bound: tags typed in one request
    None            \* no request yet

ASSUME NamesOfWords == Names \subseteq [word : Words, padded : BOOLEAN]
ASSUME MaxNewTagsIsNat == MaxNewTags \in Nat

NewTags == UNION {[1 .. n -> Names] : n \in 0 .. MaxNewTags}

VARIABLES
    request,            \* what each call was asked
    stage,              \* of its transaction
    debate_tag,         \* [name, by]: the i-th row that its serial ever numbered; of
                        \* a transaction that rolls back the number alone is used
    assoc_debate_tag,   \* ids of the tags of each call's debate
    seen                \* history: the tags its look-up saw

vars == <<request, stage, debate_tag, assoc_debate_tag, seen>>

TagIds == 1 .. Len(debate_tag)
Committed == {i \in TagIds : stage[debate_tag[i].by] = "committed"}

Init ==
    /\ request = [r \in Requests |-> None]
    /\ stage = [r \in Requests |-> "none"]
    /\ debate_tag = <<>>
    /\ assoc_debate_tag = [r \in Requests |-> {}]
    /\ seen = [r \in Requests |-> {}]

-----------------------------------------------------------------------------
\* The client offers tags of published debates: their rows are committed.
Begin(r, ids, names) ==
    /\ stage[r] = "none"
    /\ request' = [request EXCEPT ![r] = [tagsIds |-> ids, createdTags |-> names]]
    /\ stage' = [stage EXCEPT ![r] = "begun"]
    /\ UNCHANGED <<debate_tag, assoc_debate_tag, seen>>

\* Mutant of Matches: neither name is trimmed.
MatchesAsTyped(existing, new) == existing = new

\* The join of the look-up: only the new name is trimmed.
Matches(existing, new) == existing.word = new.word /\ ~existing.padded

\* Mutant of Missing: the look-up sees rows of transactions still open.
MissingDirty(names) ==
    {k \in DOMAIN names : ~\E i \in TagIds : Matches(debate_tag[i].name, names[k])}

\* The new names that no committed tag has, by their places.
Missing(names) ==
    {k \in DOMAIN names : ~\E i \in Committed : Matches(debate_tag[i].name, names[k])}

\* insert ... select, of rows in any order: the select has no order by.
InsertTags(r) ==
    LET typed == request[r].createdTags IN
    /\ stage[r] = "begun"
    /\ \E order \in SetToSeqs(Missing(typed)) :
          debate_tag' = debate_tag \o
              [j \in DOMAIN order |-> [name |-> typed[order[j]], by |-> r]]
    /\ seen' = [seen EXCEPT ![r] = Committed]
    /\ stage' = [stage EXCEPT ![r] = "tagged"]
    /\ UNCHANGED <<request, assoc_debate_tag>>

\* Mutant of AllTags: the tags chosen only.
ChosenTagsOnly(r) == request[r].tagsIds

\* tagsIdsArr, once the ids that were returned are pushed on it.
AllTags(r) == request[r].tagsIds \cup {i \in TagIds : debate_tag[i].by = r}

\* The ticket, the debate and its associations: inserts that read nothing.
InsertDebate(r) ==
    /\ stage[r] = "tagged"
    /\ assoc_debate_tag' = [assoc_debate_tag EXCEPT ![r] = AllTags(r)]
    /\ stage' = [stage EXCEPT ![r] = "written"]
    /\ UNCHANGED <<request, debate_tag, seen>>

Commit(r) ==
    /\ stage[r] = "written"
    /\ stage' = [stage EXCEPT ![r] = "committed"]
    /\ UNCHANGED <<request, debate_tag, assoc_debate_tag, seen>>

\* A statement fails, the primary key of assoc_debate_tag on a repeated id
\* included, or the connection breaks.
RollBack(r) ==
    /\ stage[r] \in {"begun", "tagged", "written"}
    /\ stage' = [stage EXCEPT ![r] = "rolledback"]
    /\ UNCHANGED <<request, debate_tag, assoc_debate_tag, seen>>

Next ==
    \E r \in Requests :
        \/ \E ids \in SUBSET Committed, names \in NewTags : Begin(r, ids, names)
        \/ InsertTags(r)
        \/ InsertDebate(r)
        \/ Commit(r)
        \/ RollBack(r)

Spec == Init /\ [][Next]_vars

-----------------------------------------------------------------------------
(* What readers see.                                                       *)

Debates == {r \in Requests : stage[r] = "committed"}
TagsOf(r) == {debate_tag[i].name : i \in assoc_debate_tag[r] \cap Committed}

\* An inner join with the tags, on the moderators' board (getDebateCards) and on
\* the readers' page (getAll) alike.
Listed == {r \in Debates : TagsOf(r) # {}}

Duplicates(i, j) == i < j /\ debate_tag[i].name.word = debate_tag[j].name.word

-----------------------------------------------------------------------------
(* Properties.                                                             *)

\* What was typed is never refused for nothing: a name typed for a debate is one of
\* its tags, unless the look-up of its own request had found the word, and then the tag
\* is there, but not the debate's.
TypedTagsExist ==
    \A r \in Debates : \A n \in DOMAIN request[r].createdTags :
        LET typed == request[r].createdTags[n] IN
        \/ \E i \in assoc_debate_tag[r] \cap Committed : debate_tag[i].name = typed
        \/ \E i \in seen[r] \cap Committed : Matches(debate_tag[i].name, typed)

\* A debate shows the tags that were chosen for it and those that were inserted for
\* it, whatever committed or rolled back around it, and no other.
ShowsItsTags ==
    \A r \in Debates :
        /\ request[r].tagsIds \cup {i \in Committed : debate_tag[i].by = r}
              \subseteq assoc_debate_tag[r] \cap Committed
        /\ \A i \in assoc_debate_tag[r] :
              i \in request[r].tagsIds \/ debate_tag[i].by = r

\* createDebate looks a name up before it inserts it, so that no duplicate tags are
\* inserted.  One word twice in the table takes a single request that typed it twice, blanks
\* that the earlier row kept, or two transactions that overlapped: a look-up that
\* saw the earlier row does not insert another.
DuplicatesOverlap ==
    \A i, j \in Committed :
        Duplicates(i, j) =>
            \/ debate_tag[i].by = debate_tag[j].by
            \/ debate_tag[i].name.padded
            \/ i \notin seen[debate_tag[j].by]

\* The readme: moderators review submissions on a board.  A debate for which a tag
\* was chosen or typed is on it.
TaggedDebatesListed ==
    \A r \in Debates :
        request[r].tagsIds # {} \/ request[r].createdTags # <<>> => r \in Listed
=============================================================================
