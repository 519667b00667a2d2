------------------------------- MODULE MCPages -------------------------------
(* The pages of the client for TLC.  Each is explored on its own: focus,       *)
(* chosen at the start, says which one, and the others keep a state they start *)
(* in.                                                                         *)
EXTENDS ClientPages, TLC

CONSTANTS
    a1, a2, a3,         \* arguments
    t1, t2,             \* tags
    MaxTroubles,        \* bound: lost connections and moves of the ticket together
    MaxVisited,         \* bound: visits of the form and changes of it together
    MaxEdits            \* bound: changes of the text and clicks together

VARIABLE focus

MCCachedArgs == {a1, a2}

\* a3 counters a2, which counters a1.
MCReadArgs == {a1, a2, a3}
MCCounters == (a1 :> Null) @@ (a2 :> a1) @@ (a3 :> a2)

\* Two debates, one with both tags; one's title contains what can be searched for.
First == CHOOSE d \in Debates : TRUE
MCTags == {t1, t2}
MCTagsOf == [d \in Debates |-> IF d = First THEN {t1} ELSE {t1, t2}]
MCSearched == {"plain", "accented"}
MCUnsendable == {"accented"}
MCTitled == [x \in MCSearched |-> {First}]

\* Tickets start on PENDING, with nobody, or on IN REVIEW.
BoardStarts ==
    \A t \in DOMAIN ticket :
        \/ ticket[t].boardList = "PENDING" /\ ticket[t].assignedTo = Null
        \/ ticket[t].boardList = "IN REVIEW"

\* What is not explored starts in one way.  Debates are interchangeable, so the
\* draft of the form is in a given one; it is on the side a new form has and
\* counters nothing, or on the other and counters something.
MCInit ==
    /\ focus \in {"board", "inbox", "cache", "reading", "item", "form", "search"}
    /\ BoardInit /\ BoardStarts
    /\ focus # "board" => \A t \in DOMAIN ticket : ticket[t].assignedTo = Null
    /\ Inbox!Init
    /\ focus # "inbox" => Inbox!Stored = {}
    /\ Cache!Init
    /\ focus # "cache" => published = {}
    /\ Reading!Init
    /\ focus # "reading" => args = {}
    /\ Item!Init
    /\ focus # "item" => itemTicket.assignedTo = Null
    /\ Form!Init
    /\ formPage.debate = CHOOSE d \in Debates : TRUE
    /\ formRow[1].side = "PRO" <=> formRow[1].counter = Form!NoArgument
    /\ focus # "form" => formRow[1].side = "PRO"
    /\ Search!Init
    /\ accepted = IF focus = "search" THEN Debates ELSE {}

MCNext ==
    \/ /\ focus = "board" /\ BoardNext
       /\ UNCHANGED <<focus, inboxVars, cacheVars, readingVars, itemVars, formVars,
                      searchVars>>
    \/ /\ focus = "inbox" /\ Inbox!Next
       /\ UNCHANGED <<focus, allVars, cacheVars, readingVars, itemVars, formVars,
                      searchVars>>
    \/ /\ focus = "cache" /\ Cache!Next
       /\ UNCHANGED <<focus, allVars, inboxVars, readingVars, itemVars, formVars,
                      searchVars>>
    \/ /\ focus = "reading" /\ Reading!Next
       /\ UNCHANGED <<focus, allVars, inboxVars, cacheVars, itemVars, formVars, searchVars>>
    \/ /\ focus = "item" /\ Item!Next /\ drops' + moves' =< MaxTroubles
       /\ UNCHANGED <<focus, allVars, inboxVars, cacheVars, readingVars, formVars,
                      searchVars>>
    \/ /\ focus = "form" /\ Form!Next /\ visit' + formChanges' =< MaxVisited
       /\ UNCHANGED <<focus, allVars, inboxVars, cacheVars, readingVars, itemVars,
                      searchVars>>
    \/ /\ focus = "search" /\ Search!Next /\ searched' + clicks' =< MaxEdits
       /\ UNCHANGED <<focus, allVars, inboxVars, cacheVars, readingVars, itemVars, formVars>>

\* What is not explored stays as it starts, so the rest tells states apart.
Explored ==
    CASE focus = "board" -> allVars
      [] focus = "inbox" -> inboxVars
      [] focus = "cache" -> cacheVars
      [] focus = "reading" -> readingVars
      [] focus = "item" -> itemVars
      [] focus = "form" -> formVars
      [] focus = "search" -> searchVars
View == <<focus, Explored>>

MCSpec == MCInit /\ [][MCNext]_<<focus, allVars, inboxVars, cacheVars, readingVars,
                                 itemVars, formVars, searchVars>>
=============================================================================
