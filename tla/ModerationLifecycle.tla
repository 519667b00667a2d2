------------------------- MODULE ModerationLifecycle -------------------------
(***************************************************************************)
(* The moderation tables implement the life of an item: Moderation, seen   *)
(* through the ticket each row points to, is ReviewLifecycle, once with    *)
(* the arguments for items and once with the debates.  Tickets nothing     *)
(* points to and statements in flight are invisible at that level.  The    *)
(* tables do not record who moved a ticket, so the mapping needs a history *)
(* variable for it.                                                        *)
(***************************************************************************)
EXTENDS Moderation

VARIABLE by     \* history: the moderator whose request was carried out last

LifecycleInit == Init /\ by = Null

LifecycleNext ==
    \/ (AuthorStep \/ DatabaseStep) /\ by' = Null
    \/ \E m \in Moderators : Moderate(m) /\ by' = m

LifecycleSpec == LifecycleInit /\ [][LifecycleNext]_<<vars, by>>

StageOfList(list) ==
    CASE list = "PENDING" -> "waiting"
      [] list = "IN REVIEW" -> "in review"
      [] list = "CANCELED" -> "canceled"
      [] list = "ACCEPTED" -> "published"

argumentStage ==
    [a \in ArgumentIds |->
        IF a \notin DOMAIN argument THEN "absent"
        ELSE IF argument[a].isDraft THEN "draft"
        ELSE StageOfList(ticket[argument[a].ticketId].boardList)]

argumentHolder ==
    [a \in ArgumentIds |->
        IF a \notin DOMAIN argument \/ argument[a].isDraft THEN Null
        ELSE ticket[argument[a].ticketId].assignedTo]

argumentText ==
    [a \in ArgumentIds |->
        IF a \notin DOMAIN argument THEN Null ELSE argument[a].text]

debateStage ==
    [d \in DebateIds |->
        IF d \notin DOMAIN debate THEN "absent"
        ELSE StageOfList(ticket[debate[d].ticketId].boardList)]

debateHolder ==
    [d \in DebateIds |->
        IF d \notin DOMAIN debate THEN Null
        ELSE ticket[debate[d].ticketId].assignedTo]

debateTitle ==
    [d \in DebateIds |-> IF d \notin DOMAIN debate THEN Null ELSE debate[d].title]

Argument == INSTANCE ReviewLifecycle WITH
    Items <- ArgumentIds, Nobody <- Null,
    stage <- argumentStage, holder <- argumentHolder, text <- argumentText

Debate == INSTANCE ReviewLifecycle WITH
    Items <- DebateIds, Nobody <- Null,
    stage <- debateStage, holder <- debateHolder, text <- debateTitle

\* Every behaviour of the tables is, argument by argument, a behaviour of
\* ReviewLifecycle: only the moderator in charge of an argument decides about it
\* or publishes it, whatever is resubmitted, edited or moved meanwhile, and a
\* step on one ticket never moves two arguments.
ArgumentLifecycle == Argument!Spec

\* The same for debates.
DebateLifecycle == Debate!Spec
=============================================================================
