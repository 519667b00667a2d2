----------------------------- MODULE KanbanBoard -----------------------------
(***************************************************************************)
(* The moderators' board (client, app/activity/page.tsx) over the tables   *)
(* of Moderation.                                                          *)
(*                                                                         *)
(* The page reads the cards with two queries and shows four lists.         *)
(* Dropping a card changes the lists at once and sends a PATCH nobody      *)
(* waits for; approving one sends a PATCH and changes the lists when the   *)
(* answer comes.  react-dnd keeps the handlers of a list's FIRST render    *)
(* (useDrop without dependencies), so a drop starts from the lists that    *)
(* were loaded, which earlier drops have changed in place, and not from    *)
(* the ones on the screen, which approvals have replaced: hence kept and   *)
(* shown.  Cards are objects, shared by both and also changed in place.    *)
(***************************************************************************)
EXTENDS Moderation, Sequences, SequencesExt

CONSTANTS
    Me,             \* the moderator the page belongs to
    Cards,          \* bound: card objects alive at a time
    MaxRequests,    \* bound: requests the page sends
    MaxVisits,      \* bound: times the page is opened
    MaxElsewhere    \* bound: changes made from other pages

ASSUME MeModerates == Me \in Moderators
ASSUME CardsAreNumbers == Cards \subseteq Nat /\ Null \notin Cards
ASSUME CardsSuffice == DebateIds \subseteq TicketIds /\ TicketIds \subseteq Cards
ASSUME BoardBounds == MaxRequests \in Nat /\ MaxVisits \in Nat /\ MaxElsewhere \in Nat

VARIABLES
    page,           \* "closed", "fetching" or "open"
    fetched,        \* rows the two queries have returned, by ticket
    card,           \* [ticket, boardList, moderatorId] by card object
    kept,           \* lists the drop handlers work on: sets of card objects
    shown,          \* lists on the screen
    requests,       \* PATCH requests on their way, in the order of sending
    sent,           \* requests sent so far
    visits,
    elsewhere,      \* changes made from other pages so far
    approved,       \* history: tickets whose approval this visit has shown
    disturbed       \* history: tickets the page cannot know the row of

boardVars == <<page, fetched, card, kept, shown, requests, sent,
               visits, elsewhere, approved, disturbed>>
tableVars == <<ticket, debate, argument, updates>>
lists == <<card, kept, shown>>
counts == <<sent, visits, elsewhere>>
allVars == <<tableVars, boardVars>>

Card == [ticket : TicketIds, boardList : BoardLists,
         moderatorId : Moderators \cup {Null}]

\* Approvals know the card and the list it was in, and are answered.
Request ==
    [kind : {"move"}, ticket : TicketIds, list : BoardLists]
      \cup
    [kind : {"approve"}, ticket : TicketIds, list : BoardLists,
     card : Cards \cup {Null}, answered : BOOLEAN]

Lists == [BoardLists -> SUBSET Cards]
NoCards == [list \in BoardLists |-> {}]

BoardTypeOK ==
    /\ page \in {"closed", "fetching", "open"}
    /\ IsTable(fetched, TicketIds, TicketRow)
    /\ IsTable(card, Cards, Card)
    /\ kept \in Lists /\ shown \in Lists
    /\ \A list \in BoardLists : kept[list] \cup shown[list] \subseteq DOMAIN card
    /\ requests \in Seq(Request) /\ Len(requests) <= sent
    /\ sent \in 0 .. MaxRequests
    /\ visits \in 0 .. MaxVisits /\ elsewhere \in 0 .. MaxElsewhere
    /\ approved \subseteq TicketIds /\ disturbed \subseteq TicketIds

\* Every ticket has an item; a ticket off PENDING has a moderator
\* (ReviewedHasModerator), one on PENDING may have (findings).
BoardInit ==
    /\ \E u \in Users, x \in Texts :
           debate = [d \in DebateIds |-> [ticketId |-> d, title |-> x, createdBy |-> u]]
    /\ argument = EmptyTable /\ updates = {}
    /\ ticket \in [DebateIds -> {r \in TicketRow :
                      r.createdBy \in Users
                        /\ (r.boardList # "PENDING" => r.assignedTo # Null)}]
    /\ page = "closed" /\ visits = 0 /\ elsewhere = 0
    /\ fetched = EmptyTable /\ card = EmptyTable
    /\ kept = NoCards /\ shown = NoCards
    /\ requests = <<>> /\ sent = 0
    /\ approved = {} /\ disturbed = {}

-----------------------------------------------------------------------------
(* Opening the page.                                                       *)

About(t) == {i \in DOMAIN requests : requests[i].ticket = t}
Unhandled(t) ==
    {i \in About(t) : requests[i].kind = "approve" => ~requests[i].answered}

\* Opening it again forgets all it had; answers to old requests find no page.
Open ==
    /\ page # "fetching" /\ visits < MaxVisits
    /\ page' = "fetching" /\ visits' = visits + 1
    /\ fetched' = EmptyTable /\ card' = EmptyTable
    /\ kept' = NoCards /\ shown' = NoCards
    /\ requests' = [i \in DOMAIN requests |->
                       IF requests[i].kind = "approve"
                       THEN [requests[i] EXCEPT !.card = Null] ELSE requests[i]]
    /\ approved' = {} /\ disturbed' = {}
    /\ UNCHANGED <<tableVars, sent, elsewhere>>

\* One of the two queries: getDebateCards and getArgumentCards run side by side,
\* and each ticket is in the rows of one of them.
Fetch(tickets) ==
    /\ page = "fetching"
    /\ tickets \cap DOMAIN fetched = {} /\ tickets # {}
    /\ fetched' = [t \in DOMAIN fetched \cup tickets |->
                      IF t \in tickets THEN ticket[t] ELSE fetched[t]]
    /\ disturbed' = (disturbed \ tickets) \cup {t \in tickets : Unhandled(t) # {}}
    /\ UNCHANGED <<tableVars, page, lists, requests, counts, approved>>

\* getActivityDTO: the rows, grouped by list; the object of a row is a new one.
Load ==
    /\ page = "fetching" /\ DOMAIN fetched = DOMAIN ticket
    /\ page' = "open"
    /\ card' = [t \in DOMAIN fetched |->
                   [ticket |-> t, boardList |-> fetched[t].boardList,
                    moderatorId |-> fetched[t].assignedTo]]
    /\ kept' = [list \in BoardLists |->
                   {t \in DOMAIN fetched : fetched[t].boardList = list}]
    /\ shown' = kept'
    /\ fetched' = EmptyTable
    /\ UNCHANGED <<tableVars, requests, counts, approved, disturbed>>

-----------------------------------------------------------------------------
(* Drag and drop.                                                          *)

\* Card: a card moves, and offers its menu, for its own moderator or when nobody
\* has it.  No step gives a card that has rights to somebody else.
HasRights(c) == card[c].moderatorId \in {Me, Null}

\* Mutant of CardAfterDrop: a card taken from PENDING keeps its moderator.
CardStaysUnassigned(c, from, to) ==
    [card[c] EXCEPT !.boardList = to,
                    !.moderatorId = IF to = "PENDING" THEN Null ELSE @]

\* item.cardData after the drop.
CardAfterDrop(c, from, to) ==
    [card[c] EXCEPT !.boardList = to,
                    !.moderatorId = CASE to = "PENDING" -> Null
                                      [] from = "PENDING" -> Me
                                      [] OTHER -> @]

\* A card that enters or leaves PENDING becomes a new object, any other is
\* changed where it is.
DroppedObjects(c, from, to) ==
    IF "PENDING" \in {from, to}
    THEN {k \in Cards \ DOMAIN card : \A l \in Cards \ DOMAIN card : k <= l}
    ELSE {c}

OfTicket(cards, t) == {c \in cards : card[c].ticket = t}

\* Mutant of ListsAfterDrop: the card stays where it was as well.
ListsWithoutFilter(boards, c, dropped, from, to) ==
    [boards EXCEPT ![to] = @ \cup {dropped}]

ListsAfterDrop(boards, c, dropped, from, to) ==
    [boards EXCEPT ![from] = @ \ OfTicket(@, card[c].ticket),
                  ![to] = @ \cup {dropped}]

HeldBy(boards, reqs) ==
    (UNION {boards[list] : list \in BoardLists})
      \cup {c \in DOMAIN card : \E i \in DOMAIN reqs :
                reqs[i].kind = "approve" /\ reqs[i].card = c}

Send(request) ==
    /\ sent < MaxRequests /\ sent' = sent + 1
    /\ requests' = Append(requests, request)

Drop(c, from, to) ==
    /\ page = "open"
    /\ c \in shown[from] /\ HasRights(c)
    /\ to \notin {"ACCEPTED", from}
    /\ Send([kind |-> "move", ticket |-> card[c].ticket, list |-> to])
    /\ \E d \in DroppedObjects(c, from, to) :
           /\ kept' = ListsAfterDrop(kept, c, d, from, to)
           /\ card' = [k \in HeldBy(kept', requests) \cup {d} |->
                          IF k = d THEN CardAfterDrop(c, from, to) ELSE card[k]]
    /\ shown' = kept'
    /\ disturbed' = disturbed \cup approved
                      \cup (IF About(card[c].ticket) = {} THEN {} ELSE {card[c].ticket})
    /\ UNCHANGED <<tableVars, page, fetched, visits, elsewhere, approved>>

-----------------------------------------------------------------------------
(* Approving.                                                              *)

\* The menu of a card on IN REVIEW, by the card's own field.
Approve(c, list) ==
    /\ page = "open"
    /\ c \in shown[list] /\ HasRights(c)
    /\ card[c].boardList = "IN REVIEW"
    /\ Send([kind |-> "approve", ticket |-> card[c].ticket, list |-> list,
             card |-> c, answered |-> FALSE])
    /\ disturbed' = IF About(card[c].ticket) = {} THEN disturbed
                    ELSE disturbed \cup {card[c].ticket}
    /\ UNCHANGED <<tableVars, page, fetched, lists, visits, elsewhere, approved>>

\* Mutant of ListsAfterApproval: the list of the answer is filtered last.
ApprovedAndFiltered(c, from) ==
    [shown EXCEPT !["ACCEPTED"] = @ \ OfTicket(@, card[c].ticket),
                  ![from] = @ \ OfTicket(@, card[c].ticket)]

\* setActivityBoards with a function of the lists on the screen.
ListsAfterApproval(c, from) ==
    [shown EXCEPT ![from] = IF from = "ACCEPTED" THEN @
                            ELSE @ \ OfTicket(@, card[c].ticket),
                  !["ACCEPTED"] = @ \cup {c}]

\* The answer arrives; after the page was left nothing shows it.
Answer(i) ==
    /\ i \in DOMAIN requests
    /\ requests[i].kind = "approve" /\ requests[i].answered
    /\ requests' = RemoveAt(requests, i)
    /\ IF requests[i].card = Null
       THEN UNCHANGED <<card, shown, approved>>
       ELSE LET c == requests[i].card IN
            /\ card' = [card EXCEPT ![c].boardList = "ACCEPTED"]
            /\ shown' = ListsAfterApproval(c, requests[i].list)
            /\ approved' = approved \cup {card[c].ticket}
    /\ UNCHANGED <<tableVars, page, fetched, kept, counts, disturbed>>

-----------------------------------------------------------------------------
(* The network and the API.                                                *)

\* Requests may overtake each other.
HandleMove(i) ==
    /\ i \in DOMAIN requests /\ requests[i].kind = "move"
    /\ UpdateTicket(Me, requests[i].ticket, requests[i].list)
    /\ requests' = RemoveAt(requests, i)
    /\ UNCHANGED <<page, fetched, lists, counts, approved, disturbed>>

HandleApprove(i) ==
    /\ i \in DOMAIN requests /\ requests[i].kind = "approve"
    /\ ~requests[i].answered
    /\ ApproveTicket(Me, requests[i].ticket)
    /\ requests' = [requests EXCEPT ![i].answered = TRUE]
    /\ UNCHANGED <<page, fetched, lists, counts, approved, disturbed>>

\* The request or its answer is lost, or the API refuses it: neither promise has
\* a catch, the page stays as it is.
Fail(i) ==
    /\ i \in DOMAIN requests
    /\ requests' = RemoveAt(requests, i)
    /\ disturbed' = disturbed \cup {requests[i].ticket}
    /\ UNCHANGED <<tableVars, page, fetched, lists, sent, visits,
                   elsewhere, approved>>

\* The ticket is changed from another page.
ChangeElsewhere(m, t) ==
    /\ page # "closed" /\ elsewhere < MaxElsewhere
    /\ elsewhere' = elsewhere + 1
    /\ \/ \E list \in BoardLists : UpdateTicket(m, t, list)
       \/ ApproveTicket(m, t)
    /\ disturbed' = disturbed \cup {t}
    /\ UNCHANGED <<page, fetched, lists, requests, sent, visits, approved>>

-----------------------------------------------------------------------------
BoardNext ==
    \/ Open
    \/ \E tickets \in SUBSET DOMAIN ticket : Fetch(tickets)
    \/ Load
    \/ \E from \in BoardLists : \E c \in shown[from] :
           \/ Approve(c, from)
           \/ \E to \in BoardLists : Drop(c, from, to)
    \/ \E i \in DOMAIN requests : \/ Answer(i)
                                  \/ HandleMove(i)
                                  \/ HandleApprove(i)
                                  \/ Fail(i)
    \/ \E m \in Moderators, t \in TicketIds : ChangeElsewhere(m, t)

BoardSpec == BoardInit /\ [][BoardNext]_allVars

-----------------------------------------------------------------------------
(* Properties.                                                             *)

\* The lists of a board that have a card of the ticket.
Places(boards, t) == {list \in BoardLists : OfTicket(boards[list], t) # {}}

\* Whatever is dropped while approvals are on their way, and although drops start
\* from lists that approvals never changed, a ticket that was loaded stays on the
\* screen.  One that this visit did not approve is one card in one list, on the
\* screen as in the lists of the handlers, and the card's own field, which decides
\* on the approve menu, names that list: objects are shared between the two,
\* changed in place, and replaced when they enter or leave PENDING.
BoardComplete ==
    page = "open" => \A t \in DOMAIN ticket :
        /\ Places(shown, t) # {}
        /\ t \notin approved =>
              \E list \in BoardLists, c \in DOMAIN card :
                  /\ Places(shown, t) = {list} /\ OfTicket(shown[list], t) = {c}
                  /\ Places(kept, t) = {list} /\ OfTicket(kept[list], t) = {c}
                  /\ card[c].boardList = list

\* The board agrees with the table, list and moderator, about every ticket whose
\* requests have all been carried out one at a time, that nobody changed
\* elsewhere since it was read, and that was not approved here before the latest
\* drop (which puts an approved card back where it was loaded or dropped last).
InStep ==
    page = "open" => \A t \in DOMAIN ticket \ disturbed :
        About(t) = {} =>
            /\ Places(shown, t) = {ticket[t].boardList}
            /\ \A c \in OfTicket(shown[ticket[t].boardList], t) :
                   card[c].moderatorId = ticket[t].assignedTo
=============================================================================
