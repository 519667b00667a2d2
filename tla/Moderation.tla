----------------------------- MODULE Moderation -----------------------------
(***************************************************************************)
(* The moderation core of the API: the tables ticket, debate and argument, *)
(* and every operation of DebatesService and ModeratorService that writes  *)
(* them.                                                                   *)
(*                                                                         *)
(* A table is a function from the ids of its rows to the rows.  PostgreSQL *)
(* runs the service's statements at READ COMMITTED: a transaction that     *)
(* reads and writes one row, or only inserts, is one action.  The two      *)
(* updates that test a row of ANOTHER table (updateArgument and            *)
(* updateDebate test the ticket of the item) are split in two: the         *)
(* statement takes its snapshot (Begin...), and later writes the item's    *)
(* row, whose own columns PostgreSQL tests again but whose ticket it does  *)
(* not read again (Finish...).                                             *)
(***************************************************************************)
EXTENDS Naturals, FiniteSets

CONSTANTS
    Users,          \* accounts with the role USER
    Moderators,     \* accounts with the role MODERATOR
    TicketIds,      \* bounds: what the serial columns can hand out
    DebateIds,
    ArgumentIds,
    Texts,          \* titles and contents, as far as they can be told apart
    Null,           \* SQL's null
    MaxInFlight     \* bound: statements between their snapshot and their write

ASSUME RolesDisjoint == Users \cap Moderators = {}
ASSUME NullNotAnId == Null \notin Moderators \cup TicketIds
ASSUME IdsAreSerial == TicketIds \cup DebateIds \cup ArgumentIds \subseteq Nat
ASSUME InFlightBound == MaxInFlight \in Nat

\* The endpoints that create debates, arguments and drafts ask for a session
\* and no role, so moderators are authors too.
Accounts == Users \cup Moderators

BoardLists == {"PENDING", "IN REVIEW", "CANCELED", "ACCEPTED"}

VARIABLES
    ticket,         \* [createdBy, assignedTo, boardList] by ticket id
    debate,         \* [ticketId, title, createdBy] by debate id
    argument,       \* [debateId, ticketId, text, createdBy, isDraft] by id
    updates         \* updateArgument and updateDebate statements in flight

vars == <<ticket, debate, argument, updates>>

TicketRow == [createdBy : Accounts, assignedTo : Moderators \cup {Null},
              boardList : BoardLists]
DebateRow == [ticketId : TicketIds, title : Texts, createdBy : Accounts]
ArgumentRow == [debateId : DebateIds, ticketId : TicketIds \cup {Null},
                text : Texts, createdBy : Accounts, isDraft : BOOLEAN]
UpdateStatement ==
    [table : {"argument"}, id : ArgumentIds, ticketId : TicketIds, text : Texts]
      \cup
    [table : {"debate"}, id : DebateIds, ticketId : TicketIds, text : Texts]

IsTable(table, Ids, Row) ==
    /\ DOMAIN table \subseteq Ids
    /\ table \in [DOMAIN table -> Row]

TypeOK ==
    /\ IsTable(ticket, TicketIds, TicketRow)
    /\ IsTable(debate, DebateIds, DebateRow)
    /\ IsTable(argument, ArgumentIds, ArgumentRow)
    /\ updates \subseteq UpdateStatement

EmptyTable == [i \in {} |-> Null]

Insert(table, id, row) ==
    [i \in DOMAIN table \cup {id} |-> IF i = id THEN row ELSE table[i]]

\* A serial column: the ids a row can get next, the smallest unused one.
NextId(Ids, table) ==
    {i \in Ids \ DOMAIN table : \A j \in Ids \ DOMAIN table : i <= j}

\* insert into ticket values (default, $1, null, 'PENDING')
NewTicket(u) == [createdBy |-> u, assignedTo |-> Null, boardList |-> "PENDING"]

Init ==
    /\ ticket = EmptyTable
    /\ debate = EmptyTable
    /\ argument = EmptyTable
    /\ updates = {}

-----------------------------------------------------------------------------
(* DebatesService: what authors do.                                        *)

\* One transaction: the ticket and the debate (module DebateTags has its tags).
CreateDebate(u, title) ==
    \E t \in NextId(TicketIds, ticket), d \in NextId(DebateIds, debate) :
        /\ ticket' = Insert(ticket, t, NewTicket(u))
        /\ debate' = Insert(debate, d, [ticketId |-> t, title |-> title,
                                        createdBy |-> u])
        /\ UNCHANGED <<argument, updates>>

CreateArgument(u, d, text) ==
    \E t \in NextId(TicketIds, ticket), a \in NextId(ArgumentIds, argument) :
        /\ d \in DOMAIN debate
        /\ ticket' = Insert(ticket, t, NewTicket(u))
        /\ argument' = Insert(argument, a,
                              [debateId |-> d, ticketId |-> t, text |-> text,
                               createdBy |-> u, isDraft |-> FALSE])
        /\ UNCHANGED <<debate, updates>>

SaveArgumentAsDraft(u, d, text) ==
    \E a \in NextId(ArgumentIds, argument) :
        /\ d \in DOMAIN debate
        /\ argument' = Insert(argument, a,
                              [debateId |-> d, ticketId |-> Null, text |-> text,
                               createdBy |-> u, isDraft |-> TRUE])
        /\ UNCHANGED <<ticket, debate, updates>>

UpdateDraft(u, a, text) ==
    /\ a \in DOMAIN argument
    /\ argument[a].createdBy = u
    /\ argument[a].isDraft
    /\ argument' = [argument EXCEPT ![a].text = text]
    /\ UNCHANGED <<ticket, debate, updates>>

\* Mutants of Submitted: the where clause without created_by, the where clause
\* without id, and the assignment of is_draft forgotten.
SubmittedByAnyone(u, d, a, text, t) ==
    IF a \in DOMAIN argument /\ argument[a].debateId = d
    THEN [argument EXCEPT ![a].isDraft = FALSE, ![a].text = text,
                          ![a].ticketId = t]
    ELSE argument

SubmittedTogether(u, d, a, text, t) ==
    [b \in DOMAIN argument |->
        IF argument[b].createdBy = u /\ argument[b].debateId = d
        THEN [argument[b] EXCEPT !.isDraft = FALSE, !.text = text, !.ticketId = t]
        ELSE argument[b]]

SubmittedStillDraft(u, d, a, text, t) ==
    IF a \in DOMAIN argument /\ argument[a].createdBy = u /\ argument[a].debateId = d
    THEN [argument EXCEPT ![a].text = text, ![a].ticketId = t]
    ELSE argument

\* What the update of submitDraft leaves in the table: it writes the row of
\* argument a when that is u's and of debate d, and no row otherwise.  The row
\* need not be a draft.
Submitted(u, d, a, text, t) ==
    IF a \in DOMAIN argument /\ argument[a].createdBy = u /\ argument[a].debateId = d
    THEN [argument EXCEPT ![a].isDraft = FALSE, ![a].text = text,
                          ![a].ticketId = t]
    ELSE argument

\* The ticket is inserted first, and stays when the update finds no row.
SubmitDraft(u, d, a, text) ==
    \E t \in NextId(TicketIds, ticket) :
        /\ ticket' = Insert(ticket, t, NewTicket(u))
        /\ argument' = Submitted(u, d, a, text, t)
        /\ UNCHANGED <<debate, updates>>

\* Mutant of Editable: the test of the ticket's list forgotten.
EditableAnyTime(u, table, id) ==
    /\ id \in DOMAIN table
    /\ table[id].createdBy = u
    /\ table[id].ticketId \in DOMAIN ticket

\* The statement's snapshot: a row of u's whose ticket is not accepted.
Editable(u, table, id) ==
    /\ id \in DOMAIN table
    /\ table[id].createdBy = u
    /\ table[id].ticketId \in DOMAIN ticket
    /\ ticket[table[id].ticketId].boardList # "ACCEPTED"

\* Only the review room's gateway starts these two, and only for the role USER.
BeginUpdateArgument(u, a, text) ==
    /\ u \in Users
    /\ Cardinality(updates) < MaxInFlight
    /\ Editable(u, argument, a)
    /\ updates' = updates \cup {[table |-> "argument", id |-> a, text |-> text,
                                 ticketId |-> argument[a].ticketId]}
    /\ UNCHANGED <<ticket, debate, argument>>

BeginUpdateDebate(u, d, title) ==
    /\ u \in Users
    /\ Cardinality(updates) < MaxInFlight
    /\ Editable(u, debate, d)
    /\ updates' = updates \cup {[table |-> "debate", id |-> d, text |-> title,
                                 ticketId |-> debate[d].ticketId]}
    /\ UNCHANGED <<ticket, debate, argument>>

\* a.ticket_id = t.id is tested again on the row that is written, so a statement
\* that was overtaken by a new submission of the argument changes nothing.
FinishUpdateArgument(s) ==
    /\ s \in updates
    /\ s.table = "argument"
    /\ argument' = IF argument[s.id].ticketId = s.ticketId
                   THEN [argument EXCEPT ![s.id].text = s.text]
                   ELSE argument
    /\ updates' = updates \ {s}
    /\ UNCHANGED <<ticket, debate>>

FinishUpdateDebate(s) ==
    /\ s \in updates
    /\ s.table = "debate"
    /\ debate' = IF debate[s.id].ticketId = s.ticketId
                 THEN [debate EXCEPT ![s.id].title = s.text]
                 ELSE debate
    /\ updates' = updates \ {s}
    /\ UNCHANGED <<ticket, argument>>

-----------------------------------------------------------------------------
(* ModeratorService: what moderators do.                                   *)

\* Mutant of MovedTo: the case without its first branch.
MovedUnassigned(row, m, list) ==
    [row EXCEPT !.boardList = list,
                !.assignedTo = IF list = "PENDING" THEN Null ELSE row.assignedTo]

\* The right-hand sides of an SQL update read the row as it was.
MovedTo(row, m, list) ==
    [row EXCEPT !.boardList = list,
                !.assignedTo = CASE row.boardList = "PENDING" -> m
                                 [] row.boardList # "PENDING" /\ list = "PENDING" -> Null
                                 [] OTHER -> row.assignedTo]

\* Mutant of UpdateTicket: the where clause tests the id alone.
UpdateAnyTicket(m, t, list) ==
    /\ t \in DOMAIN ticket
    /\ ticket' = [ticket EXCEPT ![t] = MovedTo(ticket[t], m, list)]
    /\ UNCHANGED <<debate, argument, updates>>

\* Any list of the enum: only the moderators' page keeps cards from being
\* dropped on ACCEPTED, or on the list they are in.
UpdateTicket(m, t, list) ==
    /\ t \in DOMAIN ticket
    /\ ticket[t].boardList = "PENDING" \/ ticket[t].assignedTo = m
    /\ ticket' = [ticket EXCEPT ![t] = MovedTo(ticket[t], m, list)]
    /\ UNCHANGED <<debate, argument, updates>>

\* Mutant of ApproveTicket: the where clause tests the id alone.
ApproveAnyTicket(m, t) ==
    /\ t \in DOMAIN ticket
    /\ ticket' = [ticket EXCEPT ![t].boardList = "ACCEPTED"]
    /\ UNCHANGED <<debate, argument, updates>>

\* Both approve endpoints.  The list the ticket is in is not looked at.
ApproveTicket(m, t) ==
    /\ t \in DOMAIN ticket
    /\ ticket[t].assignedTo = m
    /\ ticket' = [ticket EXCEPT ![t].boardList = "ACCEPTED"]
    /\ UNCHANGED <<debate, argument, updates>>

-----------------------------------------------------------------------------
AuthorStep ==
    \E u \in Accounts, x \in Texts :
        \/ CreateDebate(u, x)
        \/ \E d \in DebateIds : \/ CreateArgument(u, d, x)
                                \/ SaveArgumentAsDraft(u, d, x)
                                \/ BeginUpdateDebate(u, d, x)
        \/ \E a \in ArgumentIds : \/ UpdateDraft(u, a, x)
                                  \/ BeginUpdateArgument(u, a, x)
                                  \/ \E d \in DebateIds : SubmitDraft(u, d, a, x)

DatabaseStep ==
    \E s \in updates : FinishUpdateArgument(s) \/ FinishUpdateDebate(s)

\* A request of m's that gets past the RolesGuard.
Moderate(m) ==
    \E t \in TicketIds :
        \/ \E list \in BoardLists : UpdateTicket(m, t, list)
        \/ ApproveTicket(m, t)

\* Mutant of ModeratorStep: the moderators' controller without its RolesGuard.
AnyoneModerates == \E m \in Accounts : Moderate(m)

ModeratorStep == \E m \in Moderators : Moderate(m)

Next == AuthorStep \/ DatabaseStep \/ ModeratorStep

Spec == Init /\ [][Next]_vars

-----------------------------------------------------------------------------
(* What readers see.                                                       *)

\* getAll, getDebateArguments and getDebateArgument join the ticket and keep the
\* accepted ones.
OnList(row, list) ==
    row.ticketId \in DOMAIN ticket /\ ticket[row.ticketId].boardList = list

PublicArguments == {a \in DOMAIN argument : OnList(argument[a], "ACCEPTED")}
PublicDebates == {d \in DOMAIN debate : OnList(debate[d], "ACCEPTED")}

-----------------------------------------------------------------------------
(* Properties.                                                             *)

\* A ticket that has left PENDING has a moderator.  updateTicket writes the two
\* columns with two independent expressions and approveTicket writes only one of
\* them: a ticket on another list without a moderator could be moved by nobody
\* (updateTicket and approveTicket both ask for assigned_to) and would be stuck.
ReviewedHasModerator ==
    \A t \in DOMAIN ticket :
        ticket[t].boardList # "PENDING" => ticket[t].assignedTo \in Moderators

\* The author of a debate or argument is the author of its ticket.  The board
\* and review pages take the author from either row (getArgumentAsModerator from
\* the ticket, getDebateAsModerator from the debate), comments are admitted by
\* the ticket's author, and approvals notify the ticket's author.
TicketOfItsAuthor ==
    /\ \A d \in DOMAIN debate :
           /\ debate[d].ticketId \in DOMAIN ticket
           /\ ticket[debate[d].ticketId].createdBy = debate[d].createdBy
    /\ \A a \in DOMAIN argument :
           argument[a].ticketId # Null =>
               /\ argument[a].ticketId \in DOMAIN ticket
               /\ ticket[argument[a].ticketId].createdBy = argument[a].createdBy

\* A draft has no ticket and everything else has one: drafts cannot reach the
\* board or the public page (which only join tickets), and what was submitted
\* cannot be edited as a draft (updateDraft tests is_draft alone).
DraftIffNoTicket ==
    \A a \in DOMAIN argument :
        argument[a].isDraft <=> argument[a].ticketId = Null

\* A moderator's decision on a ticket is about one submission: no foreign key or
\* unique index says so, and a ticket shared by two items would publish both.
OneItemPerTicket ==
    /\ \A a, b \in DOMAIN argument :
           argument[a].ticketId = argument[b].ticketId
             => a = b \/ argument[a].ticketId = Null
    /\ \A d, e \in DOMAIN debate : debate[d].ticketId = debate[e].ticketId => d = e
    /\ \A a \in DOMAIN argument, d \in DOMAIN debate :
           argument[a].ticketId # debate[d].ticketId

\* An edit of a row is running that has seen the row's present ticket.
Racing(table, id, row) ==
    \E s \in updates : s.table = table /\ s.id = id /\ s.ticketId = row.ticketId

ArgumentsFrozen ==
    \A a \in PublicArguments :
        ~Racing("argument", a, argument[a]) /\ a \in PublicArguments'
          => /\ argument'[a].text = argument[a].text
             /\ ~Racing("argument", a, argument[a])'

DebatesFrozen ==
    \A d \in PublicDebates :
        ~Racing("debate", d, debate[d]) /\ d \in PublicDebates'
          => /\ debate'[d].title = debate[d].title
             /\ ~Racing("debate", d, debate[d])'

\* What is published stays as it was approved.  Once an item is public and no edit
\* of it that began before its approval is still running, updateArgument,
\* updateDebate, updateDraft and submitDraft cannot change what it says, and no
\* new edit can start, for as long as it stays public.  (An edit that was running
\* at the approval does land on the published text.)
PublishedFrozen == [][ArgumentsFrozen /\ DebatesFrozen]_vars

\* A ticket back on PENDING waits for any moderator, with nobody assigned.
PendingUnassigned ==
    \A t \in DOMAIN ticket :
        ticket[t].boardList = "PENDING" => ticket[t].assignedTo = Null

\* Every moderation record is the record of some debate or argument.
EveryTicketHasItem ==
    \A t \in DOMAIN ticket :
        \/ \E d \in DOMAIN debate : debate[d].ticketId = t
        \/ \E a \in DOMAIN argument : argument[a].ticketId = t
=============================================================================
