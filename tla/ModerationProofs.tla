-------------------------- MODULE ModerationProofs --------------------------
(***************************************************************************)
(* Theorems about Moderation, for any accounts, ids, texts and bounds: its *)
(* invariants, that what is published is frozen, and that the tables       *)
(* implement ReviewLifecycle, once with the arguments for items and once   *)
(* with the debates.                                                       *)
(***************************************************************************)
EXTENDS ModerationLifecycle, TLAPS

-----------------------------------------------------------------------------
(* Lemmas about tables.                                                     *)

\* A moved ticket is a ticket of the same author.
LEMMA MovedToType ==
    ASSUME NEW row \in TicketRow, NEW m \in Moderators, NEW list \in BoardLists
    PROVE  /\ MovedTo(row, m, list) \in TicketRow
           /\ MovedTo(row, m, list).createdBy = row.createdBy
           /\ MovedTo(row, m, list).boardList = list
  BY DEF MovedTo, TicketRow

\* A new ticket is a row of its table.
LEMMA NewTicketType ==
    ASSUME NEW u \in Accounts
    PROVE  NewTicket(u) \in TicketRow
  BY DEF NewTicket, TicketRow, BoardLists

\* Every submission brings a ticket that is new, PENDING and its author's.
LEMMA InsertTicket ==
    ASSUME TypeOK, NEW u \in Accounts, NEW t \in NextId(TicketIds, ticket),
           ticket' = Insert(ticket, t, NewTicket(u))
    PROVE  /\ t \in TicketIds /\ t \notin DOMAIN ticket
           /\ IsTable(ticket, TicketIds, TicketRow)'
           /\ DOMAIN ticket' = DOMAIN ticket \cup {t}
           /\ ticket'[t] = NewTicket(u)
           /\ \A i \in DOMAIN ticket : ticket'[i] = ticket[i]
<1>1. t \in TicketIds /\ t \notin DOMAIN ticket
  BY DEF NextId
<1>2. NewTicket(u) \in TicketRow
  BY NewTicketType
<1>3. IsTable(ticket, TicketIds, TicketRow)
  BY DEF TypeOK
<1> QED
  BY <1>1, <1>2, <1>3 DEF Insert, IsTable

\* A debate inserted gets an id of its own and leaves the others.
LEMMA InsertDebate ==
    ASSUME TypeOK, NEW row \in DebateRow, NEW d \in NextId(DebateIds, debate),
           debate' = Insert(debate, d, row)
    PROVE  /\ d \in DebateIds /\ d \notin DOMAIN debate
           /\ IsTable(debate, DebateIds, DebateRow)'
           /\ DOMAIN debate' = DOMAIN debate \cup {d}
           /\ debate'[d] = row
           /\ \A i \in DOMAIN debate : debate'[i] = debate[i]
<1>1. d \in DebateIds /\ d \notin DOMAIN debate
  BY DEF NextId
<1>2. IsTable(debate, DebateIds, DebateRow)
  BY DEF TypeOK
<1> QED
  BY <1>1, <1>2 DEF Insert, IsTable

\* An argument inserted gets an id of its own and leaves the others.
LEMMA InsertArgument ==
    ASSUME TypeOK, NEW row \in ArgumentRow, NEW a \in NextId(ArgumentIds, argument),
           argument' = Insert(argument, a, row)
    PROVE  /\ a \in ArgumentIds /\ a \notin DOMAIN argument
           /\ IsTable(argument, ArgumentIds, ArgumentRow)'
           /\ DOMAIN argument' = DOMAIN argument \cup {a}
           /\ argument'[a] = row
           /\ \A i \in DOMAIN argument : argument'[i] = argument[i]
<1>1. a \in ArgumentIds /\ a \notin DOMAIN argument
  BY DEF NextId
<1>2. IsTable(argument, ArgumentIds, ArgumentRow)
  BY DEF TypeOK
<1> QED
  BY <1>1, <1>2 DEF Insert, IsTable

-----------------------------------------------------------------------------
(* The inductive invariant.  Each part needs others: that an author's new   *)
(* ticket is not already some item's rests on every item's ticket being in  *)
(* the table; a moved ticket keeps its item's author because the type fixes *)
(* the ticket's columns; a resubmission may overwrite ticket_id because the *)
(* ticket it brings is new.                                                 *)
IInv ==
    /\ TypeOK
    /\ ReviewedHasModerator
    /\ TicketOfItsAuthor
    /\ DraftIffNoTicket
    /\ OneItemPerTicket

\* The empty tables satisfy the invariant.
LEMMA InitIInv == Init => IInv
  BY DEF Init, EmptyTable, IInv, TypeOK, IsTable, ReviewedHasModerator,
         TicketOfItsAuthor, DraftIffNoTicket, OneItemPerTicket

\* A new ticket is PENDING, and no item has it yet.
LEMMA CreateDebateIInv ==
    ASSUME IInv, NEW u \in Accounts, NEW x \in Texts, CreateDebate(u, x)
    PROVE  IInv'
<1> USE DEF IInv
<1>1. PICK t \in NextId(TicketIds, ticket), d \in NextId(DebateIds, debate) :
          /\ ticket' = Insert(ticket, t, NewTicket(u))
          /\ debate' = Insert(debate, d, [ticketId |-> t, title |-> x,
                                          createdBy |-> u])
          /\ UNCHANGED <<argument, updates>>
  BY DEF CreateDebate
<1> DEFINE row == [ticketId |-> t, title |-> x, createdBy |-> u]
<1>2. /\ t \in TicketIds /\ t \notin DOMAIN ticket
      /\ IsTable(ticket, TicketIds, TicketRow)'
      /\ DOMAIN ticket' = DOMAIN ticket \cup {t}
      /\ ticket'[t] = NewTicket(u)
      /\ \A i \in DOMAIN ticket : ticket'[i] = ticket[i]
  BY <1>1, InsertTicket
<1>3. row \in DebateRow
  BY <1>2 DEF DebateRow
<1>4. /\ d \in DebateIds /\ d \notin DOMAIN debate
      /\ IsTable(debate, DebateIds, DebateRow)'
      /\ DOMAIN debate' = DOMAIN debate \cup {d}
      /\ debate'[d] = row
      /\ \A i \in DOMAIN debate : debate'[i] = debate[i]
  BY <1>1, <1>3, InsertDebate
<1>5. TypeOK'
  BY <1>1, <1>2, <1>4 DEF TypeOK, IsTable
<1>6. ReviewedHasModerator'
  BY <1>2 DEF ReviewedHasModerator, NewTicket
<1>7. TicketOfItsAuthor'
  BY <1>1, <1>2, <1>4 DEF TicketOfItsAuthor, NewTicket
<1>8. DraftIffNoTicket'
  BY <1>1 DEF DraftIffNoTicket
<1>9. OneItemPerTicket'
  BY <1>1, <1>2, <1>4, NullNotAnId DEF OneItemPerTicket, TicketOfItsAuthor
<1> QED
  BY <1>5, <1>6, <1>7, <1>8, <1>9

\* A submitted argument brings its ticket.
LEMMA CreateArgumentIInv ==
    ASSUME IInv, NEW u \in Accounts, NEW dd \in DebateIds, NEW x \in Texts,
           CreateArgument(u, dd, x)
    PROVE  IInv'
<1> USE DEF IInv
<1>1. PICK t \in NextId(TicketIds, ticket), a \in NextId(ArgumentIds, argument) :
          /\ ticket' = Insert(ticket, t, NewTicket(u))
          /\ argument' = Insert(argument, a,
                                [debateId |-> dd, ticketId |-> t, text |-> x,
                                 createdBy |-> u, isDraft |-> FALSE])
          /\ UNCHANGED <<debate, updates>>
  BY DEF CreateArgument
<1> DEFINE row == [debateId |-> dd, ticketId |-> t, text |-> x,
                   createdBy |-> u, isDraft |-> FALSE]
<1>2. /\ t \in TicketIds /\ t \notin DOMAIN ticket
      /\ IsTable(ticket, TicketIds, TicketRow)'
      /\ DOMAIN ticket' = DOMAIN ticket \cup {t}
      /\ ticket'[t] = NewTicket(u)
      /\ \A i \in DOMAIN ticket : ticket'[i] = ticket[i]
  BY <1>1, InsertTicket
<1>3. row \in ArgumentRow
  BY <1>2 DEF ArgumentRow
<1>4. /\ a \in ArgumentIds /\ a \notin DOMAIN argument
      /\ IsTable(argument, ArgumentIds, ArgumentRow)'
      /\ DOMAIN argument' = DOMAIN argument \cup {a}
      /\ argument'[a] = row
      /\ \A i \in DOMAIN argument : argument'[i] = argument[i]
  BY <1>1, <1>3, InsertArgument
<1>5. TypeOK'
  BY <1>1, <1>2, <1>4 DEF TypeOK, IsTable
<1>6. ReviewedHasModerator'
  BY <1>2 DEF ReviewedHasModerator, NewTicket
<1>7. TicketOfItsAuthor'
  <2>1. \A d \in DOMAIN debate' :
            /\ debate'[d].ticketId \in DOMAIN ticket'
            /\ ticket'[debate'[d].ticketId].createdBy = debate'[d].createdBy
    BY <1>1, <1>2 DEF TicketOfItsAuthor
  <2>2. ASSUME NEW i \in DOMAIN argument', argument'[i].ticketId # Null
        PROVE  /\ argument'[i].ticketId \in DOMAIN ticket'
               /\ ticket'[argument'[i].ticketId].createdBy = argument'[i].createdBy
    <3>1. CASE i = a
      BY <1>2, <1>4, <3>1 DEF NewTicket
    <3>2. CASE i # a
      BY <1>2, <1>4, <2>2, <3>2 DEF TicketOfItsAuthor
    <3> QED
      BY <3>1, <3>2
  <2> QED
    BY <2>1, <2>2 DEF TicketOfItsAuthor
<1>8. DraftIffNoTicket'
  BY <1>2, <1>4, NullNotAnId DEF DraftIffNoTicket
<1>9. OneItemPerTicket'
  <2>1. \A i \in DOMAIN argument : argument[i].ticketId # t
    BY <1>2, NullNotAnId DEF TicketOfItsAuthor
  <2>2. \A i \in DOMAIN debate : debate[i].ticketId # t
    BY <1>2 DEF TicketOfItsAuthor
  <2>3. argument'[a].ticketId = t
    BY <1>4
  <2>4. \A i \in DOMAIN argument' :
            i = a \/ (argument'[i] = argument[i] /\ i \in DOMAIN argument)
    BY <1>4
  <2>5. \A i, j \in DOMAIN argument' :
            argument'[i].ticketId = argument'[j].ticketId
              => i = j \/ argument'[i].ticketId = Null
    BY <2>1, <2>3, <2>4 DEF OneItemPerTicket
  <2>6. \A i \in DOMAIN argument', d \in DOMAIN debate' :
            argument'[i].ticketId # debate'[d].ticketId
    <3>1. debate' = debate
      BY <1>1
    <3>2. \A i \in DOMAIN argument, d \in DOMAIN debate :
              argument[i].ticketId # debate[d].ticketId
      BY DEF OneItemPerTicket
    <3> QED
      BY <3>1, <3>2, <2>2, <2>3, <2>4
  <2>7. \A d, e \in DOMAIN debate' : debate'[d].ticketId = debate'[e].ticketId => d = e
    BY <1>1 DEF OneItemPerTicket
  <2> QED
    BY <2>5, <2>6, <2>7 DEF OneItemPerTicket
<1> QED
  BY <1>5, <1>6, <1>7, <1>8, <1>9

\* A draft has no ticket, and touches no ticket.
LEMMA SaveArgumentAsDraftIInv ==
    ASSUME IInv, NEW u \in Accounts, NEW dd \in DebateIds, NEW x \in Texts,
           SaveArgumentAsDraft(u, dd, x)
    PROVE  IInv'
<1> USE DEF IInv
<1> DEFINE row == [debateId |-> dd, ticketId |-> Null, text |-> x,
                   createdBy |-> u, isDraft |-> TRUE]
<1>1. PICK a \in NextId(ArgumentIds, argument) :
          /\ argument' = Insert(argument, a, row)
          /\ UNCHANGED <<ticket, debate, updates>>
  BY DEF SaveArgumentAsDraft
<1>2. row \in ArgumentRow
  BY DEF ArgumentRow
<1>3. /\ a \in ArgumentIds /\ a \notin DOMAIN argument
      /\ IsTable(argument, ArgumentIds, ArgumentRow)'
      /\ DOMAIN argument' = DOMAIN argument \cup {a}
      /\ argument'[a] = row
      /\ \A i \in DOMAIN argument : argument'[i] = argument[i]
  BY <1>1, <1>2, InsertArgument
<1>4. TypeOK'
  BY <1>1, <1>3 DEF TypeOK, IsTable
<1>5. ReviewedHasModerator'
  BY <1>1 DEF ReviewedHasModerator
<1>6. TicketOfItsAuthor'
  <2>1. argument'[a].ticketId = Null
    BY <1>3
  <2>2. \A i \in DOMAIN argument' :
           i = a \/ (argument'[i] = argument[i] /\ i \in DOMAIN argument)
    BY <1>3
  <2> HIDE DEF row
  <2> QED
    BY <1>1, <2>1, <2>2 DEF TicketOfItsAuthor
<1>7. DraftIffNoTicket'
  BY <1>3 DEF DraftIffNoTicket
<1>8. OneItemPerTicket'
  <2>1. argument'[a].ticketId = Null
    BY <1>3
  <2>2. \A i \in DOMAIN debate : debate[i].ticketId # Null
    BY NullNotAnId DEF TypeOK, IsTable, DebateRow
  <2> HIDE DEF row
  <2> QED
    BY <1>1, <1>3, <2>1, <2>2 DEF OneItemPerTicket
<1> QED
  BY <1>4, <1>5, <1>6, <1>7, <1>8

\* Rewriting the text of an argument touches no column the invariant is about.
LEMMA RewriteArgument ==
    ASSUME IInv, NEW a \in DOMAIN argument, NEW x \in Texts,
           argument' = [argument EXCEPT ![a].text = x],
           ticket' = ticket, debate' = debate, updates' \subseteq updates
    PROVE  IInv'
<1> USE DEF IInv
<1>1. /\ DOMAIN argument' = DOMAIN argument
      /\ \A i \in DOMAIN argument :
             /\ argument'[i] \in ArgumentRow
             /\ argument'[i].ticketId = argument[i].ticketId
             /\ argument'[i].createdBy = argument[i].createdBy
             /\ argument'[i].isDraft = argument[i].isDraft
  <2>1. \A i \in DOMAIN argument : argument[i] \in ArgumentRow
    BY DEF TypeOK, IsTable
  <2>2. [argument[a] EXCEPT !.text = x] \in ArgumentRow
    BY <2>1 DEF ArgumentRow
  <2>3. /\ DOMAIN argument' = DOMAIN argument
        /\ argument'[a] = [argument[a] EXCEPT !.text = x]
        /\ \A i \in DOMAIN argument \ {a} : argument'[i] = argument[i]
    BY DEF TypeOK, IsTable
  <2> QED
    BY <2>1, <2>2, <2>3 DEF ArgumentRow
<1>2. TypeOK'
  <2>1. IsTable(argument, ArgumentIds, ArgumentRow)'
    BY <1>1 DEF TypeOK, IsTable
  <2> QED
    BY <2>1 DEF TypeOK, IsTable
<1>3. ReviewedHasModerator'
  BY DEF ReviewedHasModerator
<1>4. TicketOfItsAuthor'
  BY <1>1 DEF TicketOfItsAuthor
<1>5. DraftIffNoTicket'
  BY <1>1 DEF DraftIffNoTicket
<1>6. OneItemPerTicket'
  BY <1>1 DEF OneItemPerTicket
<1> QED
  BY <1>2, <1>3, <1>4, <1>5, <1>6

\* A new title changes nothing the invariant relates.
LEMMA RewriteDebate ==
    ASSUME IInv, NEW d \in DOMAIN debate, NEW x \in Texts,
           debate' = [debate EXCEPT ![d].title = x],
           ticket' = ticket, argument' = argument, updates' \subseteq updates
    PROVE  IInv'
<1> USE DEF IInv
<1>1. /\ DOMAIN debate' = DOMAIN debate
      /\ \A i \in DOMAIN debate :
             /\ debate'[i] \in DebateRow
             /\ debate'[i].ticketId = debate[i].ticketId
             /\ debate'[i].createdBy = debate[i].createdBy
  <2>1. \A i \in DOMAIN debate : debate[i] \in DebateRow
    BY DEF TypeOK, IsTable
  <2>2. [debate[d] EXCEPT !.title = x] \in DebateRow
    BY <2>1 DEF DebateRow
  <2>3. /\ DOMAIN debate' = DOMAIN debate
        /\ debate'[d] = [debate[d] EXCEPT !.title = x]
        /\ \A i \in DOMAIN debate \ {d} : debate'[i] = debate[i]
    BY DEF TypeOK, IsTable
  <2> QED
    BY <2>1, <2>2, <2>3 DEF DebateRow
<1>2. TypeOK'
  <2>1. IsTable(debate, DebateIds, DebateRow)'
    BY <1>1 DEF TypeOK, IsTable
  <2> QED
    BY <2>1 DEF TypeOK, IsTable
<1>3. ReviewedHasModerator'
  BY DEF ReviewedHasModerator
<1>4. TicketOfItsAuthor'
  BY <1>1 DEF TicketOfItsAuthor
<1>5. DraftIffNoTicket'
  BY DEF DraftIffNoTicket
<1>6. OneItemPerTicket'
  BY <1>1 DEF OneItemPerTicket
<1> QED
  BY <1>2, <1>3, <1>4, <1>5, <1>6

\* A draft saved again stays a draft.
LEMMA UpdateDraftIInv ==
    ASSUME IInv, NEW u \in Accounts, NEW a \in ArgumentIds, NEW x \in Texts,
           UpdateDraft(u, a, x)
    PROVE  IInv'
  BY RewriteArgument DEF UpdateDraft

\* The statement in flight is well typed and nothing else changes.
LEMMA BeginUpdateIInv ==
    ASSUME IInv, NEW u \in Accounts, NEW x \in Texts,
           \/ \E a \in ArgumentIds : BeginUpdateArgument(u, a, x)
           \/ \E d \in DebateIds : BeginUpdateDebate(u, d, x)
    PROVE  IInv'
<1> USE DEF IInv
<1>1. UNCHANGED <<ticket, debate, argument>>
  BY DEF BeginUpdateArgument, BeginUpdateDebate
<1>2. updates' \subseteq UpdateStatement
  <2>1. CASE \E a \in ArgumentIds : BeginUpdateArgument(u, a, x)
    BY <2>1 DEF BeginUpdateArgument, Editable, TypeOK, IsTable, UpdateStatement
  <2>2. CASE \E d \in DebateIds : BeginUpdateDebate(u, d, x)
    BY <2>2 DEF BeginUpdateDebate, Editable, TypeOK, IsTable, UpdateStatement
  <2> QED
    BY <2>1, <2>2
<1> QED
  BY <1>1, <1>2 DEF TypeOK, IsTable, ReviewedHasModerator, TicketOfItsAuthor,
                    DraftIffNoTicket, OneItemPerTicket

\* The second statement of an update rewrites the item if it still has the ticket.
LEMMA FinishUpdateIInv ==
    ASSUME IInv, NEW s \in updates,
           FinishUpdateArgument(s) \/ FinishUpdateDebate(s)
    PROVE  IInv'
<1> USE DEF IInv
<1>1. s.text \in Texts
  BY DEF TypeOK, UpdateStatement
<1>2. CASE UNCHANGED <<ticket, debate, argument>> /\ updates' \subseteq updates
  BY <1>2 DEF TypeOK, IsTable, ReviewedHasModerator, TicketOfItsAuthor,
              DraftIffNoTicket, OneItemPerTicket
<1>3. CASE FinishUpdateArgument(s)
  <2>1. CASE s.id \in DOMAIN argument /\ argument[s.id].ticketId = s.ticketId
    BY <1>1, <1>3, <2>1, RewriteArgument DEF FinishUpdateArgument
  <2>2. CASE s.id \notin DOMAIN argument \/ argument[s.id].ticketId # s.ticketId
    <3>1. argument' = argument
      BY <1>3, <2>2 DEF FinishUpdateArgument, TypeOK, IsTable
    <3> QED
      BY <1>2, <1>3, <3>1 DEF FinishUpdateArgument
  <2> QED
    BY <2>1, <2>2
<1>4. CASE FinishUpdateDebate(s)
  <2>1. CASE s.id \in DOMAIN debate /\ debate[s.id].ticketId = s.ticketId
    BY <1>1, <1>4, <2>1, RewriteDebate DEF FinishUpdateDebate
  <2>2. CASE s.id \notin DOMAIN debate \/ debate[s.id].ticketId # s.ticketId
    <3>1. debate' = debate
      BY <1>4, <2>2 DEF FinishUpdateDebate, TypeOK, IsTable
    <3> QED
      BY <1>2, <1>4, <3>1 DEF FinishUpdateDebate
  <2> QED
    BY <2>1, <2>2
<1> QED
  BY <1>3, <1>4

\* A submission points the argument, if it finds one, to a ticket nothing points
\* to; the ticket it leaves, if any, stays in the table.
LEMMA SubmitDraftIInv ==
    ASSUME IInv, NEW u \in Accounts, NEW dd \in DebateIds, NEW a \in ArgumentIds,
           NEW x \in Texts, SubmitDraft(u, dd, a, x)
    PROVE  IInv'
<1> USE DEF IInv
<1>1. PICK t \in NextId(TicketIds, ticket) :
          /\ ticket' = Insert(ticket, t, NewTicket(u))
          /\ argument' = Submitted(u, dd, a, x, t)
          /\ UNCHANGED <<debate, updates>>
  BY DEF SubmitDraft
<1>2. /\ t \in TicketIds /\ t \notin DOMAIN ticket
      /\ IsTable(ticket, TicketIds, TicketRow)'
      /\ DOMAIN ticket' = DOMAIN ticket \cup {t}
      /\ ticket'[t] = NewTicket(u)
      /\ \A i \in DOMAIN ticket : ticket'[i] = ticket[i]
  BY <1>1, InsertTicket
<1> DEFINE mine == a \in DOMAIN argument /\ argument[a].createdBy = u
                                         /\ argument[a].debateId = dd
<1>3. /\ DOMAIN argument' = DOMAIN argument
      /\ \A i \in DOMAIN argument : argument'[i] \in ArgumentRow
      /\ \A i \in DOMAIN argument : ~(mine /\ i = a) => argument'[i] = argument[i]
      /\ mine => /\ argument'[a].ticketId = t
                 /\ argument'[a].createdBy = u
                 /\ argument'[a].isDraft = FALSE
  <2>1. \A i \in DOMAIN argument : argument[i] \in ArgumentRow
    BY DEF TypeOK, IsTable
  <2>2. CASE mine
    <3> DEFINE row == [argument[a] EXCEPT !.isDraft = FALSE, !.text = x,
                                          !.ticketId = t]
    <3>1. argument' = [argument EXCEPT ![a] = row]
      BY <1>1, <2>2 DEF Submitted, TypeOK, IsTable
    <3>2. /\ row \in ArgumentRow /\ row.ticketId = t
          /\ row.createdBy = u /\ row.isDraft = FALSE
      BY <1>2, <2>1, <2>2 DEF ArgumentRow
    <3>3. /\ DOMAIN argument' = DOMAIN argument
          /\ argument'[a] = row
          /\ \A i \in DOMAIN argument \ {a} : argument'[i] = argument[i]
      BY <2>2, <3>1 DEF TypeOK, IsTable
    <3> HIDE DEF row
    <3> QED
      BY <2>1, <2>2, <3>2, <3>3
  <2>3. CASE ~mine
    BY <1>1, <2>1, <2>3 DEF Submitted
  <2> QED
    BY <2>2, <2>3
<1>4. TypeOK'
  <2>1. IsTable(argument, ArgumentIds, ArgumentRow)'
    <3>1. argument' = [i \in DOMAIN argument' |-> argument'[i]]
      BY <1>1, <1>3 DEF Submitted, TypeOK, IsTable
    <3> QED
      BY <1>3, <3>1 DEF TypeOK, IsTable
  <2> QED
    BY <1>1, <1>2, <2>1 DEF TypeOK, IsTable
<1>5. ReviewedHasModerator'
  BY <1>2 DEF ReviewedHasModerator, NewTicket
<1>6. TicketOfItsAuthor'
  <2>1. ticket'[t].createdBy = u
    BY <1>2 DEF NewTicket
  <2>2. ASSUME NEW i \in DOMAIN argument', argument'[i].ticketId # Null
        PROVE  /\ argument'[i].ticketId \in DOMAIN ticket'
               /\ ticket'[argument'[i].ticketId].createdBy = argument'[i].createdBy
    BY <1>2, <1>3, <2>1, <2>2 DEF TicketOfItsAuthor
  <2>3. \A d \in DOMAIN debate' :
            /\ debate'[d].ticketId \in DOMAIN ticket'
            /\ ticket'[debate'[d].ticketId].createdBy = debate'[d].createdBy
    BY <1>1, <1>2 DEF TicketOfItsAuthor
  <2> QED
    BY <2>2, <2>3 DEF TicketOfItsAuthor
<1>7. DraftIffNoTicket'
  BY <1>2, <1>3, NullNotAnId DEF DraftIffNoTicket
<1>8. OneItemPerTicket'
  <2>1. \A i \in DOMAIN argument : argument[i].ticketId # t
    BY <1>2, NullNotAnId DEF TicketOfItsAuthor
  <2>2. \A i \in DOMAIN debate : debate[i].ticketId # t
    BY <1>2 DEF TicketOfItsAuthor
  <2>3. debate' = debate
    BY <1>1
  <2>4. \A i, j \in DOMAIN argument' :
            argument'[i].ticketId = argument'[j].ticketId
              => i = j \/ argument'[i].ticketId = Null
    BY <1>3, <2>1 DEF OneItemPerTicket
  <2>5. \A i \in DOMAIN argument', d \in DOMAIN debate' :
            argument'[i].ticketId # debate'[d].ticketId
    BY <1>3, <2>2, <2>3 DEF OneItemPerTicket
  <2> QED
    BY <2>3, <2>4, <2>5 DEF OneItemPerTicket
<1> QED
  BY <1>4, <1>5, <1>6, <1>7, <1>8

\* A step on a ticket keeps its author, and gives it a moderator when it leaves
\* PENDING.
LEMMA WriteTicketIInv ==
    ASSUME IInv, NEW t \in DOMAIN ticket, NEW row \in TicketRow,
           row.createdBy = ticket[t].createdBy,
           row.boardList # "PENDING" => row.assignedTo \in Moderators,
           ticket' = [ticket EXCEPT ![t] = row],
           UNCHANGED <<debate, argument, updates>>
    PROVE  IInv'
<1> USE DEF IInv
<1>1. /\ IsTable(ticket, TicketIds, TicketRow)'
      /\ DOMAIN ticket' = DOMAIN ticket
      /\ ticket'[t] = row
      /\ \A i \in DOMAIN ticket \ {t} : ticket'[i] = ticket[i]
  BY DEF TypeOK, IsTable
<1>2. TypeOK'
  BY <1>1 DEF TypeOK, IsTable
<1>3. ReviewedHasModerator'
  BY <1>1 DEF ReviewedHasModerator
<1>4. TicketOfItsAuthor'
  <2>1. \A i \in DOMAIN ticket : ticket'[i].createdBy = ticket[i].createdBy
    BY <1>1
  <2> QED
    BY <1>1, <2>1 DEF TicketOfItsAuthor
<1>5. DraftIffNoTicket' /\ OneItemPerTicket'
  BY DEF DraftIffNoTicket, OneItemPerTicket
<1> QED
  BY <1>2, <1>3, <1>4, <1>5

\* A ticket moves on the board.
LEMMA UpdateTicketIInv ==
    ASSUME IInv, NEW m \in Moderators, NEW t \in TicketIds, NEW list \in BoardLists,
           UpdateTicket(m, t, list)
    PROVE  IInv'
<1> DEFINE row == MovedTo(ticket[t], m, list)
<1>1. ticket[t] \in TicketRow /\ t \in DOMAIN ticket
  BY DEF UpdateTicket, IInv, TypeOK, IsTable
<1>2. row \in TicketRow /\ row.createdBy = ticket[t].createdBy
  BY <1>1, MovedToType
<1>3. row.boardList # "PENDING" => row.assignedTo \in Moderators
  BY <1>1 DEF MovedTo, UpdateTicket, TicketRow
<1> QED
  BY <1>1, <1>2, <1>3, WriteTicketIInv DEF UpdateTicket

\* An approval keeps the moderator who had taken the ticket.
LEMMA ApproveTicketIInv ==
    ASSUME IInv, NEW m \in Moderators, NEW t \in TicketIds, ApproveTicket(m, t)
    PROVE  IInv'
<1> DEFINE row == [ticket[t] EXCEPT !.boardList = "ACCEPTED"]
<1>1. ticket[t] \in TicketRow /\ t \in DOMAIN ticket /\ ticket[t].assignedTo = m
  BY DEF ApproveTicket, IInv, TypeOK, IsTable
<1>2. /\ row \in TicketRow /\ row.createdBy = ticket[t].createdBy
      /\ row.assignedTo \in Moderators
  BY <1>1 DEF TicketRow, BoardLists
<1>3. ticket' = [ticket EXCEPT ![t] = row]
  BY <1>1 DEF ApproveTicket, IInv, TypeOK, IsTable
<1> HIDE DEF row
<1> QED
  BY <1>1, <1>2, <1>3, WriteTicketIInv DEF ApproveTicket

\* Every step of the moderation keeps the invariant.
LEMMA NextIInv == IInv /\ [Next]_vars => IInv'
<1> SUFFICES ASSUME IInv, [Next]_vars PROVE IInv'
  OBVIOUS
<1>1. CASE UNCHANGED vars
  BY <1>1 DEF vars, IInv, TypeOK, IsTable, ReviewedHasModerator,
              TicketOfItsAuthor, DraftIffNoTicket, OneItemPerTicket
<1>2. CASE AuthorStep
  BY <1>2, CreateDebateIInv, CreateArgumentIInv, SaveArgumentAsDraftIInv,
     UpdateDraftIInv, SubmitDraftIInv, BeginUpdateIInv DEF AuthorStep
<1>3. CASE DatabaseStep
  BY <1>3, FinishUpdateIInv DEF DatabaseStep
<1>4. CASE ModeratorStep
  BY <1>4, UpdateTicketIInv, ApproveTicketIInv DEF ModeratorStep, Moderate
<1> QED
  BY <1>1, <1>2, <1>3, <1>4 DEF Next

\* Every reachable state of the tables is consistent.
THEOREM Consistent == Spec => []IInv
  BY InitIInv, NextIInv, PTL DEF Spec

\* The tables only hold rows of their types: assigned_to is null or a moderator,
\* and the tables' references are ids of their columns.
THEOREM TypeCorrect == Spec => []TypeOK
  BY Consistent, PTL DEF IInv

\* No ticket is ever stuck on a list other than PENDING with no moderator.
THEOREM ReviewedTicketsHaveModerators == Spec => []ReviewedHasModerator
  BY Consistent, PTL DEF IInv

\* Whichever row the author is read from, it is the same account.
THEOREM TicketsOfTheirAuthors == Spec => []TicketOfItsAuthor
  BY Consistent, PTL DEF IInv

\* Drafts have no ticket, and everything else has one.
THEOREM DraftsHaveNoTicket == Spec => []DraftIffNoTicket
  BY Consistent, PTL DEF IInv

\* A decision on a ticket is a decision on at most one item.
THEOREM TicketsAreNotShared == Spec => []OneItemPerTicket
  BY Consistent, PTL DEF IInv

-----------------------------------------------------------------------------
(* What is published is frozen.                                             *)

\* A step that leaves a public item's row alone, or takes its ticket away from
\* the accepted list, and starts no edit of it, keeps it frozen.
LEMMA ArgumentsFrozenStep == IInv /\ Next => ArgumentsFrozen
<1> SUFFICES ASSUME IInv, Next, NEW a \in PublicArguments,
                    ~Racing("argument", a, argument[a]), a \in PublicArguments'
             PROVE  argument'[a].text = argument[a].text
                      /\ ~Racing("argument", a, argument[a])'
  BY DEF ArgumentsFrozen
<1>1. /\ a \in DOMAIN argument
      /\ argument[a].ticketId \in DOMAIN ticket
      /\ ticket[argument[a].ticketId].boardList = "ACCEPTED"
  BY DEF PublicArguments, OnList
<1>2. ~argument[a].isDraft
  BY <1>1, NullNotAnId DEF IInv, DraftIffNoTicket, TypeOK, IsTable
<1>3. CASE argument'[a] = argument[a] /\ updates' \subseteq updates
  BY <1>3 DEF Racing
<1>4. ASSUME NEW u \in Accounts, NEW x \in Texts, CreateDebate(u, x)
      PROVE  argument'[a] = argument[a] /\ updates' \subseteq updates
  BY <1>4 DEF CreateDebate
<1>5. ASSUME NEW u \in Accounts, NEW x \in Texts, NEW d \in DebateIds,
             CreateArgument(u, d, x) \/ SaveArgumentAsDraft(u, d, x)
      PROVE  argument'[a] = argument[a] /\ updates' \subseteq updates
  BY <1>1, <1>5 DEF CreateArgument, SaveArgumentAsDraft, Insert, NextId
<1>6. ASSUME NEW u \in Accounts, NEW x \in Texts, NEW b \in ArgumentIds,
             UpdateDraft(u, b, x)
      PROVE  argument'[a] = argument[a] /\ updates' \subseteq updates
  BY <1>1, <1>2, <1>6 DEF UpdateDraft, IInv, TypeOK, IsTable
<1>7. ASSUME NEW u \in Accounts, NEW x \in Texts, NEW b \in ArgumentIds,
             NEW d \in DebateIds, SubmitDraft(u, d, b, x)
      PROVE  argument'[a] = argument[a] /\ updates' \subseteq updates
  <2>1. PICK t \in NextId(TicketIds, ticket) :
            /\ ticket' = Insert(ticket, t, NewTicket(u))
            /\ argument' = Submitted(u, d, b, x, t)
            /\ UNCHANGED <<debate, updates>>
    BY <1>7 DEF SubmitDraft
  <2>2. ticket'[t].boardList = "PENDING"
    <3>1. TypeOK
      BY DEF IInv
    <3>2. ticket'[t] = NewTicket(u)
      BY <2>1, <3>1, InsertTicket
    <3> QED
      BY <3>2 DEF NewTicket
  <2>3. argument'[a].ticketId # t
    BY <2>2 DEF PublicArguments, OnList
  <2>4. a # b \/ ~(argument[b].createdBy = u /\ argument[b].debateId = d)
    <3>1. SUFFICES ASSUME a = b, argument[b].createdBy = u, argument[b].debateId = d
                   PROVE  FALSE
      OBVIOUS
    <3> DEFINE row == [argument[a] EXCEPT !.isDraft = FALSE, !.text = x,
                                          !.ticketId = t]
    <3>2. argument'[a] = row
      BY <1>1, <2>1, <3>1 DEF Submitted, IInv, TypeOK, IsTable
    <3>3. row.ticketId = t
      BY <1>1 DEF IInv, TypeOK, IsTable, ArgumentRow
    <3> QED
      BY <2>3, <3>2, <3>3
  <2>5. argument'[a] = argument[a]
    BY <1>1, <2>1, <2>4 DEF Submitted, IInv, TypeOK, IsTable
  <2> QED
    BY <2>1, <2>5
<1>8. ASSUME NEW u \in Accounts, NEW x \in Texts, NEW b \in ArgumentIds,
             BeginUpdateArgument(u, b, x)
      PROVE  argument'[a] = argument[a] /\ ~Racing("argument", a, argument[a])'
  <2>1. argument' = argument
    BY <1>8 DEF BeginUpdateArgument
  <2>2. ASSUME NEW s \in updates', s.table = "argument", s.id = a,
               s.ticketId = argument[a].ticketId
        PROVE  FALSE
    <3>1. s \notin updates
      BY <2>2 DEF Racing
    <3>2. s.id = b /\ s.ticketId = argument[b].ticketId
      BY <1>8, <2>2, <3>1 DEF BeginUpdateArgument
    <3> QED
      BY <1>1, <1>8, <2>2, <3>2 DEF BeginUpdateArgument, Editable
  <2> QED
    BY <2>1, <2>2 DEF Racing
<1>9. ASSUME NEW u \in Accounts, NEW x \in Texts, NEW d \in DebateIds,
             BeginUpdateDebate(u, d, x)
      PROVE  argument'[a] = argument[a] /\ ~Racing("argument", a, argument[a])'
  BY <1>9 DEF BeginUpdateDebate, Racing
<1>10. ASSUME NEW s \in updates, FinishUpdateArgument(s) \/ FinishUpdateDebate(s)
       PROVE  argument'[a] = argument[a] /\ updates' \subseteq updates
  <2>1. CASE FinishUpdateArgument(s)
    BY <1>1, <2>1 DEF FinishUpdateArgument, Racing, IInv, TypeOK, IsTable
  <2>2. CASE FinishUpdateDebate(s)
    BY <2>2 DEF FinishUpdateDebate
  <2> QED
    BY <1>10, <2>1, <2>2
<1>11. ASSUME ModeratorStep
       PROVE  argument'[a] = argument[a] /\ updates' \subseteq updates
  BY <1>11 DEF ModeratorStep, Moderate, UpdateTicket, ApproveTicket
<1>12. CASE AuthorStep
  BY <1>3, <1>4, <1>5, <1>6, <1>7, <1>8, <1>9, <1>12 DEF AuthorStep
<1> QED
  BY <1>3, <1>10, <1>11, <1>12 DEF Next, DatabaseStep

\* A debate's row is written by updateDebate alone.
LEMMA DebatesFrozenStep == IInv /\ Next => DebatesFrozen
<1> SUFFICES ASSUME IInv, Next, NEW d \in PublicDebates,
                    ~Racing("debate", d, debate[d]), d \in PublicDebates'
             PROVE  debate'[d].title = debate[d].title
                      /\ ~Racing("debate", d, debate[d])'
  BY DEF DebatesFrozen
<1>1. /\ d \in DOMAIN debate
      /\ debate[d].ticketId \in DOMAIN ticket
      /\ ticket[debate[d].ticketId].boardList = "ACCEPTED"
  BY DEF PublicDebates, OnList
<1>2. CASE debate'[d] = debate[d] /\ updates' \subseteq updates
  BY <1>2 DEF Racing
<1>3. ASSUME NEW u \in Accounts, NEW x \in Texts, CreateDebate(u, x)
      PROVE  debate'[d] = debate[d] /\ updates' \subseteq updates
  BY <1>1, <1>3 DEF CreateDebate, Insert, NextId
<1>4. ASSUME NEW u \in Accounts, NEW x \in Texts, NEW e \in DebateIds,
             CreateArgument(u, e, x) \/ SaveArgumentAsDraft(u, e, x)
      PROVE  debate'[d] = debate[d] /\ updates' \subseteq updates
  BY <1>4 DEF CreateArgument, SaveArgumentAsDraft
<1>5. ASSUME NEW u \in Accounts, NEW x \in Texts, NEW a \in ArgumentIds,
             UpdateDraft(u, a, x)
      PROVE  debate'[d] = debate[d] /\ updates' \subseteq updates
  BY <1>5 DEF UpdateDraft
<1>6. ASSUME NEW u \in Accounts, NEW x \in Texts, NEW a \in ArgumentIds,
             NEW e \in DebateIds, SubmitDraft(u, e, a, x)
      PROVE  debate'[d] = debate[d] /\ updates' \subseteq updates
  BY <1>6 DEF SubmitDraft
<1>7. ASSUME NEW u \in Accounts, NEW x \in Texts, NEW a \in ArgumentIds,
             BeginUpdateArgument(u, a, x)
      PROVE  debate'[d] = debate[d] /\ ~Racing("debate", d, debate[d])'
  BY <1>7 DEF BeginUpdateArgument, Racing
<1>8. ASSUME NEW u \in Accounts, NEW x \in Texts, NEW e \in DebateIds,
             BeginUpdateDebate(u, e, x)
      PROVE  debate'[d] = debate[d] /\ ~Racing("debate", d, debate[d])'
  <2>1. debate' = debate
    BY <1>8 DEF BeginUpdateDebate
  <2>2. ASSUME NEW s \in updates', s.table = "debate", s.id = d,
               s.ticketId = debate[d].ticketId
        PROVE  FALSE
    <3>1. s \notin updates
      BY <2>2 DEF Racing
    <3>2. s.id = e /\ s.ticketId = debate[e].ticketId
      BY <1>8, <2>2, <3>1 DEF BeginUpdateDebate
    <3> QED
      BY <1>1, <1>8, <2>2, <3>2 DEF BeginUpdateDebate, Editable
  <2> QED
    BY <2>1, <2>2 DEF Racing
<1>9. ASSUME NEW s \in updates, FinishUpdateArgument(s) \/ FinishUpdateDebate(s)
      PROVE  debate'[d] = debate[d] /\ updates' \subseteq updates
  <2>1. CASE FinishUpdateArgument(s)
    BY <2>1 DEF FinishUpdateArgument
  <2>2. CASE FinishUpdateDebate(s)
    BY <1>1, <2>2 DEF FinishUpdateDebate, Racing, IInv, TypeOK, IsTable
  <2> QED
    BY <1>9, <2>1, <2>2
<1>10. ASSUME ModeratorStep
       PROVE  debate'[d] = debate[d] /\ updates' \subseteq updates
  BY <1>10 DEF ModeratorStep, Moderate, UpdateTicket, ApproveTicket
<1>11. CASE AuthorStep
  BY <1>2, <1>3, <1>4, <1>5, <1>6, <1>7, <1>8, <1>11 DEF AuthorStep
<1> QED
  BY <1>2, <1>9, <1>10, <1>11 DEF Next, DatabaseStep

\* No edit that begins after the approval of an item, and no resubmission, changes
\* what is public.
THEOREM PublishedIsFrozen == Spec => PublishedFrozen
<1>1. IInv /\ [Next]_vars => [ArgumentsFrozen /\ DebatesFrozen]_vars
  BY ArgumentsFrozenStep, DebatesFrozenStep
<1> QED
  BY <1>1, Consistent, PTL DEF Spec, PublishedFrozen

-----------------------------------------------------------------------------
(* The refinement: every step of LifecycleSpec is, seen through the mapping, *)
(* a step of ReviewLifecycle or none.  That an item's ticket is in the table *)
(* and is no other item's comes from the invariant.                          *)

\* The lists of the board and the stages of an item are the same four.
LEMMA ListsAreStages ==
    ASSUME NEW list \in BoardLists
    PROVE  /\ StageOfList(list) \in {"waiting", "in review", "canceled", "published"}
           /\ list = "PENDING" <=> StageOfList(list) = "waiting"
           /\ list = "ACCEPTED" => StageOfList(list) = "published"
  BY DEF BoardLists, StageOfList

-----------------------------------------------------------------------------
(* Arguments.                                                              *)

SameStage(a) ==
    argumentStage'[a] = argumentStage[a] /\ argumentHolder'[a] = argumentHolder[a]

SameArgument(a) == SameStage(a) /\ argumentText'[a] = argumentText[a]

\* What is known of an argument is what its row and its ticket say.
LEMMA ArgumentViews ==
    /\ argumentStage = [a \in ArgumentIds |-> argumentStage[a]]
    /\ argumentHolder = [a \in ArgumentIds |-> argumentHolder[a]]
    /\ argumentText = [a \in ArgumentIds |-> argumentText[a]]
    /\ \A a \in ArgumentIds :
         /\ a \notin DOMAIN argument => argumentStage[a] = "absent"
         /\ a \in DOMAIN argument => argumentText[a] = argument[a].text
         /\ a \in DOMAIN argument /\ argument[a].isDraft => argumentStage[a] = "draft"
         /\ a \in DOMAIN argument /\ ~argument[a].isDraft =>
              /\ argumentStage[a] = StageOfList(ticket[argument[a].ticketId].boardList)
              /\ argumentHolder[a] = ticket[argument[a].ticketId].assignedTo
  BY DEF argumentStage, argumentHolder, argumentText

\* An argument whose row and ticket stay is where it was, in the same hands.
LEMMA KeepStage ==
    ASSUME IInv, NEW a \in ArgumentIds,
           a \in DOMAIN argument <=> a \in DOMAIN argument',
           a \in DOMAIN argument =>
               /\ argument'[a].isDraft = argument[a].isDraft
               /\ argument'[a].ticketId = argument[a].ticketId
               /\ argument[a].ticketId \in DOMAIN ticket =>
                    ticket'[argument[a].ticketId] = ticket[argument[a].ticketId]
    PROVE  SameStage(a)
<1>1. CASE a \notin DOMAIN argument
  BY <1>1 DEF SameStage, argumentStage, argumentHolder
<1>2. CASE a \in DOMAIN argument /\ argument[a].isDraft
  BY <1>2 DEF SameStage, argumentStage, argumentHolder
<1>3. CASE a \in DOMAIN argument /\ ~argument[a].isDraft
  <2>1. argument[a].ticketId \in DOMAIN ticket
    BY <1>3 DEF IInv, TicketOfItsAuthor, DraftIffNoTicket
  <2>2. ticket'[argument'[a].ticketId] = ticket[argument[a].ticketId]
    BY <1>3, <2>1
  <2> QED
    BY <1>3, <2>2 DEF SameStage, argumentStage, argumentHolder
<1> QED
  BY <1>1, <1>2, <1>3

\* And if its text stays too, it is the same.
LEMMA KeepArgument ==
    ASSUME IInv, NEW a \in ArgumentIds,
           a \in DOMAIN argument <=> a \in DOMAIN argument',
           a \in DOMAIN argument =>
               /\ argument'[a] = argument[a]
               /\ argument[a].ticketId \in DOMAIN ticket =>
                    ticket'[argument[a].ticketId] = ticket[argument[a].ticketId]
    PROVE  SameArgument(a)
<1>1. SameStage(a)
  BY KeepStage
<1>2. argumentText'[a] = argumentText[a]
  BY DEF argumentText
<1> QED
  BY <1>1, <1>2 DEF SameArgument

\* If every argument is the same, nothing has happened to the arguments.
LEMMA KeepArguments ==
    ASSUME \A a \in ArgumentIds : SameArgument(a)
    PROVE  UNCHANGED <<argumentStage, argumentHolder, argumentText>>
  BY ArgumentViews DEF SameArgument, SameStage, argumentStage, argumentHolder, argumentText

\* A submission makes a waiting argument of a row, whatever it was before.
LEMMA HandInArgument ==
    ASSUME NEW a \in ArgumentIds, NEW x \in Texts, NEW u, NEW t,
           a \in DOMAIN argument',
           ~argument'[a].isDraft, argument'[a].ticketId = t, argument'[a].text = x,
           ticket'[t] = NewTicket(u),
           \A b \in ArgumentIds \ {a} : SameArgument(b)
    PROVE  Argument!HandIn(a, x)
<1>1. ticket'[t].boardList = "PENDING" /\ ticket'[t].assignedTo = Null
  BY DEF NewTicket
<1>2. argumentStage'[a] = "waiting"
  <2>1. argumentStage'[a] = StageOfList(ticket'[t].boardList)
    BY DEF argumentStage
  <2> QED
    BY <1>1, <2>1, ListsAreStages DEF BoardLists
<1>3. argumentHolder'[a] = Null
  BY <1>1 DEF argumentHolder
<1>4. argumentText'[a] = x
  BY DEF argumentText
<1> QED
  BY <1>2, <1>3, <1>4 DEF Argument!HandIn, SameArgument, SameStage, argumentStage,
                          argumentHolder, argumentText

\* createArgument
LEMMA CreateArgumentMaps ==
    ASSUME IInv, NEW u \in Accounts, NEW d \in DebateIds, NEW x \in Texts,
           CreateArgument(u, d, x)
    PROVE  \E a \in ArgumentIds : Argument!HandIn(a, x)
<1>1. PICK t \in NextId(TicketIds, ticket), a \in NextId(ArgumentIds, argument) :
          /\ ticket' = Insert(ticket, t, NewTicket(u))
          /\ argument' = Insert(argument, a,
                                [debateId |-> d, ticketId |-> t, text |-> x,
                                 createdBy |-> u, isDraft |-> FALSE])
  BY DEF CreateArgument
<1>2. a \in ArgumentIds /\ a \notin DOMAIN argument
  BY DEF NextId
<1>3. ticket'[t] = NewTicket(u) /\ \A i \in DOMAIN ticket : ticket'[i] = ticket[i]
  BY <1>1, InsertTicket DEF IInv
<1>4. /\ DOMAIN argument' = DOMAIN argument \cup {a}
      /\ argument'[a] = [debateId |-> d, ticketId |-> t, text |-> x,
                         createdBy |-> u, isDraft |-> FALSE]
      /\ \A b \in DOMAIN argument : argument'[b] = argument[b]
  BY <1>1, <1>2 DEF Insert
<1>5. \A b \in ArgumentIds \ {a} : SameArgument(b)
  BY <1>3, <1>4, KeepArgument
<1>6. Argument!HandIn(a, x)
  BY <1>2, <1>3, <1>4, <1>5, HandInArgument
<1> QED
  BY <1>2, <1>6

\* saveArgumentAsDraft
LEMMA SaveArgumentAsDraftMaps ==
    ASSUME IInv, NEW u \in Accounts, NEW d \in DebateIds, NEW x \in Texts,
           SaveArgumentAsDraft(u, d, x)
    PROVE  \E a \in ArgumentIds : Argument!Draft(a, x)
<1>1. PICK a \in NextId(ArgumentIds, argument) :
          argument' = Insert(argument, a,
                             [debateId |-> d, ticketId |-> Null, text |-> x,
                              createdBy |-> u, isDraft |-> TRUE])
  BY DEF SaveArgumentAsDraft
<1>2. a \in ArgumentIds /\ a \notin DOMAIN argument /\ ticket' = ticket
  BY DEF NextId, SaveArgumentAsDraft
<1>3. /\ DOMAIN argument' = DOMAIN argument \cup {a}
      /\ argument'[a].isDraft /\ argument'[a].text = x
      /\ \A b \in DOMAIN argument : argument'[b] = argument[b]
  BY <1>1, <1>2 DEF Insert
<1>4. \A b \in ArgumentIds \ {a} : SameArgument(b)
  BY <1>2, <1>3, KeepArgument
<1>5. argumentStage[a] = "absent" /\ argumentHolder[a] = Null
  BY <1>2 DEF argumentStage, argumentHolder
<1>6. argumentStage'[a] = "draft" /\ argumentHolder'[a] = Null /\ argumentText'[a] = x
  BY <1>2, <1>3 DEF argumentStage, argumentHolder, argumentText
<1>7. Argument!Draft(a, x)
  <2>1. argumentStage' = [argumentStage EXCEPT ![a] = "draft"]
    BY <1>4, <1>6 DEF SameArgument, SameStage, argumentStage
  <2>2. argumentHolder' = argumentHolder
    BY <1>4, <1>5, <1>6 DEF SameArgument, SameStage, argumentHolder
  <2>3. argumentText' = [argumentText EXCEPT ![a] = x]
    BY <1>4, <1>6 DEF SameArgument, argumentText
  <2> QED
    BY <1>5, <2>1, <2>2, <2>3 DEF Argument!Draft
<1> QED
  BY <1>2, <1>7

\* submitDraft: of a draft or of what was submitted before, or of nothing.
LEMMA SubmitDraftMaps ==
    ASSUME IInv, NEW u \in Accounts, NEW d \in DebateIds, NEW a \in ArgumentIds,
           NEW x \in Texts, SubmitDraft(u, d, a, x)
    PROVE  \/ Argument!HandIn(a, x)
           \/ UNCHANGED <<argumentStage, argumentHolder, argumentText>>
<1>1. PICK t \in NextId(TicketIds, ticket) :
          /\ ticket' = Insert(ticket, t, NewTicket(u))
          /\ argument' = Submitted(u, d, a, x, t)
  BY DEF SubmitDraft
<1>2. ticket'[t] = NewTicket(u) /\ \A i \in DOMAIN ticket : ticket'[i] = ticket[i]
  BY <1>1, InsertTicket DEF IInv
<1>3. \A b \in DOMAIN argument : argument[b] \in ArgumentRow
  BY DEF IInv, TypeOK, IsTable
<1>4. CASE argument' = argument
  <2>1. \A b \in ArgumentIds : SameArgument(b)
    BY <1>2, <1>4, KeepArgument
  <2> QED
    BY <2>1, KeepArguments
<1>5. CASE argument' # argument
  <2>1. /\ a \in DOMAIN argument
        /\ argument' = [argument EXCEPT ![a].isDraft = FALSE, ![a].text = x,
                                        ![a].ticketId = t]
    BY <1>1, <1>5 DEF Submitted
  <2>2. /\ DOMAIN argument' = DOMAIN argument
        /\ ~argument'[a].isDraft /\ argument'[a].text = x /\ argument'[a].ticketId = t
        /\ \A b \in DOMAIN argument \ {a} : argument'[b] = argument[b]
    BY <1>3, <2>1 DEF ArgumentRow
  <2>3. \A b \in ArgumentIds \ {a} : SameArgument(b)
    BY <1>2, <2>2, KeepArgument
  <2> QED
    BY <1>2, <2>1, <2>2, <2>3, HandInArgument
<1> QED
  BY <1>4, <1>5
\* updateDraft and the write of updateArgument: a new text, or none.
LEMMA RewriteMaps ==
    ASSUME IInv, NEW a, NEW x \in Texts, UNCHANGED ticket,
           argument' = argument \/ argument' = [argument EXCEPT ![a].text = x]
    PROVE  \/ a \in ArgumentIds /\ Argument!Rewrite(a, x)
           \/ UNCHANGED <<argumentStage, argumentHolder, argumentText>>
<1>1. /\ DOMAIN argument \subseteq ArgumentIds
      /\ argument = [b \in DOMAIN argument |-> argument[b]]
      /\ \A b \in DOMAIN argument : argument[b] \in ArgumentRow
  BY DEF IInv, TypeOK, IsTable
<1>2. CASE argument' = argument
  BY <1>2 DEF argumentStage, argumentHolder, argumentText
<1>3. CASE argument' # argument
  <2>1. a \in DOMAIN argument /\ argument' = [argument EXCEPT ![a].text = x]
    BY <1>1, <1>3
  <2>2. /\ DOMAIN argument' = DOMAIN argument
        /\ argument'[a].text = x
        /\ argument'[a].isDraft = argument[a].isDraft
        /\ argument'[a].ticketId = argument[a].ticketId
        /\ \A b \in DOMAIN argument \ {a} : argument'[b] = argument[b]
    BY <1>1, <2>1 DEF ArgumentRow
  <2>3. a \in ArgumentIds
    BY <1>1, <2>1
  <2>4. SameStage(a) /\ \A b \in ArgumentIds \ {a} : SameArgument(b)
    BY <2>2, <2>3, KeepStage, KeepArgument
  <2>5. argumentText'[a] = x
    BY <2>1, <2>2, <2>3 DEF argumentText
  <2>6. argumentStage[a] # "absent"
    <3>1. CASE argument[a].isDraft
      BY <2>1, <2>3, <3>1 DEF argumentStage
    <3>2. CASE ~argument[a].isDraft
      <4>1. argument[a].ticketId \in DOMAIN ticket
        BY <2>1, <3>2 DEF IInv, TicketOfItsAuthor, DraftIffNoTicket
      <4>2. ticket[argument[a].ticketId].boardList \in BoardLists
        BY <4>1 DEF IInv, TypeOK, IsTable, TicketRow
      <4>3. argumentStage[a] = StageOfList(ticket[argument[a].ticketId].boardList)
        BY <2>1, <2>3, <3>2 DEF argumentStage
      <4> QED
        BY <4>2, <4>3, ListsAreStages
    <3> QED
      BY <3>1, <3>2
  <2>7. Argument!Rewrite(a, x)
    <3>1. \A i \in ArgumentIds : argumentStage'[i] = argumentStage[i]
      BY <2>3, <2>4 DEF SameArgument, SameStage
    <3>2. \A i \in ArgumentIds : argumentHolder'[i] = argumentHolder[i]
      BY <2>3, <2>4 DEF SameArgument, SameStage
    <3>3. \A i \in ArgumentIds : argumentText'[i] = IF i = a THEN x ELSE argumentText[i]
      BY <2>3, <2>4, <2>5 DEF SameArgument
    <3>4. argumentStage' = argumentStage
      BY <3>1 DEF argumentStage
    <3>5. argumentHolder' = argumentHolder
      BY <3>2 DEF argumentHolder
    <3>6. argumentText' = [argumentText EXCEPT ![a] = x]
      BY <3>3 DEF argumentText
    <3> QED
      BY <2>6, <3>4, <3>5, <3>6 DEF Argument!Rewrite
  <2> QED
    BY <2>3, <2>7
<1> QED
  BY <1>2, <1>3

\* A write of a ticket concerns the one argument it is the ticket of, or none.
LEMMA TicketOfOne ==
    ASSUME IInv, NEW t \in DOMAIN ticket, UNCHANGED argument,
           \A i \in DOMAIN ticket \ {t} : ticket'[i] = ticket[i]
    PROVE  \/ UNCHANGED <<argumentStage, argumentHolder, argumentText>>
           \/ \E a \in ArgumentIds :
                 /\ a \in DOMAIN argument /\ ~argument[a].isDraft
                 /\ argument[a].ticketId = t
                 /\ argumentText'[a] = argumentText[a]
                 /\ \A b \in ArgumentIds \ {a} : SameArgument(b)
<1>1. CASE \A a \in DOMAIN argument : argument[a].ticketId # t
  <2>1. \A a \in ArgumentIds : SameArgument(a)
    BY <1>1, KeepArgument
  <2> QED
    BY <2>1, KeepArguments
<1>2. CASE \E a \in DOMAIN argument : argument[a].ticketId = t
  <2>1. PICK a \in DOMAIN argument : argument[a].ticketId = t
    BY <1>2
  <2>2. a \in ArgumentIds /\ t # Null
    BY NullNotAnId DEF IInv, TypeOK, IsTable
  <2>3. ~argument[a].isDraft
    BY <2>1, <2>2 DEF IInv, DraftIffNoTicket
  <2>4. \A b \in DOMAIN argument \ {a} : argument[b].ticketId # t
    BY <2>1, <2>2 DEF IInv, OneItemPerTicket
  <2>5. \A b \in ArgumentIds \ {a} : SameArgument(b)
    BY <2>4, KeepArgument
  <2>6. argumentText'[a] = argumentText[a]
    BY <2>2 DEF argumentText
  <2> QED
    BY <2>1, <2>2, <2>3, <2>5, <2>6
<1> QED
  BY <1>1, <1>2

\* What a moved ticket says: its list, and who is in charge.
LEMMA MovedViews ==
    ASSUME IInv, NEW m \in Moderators, NEW t \in DOMAIN ticket, NEW list \in BoardLists,
           ticket' = [ticket EXCEPT ![t] = MovedTo(ticket[t], m, list)]
    PROVE  /\ ticket'[t].boardList = list
           /\ ticket[t].boardList = "PENDING" => ticket'[t].assignedTo = m
           /\ ticket[t].boardList # "PENDING" /\ list = "PENDING" =>
                ticket'[t].assignedTo = Null
           /\ ticket[t].boardList # "PENDING" /\ list # "PENDING" =>
                ticket'[t].assignedTo = ticket[t].assignedTo
           /\ \A i \in DOMAIN ticket \ {t} : ticket'[i] = ticket[i]
<1>1. ticket[t] \in TicketRow /\ ticket = [i \in DOMAIN ticket |-> ticket[i]]
  BY DEF IInv, TypeOK, IsTable
<1>2. ticket'[t] = MovedTo(ticket[t], m, list)
      /\ \A i \in DOMAIN ticket \ {t} : ticket'[i] = ticket[i]
  BY <1>1
<1>3. MovedTo(ticket[t], m, list).boardList = list
  BY <1>1, MovedToType
<1>4. MovedTo(ticket[t], m, list).assignedTo =
        CASE ticket[t].boardList = "PENDING" -> m
          [] ticket[t].boardList # "PENDING" /\ list = "PENDING" -> Null
          [] OTHER -> ticket[t].assignedTo
  BY <1>1 DEF MovedTo, TicketRow
<1> QED
  BY <1>2, <1>3, <1>4

\* updateTicket: the moderator takes the argument, moves it or puts it back.
LEMMA UpdateTicketMaps ==
    ASSUME IInv, NEW m \in Moderators, NEW t \in TicketIds, NEW list \in BoardLists,
           UpdateTicket(m, t, list)
    PROVE  \/ UNCHANGED <<argumentStage, argumentHolder, argumentText>>
           \/ \E a \in ArgumentIds :
                 \/ \E s \in Argument!Stages : Argument!Take(m, a, s) \/ Argument!Move(m, a, s)
                 \/ Argument!PutBack(m, a)
<1> DEFINE old == ticket[t].boardList
<1>1. /\ t \in DOMAIN ticket /\ UNCHANGED argument
      /\ ticket' = [ticket EXCEPT ![t] = MovedTo(ticket[t], m, list)]
      /\ old = "PENDING" \/ ticket[t].assignedTo = m
  BY DEF UpdateTicket
<1>2. /\ ticket'[t].boardList = list
      /\ old = "PENDING" => ticket'[t].assignedTo = m
      /\ old # "PENDING" /\ list = "PENDING" => ticket'[t].assignedTo = Null
      /\ old # "PENDING" /\ list # "PENDING" =>
            ticket'[t].assignedTo = ticket[t].assignedTo
      /\ \A i \in DOMAIN ticket \ {t} : ticket'[i] = ticket[i]
  BY <1>1, MovedViews
<1>3. old \in BoardLists
  BY <1>1 DEF IInv, TypeOK, IsTable, TicketRow
<1> SUFFICES ASSUME NEW a \in ArgumentIds, a \in DOMAIN argument, ~argument[a].isDraft,
                    argument[a].ticketId = t,
                    argumentText'[a] = argumentText[a],
                    \A b \in ArgumentIds \ {a} : SameArgument(b)
             PROVE  \/ \E s \in Argument!Stages :
                          Argument!Take(m, a, s) \/ Argument!Move(m, a, s)
                    \/ Argument!PutBack(m, a)
  BY <1>1, <1>2, TicketOfOne
<1>4. /\ argumentStage[a] = StageOfList(old)
      /\ argumentHolder[a] = ticket[t].assignedTo
      /\ argumentStage'[a] = StageOfList(list)
      /\ argumentHolder'[a] = ticket'[t].assignedTo
  BY <1>1, <1>2 DEF argumentStage, argumentHolder
<1> HIDE DEF old
<1> DEFINE s == StageOfList(list)
<1>5. /\ s \in {"waiting"} \cup Argument!Decided
      /\ list = "PENDING" <=> s = "waiting"
      /\ StageOfList(old) \in {"waiting"} \cup Argument!Decided
      /\ old = "PENDING" <=> StageOfList(old) = "waiting"
  BY <1>3, ListsAreStages DEF Argument!Decided
<1>6. s \in Argument!Stages
  BY <1>5 DEF Argument!Stages
<1> HIDE DEF s
<1>7. /\ argumentStage' = [argumentStage EXCEPT ![a] = argumentStage'[a]]
      /\ argumentHolder' = [argumentHolder EXCEPT ![a] = argumentHolder'[a]]
      /\ argumentText' = argumentText
  BY DEF SameArgument, SameStage, argumentStage, argumentHolder, argumentText
<1>8. CASE old = "PENDING"
  <2>1. argumentHolder'[a] = m /\ argumentStage'[a] = s /\ argumentStage[a] = "waiting"
    BY <1>2, <1>4, <1>5, <1>8 DEF s
  <2>2. Argument!Take(m, a, s)
    BY <1>5, <1>7, <2>1 DEF Argument!Take
  <2> QED
    BY <1>6, <2>2
<1>9. CASE old # "PENDING" /\ list = "PENDING"
  <2>1. /\ argumentHolder[a] = m /\ argumentHolder'[a] = Null
        /\ argumentStage'[a] = "waiting" /\ argumentStage[a] \in Argument!Decided
    BY <1>1, <1>2, <1>4, <1>5, <1>9 DEF s
  <2>2. Argument!PutBack(m, a)
    BY <1>7, <2>1 DEF Argument!PutBack
  <2> QED
    BY <2>2
<1>10. CASE old # "PENDING" /\ list # "PENDING"
  <2>1. /\ argumentHolder[a] = m /\ argumentHolder'[a] = argumentHolder[a]
        /\ argumentStage'[a] = s /\ s \in Argument!Decided
        /\ argumentStage[a] \in Argument!Decided
    BY <1>1, <1>2, <1>4, <1>5, <1>10 DEF s
  <2>2. argumentHolder' = argumentHolder
    BY <1>7, <2>1 DEF argumentHolder
  <2>3. Argument!Move(m, a, s)
    BY <1>7, <2>1, <2>2 DEF Argument!Move
  <2> QED
    BY <1>6, <2>3
<1> QED
  BY <1>8, <1>9, <1>10

\* approveTicket: the moderator in charge publishes the argument.
LEMMA ApproveTicketMaps ==
    ASSUME IInv, NEW m \in Moderators, NEW t \in TicketIds, ApproveTicket(m, t)
    PROVE  \/ UNCHANGED <<argumentStage, argumentHolder, argumentText>>
           \/ \E a \in ArgumentIds : Argument!Publish(m, a)
<1>1. /\ t \in DOMAIN ticket /\ UNCHANGED argument /\ ticket[t].assignedTo = m
      /\ ticket' = [ticket EXCEPT ![t].boardList = "ACCEPTED"]
  BY DEF ApproveTicket
<1>2. ticket[t] \in TicketRow /\ ticket = [i \in DOMAIN ticket |-> ticket[i]]
  BY <1>1 DEF IInv, TypeOK, IsTable
<1>3. /\ ticket'[t].boardList = "ACCEPTED" /\ ticket'[t].assignedTo = m
      /\ \A i \in DOMAIN ticket \ {t} : ticket'[i] = ticket[i]
  BY <1>1, <1>2 DEF TicketRow
<1> SUFFICES ASSUME NEW a \in ArgumentIds, a \in DOMAIN argument, ~argument[a].isDraft,
                    argument[a].ticketId = t,
                    argumentText'[a] = argumentText[a],
                    \A b \in ArgumentIds \ {a} : SameArgument(b)
             PROVE  Argument!Publish(m, a)
  BY <1>1, <1>3, TicketOfOne
<1>4. /\ argumentHolder[a] = m /\ argumentHolder'[a] = m
      /\ argumentStage'[a] = StageOfList("ACCEPTED")
  BY <1>1, <1>3 DEF argumentStage, argumentHolder
<1>5. argumentStage'[a] = "published"
  BY <1>4, ListsAreStages DEF BoardLists
<1> QED
  BY <1>4, <1>5 DEF Argument!Publish, SameArgument, SameStage, argumentStage,
                    argumentHolder, argumentText
\* Every step of authors, database and moderators is a step of one argument, or
\* of none.
LEMMA ArgumentStep == IInv /\ [LifecycleNext]_<<vars, by>> => [Argument!Next]_(Argument!vars)
<1> SUFFICES ASSUME IInv, [LifecycleNext]_<<vars, by>>
             PROVE  Argument!Next \/ UNCHANGED Argument!vars
  OBVIOUS
<1> DEFINE Nothing == UNCHANGED <<argumentStage, argumentHolder, argumentText>>
           ByAuthor == \/ Nothing
                       \/ \E a \in ArgumentIds, x \in Texts :
                             \/ Argument!Draft(a, x) \/ Argument!HandIn(a, x)
                             \/ Argument!Rewrite(a, x)
           ByModerator(m) ==
               \/ Nothing
               \/ \E a \in ArgumentIds :
                     \/ \E s \in Argument!Stages :
                           Argument!Take(m, a, s) \/ Argument!Move(m, a, s)
                     \/ Argument!PutBack(m, a)
                     \/ Argument!Publish(m, a)
<1>1. ASSUME NEW u \in Accounts, NEW x \in Texts, CreateDebate(u, x)
      PROVE  Nothing
  <2>1. /\ UNCHANGED argument
        /\ \A i \in DOMAIN ticket : ticket'[i] = ticket[i]
    BY <1>1, InsertTicket DEF IInv, CreateDebate
  <2>2. \A a \in ArgumentIds : SameArgument(a)
    BY <2>1, KeepArgument
  <2> QED
    BY <2>2, KeepArguments
<1>2. ASSUME NEW u \in Accounts, NEW x \in Texts, NEW d \in DebateIds,
             CreateArgument(u, d, x) \/ SaveArgumentAsDraft(u, d, x)
      PROVE  ByAuthor
  BY <1>2, CreateArgumentMaps, SaveArgumentAsDraftMaps
<1>3. ASSUME NEW u \in Accounts, NEW x \in Texts, NEW a \in ArgumentIds,
             UpdateDraft(u, a, x)
      PROVE  ByAuthor
  <2>1. UNCHANGED ticket /\ argument' = [argument EXCEPT ![a].text = x]
    BY <1>3 DEF UpdateDraft
  <2> QED
    BY <2>1, RewriteMaps
<1>4. ASSUME NEW u \in Accounts, NEW x \in Texts, NEW a \in ArgumentIds,
             NEW d \in DebateIds, SubmitDraft(u, d, a, x)
      PROVE  ByAuthor
  BY <1>4, SubmitDraftMaps
<1>5. ASSUME UNCHANGED <<ticket, argument>>
      PROVE  Nothing
  BY <1>5 DEF argumentStage, argumentHolder, argumentText
<1>6. ASSUME NEW u \in Accounts, NEW x \in Texts,
             \/ \E d \in DebateIds : BeginUpdateDebate(u, d, x)
             \/ \E a \in ArgumentIds : BeginUpdateArgument(u, a, x)
      PROVE  Nothing
  BY <1>5, <1>6 DEF BeginUpdateDebate, BeginUpdateArgument
<1>7. ASSUME NEW s \in updates, FinishUpdateArgument(s)
      PROVE  ByAuthor
  <2>1. s.text \in Texts
    BY DEF IInv, TypeOK, UpdateStatement
  <2>2. UNCHANGED ticket
        /\ (argument' = argument \/ argument' = [argument EXCEPT ![s.id].text = s.text])
    BY <1>7 DEF FinishUpdateArgument
  <2> QED
    BY <2>1, <2>2, RewriteMaps
<1>8. ASSUME NEW s \in updates, FinishUpdateDebate(s)
      PROVE  Nothing
  BY <1>5, <1>8 DEF FinishUpdateDebate
<1>9. ASSUME AuthorStep \/ DatabaseStep
      PROVE  ByAuthor
  <2>1. CASE AuthorStep
    BY <1>1, <1>2, <1>3, <1>4, <1>6, <2>1 DEF AuthorStep
  <2>2. CASE DatabaseStep
    BY <1>7, <1>8, <2>2 DEF DatabaseStep
  <2> QED
    BY <1>9, <2>1, <2>2
<1>10. ASSUME NEW m \in Moderators, Moderate(m)
       PROVE  ByModerator(m)
  BY <1>10, UpdateTicketMaps, ApproveTicketMaps DEF Moderate
<1>11. CASE (AuthorStep \/ DatabaseStep) /\ by' = Null
  <2>1. ByAuthor
    BY <1>9, <1>11
  <2> QED
    BY <1>11, <2>1 DEF Argument!Next
<1>12. ASSUME NEW m \in Moderators, Moderate(m), by' = m
       PROVE  Argument!Next
  <2>1. ByModerator(m)
    BY <1>10, <1>12
  <2> QED
    BY <1>12, <2>1 DEF Argument!Next
<1>13. CASE UNCHANGED <<vars, by>>
  <2>1. UNCHANGED <<ticket, argument, by>>
    BY <1>13 DEF vars
  <2> QED
    BY <1>5, <2>1 DEF Argument!vars
<1> QED
  BY <1>11, <1>12, <1>13 DEF LifecycleNext

\* The tables are consistent, whoever made the last step.
LEMMA LifecycleIInv == LifecycleSpec => []IInv
<1>1. LifecycleInit => IInv
  BY InitIInv DEF LifecycleInit
<1>2. IInv /\ [LifecycleNext]_<<vars, by>> => IInv'
  <2>1. LifecycleNext => Next
    BY DEF LifecycleNext, Next, ModeratorStep
  <2>2. UNCHANGED <<vars, by>> => UNCHANGED vars
    OBVIOUS
  <2> QED
    BY <2>1, <2>2, NextIInv
<1> QED
  BY <1>1, <1>2, PTL DEF LifecycleSpec

\* Only the moderator in charge of an argument decides about it or publishes it,
\* whatever is resubmitted, edited or moved meanwhile (DebatesService,
\* ModeratorService): the tables implement ReviewLifecycle for all arguments.
THEOREM ArgumentsImplement == LifecycleSpec => ArgumentLifecycle
<1>1. LifecycleInit => Argument!Init
  BY DEF LifecycleInit, Init, EmptyTable, Argument!Init, argumentStage, argumentHolder,
         argumentText
<1> QED
  BY <1>1, ArgumentStep, LifecycleIInv, PTL
     DEF LifecycleSpec, ArgumentLifecycle, Argument!Spec
-----------------------------------------------------------------------------
(* Debates, which have no drafts and are not submitted anew.               *)

SameDebateStage(d) ==
    debateStage'[d] = debateStage[d] /\ debateHolder'[d] = debateHolder[d]

SameDebate(d) == SameDebateStage(d) /\ debateTitle'[d] = debateTitle[d]

\* A debate whose row and ticket stay is where it was, in the same hands.
LEMMA KeepDebateStage ==
    ASSUME IInv, NEW d \in DebateIds,
           d \in DOMAIN debate <=> d \in DOMAIN debate',
           d \in DOMAIN debate =>
               /\ debate'[d].ticketId = debate[d].ticketId
               /\ debate[d].ticketId \in DOMAIN ticket =>
                    ticket'[debate[d].ticketId] = ticket[debate[d].ticketId]
    PROVE  SameDebateStage(d)
<1>1. CASE d \notin DOMAIN debate
  BY <1>1 DEF SameDebateStage, debateStage, debateHolder
<1>2. CASE d \in DOMAIN debate
  <2>1. debate[d].ticketId \in DOMAIN ticket
    BY <1>2 DEF IInv, TicketOfItsAuthor
  <2>2. ticket'[debate'[d].ticketId] = ticket[debate[d].ticketId]
    BY <1>2, <2>1
  <2> QED
    BY <1>2, <2>2 DEF SameDebateStage, debateStage, debateHolder
<1> QED
  BY <1>1, <1>2

\* And if its title stays too, it is the same.
LEMMA KeepDebate ==
    ASSUME IInv, NEW d \in DebateIds,
           d \in DOMAIN debate <=> d \in DOMAIN debate',
           d \in DOMAIN debate =>
               /\ debate'[d] = debate[d]
               /\ debate[d].ticketId \in DOMAIN ticket =>
                    ticket'[debate[d].ticketId] = ticket[debate[d].ticketId]
    PROVE  SameDebate(d)
<1>1. SameDebateStage(d)
  BY KeepDebateStage
<1>2. debateTitle'[d] = debateTitle[d]
  BY DEF debateTitle
<1> QED
  BY <1>1, <1>2 DEF SameDebate

\* If every debate is the same, nothing has happened to the debates.
LEMMA KeepDebates ==
    ASSUME \A d \in DebateIds : SameDebate(d)
    PROVE  UNCHANGED <<debateStage, debateHolder, debateTitle>>
  BY DEF SameDebate, SameDebateStage, debateStage, debateHolder, debateTitle

\* createDebate
LEMMA CreateDebateMaps ==
    ASSUME IInv, NEW u \in Accounts, NEW x \in Texts, CreateDebate(u, x)
    PROVE  \E d \in DebateIds : Debate!HandIn(d, x)
<1>1. PICK t \in NextId(TicketIds, ticket), d \in NextId(DebateIds, debate) :
          /\ ticket' = Insert(ticket, t, NewTicket(u))
          /\ debate' = Insert(debate, d, [ticketId |-> t, title |-> x, createdBy |-> u])
  BY DEF CreateDebate
<1>2. d \in DebateIds /\ d \notin DOMAIN debate
  BY DEF NextId
<1>3. ticket'[t] = NewTicket(u) /\ \A i \in DOMAIN ticket : ticket'[i] = ticket[i]
  BY <1>1, InsertTicket DEF IInv
<1>4. /\ DOMAIN debate' = DOMAIN debate \cup {d}
      /\ debate'[d].ticketId = t /\ debate'[d].title = x
      /\ \A e \in DOMAIN debate : debate'[e] = debate[e]
  BY <1>1, <1>2 DEF Insert
<1>5. \A e \in DebateIds \ {d} : SameDebate(e)
  BY <1>3, <1>4, KeepDebate
<1>6. ticket'[t].boardList = "PENDING" /\ ticket'[t].assignedTo = Null
  BY <1>3 DEF NewTicket
<1>7. debateStage'[d] = "waiting"
  <2>1. debateStage'[d] = StageOfList(ticket'[t].boardList)
    BY <1>2, <1>4 DEF debateStage
  <2> QED
    BY <1>6, <2>1, ListsAreStages DEF BoardLists
<1>8. debateHolder'[d] = Null /\ debateTitle'[d] = x
  BY <1>2, <1>4, <1>6 DEF debateHolder, debateTitle
<1>9. Debate!HandIn(d, x)
  BY <1>5, <1>7, <1>8 DEF Debate!HandIn, SameDebate, SameDebateStage, debateStage,
                          debateHolder, debateTitle
<1> QED
  BY <1>2, <1>9

\* The write of updateDebate: a new title, or none.
LEMMA RewriteDebateMaps ==
    ASSUME IInv, NEW d, NEW x \in Texts, UNCHANGED ticket,
           debate' = debate \/ debate' = [debate EXCEPT ![d].title = x]
    PROVE  \/ d \in DebateIds /\ Debate!Rewrite(d, x)
           \/ UNCHANGED <<debateStage, debateHolder, debateTitle>>
<1>1. /\ DOMAIN debate \subseteq DebateIds
      /\ debate = [e \in DOMAIN debate |-> debate[e]]
      /\ \A e \in DOMAIN debate : debate[e] \in DebateRow
  BY DEF IInv, TypeOK, IsTable
<1>2. CASE debate' = debate
  BY <1>2 DEF debateStage, debateHolder, debateTitle
<1>3. CASE debate' # debate
  <2>1. d \in DOMAIN debate /\ debate' = [debate EXCEPT ![d].title = x]
    BY <1>1, <1>3
  <2>2. /\ DOMAIN debate' = DOMAIN debate
        /\ debate'[d].title = x
        /\ debate'[d].ticketId = debate[d].ticketId
        /\ \A e \in DOMAIN debate \ {d} : debate'[e] = debate[e]
    BY <1>1, <2>1 DEF DebateRow
  <2>3. d \in DebateIds
    BY <1>1, <2>1
  <2>4. SameDebateStage(d) /\ \A e \in DebateIds \ {d} : SameDebate(e)
    BY <2>2, <2>3, KeepDebateStage, KeepDebate
  <2>5. debateTitle'[d] = x
    BY <2>1, <2>2, <2>3 DEF debateTitle
  <2>6. debateStage[d] # "absent"
    <3>1. debate[d].ticketId \in DOMAIN ticket
      BY <2>1 DEF IInv, TicketOfItsAuthor
    <3>2. ticket[debate[d].ticketId].boardList \in BoardLists
      BY <3>1 DEF IInv, TypeOK, IsTable, TicketRow
    <3>3. debateStage[d] = StageOfList(ticket[debate[d].ticketId].boardList)
      BY <2>1, <2>3 DEF debateStage
    <3> QED
      BY <3>2, <3>3, ListsAreStages
  <2>7. Debate!Rewrite(d, x)
    <3>1. \A i \in DebateIds : debateStage'[i] = debateStage[i]
      BY <2>3, <2>4 DEF SameDebate, SameDebateStage
    <3>2. \A i \in DebateIds : debateHolder'[i] = debateHolder[i]
      BY <2>3, <2>4 DEF SameDebate, SameDebateStage
    <3>3. \A i \in DebateIds : debateTitle'[i] = IF i = d THEN x ELSE debateTitle[i]
      BY <2>3, <2>4, <2>5 DEF SameDebate
    <3>4. debateStage' = debateStage
      BY <3>1 DEF debateStage
    <3>5. debateHolder' = debateHolder
      BY <3>2 DEF debateHolder
    <3>6. debateTitle' = [debateTitle EXCEPT ![d] = x]
      BY <3>3 DEF debateTitle
    <3> QED
      BY <2>6, <3>4, <3>5, <3>6 DEF Debate!Rewrite
  <2> QED
    BY <2>3, <2>7
<1> QED
  BY <1>2, <1>3

\* A write of a ticket concerns the one debate it is the ticket of, or none.
LEMMA TicketOfOneDebate ==
    ASSUME IInv, NEW t \in DOMAIN ticket, UNCHANGED debate,
           \A i \in DOMAIN ticket \ {t} : ticket'[i] = ticket[i]
    PROVE  \/ UNCHANGED <<debateStage, debateHolder, debateTitle>>
           \/ \E d \in DebateIds :
                 /\ d \in DOMAIN debate /\ debate[d].ticketId = t
                 /\ debateTitle'[d] = debateTitle[d]
                 /\ \A e \in DebateIds \ {d} : SameDebate(e)
<1>1. CASE \A d \in DOMAIN debate : debate[d].ticketId # t
  <2>1. \A d \in DebateIds : SameDebate(d)
    BY <1>1, KeepDebate
  <2> QED
    BY <2>1, KeepDebates
<1>2. CASE \E d \in DOMAIN debate : debate[d].ticketId = t
  <2>1. PICK d \in DOMAIN debate : debate[d].ticketId = t
    BY <1>2
  <2>2. d \in DebateIds
    BY DEF IInv, TypeOK, IsTable
  <2>3. \A e \in DOMAIN debate \ {d} : debate[e].ticketId # t
    BY <2>1 DEF IInv, OneItemPerTicket
  <2>4. \A e \in DebateIds \ {d} : SameDebate(e)
    BY <2>3, KeepDebate
  <2>5. debateTitle'[d] = debateTitle[d]
    BY <2>2 DEF debateTitle
  <2> QED
    BY <2>1, <2>2, <2>4, <2>5
<1> QED
  BY <1>1, <1>2

\* updateTicket: the moderator takes the debate, moves it or puts it back.
LEMMA UpdateDebateTicketMaps ==
    ASSUME IInv, NEW m \in Moderators, NEW t \in TicketIds, NEW list \in BoardLists,
           UpdateTicket(m, t, list)
    PROVE  \/ UNCHANGED <<debateStage, debateHolder, debateTitle>>
           \/ \E d \in DebateIds :
                 \/ \E s \in Debate!Stages : Debate!Take(m, d, s) \/ Debate!Move(m, d, s)
                 \/ Debate!PutBack(m, d)
<1> DEFINE old == ticket[t].boardList
<1>1. /\ t \in DOMAIN ticket /\ UNCHANGED debate
      /\ ticket' = [ticket EXCEPT ![t] = MovedTo(ticket[t], m, list)]
      /\ old = "PENDING" \/ ticket[t].assignedTo = m
  BY DEF UpdateTicket
<1>2. /\ ticket'[t].boardList = list
      /\ old = "PENDING" => ticket'[t].assignedTo = m
      /\ old # "PENDING" /\ list = "PENDING" => ticket'[t].assignedTo = Null
      /\ old # "PENDING" /\ list # "PENDING" =>
            ticket'[t].assignedTo = ticket[t].assignedTo
      /\ \A i \in DOMAIN ticket \ {t} : ticket'[i] = ticket[i]
  BY <1>1, MovedViews
<1>3. old \in BoardLists
  BY <1>1 DEF IInv, TypeOK, IsTable, TicketRow
<1> SUFFICES ASSUME NEW d \in DebateIds, d \in DOMAIN debate, debate[d].ticketId = t,
                    debateTitle'[d] = debateTitle[d],
                    \A e \in DebateIds \ {d} : SameDebate(e)
             PROVE  \/ \E s \in Debate!Stages :
                          Debate!Take(m, d, s) \/ Debate!Move(m, d, s)
                    \/ Debate!PutBack(m, d)
  BY <1>1, <1>2, TicketOfOneDebate
<1>4. /\ debateStage[d] = StageOfList(old)
      /\ debateHolder[d] = ticket[t].assignedTo
      /\ debateStage'[d] = StageOfList(list)
      /\ debateHolder'[d] = ticket'[t].assignedTo
  BY <1>1, <1>2 DEF debateStage, debateHolder
<1> HIDE DEF old
<1> DEFINE s == StageOfList(list)
<1>5. /\ s \in {"waiting"} \cup Debate!Decided
      /\ list = "PENDING" <=> s = "waiting"
      /\ StageOfList(old) \in {"waiting"} \cup Debate!Decided
      /\ old = "PENDING" <=> StageOfList(old) = "waiting"
  BY <1>3, ListsAreStages DEF Debate!Decided
<1>6. s \in Debate!Stages
  BY <1>5 DEF Debate!Stages
<1> HIDE DEF s
<1>7. /\ debateStage' = [debateStage EXCEPT ![d] = debateStage'[d]]
      /\ debateHolder' = [debateHolder EXCEPT ![d] = debateHolder'[d]]
      /\ debateTitle' = debateTitle
  BY DEF SameDebate, SameDebateStage, debateStage, debateHolder, debateTitle
<1>8. CASE old = "PENDING"
  <2>1. debateHolder'[d] = m /\ debateStage'[d] = s /\ debateStage[d] = "waiting"
    BY <1>2, <1>4, <1>5, <1>8 DEF s
  <2>2. Debate!Take(m, d, s)
    BY <1>5, <1>7, <2>1 DEF Debate!Take
  <2> QED
    BY <1>6, <2>2
<1>9. CASE old # "PENDING" /\ list = "PENDING"
  <2>1. /\ debateHolder[d] = m /\ debateHolder'[d] = Null
        /\ debateStage'[d] = "waiting" /\ debateStage[d] \in Debate!Decided
    BY <1>1, <1>2, <1>4, <1>5, <1>9 DEF s
  <2>2. Debate!PutBack(m, d)
    BY <1>7, <2>1 DEF Debate!PutBack
  <2> QED
    BY <2>2
<1>10. CASE old # "PENDING" /\ list # "PENDING"
  <2>1. /\ debateHolder[d] = m /\ debateHolder'[d] = debateHolder[d]
        /\ debateStage'[d] = s /\ s \in Debate!Decided
        /\ debateStage[d] \in Debate!Decided
    BY <1>1, <1>2, <1>4, <1>5, <1>10 DEF s
  <2>2. debateHolder' = debateHolder
    BY <1>7, <2>1 DEF debateHolder
  <2>3. Debate!Move(m, d, s)
    BY <1>7, <2>1, <2>2 DEF Debate!Move
  <2> QED
    BY <1>6, <2>3
<1> QED
  BY <1>8, <1>9, <1>10

\* approveTicket: the moderator in charge publishes the debate.
LEMMA ApproveDebateMaps ==
    ASSUME IInv, NEW m \in Moderators, NEW t \in TicketIds, ApproveTicket(m, t)
    PROVE  \/ UNCHANGED <<debateStage, debateHolder, debateTitle>>
           \/ \E d \in DebateIds : Debate!Publish(m, d)
<1>1. /\ t \in DOMAIN ticket /\ UNCHANGED debate /\ ticket[t].assignedTo = m
      /\ ticket' = [ticket EXCEPT ![t].boardList = "ACCEPTED"]
  BY DEF ApproveTicket
<1>2. ticket[t] \in TicketRow /\ ticket = [i \in DOMAIN ticket |-> ticket[i]]
  BY <1>1 DEF IInv, TypeOK, IsTable
<1>3. /\ ticket'[t].boardList = "ACCEPTED" /\ ticket'[t].assignedTo = m
      /\ \A i \in DOMAIN ticket \ {t} : ticket'[i] = ticket[i]
  BY <1>1, <1>2 DEF TicketRow
<1> SUFFICES ASSUME NEW d \in DebateIds, d \in DOMAIN debate, debate[d].ticketId = t,
                    debateTitle'[d] = debateTitle[d],
                    \A e \in DebateIds \ {d} : SameDebate(e)
             PROVE  Debate!Publish(m, d)
  BY <1>1, <1>3, TicketOfOneDebate
<1>4. /\ debateHolder[d] = m /\ debateHolder'[d] = m
      /\ debateStage'[d] = StageOfList("ACCEPTED")
  BY <1>1, <1>3 DEF debateStage, debateHolder
<1>5. debateStage'[d] = "published"
  BY <1>4, ListsAreStages DEF BoardLists
<1> QED
  BY <1>4, <1>5 DEF Debate!Publish, SameDebate, SameDebateStage, debateStage,
                    debateHolder, debateTitle

\* Every step of authors, database and moderators is a step of one debate, or of
\* none.
LEMMA DebateStep == IInv /\ [LifecycleNext]_<<vars, by>> => [Debate!Next]_(Debate!vars)
<1> SUFFICES ASSUME IInv, [LifecycleNext]_<<vars, by>>
             PROVE  Debate!Next \/ UNCHANGED Debate!vars
  OBVIOUS
<1> DEFINE Nothing == UNCHANGED <<debateStage, debateHolder, debateTitle>>
           ByAuthor == \/ Nothing
                       \/ \E d \in DebateIds, x \in Texts :
                             Debate!HandIn(d, x) \/ Debate!Rewrite(d, x)
           ByModerator(m) ==
               \/ Nothing
               \/ \E d \in DebateIds :
                     \/ \E s \in Debate!Stages :
                           Debate!Take(m, d, s) \/ Debate!Move(m, d, s)
                     \/ Debate!PutBack(m, d)
                     \/ Debate!Publish(m, d)
<1>1. ASSUME NEW u \in Accounts, NEW x \in Texts, CreateDebate(u, x)
      PROVE  ByAuthor
  BY <1>1, CreateDebateMaps
<1>2. ASSUME UNCHANGED debate, \A i \in DOMAIN ticket : ticket'[i] = ticket[i]
      PROVE  Nothing
  <2>1. \A d \in DebateIds : SameDebate(d)
    BY <1>2, KeepDebate
  <2> QED
    BY <2>1, KeepDebates
<1>3. ASSUME NEW u \in Accounts, NEW x \in Texts, NEW d \in DebateIds,
             CreateArgument(u, d, x)
      PROVE  Nothing
  BY <1>2, <1>3, InsertTicket DEF IInv, CreateArgument
<1>4. ASSUME NEW u \in Accounts, NEW x \in Texts, NEW a \in ArgumentIds,
             NEW d \in DebateIds, SubmitDraft(u, d, a, x)
      PROVE  Nothing
  BY <1>2, <1>4, InsertTicket DEF IInv, SubmitDraft
<1>5. ASSUME NEW u \in Accounts, NEW x \in Texts,
             \/ \E d \in DebateIds : SaveArgumentAsDraft(u, d, x) \/ BeginUpdateDebate(u, d, x)
             \/ \E a \in ArgumentIds : UpdateDraft(u, a, x) \/ BeginUpdateArgument(u, a, x)
      PROVE  Nothing
  BY <1>2, <1>5 DEF SaveArgumentAsDraft, UpdateDraft, BeginUpdateDebate,
                    BeginUpdateArgument
<1>6. ASSUME NEW s \in updates, FinishUpdateArgument(s)
      PROVE  Nothing
  BY <1>2, <1>6 DEF FinishUpdateArgument
<1>7. ASSUME NEW s \in updates, FinishUpdateDebate(s)
      PROVE  ByAuthor
  <2>1. s.text \in Texts
    BY DEF IInv, TypeOK, UpdateStatement
  <2>2. UNCHANGED ticket
        /\ (debate' = debate \/ debate' = [debate EXCEPT ![s.id].title = s.text])
    BY <1>7 DEF FinishUpdateDebate
  <2> QED
    BY <2>1, <2>2, RewriteDebateMaps
<1>8. ASSUME AuthorStep \/ DatabaseStep
      PROVE  ByAuthor
  <2>1. CASE AuthorStep
    BY <1>1, <1>3, <1>4, <1>5, <2>1 DEF AuthorStep
  <2>2. CASE DatabaseStep
    BY <1>6, <1>7, <2>2 DEF DatabaseStep
  <2> QED
    BY <1>8, <2>1, <2>2
<1>9. ASSUME NEW m \in Moderators, Moderate(m)
      PROVE  ByModerator(m)
  BY <1>9, UpdateDebateTicketMaps, ApproveDebateMaps DEF Moderate
<1>10. CASE (AuthorStep \/ DatabaseStep) /\ by' = Null
  <2>1. ByAuthor
    BY <1>8, <1>10
  <2> QED
    BY <1>10, <2>1 DEF Debate!Next
<1>11. ASSUME NEW m \in Moderators, Moderate(m), by' = m
       PROVE  Debate!Next
  <2>1. ByModerator(m)
    BY <1>9, <1>11
  <2> QED
    BY <1>11, <2>1 DEF Debate!Next
<1>12. CASE UNCHANGED <<vars, by>>
  <2>1. Nothing /\ UNCHANGED by
    BY <1>2, <1>12 DEF vars
  <2> QED
    BY <2>1 DEF Debate!vars
<1> QED
  BY <1>10, <1>11, <1>12 DEF LifecycleNext

\* The same for debates: the tables implement ReviewLifecycle for all of them.
THEOREM DebatesImplement == LifecycleSpec => DebateLifecycle
<1>1. LifecycleInit => Debate!Init
  BY DEF LifecycleInit, Init, EmptyTable, Debate!Init, debateStage, debateHolder,
         debateTitle
<1> QED
  BY <1>1, DebateStep, LifecycleIInv, PTL
     DEF LifecycleSpec, DebateLifecycle, Debate!Spec

-----------------------------------------------------------------------------
(* What the refinements say of an item under decision.                      *)

\* An argument under decision goes to another list or into other hands only by a
\* request of the moderator in charge of it, or back to PENDING, in nobody's charge, when
\* its author submits it anew; and whoever publishes it is then in charge of it.
ArgumentDecided ==
    [][\A a \in ArgumentIds :
          /\ argumentStage[a] \in Argument!Decided =>
                \/ /\ argumentStage'[a] = argumentStage[a]
                   /\ argumentHolder'[a] = argumentHolder[a]
                \/ by' \in Moderators /\ by' = argumentHolder[a]
                \/ by' = Null /\ argumentStage'[a] = "waiting" /\ argumentHolder'[a] = Null
          /\ argumentStage[a] # "published" /\ argumentStage'[a] = "published" =>
                by' \in Moderators /\ by' = argumentHolder'[a]]_<<vars, by>>

\* The same for debates.
DebateDecided ==
    [][\A d \in DebateIds :
          /\ debateStage[d] \in Debate!Decided =>
                \/ /\ debateStage'[d] = debateStage[d]
                   /\ debateHolder'[d] = debateHolder[d]
                \/ by' \in Moderators /\ by' = debateHolder[d]
                \/ by' = Null /\ debateStage'[d] = "waiting" /\ debateHolder'[d] = Null
          /\ debateStage[d] # "published" /\ debateStage'[d] = "published" =>
                by' \in Moderators /\ by' = debateHolder'[d]]_<<vars, by>>

\* A request of a moderator who is not in charge, a late edit and the submission of
\* another item change nothing about an argument under decision (ModeratorService).
THEOREM ChargeDecidesArguments == LifecycleSpec => ArgumentDecided
<1> DEFINE
      Decides(a) ==
          /\ argumentStage[a] \in Argument!Decided =>
                \/ /\ argumentStage'[a] = argumentStage[a]
                   /\ argumentHolder'[a] = argumentHolder[a]
                \/ by' \in Moderators /\ by' = argumentHolder[a]
                \/ by' = Null /\ argumentStage'[a] = "waiting" /\ argumentHolder'[a] = Null
          /\ argumentStage[a] # "published" /\ argumentStage'[a] = "published" =>
                by' \in Moderators /\ by' = argumentHolder'[a]
<1>1. DOMAIN argumentStage = ArgumentIds /\ DOMAIN argumentHolder = ArgumentIds
  BY DEF argumentStage, argumentHolder
<1>2. ASSUME UNCHANGED <<argumentStage, argumentHolder>>, NEW a \in ArgumentIds
      PROVE  Decides(a)
  BY <1>2
<1>3. ASSUME NEW i \in ArgumentIds, NEW x \in Texts, NEW a \in ArgumentIds, by' = Null,
             Argument!Draft(i, x) \/ Argument!HandIn(i, x) \/ Argument!Rewrite(i, x)
      PROVE  Decides(a)
  BY <1>1, <1>3 DEF Argument!Draft, Argument!HandIn, Argument!Rewrite, Argument!Decided
<1>4. ASSUME NEW i \in ArgumentIds, NEW m \in Moderators, NEW a \in ArgumentIds, by' = m,
             \/ \E s \in Argument!Stages : Argument!Take(m, i, s) \/ Argument!Move(m, i, s)
             \/ Argument!PutBack(m, i)
             \/ Argument!Publish(m, i)
      PROVE  Decides(a)
  <2>1. CASE a # i
    BY <1>1, <1>4, <2>1
    DEF Argument!Take, Argument!Move, Argument!PutBack, Argument!Publish
  <2>2. CASE a = i
    BY <1>1, <1>4, <2>2
    DEF Argument!Take, Argument!Move, Argument!PutBack, Argument!Publish, Argument!Decided
  <2> QED
    BY <2>1, <2>2
<1> HIDE DEF Decides
<1>5. [Argument!Next]_(Argument!vars) => \A a \in ArgumentIds : Decides(a)
  BY <1>2, <1>3, <1>4 DEF Argument!Next, Argument!vars
<1>6. LifecycleSpec => [][\A a \in ArgumentIds : Decides(a)]_<<vars, by>>
  BY <1>5, ArgumentStep, LifecycleIInv, PTL DEF LifecycleSpec
<1> QED
  BY <1>6 DEF ArgumentDecided, Decides

\* So it is with debates.
THEOREM ChargeDecidesDebates == LifecycleSpec => DebateDecided
<1> DEFINE
      Decides(d) ==
          /\ debateStage[d] \in Debate!Decided =>
                \/ /\ debateStage'[d] = debateStage[d]
                   /\ debateHolder'[d] = debateHolder[d]
                \/ by' \in Moderators /\ by' = debateHolder[d]
                \/ by' = Null /\ debateStage'[d] = "waiting" /\ debateHolder'[d] = Null
          /\ debateStage[d] # "published" /\ debateStage'[d] = "published" =>
                by' \in Moderators /\ by' = debateHolder'[d]
<1>1. DOMAIN debateStage = DebateIds /\ DOMAIN debateHolder = DebateIds
  BY DEF debateStage, debateHolder
<1>2. ASSUME UNCHANGED <<debateStage, debateHolder>>, NEW d \in DebateIds
      PROVE  Decides(d)
  BY <1>2
<1>3. ASSUME NEW i \in DebateIds, NEW x \in Texts, NEW d \in DebateIds, by' = Null,
             Debate!Draft(i, x) \/ Debate!HandIn(i, x) \/ Debate!Rewrite(i, x)
      PROVE  Decides(d)
  BY <1>1, <1>3 DEF Debate!Draft, Debate!HandIn, Debate!Rewrite, Debate!Decided
<1>4. ASSUME NEW i \in DebateIds, NEW m \in Moderators, NEW d \in DebateIds, by' = m,
             \/ \E s \in Debate!Stages : Debate!Take(m, i, s) \/ Debate!Move(m, i, s)
             \/ Debate!PutBack(m, i)
             \/ Debate!Publish(m, i)
      PROVE  Decides(d)
  <2>1. CASE d # i
    BY <1>1, <1>4, <2>1 DEF Debate!Take, Debate!Move, Debate!PutBack, Debate!Publish
  <2>2. CASE d = i
    BY <1>1, <1>4, <2>2
    DEF Debate!Take, Debate!Move, Debate!PutBack, Debate!Publish, Debate!Decided
  <2> QED
    BY <2>1, <2>2
<1> HIDE DEF Decides
<1>5. [Debate!Next]_(Debate!vars) => \A d \in DebateIds : Decides(d)
  BY <1>2, <1>3, <1>4 DEF Debate!Next, Debate!vars
<1>6. LifecycleSpec => [][\A d \in DebateIds : Decides(d)]_<<vars, by>>
  BY <1>5, DebateStep, LifecycleIInv, PTL DEF LifecycleSpec
<1> QED
  BY <1>6 DEF DebateDecided, Decides
=============================================================================
