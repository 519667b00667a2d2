------------------------------ MODULE ReviewRoom ------------------------------
(***************************************************************************)
(* The review of one ticket: author and moderator open its page, which     *)
(* connects a socket to the ticket's room and, independently, asks the API *)
(* for the comments there are; comments are added and edited through the   *)
(* socket and broadcast to the room (review.gateway.ts, comment.service.ts *)
(* and the client's review pages).                                         *)
(*                                                                         *)
(* Handlers are asynchronous: the messages of one page are started in      *)
(* order, and run their statements and broadcast in any order.  A socket   *)
(* that loses its connection reconnects by itself and is a new one to the  *)
(* server; what was on its way to or from the old one is lost.             *)
(***************************************************************************)
EXTENDS Naturals, Sequences, FiniteSets

CONSTANTS
    Pages,          \* browser pages of this ticket
    Moderators,
    Author,         \* of the ticket
    Owner,          \* whose page it is
    None,
    MaxMessages,    \* bound: messages pages send
    MaxDrops,       \* bound: lost connections
    MaxMoves        \* bound: changes of assigned_to

ASSUME OwnersAreAccounts == Owner \in [Pages -> Moderators \cup {Author}]
ASSUME AccountsDiffer == Author \notin Moderators /\ None \notin Moderators \cup {Author}
ASSUME Bounds == MaxMessages \in Nat /\ MaxDrops \in Nat /\ MaxMoves \in Nat

Numbers == 1 .. MaxMessages     \* of messages; also the text each carries
Ids == 1 .. MaxMessages         \* of comments

Message == [n : Numbers, page : Pages, nth : 0 .. MaxDrops,
            kind : {"create", "update"}, id : Ids \cup {None}]
Entry == [id : Ids, text : Numbers]
Event == [event : {"create", "update", "OK"}, entry : Entry] \cup {[event |-> "error"]}

VARIABLES
    assigned_to,    \* of the ticket
    comments,       \* table ticket_comment
    room,           \* pages whose socket is in the room
    socket,         \* state of each page's socket
    nth,            \* which socket: the lost connections when it was made
    drops,          \* lost connections so far
    toServer,       \* messages on their way from each page
    running,        \* messages whose handler waits for its statement
    stored,         \* those whose statement is done, with what it wrote
    toPage,         \* events on their way to each page
    list,           \* how far each page's question for the comments is
    answer,         \* the comments it is answered with
    shown,          \* the comments each page shows
    sent,           \* messages so far
    moves,          \* changes of assigned_to so far
    texts,          \* history: all texts each comment had
    unheard,        \* history: comments whose handler did not learn it had stored them
    calm            \* history: nothing overtook the page's list

ticket == <<assigned_to, moves>>
table == <<comments, texts, unheard>>
sockets == <<room, socket, nth, drops>>
handlers == <<running, stored>>
page == <<list, answer, shown, calm>>
vars == <<ticket, table, sockets, toServer, handlers, toPage, page, sent>>

TypeOK ==
    /\ assigned_to \in Moderators \cup {None}
    /\ moves \in 0 .. MaxMoves
    /\ comments \in Seq([by : Moderators \cup {Author}, text : Numbers])
    /\ texts \in Seq(SUBSET Numbers) /\ Len(texts) = Len(comments)
    /\ unheard \subseteq DOMAIN comments
    /\ room \subseteq Pages
    /\ socket \in [Pages -> {"none", "connecting", "open", "down", "closed"}]
    /\ nth \in [Pages -> 0 .. MaxDrops]
    /\ drops \in 0 .. MaxDrops
    /\ toServer \in [Pages -> Seq(Message)]
    /\ running \subseteq Message
    /\ stored \subseteq Message \X Entry
    /\ toPage \in [Pages -> Seq(Event)]
    /\ list \in [Pages -> {"none", "asked", "answered", "shown"}]
    /\ answer \in [Pages -> Seq(Entry)]
    /\ shown \in [Pages -> Seq(Entry)]
    /\ sent \in 0 .. MaxMessages
    /\ calm \in [Pages -> BOOLEAN]

Init ==
    /\ assigned_to = None
    /\ moves = 0
    /\ comments = <<>>
    /\ texts = <<>>
    /\ unheard = {}
    /\ room = {}
    /\ socket = [p \in Pages |-> "none"]
    /\ nth = [p \in Pages |-> 0]
    /\ drops = 0
    /\ toServer = [p \in Pages |-> <<>>]
    /\ running = {}
    /\ stored = {}
    /\ toPage = [p \in Pages |-> <<>>]
    /\ list = [p \in Pages |-> "none"]
    /\ answer = [p \in Pages |-> <<>>]
    /\ shown = [p \in Pages |-> <<>>]
    /\ sent = 0
    /\ calm = [p \in Pages |-> TRUE]

Participants == {Author, assigned_to}

\* The ticket moves on the moderators' board: external to the room.
Assign(m) ==
    /\ moves < MaxMoves
    /\ assigned_to' = m
    /\ moves' = moves + 1
    /\ UNCHANGED <<table, sockets, toServer, handlers, toPage, page, sent>>

-----------------------------------------------------------------------------
(* Opening a page: two effects that know nothing of each other.            *)

Open(p) ==
    /\ socket[p] = "none"
    /\ socket' = [socket EXCEPT ![p] = "connecting"]
    /\ list' = [list EXCEPT ![p] = "asked"]
    /\ UNCHANGED <<ticket, table, room, nth, drops, toServer, handlers, toPage, answer,
                   shown, calm, sent>>

\* handleConnection has looked the session up, for which it waited.  Nobody asks
\* whether the user is a participant.
Join(p) ==
    /\ socket[p] = "connecting"
    /\ socket' = [socket EXCEPT ![p] = "open"]
    /\ room' = room \cup {p}
    /\ UNCHANGED <<ticket, table, nth, drops, toServer, handlers, toPage, page, sent>>

\* The page is gone and its socket disconnects; what it had sent still arrives.
Closed(p) ==
    /\ socket' = [socket EXCEPT ![p] = "closed"]
    /\ room' = room \ {p}
    /\ toPage' = [toPage EXCEPT ![p] = <<>>]
    /\ list' = [list EXCEPT ![p] = "none"]
    /\ answer' = [answer EXCEPT ![p] = <<>>]
    /\ shown' = [shown EXCEPT ![p] = <<>>]
    /\ calm' = [calm EXCEPT ![p] = FALSE]

\* Without a session the socket hears of it and is disconnected, and the page left.
Reject(p) ==
    /\ socket[p] = "connecting"
    /\ Closed(p)
    /\ UNCHANGED <<ticket, table, nth, drops, toServer, handlers, sent>>

\* getTicketComments: for participants; an outsider gets an empty list.
ReadComments(p) ==
    /\ list[p] = "asked"
    /\ list' = [list EXCEPT ![p] = "answered"]
    /\ answer' = [answer EXCEPT ![p] =
                  IF Owner[p] \in Participants
                  THEN [i \in DOMAIN comments |-> [id |-> i, text |-> comments[i].text]]
                  ELSE <<>>]
    /\ calm' = [calm EXCEPT ![p] = @ /\ p \in room /\ Owner[p] \in Participants]
    /\ UNCHANGED <<ticket, table, sockets, toServer, handlers, toPage, shown, sent>>

ShowComments(p) ==
    /\ list[p] = "answered"
    /\ shown' = [shown EXCEPT ![p] = answer[p]]
    /\ list' = [list EXCEPT ![p] = "shown"]
    /\ answer' = [answer EXCEPT ![p] = <<>>]
    /\ UNCHANGED <<ticket, table, sockets, toServer, handlers, toPage, calm, sent>>

-----------------------------------------------------------------------------
(* Messages to the server.                                                 *)

Emit(p, kind, id) ==
    /\ sent < MaxMessages
    /\ toServer' = [toServer EXCEPT ![p] = Append(@,
                      [n |-> sent + 1, page |-> p, nth |-> nth[p], kind |-> kind, id |-> id])]
    /\ sent' = sent + 1
    /\ UNCHANGED <<ticket, table, sockets, handlers, toPage, page>>

AddComment(p) ==
    /\ socket[p] \in {"connecting", "open"}
    /\ Emit(p, "create", None)

SaveCommentEdits(p, id) ==
    /\ socket[p] \in {"connecting", "open"}
    /\ \E i \in DOMAIN shown[p] : shown[p][i].id = id
    /\ comments[id].by = Owner[p]
    /\ Emit(p, "update", id)

\* Mutant of Fail: the socket is not told.
FailSilently(p) ==
    /\ room' = room \ {p}
    /\ UNCHANGED toPage

\* The socket leaves the room and is told why; what others have is left alone.
Fail(p) ==
    /\ room' = room \ {p}
    /\ toPage' = [toPage EXCEPT ![p] = Append(@, [event |-> "error"])]

\* A handler starts; before the session is looked up there is no user, and it
\* fails at once.
Start(p) ==
    /\ toServer[p] # <<>>
    /\ toServer' = [toServer EXCEPT ![p] = Tail(@)]
    /\ IF socket[p] = "connecting"
       THEN Fail(p) /\ UNCHANGED running
       ELSE running' = running \cup {Head(toServer[p])} /\ UNCHANGED <<room, toPage>>
    /\ UNCHANGED <<ticket, table, socket, nth, drops, stored, page, sent>>

\* addCommentToDebate, addCommentToArgument.
InsertComment(h) ==
    /\ h.kind = "create"
    /\ Owner[h.page] \in Participants
    /\ comments' = Append(comments, [by |-> Owner[h.page], text |-> h.n])
    /\ texts' = Append(texts, {h.n})

\* updateComment.
UpdateComment(h) ==
    /\ h.kind = "update"
    /\ comments[h.id].by = Owner[h.page]
    /\ comments' = [comments EXCEPT ![h.id].text = h.n]
    /\ texts' = [texts EXCEPT ![h.id] = @ \cup {h.n}]

Write(h) == InsertComment(h) \/ UpdateComment(h)

\* Mutant of Written: the id of the row before.
WrittenBefore(h) ==
    [id |-> IF h.kind = "create" THEN Len(comments) ELSE h.id, text |-> h.n]

\* What the handler knows of what it wrote.
Written(h) ==
    [id |-> IF h.kind = "create" THEN Len(comments) + 1 ELSE h.id, text |-> h.n]

Store(h) ==
    /\ running' = running \ {h}
    /\ Write(h)
    /\ stored' = stored \cup {<<h, Written(h)>>}
    /\ UNCHANGED <<ticket, sockets, unheard, toServer, toPage, page, sent>>

\* The socket h came from is still the page's.
Current(h) == h.nth = nth[h.page] /\ socket[h.page] \in {"connecting", "open"}

\* Mutant of Failed: it is the user who leaves the room, not the socket.
UserFailed(h) ==
    /\ running' = running \ {h}
    /\ room' = room \ {h.page}
    /\ IF Current(h)
       THEN toPage' = [toPage EXCEPT ![h.page] = Append(@, [event |-> "error"])]
       ELSE UNCHANGED toPage
    /\ UNCHANGED <<ticket, socket, nth, drops, stored, toServer, page, sent>>

\* Mutant of Failed: the handler is run again.
FailedRetries(h) ==
    /\ IF Current(h) THEN Fail(h.page) ELSE UNCHANGED <<room, toPage>>
    /\ UNCHANGED <<ticket, running, socket, nth, drops, stored, toServer, page, sent>>

Failed(h) ==
    /\ running' = running \ {h}
    /\ IF Current(h) THEN Fail(h.page) ELSE UNCHANGED <<room, toPage>>
    /\ UNCHANGED <<ticket, socket, nth, drops, stored, toServer, page, sent>>

\* The statement found nothing to write, or failed.
HandlerFails(h) == Failed(h) /\ UNCHANGED table

\* It was committed, and the connection to the database broke before the answer.
StoreUnconfirmed(h) ==
    /\ Failed(h)
    /\ Write(h)
    /\ unheard' = unheard \cup {Written(h).id}

\* The handler goes on after its statement: it broadcasts to the others in the
\* room, and the sender gets its reply.
Broadcast(h, entry) ==
    LET reply == [event |-> IF h.kind = "create" THEN "create" ELSE "OK", entry |-> entry]
        news == [event |-> h.kind, entry |-> entry]
        others == IF Current(h) THEN room \ {h.page} ELSE room
    IN
    /\ <<h, entry>> \in stored
    /\ stored' = stored \ {<<h, entry>>}
    /\ toPage' = [p \in Pages |->
                    IF p \in others THEN Append(toPage[p], news)
                    ELSE IF p = h.page /\ Current(h) THEN Append(toPage[p], reply)
                    ELSE toPage[p]]
    /\ UNCHANGED <<ticket, table, sockets, toServer, running, page, sent>>

-----------------------------------------------------------------------------
(* What pages do with events.                                              *)

WithText(entries, entry) ==
    [i \in DOMAIN entries |-> IF entries[i].id = entry.id THEN entry ELSE entries[i]]

\* Mutant of Apply: the handler appends to the comments of when it was set up.
ApplyStale(p, e) ==
    CASE e.event = "create" -> <<e.entry>>
      [] e.event \in {"update", "OK"} -> WithText(shown[p], e.entry)

Apply(p, e) ==
    CASE e.event = "create" -> Append(shown[p], e.entry)
      [] e.event \in {"update", "OK"} -> WithText(shown[p], e.entry)

Receive(p) ==
    LET e == Head(toPage[p]) IN
    /\ toPage[p] # <<>>
    /\ socket[p] \in {"connecting", "open"}
    /\ \/ /\ e.event = "error"      \* the router leaves the page
          /\ Closed(p)
       \/ /\ e.event # "error"
          /\ toPage' = [toPage EXCEPT ![p] = Tail(@)]
          /\ shown' = [shown EXCEPT ![p] = Apply(p, e)]
          /\ calm' = [calm EXCEPT ![p] = @ /\ list[p] = "shown"]
          /\ UNCHANGED <<room, socket, list, answer>>
    /\ UNCHANGED <<ticket, table, nth, drops, toServer, handlers, sent>>

ClosePage(p) ==
    /\ socket[p] \in {"connecting", "open", "down"}
    /\ Closed(p)
    /\ UNCHANGED <<ticket, table, nth, drops, toServer, handlers, sent>>

Drop(p) ==
    /\ socket[p] \in {"connecting", "open"}
    /\ drops < MaxDrops
    /\ drops' = drops + 1
    /\ socket' = [socket EXCEPT ![p] = "down"]
    /\ room' = room \ {p}
    /\ toServer' = [toServer EXCEPT ![p] = <<>>]
    /\ toPage' = [toPage EXCEPT ![p] = <<>>]
    /\ calm' = [calm EXCEPT ![p] = FALSE]
    /\ UNCHANGED <<ticket, table, nth, handlers, list, answer, shown, sent>>

\* The client connects again; it does not ask for the comments again.
Reconnect(p) ==
    /\ socket[p] = "down"
    /\ socket' = [socket EXCEPT ![p] = "connecting"]
    /\ nth' = [nth EXCEPT ![p] = drops]
    /\ UNCHANGED <<ticket, table, room, drops, toServer, handlers, toPage, page, sent>>

-----------------------------------------------------------------------------
PageStep(p) ==
    \/ Open(p)
    \/ ReadComments(p)
    \/ ShowComments(p)
    \/ AddComment(p)
    \/ \E id \in DOMAIN comments : SaveCommentEdits(p, id)
    \/ Receive(p)
    \/ ClosePage(p)
    \/ Drop(p)
    \/ Reconnect(p)

RunHandler(h) == Store(h) \/ HandlerFails(h) \/ StoreUnconfirmed(h)

ServerStep ==
    \/ \E p \in Pages : Join(p) \/ Reject(p) \/ Start(p)
    \/ \E h \in running : RunHandler(h)
    \/ \E s \in stored : Broadcast(s[1], s[2])

Next ==
    \/ \E p \in Pages : PageStep(p)
    \/ ServerStep
    \/ \E m \in Moderators \cup {None} : Assign(m)

Spec == Init /\ [][Next]_vars

\* Sockets deliver while they are connected; session look-ups and statements end,
\* well or not, and what waits for them goes on.
Fairness ==
    /\ \A p \in Pages : /\ WF_vars(Join(p) \/ Reject(p))
                        /\ WF_vars(Start(p))
                        /\ WF_vars(Receive(p))
    /\ \A n \in Numbers : /\ WF_vars(\E h \in running : h.n = n /\ RunHandler(h))
                          /\ WF_vars(\E s \in stored : s[1].n = n /\ Broadcast(s[1], s[2]))

FairSpec == Spec /\ Fairness

-----------------------------------------------------------------------------
(* Properties.                                                             *)

\* No page shows what was not in the table: neither a comment that was refused,
\* nor a text that its comment never had.
ShownWasStored ==
    \A p \in Pages : \A i \in DOMAIN shown[p] :
        /\ shown[p][i].id \in DOMAIN comments
        /\ shown[p][i].text \in texts[shown[p][i].id]

\* Nobody is deaf without knowing: a page whose socket is connected and is not in
\* the room has an error on its way, which makes it leave.
NoSilentDeafness ==
    \A p \in Pages : socket[p] = "open" /\ p \notin room =>
        \E i \in DOMAIN toPage[p] : toPage[p][i].event = "error"

\* The discussion these pages have: a message waits in its page's queue or with its
\* handler, and a page sees the comments it shows.
Waits == running \cup UNION {{toServer[p][i] : i \in DOMAIN toServer[p]} : p \in Pages}
awaited == {<<h.n, Owner[h.page]>> : h \in Waits}
views == [p \in Pages |-> {<<shown[p][i].id, shown[p][i].text>> : i \in DOMAIN shown[p]}]

Discussion == INSTANCE ReviewDiscussion WITH
    Readers <- Pages, Messages <- Numbers, Nobody <- None,
    charge <- assigned_to, used <- 1 .. sent, pending <- awaited, sees <- views

\* The room keeps the promises of ReviewDiscussion: whatever is lost, fails after it
\* stored, or reaches the server from a socket that is gone, a message has one effect
\* at most, the one its sender may have when its statement runs, and no page shows
\* what was not in the table.
Discussed == Discussion!Spec

Announcing == {s[2].id : s \in stored}

\* A page that had joined before its list was read, showed the list before it
\* heard anything and kept its connection, shows every comment there is, but for
\* those on their way and those whose handler failed after storing them.
NothingMissed ==
    \A p \in Pages :
        calm[p] /\ list[p] = "shown" /\ p \in room /\ toPage[p] = <<>> =>
            DOMAIN comments \ (unheard \cup Announcing)
                \subseteq {shown[p][i].id : i \in DOMAIN shown[p]}

InHand == Waits \cup {s[1] : s \in stored}

\* The answer to a message, or the error that makes its page leave.
Answers(e, h) ==
    \/ e = [event |-> "error"]
    \/ e.event \in {"create", "OK"} /\ e.entry.text = h.n

\* The server is done with a message only with an answer to its sender, unless the
\* socket it came from is gone: no handler ends without a word, whichever of its
\* steps fails and whoever joins, leaves or reconnects meanwhile.
DoneIsAnswered ==
    [][\A h \in InHand \ InHand' :
        \/ ~Current(h)'
        \/ /\ toPage'[h.page] # <<>>
           /\ Answers(toPage'[h.page][Len(toPage'[h.page])], h)]_vars

\* Whoever sends a message and stays connected is answered: with its effect, or
\* with the error that makes it leave.
EveryMessageAnswered ==
    \A p \in Pages, n \in Numbers :
        (\E i \in DOMAIN toServer[p] : toServer[p][i].n = n)
            ~> \/ \E i \in DOMAIN toPage[p] : /\ toPage[p][i].event \in {"create", "OK"}
                                            /\ toPage[p][i].entry.text = n
               \/ socket[p] \in {"down", "closed"}
=============================================================================
