----------------------------- MODULE ReviewedItem -----------------------------
(***************************************************************************)
(* The argument or debate under review: its author edits it on the review  *)
(* page, which sends "argument:update" or "debate:update" through the      *)
(* socket; the gateway updates the row, broadcasts to the ticket's room    *)
(* and acknowledges.  A moderator's page takes over what is broadcast, the *)
(* author's page what was acknowledged.                                    *)
(*                                                                         *)
(* The author's page has the fields twice: the item in the page's state,   *)
(* and what is typed.  The content is typed into an editor of its own,     *)
(* which gets the item's content when it is mounted and when changes are   *)
(* canceled; a debate has a title only.  Comments go through the same      *)
(* socket (module ReviewRoom).  Everybody has at most one page.            *)
(***************************************************************************)
EXTENDS Naturals, Sequences, FiniteSets, SequencesExt

CONSTANTS
    Author,         \* of the ticket
    Moderators,
    None,
    MaxTyped,       \* bound: changes typed
    MaxSaves,       \* bound: saves
    MaxOpens,       \* bound: times a page is opened
    MaxDrops,       \* bound: lost connections
    MaxMoves        \* bound: steps of the ticket on the board

Pages == {Author} \cup Moderators
Fields == {"title", "content"}
Typed == 0 .. MaxTyped          \* 0: what was submitted
Text == [Fields -> Typed]

VARIABLES
    row,            \* the item's row
    ticket,         \* [assignedTo, accepted]
    socket,         \* "none", "connecting", "open" or "down", by page
    room,           \* pages whose socket is in the room
    fetch,          \* [stage, text, editable]: the item on its way to the page
    item,           \* [shown, text, editable]: the page's state
    editing,        \* isEditMode, of the author's page
    field,          \* argumentModifiedFields.argumentTitle
    editor,         \* content of the author's editor
    touched,        \* fields typed since editing started
    onTime,         \* history: no save was unanswered when editing started
    toServer,       \* updates on their way, or kept by the client while down
    running,        \* updates whose handler waits for its statement
    stored,         \* updates whose statement is done, in the order of the table
    toPage,         \* events on their way to each page
    typed, saves, opens, drops, moves,      \* bounded counts
    calm            \* history: nothing is known to have passed the page by

tables == <<row, ticket>>
pageVars == <<fetch, item, editing, field, editor, touched, onTime>>
wires == <<toServer, running, stored, toPage>>
counts == <<typed, saves, opens, drops, moves>>
vars == <<tables, socket, room, pageVars, wires, counts, calm>>

\* mine: the page that sent it still waits for the acknowledgement.
Update == [n : 1 .. MaxSaves, text : Text, touched : SUBSET Fields,
           onTime : BOOLEAN, mine : BOOLEAN]
Event == [event : {"update", "OK"}, text : Text] \cup [event : {"error"}]

Nothing == [f \in Fields |-> 0]
NoItem == [shown |-> FALSE, text |-> Nothing, editable |-> FALSE]
NoFetch == [stage |-> "none", text |-> Nothing, editable |-> FALSE]

\* What earlier sockets sent is before what the one of today did.
OrphansFirst(updates) ==
    \A i, j \in DOMAIN updates : i < j /\ updates[i].mine => updates[j].mine

TypeOK ==
    /\ row \in Text
    /\ ticket \in [assignedTo : Moderators \cup {None}, accepted : BOOLEAN]
    /\ socket \in [Pages -> {"none", "connecting", "open", "down"}]
    /\ room \subseteq {p \in Pages : socket[p] = "open"}
    /\ fetch \in [Pages -> [stage : {"none", "asked", "answered"}, text : Text,
                            editable : BOOLEAN]]
    /\ item \in [Pages -> [shown : BOOLEAN, text : Text, editable : BOOLEAN]]
    /\ editing \in BOOLEAN /\ onTime \in BOOLEAN
    /\ field \in Typed /\ editor \in Typed /\ touched \subseteq Fields
    /\ toServer \in Seq(Update) /\ running \subseteq Update /\ stored \in Seq(Update)
    /\ toPage \in [Pages -> Seq(Event)]
    /\ typed \in 0 .. MaxTyped /\ saves \in 0 .. MaxSaves
    /\ opens \in 0 .. MaxOpens /\ drops \in 0 .. MaxDrops /\ moves \in 0 .. MaxMoves
    /\ calm \in [Pages -> BOOLEAN]
    /\ OrphansFirst(toServer)

Init ==
    /\ row = Nothing
    /\ \E m \in Moderators \cup {None} : ticket = [assignedTo |-> m, accepted |-> FALSE]
    /\ socket = [p \in Pages |-> "none"] /\ room = {}
    /\ fetch = [p \in Pages |-> NoFetch] /\ item = [p \in Pages |-> NoItem]
    /\ editing = FALSE /\ field = 0 /\ editor = 0 /\ touched = {} /\ onTime = TRUE
    /\ toServer = <<>> /\ running = {} /\ stored = <<>>
    /\ toPage = [p \in Pages |-> <<>>]
    /\ typed = 0 /\ saves = 0 /\ opens = 0 /\ drops = 0 /\ moves = 0
    /\ calm = [p \in Pages |-> TRUE]

\* The ticket moves on the moderators' board: external to the review.
Move(m) ==
    /\ moves < MaxMoves /\ moves' = moves + 1
    /\ \E accepted \in BOOLEAN :
           ticket' = [assignedTo |-> m, accepted |-> accepted /\ m # None]
    /\ UNCHANGED <<row, socket, room, pageVars, wires, typed, saves, opens, drops, calm>>

-----------------------------------------------------------------------------
(* Opening and leaving a page.                                             *)

\* Two effects that know nothing of each other.
Open(p) ==
    /\ socket[p] = "none" /\ opens < MaxOpens /\ opens' = opens + 1
    /\ socket' = [socket EXCEPT ![p] = "connecting"]
    /\ fetch' = [fetch EXCEPT ![p].stage = "asked"]
    /\ UNCHANGED <<tables, room, item, editing, field, editor, touched, onTime,
                   wires, typed, saves, drops, moves, calm>>

Join(p) ==
    /\ socket[p] = "connecting"
    /\ socket' = [socket EXCEPT ![p] = "open"]
    /\ room' = room \cup {p}
    /\ UNCHANGED <<tables, pageVars, wires, counts, calm>>

\* The socket the author's updates came from is gone; what it had sent still
\* arrives, but for what the client kept while it was down.
Orphaned(u) == [u EXCEPT !.mine = FALSE]
OrphanedAll(updates) == [i \in DOMAIN updates |-> Orphaned(updates[i])]

\* They come first: the page that is there now sent its own after them.
Others(updates) ==
    SubSeq(updates, 1, Cardinality({i \in DOMAIN updates : ~updates[i].mine}))

Disowned(p) ==
    IF p # Author THEN UNCHANGED <<toServer, running, stored>>
    ELSE /\ toServer' = OrphanedAll(IF socket[p] = "down" THEN Others(toServer)
                                    ELSE toServer)
         /\ running' = {Orphaned(u) : u \in running}
         /\ stored' = OrphanedAll(stored)

Left(p) ==
    /\ socket' = [socket EXCEPT ![p] = "none"]
    /\ room' = room \ {p}
    /\ fetch' = [fetch EXCEPT ![p] = NoFetch]
    /\ item' = [item EXCEPT ![p] = NoItem]
    /\ toPage' = [toPage EXCEPT ![p] = <<>>]
    /\ IF p = Author
       THEN editing' = FALSE /\ field' = 0 /\ editor' = 0 /\ touched' = {}
       ELSE UNCHANGED <<editing, field, editor, touched>>
    /\ Disowned(p)
    /\ UNCHANGED onTime

Leave(p) ==
    /\ socket[p] # "none"
    /\ Left(p)
    /\ UNCHANGED <<tables, counts, calm>>

InTheApi == running # {} \/ stored # <<>>

ReadItem(p) ==
    /\ fetch[p].stage = "asked"
    /\ fetch' = [fetch EXCEPT ![p] = [stage |-> "answered", text |-> row,
                                      editable |-> ~ticket.accepted]]
    /\ UNCHANGED <<tables, socket, room, item, editing, field, editor, touched, onTime,
                   wires, counts>>

\* getArgumentAsUser, getDebateAsUser: the page learns only of its own updates.
ReadAsAuthor ==
    /\ ReadItem(Author)
    /\ calm' = [calm EXCEPT ![Author] = ~InTheApi /\ toServer = <<>>]

\* getArgumentAsModerator, getDebateAsModerator: what is stored from now on reaches
\* the page through the room.
ReadAsModerator(m) ==
    /\ m = ticket.assignedTo
    /\ ReadItem(m)
    /\ calm' = [calm EXCEPT ![m] = m \in room /\ stored = <<>> /\ toPage[m] = <<>>]

\* Not the reader's ticket, or an error: the page is left.
FetchFails(p) ==
    /\ fetch[p].stage # "none"
    /\ Left(p)
    /\ UNCHANGED <<tables, counts, calm>>

ShowItem(p) ==
    /\ fetch[p].stage = "answered"
    /\ item' = [item EXCEPT ![p] = [shown |-> TRUE, text |-> fetch[p].text,
                                    editable |-> fetch[p].editable]]
    /\ fetch' = [fetch EXCEPT ![p] = NoFetch]
    /\ editor' = IF p = Author THEN fetch[p].text["content"] ELSE editor
    /\ UNCHANGED <<tables, socket, room, editing, field, touched, onTime, wires,
                   counts, calm>>

-----------------------------------------------------------------------------
(* Editing.                                                                *)

Unanswered == InTheApi \/ toServer # <<>> \/ toPage[Author] # <<>>

\* Mutant of TitleToEdit: what the fields were left with.
TitleLeft == field

TitleToEdit == item[Author].text["title"]

StartEditing ==
    /\ item[Author].shown /\ item[Author].editable /\ ~editing
    /\ editing' = TRUE /\ touched' = {}
    /\ field' = TitleToEdit
    /\ onTime' = ~Unanswered
    /\ UNCHANGED <<tables, socket, room, fetch, item, editor, wires, counts, calm>>

Type(f) ==
    /\ editing /\ typed < MaxTyped /\ typed' = typed + 1
    /\ touched' = touched \cup {f}
    /\ field' = IF f = "title" THEN typed' ELSE field
    /\ editor' = IF f = "content" THEN typed' ELSE editor
    /\ UNCHANGED <<tables, socket, room, fetch, item, editing, onTime, wires, saves,
                   opens, drops, moves, calm>>

\* Mutant of Canceled: the editor keeps what was typed.
TypedContent == editor

\* What cancelChanges gives the editor: the content of its own render.
Canceled == item[Author].text["content"]

CancelChanges ==
    /\ editing /\ editing' = FALSE
    /\ editor' = Canceled
    /\ field' = 0 /\ touched' = {}
    /\ calm' = [calm EXCEPT ![Author] = @ /\ ~Unanswered]
    /\ UNCHANGED <<tables, socket, room, fetch, item, onTime, wires, counts>>

\* toggleEditOrSave, onUpdateArgument: the fields not touched are sent as well.
SaveChanges ==
    /\ editing /\ editing' = FALSE
    /\ saves < MaxSaves /\ saves' = saves + 1
    /\ toServer' = Append(toServer,
           [n |-> saves', text |-> [title |-> field, content |-> editor],
            touched |-> touched, onTime |-> onTime /\ calm[Author], mine |-> TRUE])
    /\ field' = 0 /\ touched' = {}
    /\ UNCHANGED <<tables, socket, room, fetch, item, editor, onTime, running, stored,
                   toPage, typed, opens, drops, moves, calm>>

-----------------------------------------------------------------------------
(* The gateway.                                                            *)

Failure == [event |-> "error"]

\* A handler starts; before the session is looked up there is no user, and it
\* fails at once.
StartHandler ==
    /\ toServer # <<>> /\ (Head(toServer).mine => socket[Author] # "down")
    /\ toServer' = Tail(toServer)
    /\ IF socket[Author] = "connecting" /\ Head(toServer).mine
       THEN /\ toPage' = [toPage EXCEPT ![Author] = Append(@, Failure)]
            /\ UNCHANGED running
       ELSE running' = running \cup {Head(toServer)} /\ UNCHANGED toPage
    /\ UNCHANGED <<tables, socket, room, pageVars, stored, counts, calm>>

\* updateArgument, updateDebate.
Write(u) == ~ticket.accepted /\ row' = u.text

Store(u) ==
    /\ u \in running /\ Write(u)
    /\ running' = running \ {u}
    /\ stored' = Append(stored, u)
    /\ calm' = [calm EXCEPT ![Author] = @ /\ u.n = saves]
    /\ UNCHANGED <<ticket, socket, room, pageVars, toServer, toPage, counts>>

Failed(u) ==
    /\ u \in running
    /\ running' = running \ {u}
    /\ IF u.mine
       THEN /\ room' = room \ {Author}
            /\ toPage' = [toPage EXCEPT ![Author] = Append(@, Failure)]
       ELSE UNCHANGED <<room, toPage>>
    /\ UNCHANGED <<ticket, socket, pageVars, toServer, stored, counts>>

\* No updates occurred, or the statement failed.
HandlerFails(u) == Failed(u) /\ UNCHANGED <<row, calm>>

\* It was committed, and the connection to the database broke before the answer.
StoreUnconfirmed(u) ==
    /\ Failed(u) /\ Write(u)
    /\ calm' = [p \in Pages |-> FALSE]

\* socket.to(room): everybody in the room but the socket that sent the update.
Heard == room \ {Author}

\* Handlers go on in any order after their statements.
Broadcast(i) ==
    LET u == stored[i]
        news == [event |-> "update", text |-> u.text]
        ack == [event |-> "OK", text |-> u.text]
    IN
    /\ stored' = RemoveAt(stored, i)
    /\ toPage' = [p \in Pages |->
                    IF p \in Heard THEN Append(toPage[p], news)
                    ELSE IF p = Author /\ u.mine THEN Append(toPage[p], ack)
                    ELSE toPage[p]]
    /\ calm' = [p \in Pages |-> calm[p] /\ i = 1]
    /\ UNCHANGED <<tables, socket, room, pageVars, toServer, running, counts>>

-----------------------------------------------------------------------------
(* Events.                                                                 *)

\* A moderator's page that has no item yet ignores the news.
TakeOver(p) ==
    LET e == Head(toPage[p]) IN
    /\ toPage[p] # <<>> /\ e.event # "error"
    /\ toPage' = [toPage EXCEPT ![p] = Tail(@)]
    /\ item' = [item EXCEPT ![p].text = IF item[p].shown THEN e.text ELSE @]
    /\ calm' = [calm EXCEPT ![p] = @ /\ item[p].shown]
    /\ UNCHANGED <<tables, socket, room, fetch, editing, field, editor, touched, onTime,
                   toServer, running, stored, counts>>

HearError(p) ==
    /\ toPage[p] # <<>> /\ Head(toPage[p]).event = "error"
    /\ Left(p)
    /\ UNCHANGED <<tables, counts, calm>>

\* The connection is lost, with what was on it.
Drop(p) ==
    /\ socket[p] \in {"connecting", "open"} /\ drops < MaxDrops /\ drops' = drops + 1
    /\ socket' = [socket EXCEPT ![p] = "down"] /\ room' = room \ {p}
    /\ toPage' = [toPage EXCEPT ![p] = <<>>]
    /\ IF p # Author THEN UNCHANGED <<toServer, running, stored>>
       ELSE /\ toServer' = Others(toServer)
            /\ running' = {Orphaned(u) : u \in running}
            /\ stored' = OrphanedAll(stored)
    /\ calm' = [calm EXCEPT ![p] = FALSE]
    /\ UNCHANGED <<tables, pageVars, typed, saves, opens, moves>>

\* The client connects again; it does not ask for the item again.
Reconnect(p) ==
    /\ socket[p] = "down"
    /\ socket' = [socket EXCEPT ![p] = "connecting"]
    /\ UNCHANGED <<tables, room, pageVars, wires, counts, calm>>

-----------------------------------------------------------------------------
PageStep(p) ==
    \/ Open(p) \/ Join(p) \/ Leave(p)
    \/ FetchFails(p) \/ ShowItem(p)
    \/ TakeOver(p) \/ HearError(p)
    \/ Drop(p) \/ Reconnect(p)

Edit == StartEditing \/ (\E f \in Fields : Type(f)) \/ CancelChanges \/ SaveChanges

GatewayStep ==
    \/ StartHandler
    \/ \E u \in running : Store(u) \/ HandlerFails(u) \/ StoreUnconfirmed(u)
    \/ \E i \in DOMAIN stored : Broadcast(i)

Next ==
    \/ \E p \in Pages : PageStep(p)
    \/ ReadAsAuthor \/ \E m \in Moderators : ReadAsModerator(m)
    \/ Edit \/ GatewayStep
    \/ \E m \in Moderators \cup {None} : Move(m)

Spec == Init /\ [][Next]_vars

-----------------------------------------------------------------------------
(* Properties.                                                             *)

\* When everything has arrived, author and moderator look at what is stored, and
\* the author's editor holds it too, but for what the pages cannot make good: an
\* item a moderator's page read before its socket had joined or while an update
\* was being broadcast, an update it heard of before the item came, a lost
\* connection, a commit nobody learned of, updates that overtook each other after
\* their statements, and, for the author's page, a save stored when there was a
\* later one, or a cancel while a save was unanswered, which puts the content of
\* before the save back into the editor.
ItemInStep ==
    ~Unanswered => \A p \in Pages :
        item[p].shown /\ toPage[p] = <<>> /\ calm[p] =>
            /\ item[p].text = row
            /\ p = Author /\ ~editing => editor = row["content"]

\* A save changes what the author typed and leaves the rest as it was, although the
\* page sends every field: unless editing began while a save was unanswered,
\* something had passed the page by, or the author saved again in the meantime.
UntouchedStays ==
    [][\A f \in Fields : row'[f] # row[f] =>
          \E u \in running \ running' : f \in u.touched \/ ~u.onTime \/ u.n # saves]_vars
=============================================================================
